---------------------------- MODULE FrontendProofs ----------------------------
(***************************************************************************)
(* Proofs about Frontend, for every machine, host, network text and edit,  *)
(* and for every bound.                                                    *)
(***************************************************************************)
EXTENDS Frontend, TLAPS, FiniteSetTheorems

-----------------------------------------------------------------------------
(* Builds: the assertions of the builder, and what a build makes.          *)

LEMMA PlanOf ==
    ASSUME NEW draft
    PROVE  /\ BuildPlan(draft).scsi = ScsiAttachments(draft)
           /\ BuildPlan(draft).memory = MemoryConfiguration(draft)
           /\ BuildPlan(draft).resources = Resources(draft)
           /\ DOMAIN Resources(draft) = ResourceIds(draft)
BY DEF BuildPlan, Resources

\* The assertions of the builder, one by one.
LEMMA Assembles ==
    ASSUME NEW plan,
           Consumed(plan) = DOMAIN plan.resources,
           plan.resources[FirmwareImage].kind = "Bytes",
           \A r \in Consumed(plan) \ {FirmwareImage} : plan.resources[r].kind # "Bytes",
           \A x \in plan.scsi : x.medium \/ x.device = SCSI_CDROM,
           \A x, y \in plan.scsi : x.target = y.target /\ x.lun = y.lun => x = y,
           plan.memory # [b \in Banks |-> 0]
    PROVE  ~AssemblyPanics(plan)
BY DEF AssemblyPanics

\* A draft without diagnostics has a plan that can be assembled.
LEMMA PlanAssembles ==
    ASSUME NEW draft, CanCompile(draft)
    PROVE  ~AssemblyPanics(BuildPlan(draft))
<1> DEFINE plan == BuildPlan(draft)
<1>1. /\ FirmwareErrors(draft) = {} /\ MemoryErrors(draft) = {}
      /\ \A t \in Targets, l \in Luns : LunErrors(draft, t, l) = {}
  BY DEF CanCompile, Errors, ScsiErrors
<1>2. /\ plan.scsi = ScsiAttachments(draft) /\ plan.memory = MemoryConfiguration(draft)
      /\ plan.resources = Resources(draft) /\ DOMAIN plan.resources = ResourceIds(draft)
  BY PlanOf
<1> HIDE DEF plan
<1>3. Consumed(plan) = ResourceIds(draft)
  BY <1>1, <1>2 DEF Consumed, ResourceIds
<1>4. \A t, l : MediumResource(t, l) # FirmwareImage
  BY DEF MediumResource, FirmwareImage, Node
<1>5. FirmwareImage \in ResourceIds(draft)
  BY <1>1 DEF ResourceIds
<1>6. Resources(draft)[FirmwareImage].kind = "Bytes"
  BY <1>5 DEF Resources, Requirement
<1>7. \A r \in ResourceIds(draft) \ {FirmwareImage} : Resources(draft)[r].kind # "Bytes"
  BY DEF Resources, Requirement, StorageAccess
<1>8. ASSUME NEW x \in ScsiAttachments(draft)
      PROVE  /\ x.medium \/ x.device = SCSI_CDROM
             /\ x.device = DeviceAt(draft, ScsiLun(x.target, x.lun))
             /\ x.medium = ~Blank(MediumValue(draft, x.target, x.lun).text)
             /\ x = [target |-> x.target, lun |-> x.lun, device |-> x.device, medium |-> x.medium]
  <2>1. PICK u \in Targets \X Luns :
          /\ x = [target |-> u[1], lun |-> u[2], device |-> DeviceAt(draft, ScsiLun(u[1], u[2])),
                  medium |-> ~Blank(MediumValue(draft, u[1], u[2]).text)]
          /\ DeviceAt(draft, ScsiLun(u[1], u[2])) \in ScsiDevices
          /\ LunErrors(draft, u[1], u[2]) = {}
    BY DEF ScsiAttachments
  <2>2. Blank(MediumValue(draft, u[1], u[2]).text) =>
          DeviceAt(draft, ScsiLun(u[1], u[2])) # SCSI_DISK
    BY <2>1 DEF LunErrors, OnProperty, Diagnostic
  <2> QED BY <2>1, <2>2 DEF ScsiDevices
<1>9. \A x, y \in ScsiAttachments(draft) : x.target = y.target /\ x.lun = y.lun => x = y
  BY <1>8
<1>10. plan.memory # [b \in Banks |-> 0]
  <2>1. Populated(draft) /\ \A b \in Banks : ValidSize(BankValue(draft, b))
    <3>1. Populated(draft)
      <4>1. OnNode("ip12.memory.no-installed-bank", Node("memory")) # {}
        BY DEF OnNode
      <4>2. SUFFICES ASSUME ~Populated(draft) PROVE FALSE
        OBVIOUS
      <4>3. OnNode("ip12.memory.no-installed-bank", Node("memory")) \subseteq MemoryErrors(draft)
        <5>1. MemoryErrors(draft) = (UNION {BankErrors(draft, b) : b \in Banks})
                                      \cup OnNode("ip12.memory.no-installed-bank", Node("memory"))
          BY <4>2, Zenon DEF MemoryErrors
        <5> QED BY <5>1
      <4> QED BY <1>1, <4>1, <4>3
    <3>2. \A b \in Banks : BankErrors(draft, b) = {}
      BY <1>1 DEF MemoryErrors
    <3>3. \A b \in Banks : ValidSize(BankValue(draft, b))
      BY <3>2 DEF BankErrors, OnProperty
    <3> QED BY <3>1, <3>3
  <2>2. plan.memory = [b \in Banks |-> BankValue(draft, b).int]
    BY <1>2, <2>1 DEF MemoryConfiguration
  <2>3. PICK b \in Banks : BankValue(draft, b).int > 0 /\ ValidSize(BankValue(draft, b))
    BY <2>1 DEF Populated
  <2>4. BankValue(draft, b).int # 0
    BY <2>3 DEF ValidSize, SimmSizes
  <2>5. plan.memory[b] # [x \in Banks |-> 0][b]
    BY <2>2, <2>4
  <2> QED BY <2>5
<1>11. Consumed(plan) = DOMAIN plan.resources /\ plan.resources[FirmwareImage].kind = "Bytes"
  BY <1>2, <1>3, <1>6
<1>12. \A r \in Consumed(plan) \ {FirmwareImage} : plan.resources[r].kind # "Bytes"
  BY <1>2, <1>3, <1>7
<1>13. \A x \in plan.scsi : x.medium \/ x.device = SCSI_CDROM
  BY <1>2, <1>8
<1>14. \A x, y \in plan.scsi : x.target = y.target /\ x.lun = y.lun => x = y
  BY <1>2, <1>9
<1>15. ~AssemblyPanics(plan)
  BY <1>10, <1>11, <1>12, <1>13, <1>14, Assembles
<1> QED BY <1>15 DEF plan

\* What each builder returns.
LEMMA AssembleReturns ==
    ASSUME NEW files, NEW draft, CanCompile(draft), NEW paths
    PROVE  \/ Assemble(files, draft, BuildPlan(draft), paths) = Failure(draft)
           \/ Assemble(files, draft, BuildPlan(draft), paths)
                = Outcome("built", draft, FrontendOf(draft))
BY PlanAssembles DEF Assemble

LEMMA NormalReturns ==
    ASSUME NEW files, NEW draft
    PROVE  \/ NormalBuild(files, draft) = Failure(draft)
           \/ NormalBuild(files, draft) = Outcome("built", draft, FrontendOf(draft))
BY AssembleReturns DEF NormalBuild

LEMMA RecordingReturns ==
    ASSUME NEW files, NEW draft
    PROVE  \/ RecordingBuild(files, draft) = Failure(draft)
           \/ RecordingBuild(files, draft) = Outcome("built", draft, FrontendOf(draft))
BY AssembleReturns DEF RecordingBuild

LEMMA ReplayReturns ==
    ASSUME NEW files, NEW current, NEW manifest
    PROVE  \E draft : \/ ReplayBuild(files, current, manifest) = Failure(draft)
                      \/ ReplayBuild(files, current, manifest)
                           = Outcome("built", draft, FrontendOf(draft))
BY AssembleReturns DEF ReplayBuild

-----------------------------------------------------------------------------
(* Network settings: what validation promises a session.                   *)

LEMMA PowerOfTwo ==
    ASSUME NEW n \in Nat
    PROVE  2 ^ n \in Nat \ {0}
<1>1. IsFiniteSet(1..n) /\ Cardinality(1..n) = n
  BY FS_Interval
<1>2. Cardinality(SUBSET (1..n)) = 2 ^ n /\ IsFiniteSet(SUBSET (1..n))
  BY <1>1, FS_SUBSET
<1>3. 2 ^ n \in Nat
  BY <1>2, FS_CardinalityType
<1>4. SUBSET (1..n) # {}
  OBVIOUS
<1>5. Cardinality(SUBSET (1..n)) # 0
  BY <1>2, <1>4, FS_EmptySet
<1> QED BY <1>2, <1>3, <1>5

\* An address of a subnet is strictly between its network and broadcast addresses.
LEMMA HostIsInside ==
    ASSUME NEW subnet, SubnetParses(subnet), NEW a \in Nat, ContainsHost(subnet, a)
    PROVE  /\ a > subnet.network
           /\ a < subnet.network + 2 ^ HostBits(subnet) - 1
<1> DEFINE m == 2 ^ HostBits(subnet)
<1>1. HostBits(subnet) \in Nat /\ subnet.network \in Int
  BY AddressesAssumption, PowerOfTwo DEF SubnetParses, HostBits, Addresses
<1>2. m \in Nat \ {0}
  BY <1>1, PowerOfTwo
<1>3. a - (a % m) = subnet.network /\ a # subnet.network /\ a # subnet.network + m - 1
  BY DEF ContainsHost
<1> HIDE DEF m
<1>4. a % m \in 0..(m - 1)
  BY <1>2
<1>5. a > subnet.network /\ a < subnet.network + m - 1
  BY <1>1, <1>2, <1>3, <1>4
<1> QED BY <1>5 DEF m

\* Rules that do not overlap take different addresses.
LEMMA ListenersDiffer ==
    ASSUME NEW x, NEW y, ~Overlaps(x, y)
    PROVE  Taken(x, Addresses) \cap Taken(y, Addresses) = {}
<1>1. SUFFICES ASSUME NEW e \in Taken(x, Addresses), e \in Taken(y, Addresses) PROVE FALSE
  OBVIOUS
<1>2. PICK a \in IF x.hostAddress = Unspecified THEN Addresses ELSE {x.hostAddress} :
        e = <<x.protocol, x.hostPort, a>>
  BY <1>1 DEF Taken
<1>3. PICK b \in IF y.hostAddress = Unspecified THEN Addresses ELSE {y.hostAddress} :
        e = <<y.protocol, y.hostPort, b>>
  BY <1>1 DEF Taken
<1>4. x.protocol = y.protocol /\ x.hostPort = y.hostPort /\ a = b
  BY <1>2, <1>3
<1>5. \/ x.hostAddress = y.hostAddress
      \/ Unspecified \in {x.hostAddress, y.hostAddress}
  BY <1>2, <1>3, <1>4
<1> QED BY <1>4, <1>5 DEF Overlaps

\* The checks of NatConfig::validate are enough for a session.
LEMMA ParsesIsUsable ==
    ASSUME NEW config \in NetworkText, Parses(config)
    PROVE  Usable(config)
<1>1. /\ SubnetParses(config.subnet)
      /\ ContainsHost(config.subnet, config.gateway) /\ ContainsHost(config.subnet, config.dns)
      /\ config.gateway # config.dns /\ PoolValid(config)
      /\ \A i \in 1..Len(config.forwards) : RuleValid(config, i)
  BY DEF Parses, Validates
<1>2. config.gateway \in Nat /\ config.dns \in Nat /\ config.dhcpStart \in Nat
  BY DEF Parses, NetworkText, Addresses, NoAddress
<1>3. \A a \in Pool(config) : a \in Addresses /\ GuestHost(config, a)
  BY <1>1 DEF Pool, PoolValid
<1>4. \A a \in Pool(config) \cup {config.gateway, config.dns} :
        a \in Nat /\ ContainsHost(config.subnet, a)
  BY <1>1, <1>2, <1>3 DEF GuestHost, Addresses
<1>5. \A a \in Pool(config) \cup {config.gateway, config.dns} :
        /\ a > config.subnet.network
        /\ a < config.subnet.network + 2 ^ HostBits(config.subnet) - 1
  BY <1>1, <1>4, HostIsInside
<1>6. ASSUME NEW i \in 1..Len(config.forwards), NEW j \in 1..Len(config.forwards), i < j
      PROVE  Taken(config.forwards[j], Addresses) \cap Taken(config.forwards[i], Addresses) = {}
  <2>1. Len(config.forwards) \in Nat
    BY DEF NetworkText
  <2>2. i \in 1..(j - 1)
    BY <1>6, <2>1
  <2>3. RuleValid(config, j)
    BY <1>1
  <2>4. ~Overlaps(config.forwards[j], config.forwards[i])
    BY <2>2, <2>3 DEF RuleValid
  <2> QED BY <2>4, ListenersDiffer
<1>7. \A i, j \in 1..Len(config.forwards) : i # j =>
        Taken(config.forwards[i], Addresses) \cap Taken(config.forwards[j], Addresses) = {}
  <2>1. SUFFICES ASSUME NEW i \in 1..Len(config.forwards), NEW j \in 1..Len(config.forwards), i # j
                 PROVE Taken(config.forwards[i], Addresses) \cap Taken(config.forwards[j], Addresses) = {}
    OBVIOUS
  <2>2. i \in Int /\ j \in Int
    BY DEF NetworkText
  <2>3. CASE i < j
    BY <1>6, <2>3
  <2>4. CASE j < i
    BY <1>6, <2>4
  <2> QED BY <2>1, <2>2, <2>3, <2>4
<1>8. Pool(config) \subseteq Addresses /\ Pool(config) \cap {config.gateway, config.dns} = {}
  BY <1>3 DEF GuestHost
<1> QED BY <1>1, <1>5, <1>7, <1>8 DEF Usable

-----------------------------------------------------------------------------
(* The state, and the inductive invariant part by part.                    *)

States == {"Unconfigured", "Paused", "Running"}
SessionModes == {"Normal", "Recording", "RecordCompleted", "Replaying", "ReplayEnded"}
Kinds == {"none", "Settings", "Recording", "OpenReplay", "StopReplay", "Reset", "ReplaySnapshot",
          "ReplayCatalog"}
Stages == {"none", "start", "build", "install", "installed", "commit", "run", "done"}
Preparations == {"None", "Settings", "Recording", "Reset", "ReplaySnapshot", "Replay", "ReplayCatalog"}
Nets == 1 .. Len(NetworkTexts)

IsRuntime(r) ==
  /\ r \in [state : States, mode : SessionModes, generation : Nat, draft : {r.draft}, healthy : BOOLEAN,
            owed : BOOLEAN, manifest : {r.manifest}]
  /\ r.manifest.exists \in BOOLEAN
IsWindow(u) ==
  u \in [open : BOOLEAN, app : {"running", "saved", "lost"}, net : Nets, pendingNet : {0} \cup Nets,
         prep : Preparations, resume : BOOLEAN, stops : BOOLEAN, choosing : BOOLEAN,
         shown : [state : States, mode : SessionModes, runnable : BOOLEAN],
         panes : [generation : Nat \cup {-1}, consoles : {u.panes.consoles}]]
IsTask(t) ==
  /\ t \in [kind : Kinds, stage : Stages, net : {0} \cup Nets, draft : {t.draft},
            build : [result : {"built", "failed"}, draft : {t.build.draft}, frontend : {t.build.frontend}],
            manifest : {t.manifest}, ok : BOOLEAN, snapshots : BOOLEAN]
  /\ t.manifest.exists \in BOOLEAN
IsConf(c) ==
  c \in [committed : {c.committed},
         editing : [active : BOOLEAN, draft : {c.editing.draft}, applying : BOOLEAN, revision : Nat],
         locked : BOOLEAN, frontend : {c.frontend}]
IsOutcome(o) == o \in [revision : Nat \cup {-1}, success : BOOLEAN, errors : BOOLEAN, draft : {o.draft}]
IsDialog(d) ==
  d \in [open : BOOLEAN, generation : Nat, view : [success : BOOLEAN, revision : Nat, errors : BOOLEAN],
         rebuild : BOOLEAN,
         result : [revision : Nat \cup {-1}, success : BOOLEAN, errors : BOOLEAN, draft : {d.result.draft}],
         pending : BOOLEAN, timer : BOOLEAN, applying : BOOLEAN, netRevision : Nat, net : {0} \cup Nets,
         netCurrent : BOOLEAN, netError : BOOLEAN, netOf : {0} \cup Nets, button : BOOLEAN]
IsCheck(k) ==
  k \in [stage : {"idle", "sample", "network", "done"}, generation : Nat,
         machine : [revision : Nat \cup {-1}, success : BOOLEAN, errors : BOOLEAN, draft : {k.machine.draft}],
         net : {0} \cup Nets, netRevision : Nat, netError : BOOLEAN, queued : BOOLEAN,
         queuedGeneration : Nat, latestNet : {0} \cup Nets, latestRevision : Nat]
IsWorld(w) ==
  w = [win |-> w.win, dlg |-> w.dlg, chk |-> w.chk, rt |-> w.rt, conf |-> w.conf, task |-> w.task]
Typed(w) ==
  /\ IsWorld(w) /\ IsRuntime(w.rt) /\ IsWindow(w.win) /\ IsTask(w.task) /\ IsConf(w.conf)
  /\ IsDialog(w.dlg) /\ IsCheck(w.chk)

Sound(r) ==
  /\ r.generation = 0 <=> r.state = "Unconfigured"
  /\ r.state = "Running" => CanExecute(r) /\ ~r.owed
  /\ r.owed => r.state = "Paused" /\ CanExecute(r)

KindsOf(prep) ==
  CASE prep = "None" -> {"none"}
    [] prep = "Replay" -> {"OpenReplay", "StopReplay"}
    [] OTHER -> {prep}
Building == {"Settings", "Recording", "OpenReplay", "StopReplay"}

Committing(t) == t.kind = "Settings" /\ t.ok /\ t.stage \in {"installed", "commit"}
Committed(t) == t.kind = "Settings" /\ t.ok /\ t.stage = "done"

Preparing(w) ==
  /\ w.task.kind \in KindsOf(w.win.prep)
  /\ w.win.prep = "None" <=> w.task.stage = "none"
  /\ w.task.stage \in {"build", "install", "installed"} => w.task.kind \in Building
  /\ w.task.stage = "commit" => w.task.kind = "Settings"
  /\ w.task.stage = "run" => w.task.kind = "Recording"
  /\ w.task.stage \in {"start", "build", "install"} => ~w.task.ok
  /\ w.task.stage = "run" => w.task.ok

Resuming(w) ==
  /\ w.win.choosing => w.win.prep = "None"
  /\ w.win.choosing => w.rt.state # "Running"
  /\ w.rt.state = "Running" /\ w.win.prep # "None" => w.task.kind = "Recording" /\ w.task.stage = "done"

\* The operation that interrupted a machine is still there, and has not replaced it.
Owing(w) ==
  w.rt.owed =>
    /\ w.win.resume /\ (w.win.prep # "None" \/ w.win.choosing)
    /\ w.task.kind # "ReplaySnapshot" /\ (w.task.ok => w.task.kind = "ReplayCatalog")

\* A running machine is shown running by a window that prepares nothing.
Fresh(w) ==
  w.rt.state = "Running" /\ w.win.open /\ w.win.prep = "None" => w.win.shown.state = "Running"

Drafting(w) ==
  /\ w.conf.locked <=> w.task.stage = "installed"
  /\ w.conf.editing.applying
       <=> w.task.kind = "Settings" /\ w.task.stage \in {"build", "install", "installed", "commit"}
  /\ w.conf.editing.active <=> w.dlg.open /\ ~Committed(w.task)
  /\ w.conf.editing.applying => w.task.draft = w.conf.editing.draft
  /\ Committed(w.task) => w.task.draft = w.conf.committed
  /\ w.task.kind \in Building \ {"Settings"} /\ w.task.stage \in {"build", "install", "installed"}
       => w.task.draft = w.conf.committed
  /\ w.task.stage = "install" \/ (w.task.stage = "installed" /\ w.task.ok)
       => /\ w.task.build.frontend = FrontendOf(w.task.build.draft)
          /\ w.task.kind # "OpenReplay" => w.task.build.draft = w.task.draft

Consoles(w) ==
  /\ w.rt.generation > 0 =>
       IF w.conf.locked /\ w.task.ok THEN w.task.build.draft = w.rt.draft
       ELSE w.conf.frontend = FrontendOf(w.rt.draft)
  /\ w.win.panes.generation <= w.rt.generation
  /\ w.win.panes.generation = w.rt.generation /\ w.rt.generation > 0 =>
       w.win.panes.consoles = FrontendOf(w.rt.draft)
  /\ w.rt.generation > 0 /\ ~IsReplay(w.rt.mode) =>
       w.rt.draft = IF Committing(w.task) THEN w.task.draft ELSE w.conf.committed
  /\ w.task.kind = "OpenReplay" /\ w.task.stage = "installed" /\ w.task.ok => IsReplay(w.rt.mode)

Applied(w, a) ==
  /\ a = IF Committing(w.task) \/ Committed(w.task)
         THEN [draft |-> w.task.draft, net |-> w.task.net]
         ELSE [draft |-> w.conf.committed, net |-> w.win.net]
  /\ w.task.kind = "StopReplay" => w.task.net = w.win.net
  /\ w.task.kind = "Settings" => w.task.net = w.win.pendingNet /\ w.win.pendingNet # 0

Ending(w, a, d) ==
  /\ w.win.app # "running" =>
       ~w.win.open /\ w.task.stage \in {"none", "done"} /\ w.chk.stage \in {"idle", "done"}
  /\ w.win.app = "saved" => d = a
  /\ d = [draft |-> d.draft, net |-> d.net] /\ d.net \in Nets

Modal(w) ==
  /\ w.dlg.open => w.win.open /\ ~w.win.choosing /\ w.win.prep \in {"None", "Settings"} /\ w.dlg.net # 0
  /\ w.dlg.applying <=> w.win.prep = "Settings"
  /\ w.dlg.applying => w.dlg.open /\ ~w.dlg.pending /\ ~w.dlg.timer /\ ~w.dlg.button
  /\ ~w.dlg.open => ~w.dlg.button
  /\ w.win.choosing => w.win.open

Shows(w) ==
  w.dlg.open => w.dlg.view.success /\ (w.conf.editing.active => w.dlg.view = ViewOf(w.conf.editing.draft, w.conf.editing.revision))

Offers(d) ==
  /\ Checkable(d) /\ ~d.pending
  /\ d.result.revision = d.view.revision /\ d.result.success /\ ~d.result.errors
  /\ d.netCurrent /\ ~d.netError

ForThis(w) == w.chk.stage # "idle" /\ w.chk.generation = w.dlg.generation
QueuedForThis(w) == w.chk.queued /\ w.chk.queuedGeneration = w.dlg.generation
SameNetwork(w) == w.chk.netRevision = w.dlg.netRevision

Buttons(w) ==
  w.dlg.open =>
    /\ w.dlg.button => Offers(w.dlg)
    /\ w.dlg.pending => Checkable(w.dlg)
    /\ w.dlg.button => w.conf.editing.active

Found(w) ==
  w.dlg.open =>
    /\ w.dlg.result.success /\ w.conf.editing.active =>
         w.dlg.result.revision = w.conf.editing.revision /\ w.dlg.result.draft = w.conf.editing.draft
    /\ w.dlg.result.success => w.chk.generation = w.dlg.generation
    /\ w.dlg.netCurrent => w.dlg.netOf = w.dlg.net /\ (~w.dlg.netError => NetworkReady(w.dlg.net))

Checking(w) ==
  /\ w.chk.stage = "idle" => ~w.chk.queued
  /\ w.chk.generation <= w.dlg.generation /\ w.chk.queuedGeneration <= w.dlg.generation
  /\ w.chk.stage = "done" => w.chk.netError = ~NetworkReady(w.chk.net)
  /\ w.dlg.open /\ ForThis(w) =>
       /\ w.chk.netRevision <= w.dlg.netRevision
       /\ SameNetwork(w) => w.chk.net = w.dlg.net
       /\ w.chk.stage # "sample" /\ w.chk.machine.success /\ w.conf.editing.active =>
            /\ w.chk.machine.revision <= w.conf.editing.revision
            /\ w.chk.machine.revision = w.conf.editing.revision
                 => w.chk.machine.draft = w.conf.editing.draft
       /\ w.chk.stage # "sample" /\ ~w.chk.machine.success =>
            w.chk.machine.revision = 0 /\ w.dlg.view.revision > 0
  /\ w.dlg.open /\ QueuedForThis(w) =>
       /\ w.chk.latestRevision <= w.dlg.netRevision
       /\ w.chk.latestRevision = w.dlg.netRevision => w.chk.latestNet = w.dlg.net
       /\ ForThis(w) => w.chk.netRevision <= w.chk.latestRevision

\* No second check of one view and one text is asked for, unless the machine was edited.
Spared(w) ==
  w.dlg.open =>
    /\ w.dlg.button \/ w.dlg.applying => ~QueuedForThis(w)
    /\ w.dlg.view.revision = 0 =>
         /\ ForThis(w) => ~w.dlg.applying /\ ~w.dlg.button /\ ~w.dlg.rebuild
         /\ ForThis(w) /\ (QueuedForThis(w) \/ w.dlg.timer) => ~SameNetwork(w)
         /\ QueuedForThis(w) => ~w.dlg.rebuild
         /\ QueuedForThis(w) /\ w.dlg.timer => w.chk.latestRevision # w.dlg.netRevision

Hears(w) ==
  LET d == w.dlg
      k == w.chk
  IN  d.open /\ Checkable(d) /\ ~d.rebuild =>
        IF d.pending
        THEN \/ d.timer
             \/ k.stage # "idle" /\ QueuedForThis(w) /\ k.latestRevision = d.netRevision
             \/ /\ ForThis(w) /\ SameNetwork(w)
                /\ k.stage = "sample" \/ k.machine.revision = d.view.revision
        ELSE /\ d.result.revision = d.view.revision /\ d.result.success /\ d.netCurrent
             /\ ForThis(w) => SameNetwork(w)

\* The machine, its session and the task, with the drafts a and d applied and saved.
MachineBase(w, a, d) ==
  /\ Sound(w.rt) /\ Preparing(w) /\ Resuming(w) /\ Drafting(w) /\ Consoles(w)
  /\ Applied(w, a) /\ Ending(w, a, d)
MachineInv(w, a, d) == MachineBase(w, a, d) /\ Owing(w)
\* The dialog and the check of what it shows.
DialogInv(w) ==
  /\ Modal(w) /\ Shows(w) /\ Buttons(w) /\ Found(w) /\ Checking(w) /\ Spared(w) /\ Hears(w)
Inv(w, a, d) == Typed(w) /\ MachineInv(w, a, d) /\ Fresh(w) /\ DialogInv(w)

-----------------------------------------------------------------------------
(* The operations of a dialog, field by field.                             *)

LEMMA ClosedDialog ==
    ASSUME NEW n \in Nat
    PROVE  /\ IsDialog(Closed(n)) /\ ~Closed(n).open /\ Closed(n).generation = n
           /\ ~Closed(n).button /\ ~Closed(n).applying
BY DEF Closed, IsDialog, View, NoResult

LEMMA OpenedDialog ==
    ASSUME NEW n \in Nat, NEW view \in [success : BOOLEAN, revision : Nat, errors : BOOLEAN],
           NEW net \in Nets
    PROVE  LET e == Opened(n, view, net)
           IN  /\ IsDialog(e) /\ e.open /\ e.generation = n /\ e.view = view /\ e.net = net
               /\ e.rebuild /\ ~e.pending /\ ~e.timer /\ ~e.applying /\ ~e.button
               /\ e.result = NoResult /\ ~e.netCurrent /\ e.netRevision = 0
BY DEF Opened, Closed, IsDialog, View, NoResult

LEMMA UpdateFields ==
    ASSUME NEW d, IsDialog(d)
    PROVE  LET e == UpdateApply(d)
           IN  /\ IsDialog(e)
               /\ e.open = d.open /\ e.generation = d.generation /\ e.view = d.view
               /\ e.rebuild = d.rebuild /\ e.applying = d.applying /\ e.net = d.net
               /\ e.netRevision = d.netRevision /\ e.netCurrent = d.netCurrent
               /\ e.netError = d.netError /\ e.netOf = d.netOf
               /\ e.result = d.result /\ e.pending = d.pending /\ e.timer = d.timer
               /\ e.button <=> Offers(d)
<1> DEFINE e == UpdateApply(d)
<1>1. IsDialog(e)
  BY ZenonT(60) DEF UpdateApply, IsDialog
<1>2. /\ e.open = d.open /\ e.generation = d.generation /\ e.view = d.view
      /\ e.rebuild = d.rebuild /\ e.applying = d.applying /\ e.net = d.net
      /\ e.netRevision = d.netRevision /\ e.netCurrent = d.netCurrent
      /\ e.netError = d.netError /\ e.netOf = d.netOf
      /\ e.result = d.result /\ e.pending = d.pending /\ e.timer = d.timer
  BY DEF UpdateApply, IsDialog
<1>3. e.button <=> Offers(d)
  BY DEF UpdateApply, IsDialog, Offers, Checkable
<1> QED BY <1>1, <1>2, <1>3

LEMMA ScheduleFields ==
    ASSUME NEW d, IsDialog(d)
    PROVE  LET e == SchedulePreflight(d)
           IN  /\ IsDialog(e)
               /\ e.open = d.open /\ e.generation = d.generation /\ e.view = d.view
               /\ e.rebuild = d.rebuild /\ e.applying = d.applying /\ e.net = d.net
               /\ e.netRevision = d.netRevision /\ e.netCurrent = d.netCurrent
               /\ e.netError = d.netError /\ e.netOf = d.netOf
               /\ e.result = NoResult /\ ~e.button
               /\ e.pending = Checkable(d) /\ e.timer = Checkable(d)
<1>1. PICK b \in BOOLEAN : b = Checkable(d)
  BY DEF Checkable
<1> DEFINE c == [d EXCEPT !.result = NoResult, !.pending = b, !.timer = b]
<1>2. SchedulePreflight(d) = UpdateApply(c)
  BY <1>1 DEF SchedulePreflight
<1>3. IsDialog(c)
  BY DEF IsDialog, NoResult
<1>4. /\ c.open = d.open /\ c.generation = d.generation /\ c.view = d.view
      /\ c.rebuild = d.rebuild /\ c.applying = d.applying /\ c.net = d.net
      /\ c.netRevision = d.netRevision /\ c.netCurrent = d.netCurrent
      /\ c.netError = d.netError /\ c.netOf = d.netOf /\ c.result = NoResult
      /\ c.pending = b /\ c.timer = b
  BY DEF IsDialog
<1> HIDE DEF c
<1>5. ~Offers(c)
  BY <1>4 DEF Offers, NoResult
<1> QED BY <1>1, <1>2, <1>3, <1>4, <1>5, UpdateFields

LEMMA AcceptFields ==
    ASSUME NEW d, IsDialog(d), NEW view \in [success : BOOLEAN, revision : Nat, errors : BOOLEAN]
    PROVE  LET e == AcceptView(d, view)
           IN  /\ IsDialog(e)
               /\ e.open = d.open /\ e.generation = d.generation /\ e.view = view
               /\ e.rebuild /\ e.applying = d.applying /\ e.net = d.net
               /\ e.netRevision = d.netRevision /\ e.netCurrent = d.netCurrent
               /\ e.netError = d.netError /\ e.netOf = d.netOf
               /\ e.result = NoResult /\ ~e.button /\ ~e.pending /\ ~e.timer
BY DEF AcceptView, IsDialog, NoResult

LEMMA RebuiltFields ==
    ASSUME NEW d, IsDialog(d)
    PROVE  LET e == Rebuilt(d)
           IN  /\ IsDialog(e)
               /\ e.open = d.open /\ e.generation = d.generation /\ e.view = d.view
               /\ ~e.rebuild /\ e.applying = d.applying /\ e.net = d.net
               /\ e.netRevision = d.netRevision /\ e.netCurrent = d.netCurrent
               /\ e.netError = d.netError /\ e.netOf = d.netOf
               /\ e.result = NoResult /\ ~e.button
               /\ e.pending = Checkable(d) /\ e.timer = Checkable(d)
<1> DEFINE c == [d EXCEPT !.rebuild = FALSE]
<1>1. /\ IsDialog(c) /\ c.open = d.open /\ c.generation = d.generation /\ c.view = d.view
      /\ ~c.rebuild /\ c.applying = d.applying /\ c.net = d.net
      /\ c.netRevision = d.netRevision /\ c.netCurrent = d.netCurrent
      /\ c.netError = d.netError /\ c.netOf = d.netOf /\ Checkable(c) = Checkable(d)
  BY DEF IsDialog, Checkable
<1> HIDE DEF c
<1> QED BY <1>1, ScheduleFields DEF Rebuilt, c

LEMMA NetworkFields ==
    ASSUME NEW d, IsDialog(d), ~d.applying, NEW net \in Nets
    PROVE  LET e == NetworkChanged(d, net)
           IN  /\ IsDialog(e)
               /\ e.open = d.open /\ e.generation = d.generation /\ e.view = d.view
               /\ e.rebuild = d.rebuild /\ ~e.applying /\ e.net = net
               /\ e.netRevision = d.netRevision + 1 /\ ~e.netCurrent
               /\ e.result = NoResult /\ ~e.button
               /\ e.pending = Checkable(d) /\ e.timer = Checkable(d)
<1> DEFINE c == [d EXCEPT !.net = net, !.netRevision = @ + 1,
                          !.netCurrent = FALSE, !.netError = FALSE]
<1>1. IsDialog(c)
  <2>1. PICK m \in Nat : m = d.netRevision + 1
    BY DEF IsDialog
  <2>2. IsDialog([d EXCEPT !.net = net, !.netRevision = m,
                           !.netCurrent = FALSE, !.netError = FALSE])
    BY DEF IsDialog
  <2> QED BY <2>1, <2>2
<1>4. /\ c.open = d.open /\ c.generation = d.generation /\ c.view = d.view
      /\ c.rebuild = d.rebuild /\ c.applying = d.applying /\ c.net = net
      /\ c.netRevision = d.netRevision + 1 /\ ~c.netCurrent
  BY DEF IsDialog
<1>2. NetworkChanged(d, net) = SchedulePreflight(c)
  BY DEF NetworkChanged
<1> HIDE DEF c
<1>3. Checkable(c) = Checkable(d)
  BY <1>4 DEF Checkable
<1> QED BY <1>1, <1>2, <1>3, <1>4, ScheduleFields

LEMMA ApplyingFields ==
    ASSUME NEW d, IsDialog(d), NEW applying \in BOOLEAN
    PROVE  LET e == SetApplying(d, applying)
           IN  /\ IsDialog(e)
               /\ e.open = d.open /\ e.generation = d.generation /\ e.view = d.view
               /\ e.rebuild = d.rebuild /\ e.applying = applying /\ e.net = d.net
               /\ e.netRevision = d.netRevision /\ e.netCurrent = d.netCurrent
               /\ e.netError = d.netError /\ e.netOf = d.netOf
               /\ e.result = d.result /\ e.pending = d.pending
               /\ e.timer = (d.timer /\ ~applying)
               /\ applying => ~e.button
<1>1. PICK t \in BOOLEAN : t = (d.timer /\ ~applying)
  OBVIOUS
<1> DEFINE c == [d EXCEPT !.applying = applying, !.timer = t]
<1>2. SetApplying(d, applying) = UpdateApply(c)
  BY <1>1 DEF SetApplying
<1>3. IsDialog(c)
  BY DEF IsDialog
<1>4. /\ c.open = d.open /\ c.generation = d.generation /\ c.view = d.view
      /\ c.rebuild = d.rebuild /\ c.applying = applying /\ c.net = d.net
      /\ c.netRevision = d.netRevision /\ c.netCurrent = d.netCurrent
      /\ c.netError = d.netError /\ c.netOf = d.netOf /\ c.result = d.result
      /\ c.pending = d.pending /\ c.timer = t
  BY DEF IsDialog
<1> HIDE DEF c
<1>5. applying => ~Offers(c)
  BY <1>4 DEF Offers, Checkable
<1> QED BY <1>1, <1>2, <1>3, <1>4, <1>5, UpdateFields

LEMMA FailureFields ==
    ASSUME NEW d, IsDialog(d)
    PROVE  LET e == ShowApplyFailure(d)
           IN  /\ IsDialog(e)
               /\ e.open = d.open /\ e.generation = d.generation /\ e.view = d.view
               /\ e.rebuild = d.rebuild /\ ~e.applying /\ e.net = d.net
               /\ e.netRevision = d.netRevision /\ e.netCurrent = d.netCurrent
               /\ e.netError = d.netError /\ e.netOf = d.netOf
               /\ e.result = NoResult /\ ~e.button
               /\ e.pending = Checkable(e) /\ e.timer = Checkable(e)
<1> DEFINE c == SetApplying(d, FALSE)
<1>1. /\ IsDialog(c) /\ c.open = d.open /\ c.generation = d.generation /\ c.view = d.view
      /\ c.rebuild = d.rebuild /\ ~c.applying /\ c.net = d.net
      /\ c.netRevision = d.netRevision /\ c.netCurrent = d.netCurrent
      /\ c.netError = d.netError /\ c.netOf = d.netOf
  BY ApplyingFields
<1> HIDE DEF c
<1>2. LET e == SchedulePreflight(c) IN Checkable(e) = Checkable(c)
  BY <1>1, ScheduleFields DEF Checkable
<1> QED BY <1>1, <1>2, ScheduleFields DEF ShowApplyFailure, c

LEMMA OutcomeFields ==
    ASSUME NEW d, IsDialog(d), NEW k, IsCheck(k)
    PROVE  LET e == ApplyPreflightResult(d, k)
               machine == k.machine.revision = d.view.revision
               network == k.netRevision = d.netRevision
           IN  /\ IsDialog(e)
               /\ e.open = d.open /\ e.generation = d.generation /\ e.view = d.view
               /\ e.rebuild = d.rebuild /\ e.applying = d.applying /\ e.net = d.net
               /\ e.netRevision = d.netRevision
               /\ e.netCurrent = network
               /\ network => e.netError = k.netError /\ e.netOf = k.net
               /\ ~network => e.netError = d.netError /\ e.netOf = d.netOf
               /\ machine => e.result = k.machine
               /\ ~machine => e.result = d.result
               /\ machine /\ network => ~e.pending /\ ~e.timer
               /\ ~(machine /\ network) => e.pending = d.pending /\ e.timer = d.timer
               /\ e.button <=> Offers(e)
<1> DEFINE machine == k.machine.revision = d.view.revision
           network == k.netRevision = d.netRevision
           c == [d EXCEPT !.result = IF machine THEN k.machine ELSE @,
                          !.netCurrent = network,
                          !.netError = IF network THEN k.netError ELSE @,
                          !.netOf = IF network THEN k.net ELSE @,
                          !.timer = @ /\ ~(machine /\ network),
                          !.pending = @ /\ ~(machine /\ network)]
<1>1. ApplyPreflightResult(d, k) = UpdateApply(c)
  BY DEF ApplyPreflightResult, TakeOutcome, MachineCurrent, Settled
<1>2. /\ c.open = d.open /\ c.generation = d.generation /\ c.view = d.view
      /\ c.rebuild = d.rebuild /\ c.applying = d.applying /\ c.net = d.net
      /\ c.netRevision = d.netRevision
      /\ c.netCurrent = network
      /\ network => c.netError = k.netError /\ c.netOf = k.net
      /\ ~network => c.netError = d.netError /\ c.netOf = d.netOf
      /\ machine => c.result = k.machine
      /\ ~machine => c.result = d.result
      /\ machine /\ network => ~c.pending /\ ~c.timer
      /\ ~(machine /\ network) => c.pending = d.pending /\ c.timer = d.timer
  BY DEF IsDialog, IsCheck
<1> HIDE DEF machine, network
<1>3. IsDialog(c)
  <2>1. PICK n \in BOOLEAN, ne \in BOOLEAN, t \in BOOLEAN, p \in BOOLEAN :
          /\ n = network /\ ne = IF network THEN k.netError ELSE d.netError
          /\ t = (d.timer /\ ~(machine /\ network)) /\ p = (d.pending /\ ~(machine /\ network))
    BY DEF IsDialog, IsCheck, machine, network
  <2>2. PICK r : r = (IF machine THEN k.machine ELSE d.result) /\ IsOutcome(r)
    BY DEF IsDialog, IsCheck, IsOutcome
  <2>3. PICK no \in {0} \cup Nets : no = IF network THEN k.net ELSE d.netOf
    BY DEF IsDialog, IsCheck
  <2>4. c = [d EXCEPT !.result = r, !.netCurrent = n, !.netError = ne, !.netOf = no,
                      !.timer = t, !.pending = p]
    BY <2>1, <2>2, <2>3, Zenon
  <2> HIDE DEF c
  <2>5. IsDialog([d EXCEPT !.result = r, !.netCurrent = n, !.netError = ne, !.netOf = no,
                           !.timer = t, !.pending = p])
    <3>1. IsOutcome(r)
      BY <2>2
    <3> QED BY ONLY ZenonT(60), <3>1, IsDialog(d), n \in BOOLEAN, ne \in BOOLEAN, no \in {0} \cup Nets,
                    t \in BOOLEAN, p \in BOOLEAN DEF IsDialog, IsOutcome
  <2> QED BY <2>4, <2>5
<1> HIDE DEF c
<1> DEFINE e == UpdateApply(c)
<1>4. /\ IsDialog(e)
      /\ e.open = c.open /\ e.generation = c.generation /\ e.view = c.view
      /\ e.rebuild = c.rebuild /\ e.applying = c.applying /\ e.net = c.net
      /\ e.netRevision = c.netRevision /\ e.netCurrent = c.netCurrent
      /\ e.netError = c.netError /\ e.netOf = c.netOf
      /\ e.result = c.result /\ e.pending = c.pending /\ e.timer = c.timer
      /\ e.button <=> Offers(c)
  BY <1>3, UpdateFields
<1> HIDE DEF e
<1>5. Offers(e) <=> Offers(c)
  BY <1>4 DEF Offers, Checkable
<1> QED BY <1>1, <1>2, <1>4, <1>5 DEF e, machine, network

-----------------------------------------------------------------------------
(* What the parts of the invariant depend on.                              *)

LEMMA DialogFrame ==
    ASSUME NEW w, NEW v, DialogInv(w), v.dlg = w.dlg, v.chk = w.chk,
           v.conf.editing.active = w.conf.editing.active,
           v.conf.editing.draft = w.conf.editing.draft,
           v.conf.editing.revision = w.conf.editing.revision,
           v.win.open = w.win.open, v.win.choosing = w.win.choosing, v.win.prep = w.win.prep
    PROVE  DialogInv(v)
<1>1. Modal(v)
  BY DEF DialogInv, Modal
<1>2. Shows(v)
  BY DEF DialogInv, Shows
<1>3. Buttons(v)
  BY DEF DialogInv, Buttons
<1>4. Found(v)
  BY DEF DialogInv, Found
<1>5. Checking(v)
  BY DEF DialogInv, Checking, ForThis, SameNetwork, QueuedForThis
<1>6. Spared(v)
  BY DEF DialogInv, Spared, ForThis, SameNetwork, QueuedForThis
<1>7. Hears(v)
  BY DEF DialogInv, Hears, ForThis, SameNetwork, QueuedForThis
<1> QED BY <1>1, <1>2, <1>3, <1>4, <1>5, <1>6, <1>7 DEF DialogInv

\* The check of a dialog that is not there.
KeepsChecks(w) ==
  /\ w.chk.stage = "idle" => ~w.chk.queued
  /\ w.chk.generation <= w.dlg.generation /\ w.chk.queuedGeneration <= w.dlg.generation
  /\ w.chk.stage = "done" => w.chk.netError = ~NetworkReady(w.chk.net)

LEMMA NoDialog ==
    ASSUME NEW v, ~v.dlg.open, ~v.dlg.button, ~v.dlg.applying, v.win.prep # "Settings",
           v.win.choosing => v.win.open, KeepsChecks(v)
    PROVE  DialogInv(v)
BY DEF DialogInv, Modal, Shows, Buttons, Found, Checking, Spared, Hears, KeepsChecks

LEMMA MachineFrame ==
    ASSUME NEW w, NEW v, NEW a, NEW d, MachineInv(w, a, d), v.win = w.win, v.rt = w.rt,
           v.conf = w.conf, v.task = w.task, v.dlg.open = w.dlg.open,
           w.win.app # "running" => v.chk.stage \in {"idle", "done"}
    PROVE  MachineInv(v, a, d)
<1>1. Sound(v.rt) /\ Preparing(v) /\ Resuming(v) /\ Owing(v)
  BY DEF MachineInv, MachineBase, Preparing, Resuming, Owing
<1>2. Drafting(v)
  BY DEF MachineInv, MachineBase, Drafting
<1>3. Consoles(v)
  BY DEF MachineInv, MachineBase, Consoles
<1>4. Applied(v, a) /\ Ending(v, a, d)
  BY DEF MachineInv, MachineBase, Applied, Ending
<1> QED BY <1>1, <1>2, <1>3, <1>4 DEF MachineInv, MachineBase

\* A dialog that is not applying is edited, and nothing is being prepared.
LEMMA DialogEdits ==
    ASSUME NEW w, Typed(w), Preparing(w), Drafting(w), Modal(w), w.dlg.open, ~w.dlg.applying
    PROVE  /\ w.win.prep = "None" /\ w.task.kind = "none" /\ w.task.stage = "none"
           /\ w.conf.editing.active /\ ~w.conf.editing.applying /\ ~w.conf.locked
<1>1. w.win.prep = "None"
  BY DEF Modal
<1>2. w.task.kind = "none" /\ w.task.stage = "none"
  BY <1>1 DEF Preparing, KindsOf
<1> QED BY <1>1, <1>2 DEF Drafting, Committed

-----------------------------------------------------------------------------
(* The preflight task's outcome.                                           *)

Begun(k, generation) ==
  [k EXCEPT !.stage = "sample", !.generation = generation, !.machine = NoResult,
            !.net = k.latestNet, !.netRevision = k.latestRevision, !.netError = FALSE]

LEMMA BegunFields ==
    ASSUME NEW k, IsCheck(k), NEW n \in Nat
    PROVE  LET b == Begun(k, n)
           IN  /\ IsCheck(b) /\ b.stage = "sample" /\ b.generation = n /\ b.machine = NoResult
               /\ b.net = k.latestNet /\ b.netRevision = k.latestRevision
               /\ b.queued = k.queued /\ b.queuedGeneration = k.queuedGeneration
               /\ b.latestNet = k.latestNet /\ b.latestRevision = k.latestRevision
<1> DEFINE b == Begun(k, n)
<1>1. IsCheck(b)
  BY DEF Begun, IsCheck, NoResult
<1>2. /\ b.stage = "sample" /\ b.generation = n /\ b.machine = NoResult
      /\ b.net = k.latestNet /\ b.netRevision = k.latestRevision
      /\ b.queued = k.queued /\ b.queuedGeneration = k.queuedGeneration
      /\ b.latestNet = k.latestNet /\ b.latestRevision = k.latestRevision
  BY DEF Begun, IsCheck
<1> QED BY <1>1, <1>2

LEMMA StartFields ==
    ASSUME NEW w, IsWorld(w)
    PROVE  LET v == StartPreflight(w)
           IN  /\ IsWorld(v) /\ v.win = w.win /\ v.dlg = w.dlg /\ v.rt = w.rt /\ v.conf = w.conf
               /\ v.task = w.task /\ v.chk = Begun(w.chk, w.dlg.generation)
<1>1. StartPreflight(w) = [w EXCEPT !.chk = Begun(w.chk, w.dlg.generation)]
  BY DEF StartPreflight, IsWorld, Begun
<1> QED BY <1>1 DEF IsWorld

\* What poll_preflight makes of the dialog and of the check.
LEMMA PollFields ==
    ASSUME NEW w, Typed(w), w.chk.stage = "done"
    PROVE  LET v == PollPreflight(w)
               idle == [w.chk EXCEPT !.stage = "idle", !.queued = FALSE]
           IN  /\ IsWorld(v) /\ v.win = w.win /\ v.rt = w.rt /\ v.conf = w.conf /\ v.task = w.task
               /\ v.dlg = IF ForThisDialog(w) THEN ApplyPreflightResult(w.dlg, w.chk) ELSE w.dlg
               /\ v.chk = IF Restarts(w) THEN Begun(idle, w.dlg.generation) ELSE idle
               /\ IsDialog(v.dlg) /\ IsCheck(idle) /\ IsCheck(v.chk)
<1> DEFINE told == IF ForThisDialog(w) THEN [w EXCEPT !.dlg = ApplyPreflightResult(@, w.chk)] ELSE w
           idle == [told EXCEPT !.chk.stage = "idle", !.chk.queued = FALSE]
           still == [w.chk EXCEPT !.stage = "idle", !.queued = FALSE]
           dialog == IF ForThisDialog(w) THEN ApplyPreflightResult(w.dlg, w.chk) ELSE w.dlg
<1>1. IsWorld(w) /\ IsDialog(w.dlg) /\ IsCheck(w.chk)
  BY DEF Typed
<1>2. /\ IsWorld(told) /\ told.win = w.win /\ told.rt = w.rt /\ told.conf = w.conf
      /\ told.task = w.task /\ told.chk = w.chk /\ told.dlg = dialog
  BY <1>1 DEF IsWorld
<1>3. PollPreflight(w) = IF Restarts(w) THEN StartPreflight(idle) ELSE idle
  BY DEF PollPreflight
<1>4. IsDialog(dialog) /\ dialog.generation = w.dlg.generation
  BY <1>1, OutcomeFields
<1>5. IsCheck(still)
  BY <1>1 DEF IsCheck
<1> HIDE DEF told, dialog
<1>6. /\ IsWorld(idle) /\ idle.win = w.win /\ idle.rt = w.rt /\ idle.conf = w.conf
      /\ idle.task = w.task /\ idle.dlg = dialog /\ idle.chk = still
  <2>1. idle = [told EXCEPT !.chk = still]
    BY <1>2 DEF IsWorld
  <2> HIDE DEF idle, still
  <2> QED BY <1>2, <2>1 DEF IsWorld
<1> HIDE DEF idle, still
<1>7. CASE Restarts(w)
  <2>1. PollPreflight(w) = StartPreflight(idle)
    BY <1>3, <1>7
  <2>2. IsCheck(Begun(still, w.dlg.generation)) /\ w.dlg.generation \in Nat
    BY <1>1, <1>5, BegunFields DEF IsDialog
  <2> QED BY <1>4, <1>5, <1>6, <1>7, <2>1, <2>2, StartFields DEF dialog, still
<1>8. CASE ~Restarts(w)
  BY <1>3, <1>4, <1>5, <1>6, <1>8 DEF dialog, still
<1> QED BY <1>7, <1>8

LEMMA PollPreflightInv ==
    ASSUME NEW w, NEW a, NEW d, Typed(w), MachineInv(w, a, d), DialogInv(w), w.win.open
    PROVE  LET v == PollPreflight(w)
           IN  /\ Typed(v) /\ MachineInv(v, a, d) /\ DialogInv(v)
               /\ v.win = w.win /\ v.rt = w.rt /\ v.conf = w.conf /\ v.task = w.task
<1>1. CASE w.chk.stage # "done"
  BY <1>1 DEF PollPreflight
<1>2. CASE w.chk.stage = "done"
  <2> DEFINE v == PollPreflight(w)
             idle == [w.chk EXCEPT !.stage = "idle", !.queued = FALSE]
             machine == w.chk.machine.revision = w.dlg.view.revision
             network == w.chk.netRevision = w.dlg.netRevision
  <2>1. /\ IsWorld(v) /\ v.win = w.win /\ v.rt = w.rt /\ v.conf = w.conf /\ v.task = w.task
        /\ v.dlg = IF ForThisDialog(w) THEN ApplyPreflightResult(w.dlg, w.chk) ELSE w.dlg
        /\ v.chk = IF Restarts(w) THEN Begun(idle, w.dlg.generation) ELSE idle
        /\ IsDialog(v.dlg) /\ IsCheck(idle) /\ IsCheck(v.chk)
    BY <1>2, PollFields
  <2>2. IsDialog(w.dlg) /\ IsCheck(w.chk) /\ Typed(v)
    BY <2>1 DEF Typed
  <2>3. w.dlg.generation \in Nat /\ w.dlg.netRevision \in Nat /\ w.chk.generation \in Nat
        /\ w.chk.queuedGeneration \in Nat /\ w.chk.netRevision \in Nat /\ w.chk.latestRevision \in Nat
        /\ w.dlg.view.revision \in Nat /\ w.chk.machine.revision \in Nat \cup {-1}
        /\ w.conf.editing.revision \in Nat
    BY <2>2 DEF IsDialog, IsCheck, Typed, IsConf
  <2>4. /\ idle.stage = "idle" /\ ~idle.queued /\ idle.generation = w.chk.generation
        /\ idle.queuedGeneration = w.chk.queuedGeneration /\ idle.machine = w.chk.machine
        /\ idle.net = w.chk.net /\ idle.netRevision = w.chk.netRevision
        /\ idle.latestNet = w.chk.latestNet /\ idle.latestRevision = w.chk.latestRevision
    BY <2>2 DEF IsCheck
  <2> HIDE DEF v, idle
  <2> DEFINE e == ApplyPreflightResult(w.dlg, w.chk)
  <2>20. /\ e.open = w.dlg.open /\ e.generation = w.dlg.generation /\ e.view = w.dlg.view
         /\ e.rebuild = w.dlg.rebuild /\ e.applying = w.dlg.applying /\ e.net = w.dlg.net
         /\ e.netRevision = w.dlg.netRevision
         /\ e.netCurrent = network
         /\ network => e.netError = w.chk.netError /\ e.netOf = w.chk.net
         /\ ~network => e.netError = w.dlg.netError /\ e.netOf = w.dlg.netOf
         /\ machine => e.result = w.chk.machine
         /\ ~machine => e.result = w.dlg.result
         /\ machine /\ network => ~e.pending /\ ~e.timer
         /\ ~(machine /\ network) => e.pending = w.dlg.pending /\ e.timer = w.dlg.timer
         /\ e.button <=> Offers(e)
    BY <2>2, OutcomeFields
  <2> HIDE DEF machine, network, e
  <2>21. v.dlg = IF ForThisDialog(w) THEN e ELSE w.dlg
    BY <2>1 DEF e
  <2>5. /\ v.dlg.open = w.dlg.open /\ v.dlg.generation = w.dlg.generation
        /\ v.dlg.view = w.dlg.view /\ v.dlg.rebuild = w.dlg.rebuild
        /\ v.dlg.applying = w.dlg.applying /\ v.dlg.net = w.dlg.net
        /\ v.dlg.netRevision = w.dlg.netRevision
    BY <2>20, <2>21
  <2>6. ForThisDialog(w) =>
          /\ v.dlg.netCurrent = network
          /\ network => v.dlg.netError = w.chk.netError /\ v.dlg.netOf = w.chk.net
          /\ machine => v.dlg.result = w.chk.machine
          /\ ~machine => v.dlg.result = w.dlg.result
          /\ machine /\ network => ~v.dlg.pending /\ ~v.dlg.timer
          /\ ~(machine /\ network) => v.dlg.pending = w.dlg.pending /\ v.dlg.timer = w.dlg.timer
          /\ v.dlg.button <=> Offers(v.dlg)
    BY <2>20, <2>21
  <2>7. ~ForThisDialog(w) => v.dlg = w.dlg
    BY <2>21
  <2> DEFINE b == Begun(idle, w.dlg.generation)
  <2>22. /\ b.stage = "sample" /\ b.generation = w.dlg.generation /\ b.machine = NoResult
         /\ b.net = idle.latestNet /\ b.netRevision = idle.latestRevision
         /\ b.queued = idle.queued /\ b.queuedGeneration = idle.queuedGeneration
         /\ b.latestNet = idle.latestNet /\ b.latestRevision = idle.latestRevision
    BY ZenonT(60), <2>1, <2>3, BegunFields
  <2>23. v.chk = IF Restarts(w) THEN b ELSE idle
    BY <2>1
  <2> HIDE DEF b
  <2>8. /\ v.chk.stage = IF Restarts(w) THEN "sample" ELSE "idle"
        /\ ~v.chk.queued
        /\ v.chk.queuedGeneration = w.chk.queuedGeneration
        /\ v.chk.latestNet = w.chk.latestNet /\ v.chk.latestRevision = w.chk.latestRevision
        /\ v.chk.generation = IF Restarts(w) THEN w.dlg.generation ELSE w.chk.generation
        /\ v.chk.machine = IF Restarts(w) THEN NoResult ELSE w.chk.machine
        /\ v.chk.net = IF Restarts(w) THEN w.chk.latestNet ELSE w.chk.net
        /\ v.chk.netRevision = IF Restarts(w) THEN w.chk.latestRevision ELSE w.chk.netRevision
    BY <2>4, <2>22, <2>23
  <2>9. MachineInv(v, a, d)
    <3>1. w.win.app = "running"
      BY DEF MachineInv, MachineBase, Ending, Typed, IsWindow
    <3> QED BY <2>1, <2>5, <3>1, MachineFrame
  <2>10. Modal(v)
    BY <2>1, <2>5, <2>6, <2>7 DEF DialogInv, Modal, Offers, Checkable, ForThisDialog
  <2>11. Shows(v)
    BY <2>1, <2>5 DEF DialogInv, Shows
  <2>24. w.dlg.open /\ ~w.dlg.applying => w.conf.editing.active
    BY DialogEdits DEF MachineInv, MachineBase, DialogInv
  <2>12. Buttons(v)
    <3>1. CASE ForThisDialog(w)
      BY <2>1, <2>5, <2>6, <2>24, <3>1 DEF DialogInv, Buttons, Offers, Checkable
    <3>2. CASE ~ForThisDialog(w)
      BY <2>1, <2>7, <3>2 DEF DialogInv, Buttons
    <3> QED BY <3>1, <3>2
  <2>13. Found(v)
    <3>1. CASE ForThisDialog(w)
      <4>1. w.dlg.open /\ ForThis(w)
        BY <1>2, <3>1 DEF ForThisDialog, ForThis
      <4>2. v.dlg.result.success /\ w.conf.editing.active =>
              v.dlg.result.revision = w.conf.editing.revision /\ v.dlg.result.draft = w.conf.editing.draft
        BY <1>2, <2>3, <2>6, <3>1, <4>1
           DEF DialogInv, Found, Checking, Shows, ViewOf, View, machine
      <4>3. v.dlg.netCurrent => v.dlg.netOf = w.dlg.net /\ (~v.dlg.netError => NetworkReady(w.dlg.net))
        BY <1>2, <2>6, <3>1, <4>1 DEF DialogInv, Checking, SameNetwork, network
      <4>4. v.chk.generation = v.dlg.generation
        BY <2>5, <2>8, <3>1 DEF ForThisDialog
      <4> QED BY <2>1, <2>5, <4>2, <4>3, <4>4 DEF Found
    <3>2. CASE ~ForThisDialog(w)
      BY <2>1, <2>7, <2>8, <3>2 DEF DialogInv, Found
    <3> QED BY <3>1, <3>2
  <2>14. Checking(v)
    BY <1>2, <2>1, <2>3, <2>5, <2>8 DEF DialogInv, Checking, ForThis, SameNetwork, QueuedForThis, Restarts,
       NoResult
  <2>15. Spared(v)
    <3>1. ~QueuedForThis(v)
      BY <2>8 DEF QueuedForThis
    <3>2. ForThis(v) => QueuedForThis(w) /\ Restarts(w) /\ SameNetwork(v) = (w.chk.latestRevision = w.dlg.netRevision)
      BY <2>5, <2>8 DEF ForThis, Restarts, QueuedForThis, SameNetwork
    <3>3. w.dlg.open /\ QueuedForThis(w) /\ w.dlg.view.revision = 0 => ~v.dlg.button
      <4>1. CASE ForThisDialog(w)
        BY <1>2, <2>6, <4>1 DEF DialogInv, Spared, ForThis, ForThisDialog, SameNetwork, network, Offers
      <4>2. CASE ~ForThisDialog(w)
        BY <2>7, <4>2 DEF DialogInv, Spared
      <4> QED BY <4>1, <4>2
    <3> QED BY <2>1, <2>3, <2>5, <2>6, <2>7, <3>1, <3>2, <3>3 DEF DialogInv, Spared
  <2>16. Hears(v)
    <3>1. SUFFICES ASSUME w.dlg.open, Checkable(v.dlg), ~w.dlg.rebuild
                   PROVE  Hears(v)
      BY <2>5 DEF Hears
    <3>2. Checkable(w.dlg)
      BY <2>5, <3>1 DEF Checkable
    <3>3. Restarts(w) <=> QueuedForThis(w)
      BY <3>1 DEF Restarts, QueuedForThis
    <3>4. /\ ForThis(v) => Restarts(w)
          /\ Restarts(w) => ForThis(v) /\ v.chk.stage = "sample"
          /\ ForThis(v) => (SameNetwork(v) <=> w.chk.latestRevision = w.dlg.netRevision)
      BY <2>5, <2>8 DEF ForThis, SameNetwork
    <3>5. CASE ForThisDialog(w)
      <4>1. ForThis(w)
        BY <1>2, <3>5 DEF ForThis, ForThisDialog
      <4>2. machine => w.chk.machine.success
        BY <1>2, <3>1, <4>1 DEF DialogInv, Checking, machine
      <4>3. network /\ ForThis(v) => SameNetwork(v)
        BY <2>3, <3>1, <3>3, <3>4, <4>1 DEF DialogInv, Checking, network
      <4>4. CASE w.dlg.pending
        <5>1. \/ w.dlg.timer \/ (QueuedForThis(w) /\ w.chk.latestRevision = w.dlg.netRevision)
              \/ (machine /\ network)
          BY <1>2, <3>1, <3>2, <4>4 DEF DialogInv, Hears, ForThis, SameNetwork, machine, network
        <5>2. CASE machine /\ network
          BY <2>5, <2>6, <3>5, <4>2, <4>3, <5>2 DEF Hears, machine
        <5>3. CASE ~(machine /\ network)
          BY <2>5, <2>6, <3>3, <3>4, <3>5, <4>4, <5>1, <5>3 DEF Hears
        <5> QED BY <5>2, <5>3
      <4>5. CASE ~w.dlg.pending
        <5>1. /\ w.dlg.result.revision = w.dlg.view.revision /\ w.dlg.result.success
              /\ network
          BY <3>1, <3>2, <4>1, <4>5 DEF DialogInv, Hears, SameNetwork, network
        <5>2. v.dlg.result.revision = w.dlg.view.revision /\ v.dlg.result.success /\ ~v.dlg.pending
          BY <2>6, <3>5, <4>2, <4>5, <5>1 DEF machine
        <5> QED BY <2>5, <2>6, <3>5, <4>3, <5>1, <5>2 DEF Hears
      <4> QED BY <4>4, <4>5
    <3>6. CASE ~ForThisDialog(w)
      <4>1. ~ForThis(w) /\ ~w.dlg.result.success
        BY <1>2, <3>1, <3>6 DEF ForThis, ForThisDialog, DialogInv, Found
      <4>2. w.dlg.pending
        BY <3>1, <3>2, <4>1 DEF DialogInv, Hears
      <4>3. w.dlg.timer \/ (QueuedForThis(w) /\ w.chk.latestRevision = w.dlg.netRevision)
        BY <3>1, <3>2, <4>1, <4>2 DEF DialogInv, Hears
      <4> QED BY <2>5, <2>7, <3>3, <3>4, <3>6, <4>2, <4>3 DEF Hears
    <3> QED BY <3>5, <3>6
  <2> QED BY <2>1, <2>2, <2>9, <2>10, <2>11, <2>12, <2>13, <2>14, <2>15, <2>16 DEF DialogInv, v
<1> QED BY <1>1, <1>2

-----------------------------------------------------------------------------
(* Running and interrupting a machine, and what the window shows of it.    *)

LEMMA RunFields ==
    ASSUME NEW w, IsWorld(w), IsRuntime(w.rt), Sound(w.rt)
    PROVE  LET v == RunMachine(w)
           IN  /\ IsWorld(v) /\ v.win = w.win /\ v.dlg = w.dlg /\ v.chk = w.chk
               /\ v.conf = w.conf /\ v.task = w.task
               /\ IsRuntime(v.rt) /\ Sound(v.rt) /\ ~v.rt.owed
               /\ v.rt.generation = w.rt.generation /\ v.rt.mode = w.rt.mode
               /\ v.rt.draft = w.rt.draft /\ v.rt.healthy = w.rt.healthy
<1>1. CASE CanExecute(w.rt)
  <2> DEFINE r == [w.rt EXCEPT !.state = "Running", !.owed = FALSE]
  <2>1. /\ IsRuntime(r) /\ r.state = "Running" /\ ~r.owed
        /\ r.generation = w.rt.generation /\ r.mode = w.rt.mode
        /\ r.draft = w.rt.draft /\ r.healthy = w.rt.healthy
    BY DEF IsRuntime, States
  <2>2. RunMachine(w) = [w EXCEPT !.rt = r]
    BY <1>1 DEF RunMachine, IsWorld
  <2> HIDE DEF r
  <2>3. Sound(r)
    BY <1>1, <2>1 DEF Sound, CanExecute
  <2> QED BY <2>1, <2>2, <2>3 DEF IsWorld
<1>2. CASE ~CanExecute(w.rt)
  BY <1>2 DEF RunMachine, Sound, IsRuntime
<1> QED BY <1>1, <1>2

LEMMA InterruptFields ==
    ASSUME NEW w, IsWorld(w), IsRuntime(w.rt), Sound(w.rt)
    PROVE  LET v == Interrupt(w)
           IN  /\ IsWorld(v) /\ v.win = w.win /\ v.dlg = w.dlg /\ v.chk = w.chk
               /\ v.conf = w.conf /\ v.task = w.task
               /\ IsRuntime(v.rt) /\ Sound(v.rt) /\ v.rt.state # "Running"
               /\ v.rt.owed => w.rt.owed \/ w.rt.state = "Running"
               /\ v.rt.generation = w.rt.generation /\ v.rt.mode = w.rt.mode
               /\ v.rt.draft = w.rt.draft /\ v.rt.healthy = w.rt.healthy
<1>1. CASE w.rt.state = "Running"
  <2> DEFINE r == [w.rt EXCEPT !.state = "Paused", !.owed = TRUE]
  <2>1. /\ IsRuntime(r) /\ r.state = "Paused" /\ r.owed
        /\ r.generation = w.rt.generation /\ r.mode = w.rt.mode
        /\ r.draft = w.rt.draft /\ r.healthy = w.rt.healthy
    BY DEF IsRuntime, States
  <2>2. Interrupt(w) = [w EXCEPT !.rt = r]
    BY <1>1 DEF Interrupt, PauseMachine, IsWorld
  <2> HIDE DEF r
  <2>3. Sound(r)
    BY <1>1, <2>1 DEF Sound, CanExecute
  <2> QED BY <1>1, <2>1, <2>2, <2>3 DEF IsWorld
<1>2. CASE w.rt.state # "Running"
  BY <1>2 DEF Interrupt
<1> QED BY <1>1, <1>2

LEMMA StatusFields ==
    ASSUME NEW w, Typed(w)
    PROVE  LET v == ApplyStatus(w)
           IN  /\ Typed(v) /\ v.dlg = w.dlg /\ v.chk = w.chk /\ v.rt = w.rt /\ v.conf = w.conf
               /\ v.task = w.task /\ v.win.shown = Status(w.rt)
               /\ v.win.panes = IF w.win.panes.generation = w.rt.generation THEN w.win.panes
                                ELSE [generation |-> w.rt.generation, consoles |-> w.conf.frontend]
               /\ v.win.open = w.win.open /\ v.win.app = w.win.app /\ v.win.net = w.win.net
               /\ v.win.pendingNet = w.win.pendingNet /\ v.win.prep = w.win.prep
               /\ v.win.resume = w.win.resume /\ v.win.stops = w.win.stops
               /\ v.win.choosing = w.win.choosing
<1> DEFINE shown == Status(w.rt)
           panes == IF w.win.panes.generation = w.rt.generation THEN w.win.panes
                    ELSE [generation |-> w.rt.generation, consoles |-> w.conf.frontend]
           u == [w.win EXCEPT !.shown = shown, !.panes = panes]
<1>1. IsWorld(w) /\ IsWindow(w.win) /\ IsRuntime(w.rt)
  BY DEF Typed
<1>2. shown \in [state : States, mode : SessionModes, runnable : BOOLEAN]
  BY <1>1 DEF Status, CanExecute, IsRuntime
<1>3. panes \in [generation : Nat \cup {-1}, consoles : {panes.consoles}]
  BY <1>1 DEF IsWindow, IsRuntime
<1>4. ApplyStatus(w) = [w EXCEPT !.win = u]
  BY <1>1 DEF ApplyStatus, IsWorld
<1> HIDE DEF shown, panes
<1>5. IsWindow(u)
  BY <1>1, <1>2, <1>3 DEF IsWindow
<1>6. /\ u.shown = shown /\ u.panes = panes
      /\ u.open = w.win.open /\ u.app = w.win.app /\ u.net = w.win.net
      /\ u.pendingNet = w.win.pendingNet /\ u.prep = w.win.prep
      /\ u.resume = w.win.resume /\ u.stops = w.win.stops
      /\ u.choosing = w.win.choosing
  BY <1>1 DEF IsWindow
<1> HIDE DEF u
<1>7. LET v == ApplyStatus(w)
      IN  /\ IsWorld(v) /\ v.win = u /\ v.dlg = w.dlg /\ v.chk = w.chk /\ v.rt = w.rt
          /\ v.conf = w.conf /\ v.task = w.task
  BY <1>1, <1>4 DEF IsWorld
<1> QED BY <1>5, <1>6, <1>7 DEF Typed, shown, panes

\* A status that is applied with the mutex free shows the machine that is there.
LEMMA StatusInv ==
    ASSUME NEW w, NEW a, NEW d, Typed(w), MachineInv(w, a, d), DialogInv(w), ~w.conf.locked
    PROVE  Inv(ApplyStatus(w), a, d)
<1> DEFINE v == ApplyStatus(w)
<1>1. /\ Typed(v) /\ v.dlg = w.dlg /\ v.chk = w.chk /\ v.rt = w.rt /\ v.conf = w.conf
      /\ v.task = w.task /\ v.win.shown = Status(w.rt)
      /\ v.win.panes = IF w.win.panes.generation = w.rt.generation THEN w.win.panes
                       ELSE [generation |-> w.rt.generation, consoles |-> w.conf.frontend]
      /\ v.win.open = w.win.open /\ v.win.app = w.win.app /\ v.win.net = w.win.net
      /\ v.win.pendingNet = w.win.pendingNet /\ v.win.prep = w.win.prep
      /\ v.win.resume = w.win.resume /\ v.win.stops = w.win.stops
      /\ v.win.choosing = w.win.choosing
  BY StatusFields
<1> HIDE DEF v
<1>2. DialogInv(v)
  BY <1>1, DialogFrame
<1>3. Fresh(v)
  BY <1>1 DEF Fresh, Status
<1>4. Consoles(v)
  BY <1>1 DEF MachineInv, MachineBase, Consoles, Typed, IsRuntime
<1>5. Sound(v.rt) /\ Preparing(v) /\ Resuming(v) /\ Owing(v) /\ Drafting(v)
  BY <1>1 DEF MachineInv, MachineBase, Preparing, Resuming, Owing, Drafting
<1>6. Applied(v, a) /\ Ending(v, a, d)
  BY <1>1 DEF MachineInv, MachineBase, Applied, Ending
<1> QED BY <1>1, <1>2, <1>3, <1>4, <1>5, <1>6 DEF Inv, MachineInv, MachineBase, v

LEMMA UpdateInv ==
    ASSUME NEW w, NEW a, NEW d, Typed(w), MachineInv(w, a, d), DialogInv(w), ~w.conf.locked
    PROVE  Inv(UpdateRuntime(w), a, d)
<1>1. CASE w.win.prep = "None"
  BY <1>1, StatusInv DEF UpdateRuntime
<1>2. CASE w.win.prep # "None"
  BY <1>2 DEF UpdateRuntime, Inv, Fresh
<1> QED BY <1>1, <1>2

-----------------------------------------------------------------------------
(* The end of a preparation.                                               *)

\* What is kept of the machine, whatever its state.
SameMachine(r, s) == r.generation = s.generation /\ r.mode = s.mode /\ r.draft = s.draft

\* With nothing prepared any more, the applied draft is the committed one.
LEMMA SettledBase ==
    ASSUME NEW w, NEW v, NEW a, NEW d, Typed(w), MachineBase(w, a, d),
           w.win.prep # "None", w.task.stage = "done", w.win.open,
           v.task = NoTask, v.conf = w.conf, v.chk = w.chk, v.win.open, v.win.app = w.win.app,
           v.win.panes = w.win.panes, v.win.prep = "None",
           v.win.choosing => v.rt.state # "Running",
           Sound(v.rt), SameMachine(v.rt, w.rt),
           v.dlg.open <=> w.dlg.open /\ ~Committed(w.task),
           v.win.net = IF Committed(w.task) THEN w.win.pendingNet ELSE w.win.net
    PROVE  MachineBase(v, a, d)
<1>1. /\ v.task.kind = "none" /\ v.task.stage = "none" /\ ~v.task.ok
      /\ ~Committing(v.task) /\ ~Committed(v.task)
  BY DEF NoTask, Committing, Committed
<1>2. ~Committing(w.task)
  BY DEF Committing
<1>3. Preparing(v) /\ Resuming(v)
  BY <1>1 DEF Preparing, Resuming, KindsOf, Building
<1>4. Drafting(v)
  BY <1>1 DEF MachineBase, Drafting, Building
<1>5. Consoles(v)
  BY <1>1, <1>2 DEF MachineBase, Consoles, SameMachine, Drafting
<1>6. Applied(v, a)
  BY <1>1, <1>2 DEF MachineBase, Applied, Drafting, Committed
<1>7. Ending(v, a, d)
  BY DEF MachineBase, Ending
<1> QED BY <1>3, <1>4, <1>5, <1>6, <1>7 DEF MachineBase

\* A preparation that begins changes nothing else of the machine.
LEMMA BegunBase ==
    ASSUME NEW w, NEW v, NEW a, NEW d, NEW kind, NEW net, Typed(w), MachineBase(w, a, d),
           w.win.prep = "None", w.win.open,
           v.task = NewTask(kind, net), kind \in KindsOf(v.win.prep),
           v.win.prep \in Preparations \ {"None"},
           v.conf = w.conf, v.chk = w.chk, v.win.open, v.win.app = w.win.app,
           v.win.panes = w.win.panes, v.win.net = w.win.net, ~v.win.choosing,
           Sound(v.rt), SameMachine(v.rt, w.rt), v.rt.state # "Running",
           v.dlg.open = w.dlg.open,
           kind = "StopReplay" => net = w.win.net,
           kind = "Settings" => net = v.win.pendingNet /\ net # 0,
           v.rt.owed => v.win.resume /\ kind # "ReplaySnapshot"
    PROVE  MachineInv(v, a, d)
<1>1. /\ v.task.kind = kind /\ v.task.stage = "start" /\ ~v.task.ok /\ v.task.net = net
      /\ ~Committing(v.task) /\ ~Committed(v.task)
  BY DEF NewTask, NoTask, Committing, Committed
<1>2. w.task.kind = "none" /\ w.task.stage = "none" /\ ~Committing(w.task) /\ ~Committed(w.task)
  BY DEF MachineBase, Preparing, KindsOf, Committing, Committed
<1>3. Preparing(v) /\ Resuming(v) /\ Owing(v)
  BY <1>1 DEF Preparing, Resuming, Owing
<1>4. Drafting(v)
  BY <1>1, <1>2 DEF MachineBase, Drafting, Building
<1>5. Consoles(v)
  BY <1>1, <1>2 DEF MachineBase, Consoles, SameMachine, Drafting
<1>6. Applied(v, a)
  BY <1>1, <1>2 DEF MachineBase, Applied
<1>7. Ending(v, a, d)
  BY DEF MachineBase, Ending
<1> QED BY <1>3, <1>4, <1>5, <1>6, <1>7 DEF MachineBase, MachineInv

LEMMA NoTaskType == IsTask(NoTask)
BY DEF IsTask, NoTask, NoManifest, Failure, Outcome, Kinds, Stages

LEMMA NewTaskType ==
    ASSUME NEW kind \in Kinds, NEW net \in {0} \cup Nets
    PROVE  IsTask(NewTask(kind, net))
BY DEF IsTask, NewTask, NoTask, NoManifest, Failure, Outcome, Kinds, Stages

LEMMA IdleFields ==
    ASSUME NEW w, Typed(w)
    PROVE  LET v == NothingPrepared(w)
           IN  /\ Typed(v) /\ v.dlg = w.dlg /\ v.chk = w.chk /\ v.rt = w.rt /\ v.conf = w.conf
               /\ v.task = NoTask /\ v.win.prep = "None" /\ ~v.win.resume /\ ~v.win.stops
               /\ v.win.open = w.win.open /\ v.win.app = w.win.app /\ v.win.net = w.win.net
               /\ v.win.pendingNet = w.win.pendingNet /\ v.win.choosing = w.win.choosing
               /\ v.win.shown = w.win.shown /\ v.win.panes = w.win.panes
<1> DEFINE u == [w.win EXCEPT !.prep = "None", !.resume = FALSE, !.stops = FALSE]
<1>1. IsWorld(w) /\ IsWindow(w.win)
  BY DEF Typed
<1>2. NothingPrepared(w) = [w EXCEPT !.win = u, !.task = NoTask]
  BY <1>1 DEF NothingPrepared, IsWorld
<1>3. IsWindow(u)
  BY <1>1 DEF IsWindow, Preparations
<1>4. /\ u.prep = "None" /\ ~u.resume /\ ~u.stops
      /\ u.open = w.win.open /\ u.app = w.win.app /\ u.net = w.win.net
      /\ u.pendingNet = w.win.pendingNet /\ u.choosing = w.win.choosing
      /\ u.shown = w.win.shown /\ u.panes = w.win.panes
  BY <1>1 DEF IsWindow
<1> HIDE DEF u
<1>5. LET v == NothingPrepared(w)
      IN  /\ IsWorld(v) /\ v.win = u /\ v.dlg = w.dlg /\ v.chk = w.chk /\ v.rt = w.rt
          /\ v.conf = w.conf /\ v.task = NoTask
  BY <1>1, <1>2 DEF IsWorld
<1> QED BY <1>3, <1>4, <1>5, NoTaskType DEF Typed

\* begin_preparation, when nothing is being prepared.
LEMMA BeginFields ==
    ASSUME NEW w, Typed(w), Sound(w.rt), w.win.prep = "None",
           NEW prep \in Preparations, NEW stops \in BOOLEAN, NEW kind \in Kinds,
           NEW net \in {0} \cup Nets
    PROVE  LET v == BeginPreparation(w, prep, stops, kind, net)
           IN  /\ Typed(v) /\ v.dlg = w.dlg /\ v.chk = w.chk /\ v.conf = w.conf
               /\ v.task = NewTask(kind, net) /\ v.win.prep = prep
               /\ (v.win.resume <=> w.rt.state = "Running")
               /\ v.win.open = w.win.open /\ v.win.app = w.win.app /\ v.win.net = w.win.net
               /\ v.win.pendingNet = w.win.pendingNet /\ v.win.choosing = w.win.choosing
               /\ v.win.shown = w.win.shown /\ v.win.panes = w.win.panes
               /\ Sound(v.rt) /\ SameMachine(v.rt, w.rt) /\ v.rt.state # "Running"
               /\ v.rt.owed => w.rt.owed \/ w.rt.state = "Running"
<1> DEFINE i == Interrupt(w)
<1>1. PICK running \in BOOLEAN : running = (w.rt.state = "Running")
  OBVIOUS
<1> DEFINE u == [w.win EXCEPT !.prep = prep, !.stops = stops, !.resume = running]
<1>2. IsWorld(w) /\ IsWindow(w.win) /\ IsRuntime(w.rt)
  BY DEF Typed
<1>3. /\ IsWorld(i) /\ i.win = w.win /\ i.dlg = w.dlg /\ i.chk = w.chk
      /\ i.conf = w.conf /\ i.task = w.task
      /\ IsRuntime(i.rt) /\ Sound(i.rt) /\ i.rt.state # "Running"
      /\ i.rt.owed => w.rt.owed \/ w.rt.state = "Running"
      /\ SameMachine(i.rt, w.rt)
  BY <1>2, InterruptFields DEF SameMachine
<1>4. BeginPreparation(w, prep, stops, kind, net)
        = [i EXCEPT !.win.prep = prep, !.win.stops = stops,
                    !.win.resume = running, !.task = NewTask(kind, net)]
  BY <1>1 DEF BeginPreparation
<1> HIDE DEF i
<1>5. BeginPreparation(w, prep, stops, kind, net) = [i EXCEPT !.win = u, !.task = NewTask(kind, net)]
  BY <1>3, <1>4 DEF IsWorld
<1>6. IsWindow(u)
  BY <1>2 DEF IsWindow
<1>7. /\ u.prep = prep /\ u.resume = running
      /\ u.open = w.win.open /\ u.app = w.win.app /\ u.net = w.win.net
      /\ u.pendingNet = w.win.pendingNet /\ u.choosing = w.win.choosing
      /\ u.shown = w.win.shown /\ u.panes = w.win.panes
  BY <1>2 DEF IsWindow
<1> HIDE DEF u
<1>8. LET v == BeginPreparation(w, prep, stops, kind, net)
      IN  /\ IsWorld(v) /\ v.win = u /\ v.dlg = i.dlg /\ v.chk = i.chk /\ v.rt = i.rt
          /\ v.conf = i.conf /\ v.task = NewTask(kind, net)
  BY <1>3, <1>5 DEF IsWorld
<1> QED BY <1>1, <1>3, <1>6, <1>7, <1>8, NewTaskType DEF Typed

LEMMA ChecksKept ==
    ASSUME NEW w, NEW v, DialogInv(w), v.chk = w.chk, v.dlg.generation = w.dlg.generation
    PROVE  KeepsChecks(v)
BY DEF DialogInv, Checking, KeepsChecks

\* The second half of opening a Replay.
LEMMA ReplayFields ==
    ASSUME NEW w, Typed(w), Sound(w.rt), w.win.prep = "None", NEW resume \in BOOLEAN
    PROVE  LET v == BeginReplay(w, resume)
           IN  /\ Typed(v) /\ v.dlg = w.dlg /\ v.chk = w.chk /\ v.conf = w.conf
               /\ v.task = NewTask("OpenReplay", 0) /\ v.win.prep = "Replay"
               /\ v.win.resume = resume
               /\ v.win.open = w.win.open /\ v.win.app = w.win.app /\ v.win.net = w.win.net
               /\ v.win.pendingNet = w.win.pendingNet /\ v.win.choosing = w.win.choosing
               /\ v.win.panes = w.win.panes
               /\ Sound(v.rt) /\ SameMachine(v.rt, w.rt) /\ v.rt.state # "Running"
               /\ v.rt.owed => w.rt.owed \/ w.rt.state = "Running"
<1>7. PICK no \in BOOLEAN : no = FALSE
  OBVIOUS
<1> DEFINE b == BeginPreparation(w, "Replay", no, "OpenReplay", 0)
           u == [b.win EXCEPT !.resume = resume]
<1>1. /\ Typed(b) /\ b.dlg = w.dlg /\ b.chk = w.chk /\ b.conf = w.conf
      /\ b.task = NewTask("OpenReplay", 0) /\ b.win.prep = "Replay"
      /\ b.win.open = w.win.open /\ b.win.app = w.win.app /\ b.win.net = w.win.net
      /\ b.win.pendingNet = w.win.pendingNet /\ b.win.choosing = w.win.choosing
      /\ b.win.panes = w.win.panes
      /\ Sound(b.rt) /\ SameMachine(b.rt, w.rt) /\ b.rt.state # "Running"
      /\ b.rt.owed => w.rt.owed \/ w.rt.state = "Running"
  <2>1. "Replay" \in Preparations /\ "OpenReplay" \in Kinds /\ 0 \in {0} \cup Nets
    BY DEF Preparations, Kinds
  <2> QED BY <2>1, BeginFields
<1>2. IsWorld(b) /\ IsWindow(b.win)
  BY <1>1 DEF Typed
<1> HIDE DEF b
<1>3. BeginReplay(w, resume) = [b EXCEPT !.win = u]
  <2>1. BeginReplay(w, resume) = [b EXCEPT !.win.resume = resume]
    BY <1>7 DEF BeginReplay, b
  <2> QED BY <1>2, <2>1 DEF IsWorld
<1>4. IsWindow(u)
  BY <1>2 DEF IsWindow
<1>5. /\ u.prep = b.win.prep /\ u.resume = resume
      /\ u.open = b.win.open /\ u.app = b.win.app /\ u.net = b.win.net
      /\ u.pendingNet = b.win.pendingNet /\ u.choosing = b.win.choosing
      /\ u.panes = b.win.panes
  BY <1>2 DEF IsWindow
<1> HIDE DEF u
<1>6. LET v == BeginReplay(w, resume)
      IN  /\ IsWorld(v) /\ v.win = u /\ v.dlg = b.dlg /\ v.chk = b.chk /\ v.rt = b.rt
          /\ v.conf = b.conf /\ v.task = b.task
  BY <1>2, <1>3 DEF IsWorld
<1> QED BY <1>1, <1>4, <1>5, <1>6 DEF Typed

\* A machine that is resumed is owed nothing.
LEMMA ResumeFields ==
    ASSUME NEW w, Typed(w), Sound(w.rt), NEW resume \in BOOLEAN, w.rt.owed => resume
    PROVE  LET v == ResumeIf(w, resume)
           IN  /\ Typed(v) /\ v.win = w.win /\ v.dlg = w.dlg /\ v.chk = w.chk
               /\ v.conf = w.conf /\ v.task = w.task
               /\ Sound(v.rt) /\ SameMachine(v.rt, w.rt) /\ ~v.rt.owed
<1>1. IsWorld(w) /\ IsRuntime(w.rt)
  BY DEF Typed
<1>2. CASE resume
  <2>1. ResumeIf(w, resume) = RunMachine(w)
    BY <1>2 DEF ResumeIf
  <2> DEFINE v == RunMachine(w)
  <2>2. /\ IsWorld(v) /\ v.win = w.win /\ v.dlg = w.dlg /\ v.chk = w.chk
        /\ v.conf = w.conf /\ v.task = w.task
        /\ IsRuntime(v.rt) /\ Sound(v.rt) /\ ~v.rt.owed /\ SameMachine(v.rt, w.rt)
    BY <1>1, RunFields DEF SameMachine
  <2> QED BY <2>1, <2>2 DEF Typed
<1>3. CASE ~resume
  BY <1>3 DEF ResumeIf, SameMachine
<1> QED BY <1>2, <1>3

LEMMA CatalogInv ==
    ASSUME NEW w, NEW a, NEW d, Typed(w), MachineInv(w, a, d), DialogInv(w), w.win.open,
           w.win.prep = "ReplayCatalog", w.task.stage = "done"
    PROVE  LET v == CatalogDone(w, NothingPrepared(w))
           IN  Typed(v) /\ MachineInv(v, a, d) /\ DialogInv(v) /\ v.conf = w.conf
<1> DEFINE i == NothingPrepared(w)
           v == CatalogDone(w, i)
<1>1. /\ Typed(i) /\ i.dlg = w.dlg /\ i.chk = w.chk /\ i.rt = w.rt /\ i.conf = w.conf
      /\ i.task = NoTask /\ i.win.prep = "None" /\ ~i.win.resume
      /\ i.win.open = w.win.open /\ i.win.app = w.win.app /\ i.win.net = w.win.net
      /\ i.win.pendingNet = w.win.pendingNet /\ i.win.choosing = w.win.choosing
      /\ i.win.shown = w.win.shown /\ i.win.panes = w.win.panes
  BY IdleFields
<1>2. /\ w.task.kind = "ReplayCatalog" /\ ~Committed(w.task) /\ w.rt.state # "Running"
      /\ ~w.win.choosing
      /\ w.rt.owed => w.win.resume
  BY DEF MachineInv, MachineBase, Preparing, KindsOf, Resuming, Owing, Committed
<1>3. ~w.dlg.open /\ ~w.dlg.button /\ ~w.dlg.applying
  BY DEF DialogInv, Modal
<1>4. MachineBase(w, a, d) /\ Sound(w.rt) /\ w.win.resume \in BOOLEAN
  BY DEF MachineInv, MachineBase, Typed, IsWindow
<1> HIDE DEF i
<1>5. CASE ~w.task.ok
  <2>1. v = ResumeIf(i, w.win.resume)
    BY <1>5 DEF CatalogDone
  <2> HIDE DEF v
  <2> DEFINE r == ResumeIf(i, w.win.resume)
  <2>2. /\ Typed(r) /\ r.win = i.win /\ r.dlg = i.dlg /\ r.chk = i.chk
        /\ r.conf = i.conf /\ r.task = i.task
        /\ Sound(r.rt) /\ SameMachine(r.rt, i.rt) /\ ~r.rt.owed
    BY <1>1, <1>2, <1>4, ResumeFields
  <2> HIDE DEF r
  <2>3. MachineBase(r, a, d)
    BY ZenonT(60), <1>1, <1>2, <1>3, <1>4, <2>2, SettledBase
  <2>4. DialogInv(r)
    BY <1>1, <1>2, <1>3, <2>2, NoDialog, ChecksKept
  <2>5. MachineInv(r, a, d)
    BY <2>2, <2>3 DEF MachineInv, Owing
  <2> QED BY <1>1, <2>1, <2>2, <2>4, <2>5 DEF r, v, i
<1>6. CASE w.task.ok /\ w.task.snapshots
  <2> DEFINE u == [i.win EXCEPT !.choosing = TRUE, !.resume = w.win.resume]
             c == [i EXCEPT !.win.choosing = TRUE, !.win.resume = w.win.resume]
  <2>1. v = c
    BY <1>6 DEF CatalogDone
  <2>2. IsWorld(i) /\ IsWindow(i.win)
    BY <1>1 DEF Typed
  <2>3. c = [i EXCEPT !.win = u]
    BY <2>2 DEF IsWorld
  <2>4. IsWindow(u)
    BY <1>4, <2>2 DEF IsWindow
  <2>5. /\ u.prep = "None" /\ u.resume = w.win.resume /\ u.choosing
        /\ u.open = w.win.open /\ u.app = w.win.app /\ u.net = w.win.net
        /\ u.panes = w.win.panes
    BY <1>1, <2>2 DEF IsWindow
  <2> HIDE DEF u, c, v
  <2>6. /\ IsWorld(c) /\ c.win = u /\ c.dlg = i.dlg /\ c.chk = i.chk /\ c.rt = i.rt
        /\ c.conf = i.conf /\ c.task = i.task
    BY <2>2, <2>3 DEF IsWorld
  <2>7. Typed(c)
    BY <1>1, <2>4, <2>6 DEF Typed
  <2>8. SameMachine(c.rt, w.rt)
    BY <1>1, <2>6 DEF SameMachine
  <2>9. MachineBase(c, a, d)
    BY ZenonT(60), <1>1, <1>2, <1>3, <1>4, <2>5, <2>6, <2>8, SettledBase
  <2>10. Owing(c)
    BY <1>1, <1>2, <2>5, <2>6 DEF Owing, NoTask
  <2>11. DialogInv(c)
    BY <1>1, <1>2, <1>3, <2>5, <2>6, NoDialog, ChecksKept
  <2> QED BY <1>1, <2>1, <2>6, <2>7, <2>9, <2>10, <2>11 DEF MachineInv, v, i
<1>7. CASE w.task.ok /\ ~w.task.snapshots
  <2> DEFINE b == BeginReplay(i, w.win.resume)
  <2>1. v = b
    BY <1>7 DEF CatalogDone
  <2>2. /\ Typed(b) /\ b.dlg = i.dlg /\ b.chk = i.chk /\ b.conf = i.conf
        /\ b.task = NewTask("OpenReplay", 0) /\ b.win.prep = "Replay"
        /\ b.win.resume = w.win.resume
        /\ b.win.open = i.win.open /\ b.win.app = i.win.app /\ b.win.net = i.win.net
        /\ b.win.pendingNet = i.win.pendingNet /\ b.win.choosing = i.win.choosing
        /\ b.win.panes = i.win.panes
        /\ Sound(b.rt) /\ SameMachine(b.rt, i.rt) /\ b.rt.state # "Running"
        /\ b.rt.owed => i.rt.owed \/ i.rt.state = "Running"
    BY <1>1, <1>4, ReplayFields
  <2> HIDE DEF b, v
  <2>3. SameMachine(i.rt, w.rt)
    BY <1>1 DEF SameMachine
  <2>4. MachineBase(i, a, d)
    BY <1>1, <1>2, <1>3, <1>4, <2>3, SettledBase
  <2>5. MachineInv(b, a, d)
    <3>1. "OpenReplay" \in KindsOf(b.win.prep) /\ b.win.prep \in Preparations \ {"None"}
      BY <2>2 DEF KindsOf, Preparations
    <3>2. b.rt.owed => b.win.resume
      BY <1>1, <1>2, <2>2
    <3> QED BY <1>1, <1>2, <2>2, <2>4, <3>1, <3>2, BegunBase
  <2>6. DialogInv(b)
    BY <1>1, <1>2, <1>3, <2>2, NoDialog, ChecksKept
  <2> QED BY <1>1, <2>1, <2>2, <2>5, <2>6 DEF v, i
<1> QED BY <1>5, <1>6, <1>7

\* A dialog whose apply failed checks again what it shows.
LEMMA FailedDialog ==
    ASSUME NEW w, NEW v, Typed(w), DialogInv(w), w.dlg.applying, w.dlg.open,
           ~Committed(w.task), Drafting(w),
           v.dlg = ShowApplyFailure(w.dlg), v.chk = w.chk, v.conf = w.conf,
           v.win.open, ~v.win.choosing, v.win.prep = "None"
    PROVE  DialogInv(v)
<1> DEFINE e == ShowApplyFailure(w.dlg)
<1>1. /\ e.open = w.dlg.open /\ e.generation = w.dlg.generation /\ e.view = w.dlg.view
      /\ e.rebuild = w.dlg.rebuild /\ ~e.applying /\ e.net = w.dlg.net
      /\ e.netRevision = w.dlg.netRevision /\ e.netCurrent = w.dlg.netCurrent
      /\ e.netError = w.dlg.netError /\ e.netOf = w.dlg.netOf
      /\ e.result = NoResult /\ ~e.button
      /\ e.pending = Checkable(e) /\ e.timer = Checkable(e)
  BY FailureFields DEF Typed
<1> HIDE DEF e
<1>2. v.dlg = e
  BY DEF e
<1>3. w.conf.editing.active
  BY DEF Drafting
<1>4. Modal(v)
  BY <1>1, <1>2 DEF DialogInv, Modal
<1>5. Shows(v)
  BY <1>1, <1>2 DEF DialogInv, Shows
<1>6. Buttons(v)
  BY <1>1, <1>2 DEF Buttons
<1>7. Found(v)
  BY <1>1, <1>2 DEF DialogInv, Found, NoResult
<1>8. Checking(v)
  BY <1>1, <1>2 DEF DialogInv, Checking, ForThis, QueuedForThis, SameNetwork
<1>9. Spared(v)
  <2>1. ~QueuedForThis(v) /\ (w.dlg.view.revision = 0 => ~ForThis(v))
    BY <1>1, <1>2 DEF DialogInv, Spared, ForThis, QueuedForThis
  <2> QED BY <1>1, <1>2, <2>1 DEF Spared
<1>10. Hears(v)
  BY <1>1, <1>2 DEF Hears
<1> QED BY <1>4, <1>5, <1>6, <1>7, <1>8, <1>9, <1>10 DEF DialogInv

LEMMA SucceededInv ==
    ASSUME NEW w, NEW a, NEW d, Typed(w), MachineInv(w, a, d), DialogInv(w), w.win.open,
           w.win.prep \notin {"None", "ReplayCatalog"}, w.task.stage = "done", w.task.ok
    PROVE  LET v == PreparationSucceeded(w, NothingPrepared(w))
           IN  Typed(v) /\ MachineInv(v, a, d) /\ DialogInv(v) /\ v.conf = w.conf
<1> DEFINE i == NothingPrepared(w)
           v == PreparationSucceeded(w, i)
<1>1. /\ Typed(i) /\ i.dlg = w.dlg /\ i.chk = w.chk /\ i.rt = w.rt /\ i.conf = w.conf
      /\ i.task = NoTask /\ i.win.prep = "None" /\ ~i.win.resume
      /\ i.win.open = w.win.open /\ i.win.app = w.win.app /\ i.win.net = w.win.net
      /\ i.win.pendingNet = w.win.pendingNet /\ i.win.choosing = w.win.choosing
      /\ i.win.shown = w.win.shown /\ i.win.panes = w.win.panes
  BY IdleFields
<1>2. /\ w.task.kind \in KindsOf(w.win.prep) /\ ~w.win.choosing
      /\ w.task.kind # "ReplayCatalog" /\ ~w.rt.owed
  BY DEF MachineInv, MachineBase, Preparing, KindsOf, Resuming, Owing
<1>3. Committed(w.task) <=> w.win.prep = "Settings"
  BY <1>2 DEF KindsOf, Committed
<1>4. MachineBase(w, a, d) /\ Sound(w.rt)
  BY DEF MachineInv, MachineBase
<1>5. SameMachine(i.rt, w.rt)
  BY <1>1 DEF SameMachine
<1> HIDE DEF i
<1>6. CASE w.win.prep # "Settings"
  <2>1. v = i
    BY <1>6 DEF PreparationSucceeded
  <2> HIDE DEF v
  <2>2. ~w.dlg.open /\ ~w.dlg.button /\ ~w.dlg.applying
    BY <1>6 DEF DialogInv, Modal
  <2>3. MachineBase(i, a, d)
    BY <1>1, <1>2, <1>3, <1>4, <1>5, <1>6, SettledBase
  <2>4. DialogInv(i)
    BY <1>1, <1>2, <2>2, NoDialog, ChecksKept
  <2>5. MachineInv(i, a, d)
    BY <1>1, <1>2, <2>3 DEF MachineInv, Owing
  <2> QED BY <1>1, <2>1, <2>4, <2>5 DEF v, i
<1>7. CASE w.win.prep = "Settings"
  <2>1. w.win.pendingNet \in Nets
    <3>1. w.task.kind = "Settings"
      BY <1>3, <1>7 DEF Committed
    <3> QED BY <1>4, <3>1 DEF MachineBase, Applied, Typed, IsWindow
  <2>2. w.win.pendingNet # 0
    BY <2>1, FrontendAssumption DEF Nets
  <2> DEFINE u == [i.win EXCEPT !.net = w.win.pendingNet, !.pendingNet = 0]
             n == w.dlg.generation
  <2>3. IsWorld(i) /\ IsWindow(i.win) /\ n \in Nat
    BY <1>1 DEF Typed, IsDialog
  <2>4. v = [i EXCEPT !.win.net = w.win.pendingNet, !.win.pendingNet = 0, !.dlg = Closed(n)]
    BY <1>1, <1>7, <2>2 DEF PreparationSucceeded
  <2>5. v = [i EXCEPT !.win = u, !.dlg = Closed(n)]
    BY <2>3, <2>4 DEF IsWorld
  <2>6. IsWindow(u)
    BY <2>1, <2>3 DEF IsWindow
  <2>7. /\ u.prep = "None" /\ u.net = w.win.pendingNet /\ ~u.choosing
        /\ u.open = w.win.open /\ u.app = w.win.app /\ u.panes = w.win.panes
    BY <1>1, <1>2, <2>3 DEF IsWindow
  <2> HIDE DEF u
  <2>8. /\ IsWorld(v) /\ v.win = u /\ v.dlg = Closed(n) /\ v.chk = i.chk /\ v.rt = i.rt
        /\ v.conf = i.conf /\ v.task = i.task
    BY <2>3, <2>5 DEF IsWorld
  <2> HIDE DEF v
  <2>9. /\ IsDialog(v.dlg) /\ ~v.dlg.open /\ v.dlg.generation = n /\ ~v.dlg.button
        /\ ~v.dlg.applying
    BY <2>3, <2>8, ClosedDialog
  <2>10. Typed(v)
    BY <1>1, <2>6, <2>8, <2>9 DEF Typed
  <2>11. MachineBase(v, a, d)
    BY <1>1, <1>2, <1>3, <1>4, <1>5, <1>7, <2>7, <2>8, <2>9, SettledBase
  <2>12. Owing(v)
    BY <1>1, <1>2, <2>8 DEF Owing
  <2>13. DialogInv(v)
    BY <1>1, <2>7, <2>8, <2>9, NoDialog, ChecksKept
  <2> QED BY <1>1, <2>8, <2>10, <2>11, <2>12, <2>13 DEF MachineInv, v, i
<1> QED BY <1>6, <1>7

LEMMA FailedInv ==
    ASSUME NEW w, NEW a, NEW d, Typed(w), MachineInv(w, a, d), DialogInv(w), w.win.open,
           w.win.prep \notin {"None", "ReplayCatalog"}, w.task.stage = "done", ~w.task.ok
    PROVE  LET v == PreparationFailed(w, NothingPrepared(w))
           IN  Typed(v) /\ MachineInv(v, a, d) /\ DialogInv(v) /\ v.conf = w.conf
<1> DEFINE i == NothingPrepared(w)
           e == IF w.win.prep = "Settings" /\ w.dlg.open THEN ShowApplyFailure(w.dlg) ELSE w.dlg
           u == [i.win EXCEPT !.pendingNet = 0]
           c == [i EXCEPT !.win.pendingNet = 0,
                          !.dlg = IF w.win.prep = "Settings" /\ @.open THEN ShowApplyFailure(@)
                                  ELSE @]
           v == PreparationFailed(w, i)
<1>1. /\ Typed(i) /\ i.dlg = w.dlg /\ i.chk = w.chk /\ i.rt = w.rt /\ i.conf = w.conf
      /\ i.task = NoTask /\ i.win.prep = "None" /\ ~i.win.resume
      /\ i.win.open = w.win.open /\ i.win.app = w.win.app /\ i.win.net = w.win.net
      /\ i.win.pendingNet = w.win.pendingNet /\ i.win.choosing = w.win.choosing
      /\ i.win.shown = w.win.shown /\ i.win.panes = w.win.panes
  BY IdleFields
<1>2. ~Committed(w.task) /\ ~w.win.choosing /\ Drafting(w) /\ Sound(w.rt) /\ MachineBase(w, a, d)
  BY DEF Committed, MachineInv, MachineBase, Resuming
<1>3. w.rt.owed => w.win.resume /\ CanExecute(w.rt)
  BY <1>2 DEF MachineInv, Owing, Sound
<1>4. PICK resume \in BOOLEAN : resume = (w.win.resume /\ CanExecute(w.rt))
  OBVIOUS
<1> HIDE DEF i
<1>5. v = ResumeIf(c, resume)
  BY <1>4 DEF PreparationFailed
<1>6. IsWorld(i) /\ IsWindow(i.win) /\ IsDialog(w.dlg)
  BY <1>1 DEF Typed
<1>7. c = [i EXCEPT !.win = u, !.dlg = e]
  BY <1>1, <1>6 DEF IsWorld
<1>8. IsWindow(u)
  BY <1>6 DEF IsWindow
<1>9. /\ u.prep = "None" /\ u.net = w.win.net /\ ~u.choosing
      /\ u.open = w.win.open /\ u.app = w.win.app /\ u.panes = w.win.panes
  BY <1>1, <1>2, <1>6 DEF IsWindow
<1>10. IsDialog(e) /\ e.open = w.dlg.open /\ e.generation = w.dlg.generation
  BY <1>6, FailureFields
<1>17. w.win.prep # "Settings" => e = w.dlg
  OBVIOUS
<1>18. w.win.prep = "Settings" => w.dlg.applying /\ w.dlg.open /\ e = ShowApplyFailure(w.dlg)
  BY DEF DialogInv, Modal
<1> HIDE DEF u, e, c, v
<1>11. /\ IsWorld(c) /\ c.win = u /\ c.dlg = e /\ c.chk = i.chk /\ c.rt = i.rt
       /\ c.conf = i.conf /\ c.task = i.task
  BY <1>6, <1>7 DEF IsWorld
<1>12. Typed(c)
  BY <1>1, <1>8, <1>10, <1>11 DEF Typed
<1> DEFINE r == ResumeIf(c, resume)
<1>13. /\ Typed(r) /\ r.win = c.win /\ r.dlg = c.dlg /\ r.chk = c.chk
       /\ r.conf = c.conf /\ r.task = c.task
       /\ Sound(r.rt) /\ SameMachine(r.rt, c.rt) /\ ~r.rt.owed
  <2>1. Sound(c.rt) /\ (c.rt.owed => resume)
    BY <1>1, <1>2, <1>3, <1>4, <1>11
  <2> QED BY <1>12, <2>1, ResumeFields
<1> HIDE DEF r
<1>14. MachineBase(r, a, d)
  <2>1. SameMachine(r.rt, w.rt)
    BY <1>1, <1>11, <1>13 DEF SameMachine
  <2> QED BY <1>1, <1>2, <1>9, <1>10, <1>11, <1>13, <2>1, SettledBase
<1>15. DialogInv(r)
  <2>1. CASE w.win.prep = "Settings"
    BY <1>1, <1>2, <1>9, <1>11, <1>13, <1>18, <2>1, FailedDialog
  <2>2. CASE w.win.prep # "Settings"
    <3>1. ~w.dlg.open /\ ~w.dlg.button /\ ~w.dlg.applying
      BY <2>2 DEF DialogInv, Modal
    <3> QED BY <1>1, <1>9, <1>11, <1>13, <1>17, <2>2, <3>1, NoDialog, ChecksKept
  <2> QED BY <2>1, <2>2
<1>16. MachineInv(r, a, d)
  BY <1>13, <1>14 DEF MachineInv, Owing
<1> QED BY <1>1, <1>5, <1>11, <1>13, <1>15, <1>16 DEF r, v, i

LEMMA PollPreparationInv ==
    ASSUME NEW w, NEW a, NEW d, Typed(w), MachineInv(w, a, d), DialogInv(w), w.win.open
    PROVE  LET v == PollPreparation(w)
           IN  Typed(v) /\ MachineInv(v, a, d) /\ DialogInv(v) /\ v.conf = w.conf
<1>1. CASE w.win.prep = "None" \/ w.task.stage # "done"
  BY <1>1 DEF PollPreparation, FinishedTask
<1>2. CASE w.win.prep = "ReplayCatalog" /\ w.task.stage = "done"
  <2>1. PollPreparation(w) = CatalogDone(w, NothingPrepared(w))
    BY <1>2 DEF PollPreparation, FinishedTask
  <2> QED BY <1>2, <2>1, CatalogInv
<1>3. CASE w.win.prep \notin {"None", "ReplayCatalog"} /\ w.task.stage = "done" /\ w.task.ok
  <2>1. PollPreparation(w) = PreparationSucceeded(w, NothingPrepared(w))
    BY <1>3 DEF PollPreparation, FinishedTask
  <2> QED BY <1>3, <2>1, SucceededInv
<1>4. CASE w.win.prep \notin {"None", "ReplayCatalog"} /\ w.task.stage = "done" /\ ~w.task.ok
  <2>1. PollPreparation(w) = PreparationFailed(w, NothingPrepared(w))
    BY <1>4 DEF PollPreparation, FinishedTask
  <2> QED BY <1>4, <2>1, FailedInv
<1> QED BY <1>1, <1>2, <1>3, <1>4

-----------------------------------------------------------------------------
(* The invariant of the state, and the events of the GUI thread.           *)

Standing == Inv(World, applied, disk)

LEMMA WorldFields ==
  /\ IsWorld(World) /\ World.win = win /\ World.dlg = dlg /\ World.chk = chk
  /\ World.rt = rt /\ World.conf = conf /\ World.task = task
BY DEF World, IsWorld

LEMMA Becomes ==
    ASSUME NEW v, IsWorld(v), Become(v), Inv(v, applied', disk')
    PROVE  Standing'
<1>1. World' = v
  BY DEF Become, IsWorld, World
<1> QED BY <1>1 DEF Standing

LEMMA TickInv == Standing /\ Tick => Standing'
<1>1. SUFFICES ASSUME Standing, Tick PROVE Standing'
  OBVIOUS
<1> DEFINE w == World
           p == PollPreflight(w)
           q == PollPreparation(p)
           v == UpdateRuntime(q)
<1>2. /\ Typed(w) /\ MachineInv(w, applied, disk) /\ DialogInv(w) /\ w.win.open /\ ~w.conf.locked
  BY <1>1, WorldFields DEF Tick, Standing, Inv
<1>3. Become(v) /\ applied' = applied /\ disk' = disk
  BY <1>1 DEF Tick
<1> HIDE DEF w
<1>4. /\ Typed(p) /\ MachineInv(p, applied, disk) /\ DialogInv(p)
      /\ p.win = w.win /\ p.conf = w.conf
  BY <1>2, PollPreflightInv
<1> HIDE DEF p
<1>5. Typed(q) /\ MachineInv(q, applied, disk) /\ DialogInv(q) /\ q.conf = p.conf
  BY <1>2, <1>4, PollPreparationInv
<1> HIDE DEF q
<1>6. Inv(v, applied, disk)
  BY <1>2, <1>4, <1>5, UpdateInv
<1> HIDE DEF v
<1>7. IsWorld(v)
  BY <1>6 DEF Inv, Typed
<1> QED BY <1>3, <1>6, <1>7, Becomes

\* A machine that changes its state or its mode and stays the same machine.
LEMMA RuntimeBase ==
    ASSUME NEW w, NEW v, NEW a, NEW d, Typed(w), MachineInv(w, a, d),
           v.win = w.win, v.dlg.open = w.dlg.open, v.chk = w.chk, v.conf = w.conf,
           v.task = w.task, Sound(v.rt), v.rt.generation = w.rt.generation,
           v.rt.draft = w.rt.draft, IsReplay(v.rt.mode) <=> IsReplay(w.rt.mode),
           v.rt.state = "Running" =>
             w.rt.state = "Running" \/ (w.win.prep = "None" /\ ~w.win.choosing),
           v.rt.owed => w.rt.owed
    PROVE  MachineInv(v, a, d)
<1>1. Preparing(v) /\ Resuming(v) /\ Owing(v)
  BY DEF MachineInv, MachineBase, Preparing, Resuming, Owing
<1>2. Drafting(v)
  BY DEF MachineInv, MachineBase, Drafting
<1>3. Consoles(v)
  BY DEF MachineInv, MachineBase, Consoles
<1>4. Applied(v, a) /\ Ending(v, a, d)
  BY DEF MachineInv, MachineBase, Applied, Ending
<1> QED BY <1>1, <1>2, <1>3, <1>4 DEF MachineInv, MachineBase

\* What an enabled action of the main window finds.
LEMMA Idle ==
    ASSUME Standing, NEW op, Enabled(op), User
    PROVE  /\ Typed(World) /\ MachineInv(World, applied, disk) /\ DialogInv(World)
           /\ MachineBase(World, applied, disk) /\ Sound(World.rt)
           /\ World.win.open /\ World.win.prep = "None" /\ ~World.win.choosing
           /\ ~World.dlg.open /\ ~World.dlg.button /\ ~World.dlg.applying
           /\ ~World.conf.locked /\ ~World.rt.owed
<1>1. /\ Typed(World) /\ MachineInv(World, applied, disk) /\ DialogInv(World)
      /\ MachineBase(World, applied, disk) /\ Sound(World.rt)
  BY DEF Standing, Inv, MachineInv, MachineBase
<1>2. /\ World.win.open /\ World.win.prep = "None" /\ ~World.win.choosing
      /\ ~World.dlg.open /\ ~World.conf.locked
  BY WorldFields DEF Enabled, User
<1>3. ~World.dlg.button /\ ~World.dlg.applying
  BY <1>1, <1>2 DEF DialogInv, Modal
<1>4. ~World.rt.owed
  BY <1>1, <1>2 DEF MachineInv, Owing
<1> QED BY <1>1, <1>2, <1>3, <1>4

LEMMA StatusBecomes ==
    ASSUME NEW w, Typed(w), MachineInv(w, applied, disk), DialogInv(w), ~w.conf.locked,
           Become(ApplyStatus(w)), applied' = applied, disk' = disk
    PROVE  Standing'
<1>1. Inv(ApplyStatus(w), applied, disk)
  BY StatusInv
<1> DEFINE v == ApplyStatus(w)
<1> HIDE DEF v
<1>2. Inv(v, applied, disk) /\ IsWorld(v) /\ Become(v)
  BY <1>1 DEF v, Inv, Typed
<1> QED BY <1>2, Becomes

LEMMA RunInv == Standing /\ Run => Standing'
<1>1. SUFFICES ASSUME Standing, Run PROVE Standing'
  OBVIOUS
<1> DEFINE w == World
           r == RunMachine(w)
<1>2. /\ Typed(w) /\ MachineInv(w, applied, disk) /\ DialogInv(w) /\ Sound(w.rt)
      /\ w.win.prep = "None" /\ ~w.win.choosing /\ ~w.conf.locked
  BY <1>1, Idle DEF Run
<1>3. Become(ApplyStatus(r)) /\ applied' = applied /\ disk' = disk
  BY <1>1 DEF Run, KeepRest
<1> HIDE DEF w
<1>4. /\ IsWorld(r) /\ r.win = w.win /\ r.dlg = w.dlg /\ r.chk = w.chk
      /\ r.conf = w.conf /\ r.task = w.task
      /\ IsRuntime(r.rt) /\ Sound(r.rt) /\ ~r.rt.owed
      /\ r.rt.generation = w.rt.generation /\ r.rt.mode = w.rt.mode
      /\ r.rt.draft = w.rt.draft
  BY <1>2, RunFields DEF Typed
<1> HIDE DEF r
<1>5. Typed(r)
  BY <1>2, <1>4 DEF Typed
<1>6. MachineInv(r, applied, disk)
  BY <1>2, <1>4, RuntimeBase
<1>7. DialogInv(r)
  BY <1>2, <1>4, DialogFrame
<1> QED BY <1>2, <1>3, <1>4, <1>5, <1>6, <1>7, StatusBecomes

LEMMA PauseInv == Standing /\ Pause => Standing'
<1>1. SUFFICES ASSUME Standing, Pause PROVE Standing'
  OBVIOUS
<1> DEFINE w == World
           r == PauseMachine(w)
           s == [w.rt EXCEPT !.state = "Paused"]
<1>2. /\ Typed(w) /\ MachineInv(w, applied, disk) /\ DialogInv(w) /\ Sound(w.rt)
      /\ w.win.prep = "None" /\ ~w.win.choosing /\ ~w.conf.locked
  BY <1>1, Idle DEF Pause
<1>3. /\ Become(ApplyStatus(r)) /\ applied' = applied /\ disk' = disk
      /\ w.rt.state # "Unconfigured"
  BY <1>1, WorldFields DEF Pause, KeepRest
<1> HIDE DEF w
<1>4. IsWorld(w) /\ IsRuntime(w.rt)
  BY <1>2 DEF Typed
<1>5. /\ IsRuntime(s) /\ s.state = "Paused" /\ s.generation = w.rt.generation
      /\ s.mode = w.rt.mode /\ s.draft = w.rt.draft /\ s.healthy = w.rt.healthy
      /\ s.owed = w.rt.owed
  BY <1>4 DEF IsRuntime, States
<1>6. r = [w EXCEPT !.rt = s]
  BY <1>4 DEF PauseMachine, IsWorld
<1> HIDE DEF s
<1>7. Sound(s)
  BY <1>2, <1>3, <1>5 DEF Sound, CanExecute
<1>8. /\ IsWorld(r) /\ r.win = w.win /\ r.dlg = w.dlg /\ r.chk = w.chk
      /\ r.conf = w.conf /\ r.task = w.task /\ r.rt = s
  BY <1>4, <1>6 DEF IsWorld
<1> HIDE DEF r
<1>9. Typed(r)
  BY <1>2, <1>5, <1>8 DEF Typed
<1>10. MachineInv(r, applied, disk)
  BY <1>2, <1>5, <1>7, <1>8, RuntimeBase
<1>11. DialogInv(r)
  BY <1>2, <1>8, DialogFrame
<1> QED BY <1>2, <1>3, <1>8, <1>9, <1>10, <1>11, StatusBecomes

LEMMA StopRecordingInv == Standing /\ StopRecording => Standing'
<1>1. SUFFICES ASSUME Standing, StopRecording PROVE Standing'
  OBVIOUS
<1> DEFINE w == World
           s == [w.rt EXCEPT !.mode = "RecordCompleted"]
           r == [w EXCEPT !.rt.mode = "RecordCompleted"]
<1>2. /\ Typed(w) /\ MachineInv(w, applied, disk) /\ DialogInv(w) /\ Sound(w.rt)
      /\ w.win.prep = "None" /\ ~w.win.choosing /\ ~w.conf.locked
  BY <1>1, Idle DEF StopRecording
<1>3. applied' = applied /\ disk' = disk
  BY <1>1 DEF StopRecording
<1>4. CASE rt.mode # "Recording"
  <2>1. Become(ApplyStatus(w))
    BY <1>1, <1>4 DEF StopRecording
  <2> HIDE DEF w
  <2> QED BY <1>2, <1>3, <2>1, StatusBecomes
<1>5. CASE rt.mode = "Recording"
  <2>1. Become(ApplyStatus(r)) /\ w.rt.mode = "Recording"
    BY <1>1, <1>5, WorldFields DEF StopRecording
  <2> HIDE DEF w
  <2>2. IsWorld(w) /\ IsRuntime(w.rt)
    BY <1>2 DEF Typed
  <2>3. /\ IsRuntime(s) /\ s.state = w.rt.state /\ s.generation = w.rt.generation
        /\ s.mode = "RecordCompleted" /\ s.draft = w.rt.draft /\ s.healthy = w.rt.healthy
        /\ s.owed = w.rt.owed
    BY <2>2 DEF IsRuntime, SessionModes
  <2>4. r = [w EXCEPT !.rt = s]
    BY <2>2 DEF IsWorld
  <2> HIDE DEF s
  <2>5. Sound(s)
    BY <1>2, <2>1, <2>3 DEF Sound, CanExecute
  <2>6. /\ IsWorld(r) /\ r.win = w.win /\ r.dlg = w.dlg /\ r.chk = w.chk
        /\ r.conf = w.conf /\ r.task = w.task /\ r.rt = s
    BY <2>2, <2>4 DEF IsWorld
  <2> HIDE DEF r
  <2>7. Typed(r)
    BY <1>2, <2>3, <2>6 DEF Typed
  <2>8. MachineInv(r, applied, disk)
    BY <1>2, <2>1, <2>3, <2>5, <2>6, RuntimeBase DEF IsReplay
  <2>9. DialogInv(r)
    BY <1>2, <2>6, DialogFrame
  <2> QED BY <1>2, <1>3, <2>1, <2>6, <2>7, <2>8, <2>9, StatusBecomes
<1> QED BY <1>4, <1>5

\* begin_preparation from the main window, for anything but the settings.
LEMMA BeginInv ==
    ASSUME NEW w, NEW prep \in Preparations \ {"None", "Settings"}, NEW stops \in BOOLEAN,
           NEW kind \in Kinds, NEW net \in {0} \cup Nets,
           Typed(w), MachineInv(w, applied, disk), DialogInv(w), w.win.open,
           w.win.prep = "None", ~w.win.choosing, ~w.dlg.open, ~w.rt.owed,
           kind \in KindsOf(prep), kind = "StopReplay" => net = w.win.net,
           kind = "ReplaySnapshot" => w.rt.state # "Running",
           Become(BeginPreparation(w, prep, stops, kind, net)),
           applied' = applied, disk' = disk
    PROVE  Standing'
<1> DEFINE v == BeginPreparation(w, prep, stops, kind, net)
<1>1. MachineBase(w, applied, disk) /\ Sound(w.rt) /\ ~w.dlg.button /\ ~w.dlg.applying
  BY DEF MachineInv, MachineBase, DialogInv, Modal
<1>2. /\ Typed(v) /\ v.dlg = w.dlg /\ v.chk = w.chk /\ v.conf = w.conf
      /\ v.task = NewTask(kind, net) /\ v.win.prep = prep
      /\ (v.win.resume <=> w.rt.state = "Running")
      /\ v.win.open = w.win.open /\ v.win.app = w.win.app /\ v.win.net = w.win.net
      /\ v.win.pendingNet = w.win.pendingNet /\ v.win.choosing = w.win.choosing
      /\ v.win.shown = w.win.shown /\ v.win.panes = w.win.panes
      /\ Sound(v.rt) /\ SameMachine(v.rt, w.rt) /\ v.rt.state # "Running"
      /\ v.rt.owed => w.rt.owed \/ w.rt.state = "Running"
  <2>1. prep \in Preparations
    OBVIOUS
  <2> QED BY ONLY <1>1, <2>1, Typed(w), w.win.prep = "None", stops \in BOOLEAN, kind \in Kinds,
                  net \in {0} \cup Nets, BeginFields
<1>3. Become(v)
  OBVIOUS
<1> HIDE DEF v
<1>4. kind # "Settings"
  BY DEF KindsOf
<1>5. MachineInv(v, applied, disk)
  <2>1. kind \in KindsOf(v.win.prep) /\ v.win.prep \in Preparations \ {"None"}
    BY <1>2
  <2>2. v.rt.owed => v.win.resume /\ kind # "ReplaySnapshot"
    BY <1>2
  <2> QED BY <1>1, <1>2, <1>4, <2>1, <2>2, BegunBase
<1>6. DialogInv(v)
  BY <1>1, <1>2, NoDialog, ChecksKept
<1>7. Fresh(v)
  BY <1>2 DEF Fresh
<1>8. Inv(v, applied, disk) /\ IsWorld(v)
  BY <1>2, <1>5, <1>6, <1>7 DEF Inv, Typed
<1> QED BY <1>3, <1>8, Becomes

LEMMA RunWithRecordInv == Standing /\ RunWithRecord => Standing'
<1>1. SUFFICES ASSUME Standing, RunWithRecord PROVE Standing'
  OBVIOUS
<1> DEFINE w == World
<1>2. /\ Typed(w) /\ MachineInv(w, applied, disk) /\ DialogInv(w) /\ w.win.open
      /\ w.win.prep = "None" /\ ~w.win.choosing /\ ~w.dlg.open /\ ~w.rt.owed
  BY <1>1, Idle DEF RunWithRecord
<1>3. win.net \in {0} \cup Nets
  BY <1>2, WorldFields DEF Typed, IsWindow
<1>4. /\ Become(BeginPreparation(w, "Recording", FALSE, "Recording", win.net))
      /\ applied' = applied /\ disk' = disk
  BY <1>1 DEF RunWithRecord, KeepRest
<1>5. "Recording" \in KindsOf("Recording") /\ "Recording" \in Kinds
      /\ "Recording" \in Preparations \ {"None", "Settings"}
  BY DEF KindsOf, Kinds, Preparations
<1> HIDE DEF w
<1>6. PICK no \in BOOLEAN : no = FALSE
  OBVIOUS
<1>7. Become(BeginPreparation(w, "Recording", no, "Recording", win.net))
  BY <1>4, <1>6
<1> QED BY ONLY <1>2, <1>3, <1>4, <1>5, <1>7, no \in BOOLEAN, BeginInv

LEMMA ResetInv == Standing /\ Reset => Standing'
<1>1. SUFFICES ASSUME Standing, Reset PROVE Standing'
  OBVIOUS
<1> DEFINE w == World
<1>2. /\ Typed(w) /\ MachineInv(w, applied, disk) /\ DialogInv(w) /\ w.win.open
      /\ w.win.prep = "None" /\ ~w.win.choosing /\ ~w.dlg.open /\ ~w.rt.owed
  BY <1>1, Idle DEF Reset
<1>4. /\ Become(BeginPreparation(w, "Reset", FALSE, "Reset", 0))
      /\ applied' = applied /\ disk' = disk
  BY <1>1 DEF Reset, KeepRest
<1>5. "Reset" \in KindsOf("Reset") /\ "Reset" \in Kinds /\ 0 \in {0} \cup Nets
      /\ "Reset" \in Preparations \ {"None", "Settings"}
  BY DEF KindsOf, Kinds, Preparations
<1> HIDE DEF w
<1>6. PICK no \in BOOLEAN : no = FALSE
  OBVIOUS
<1>7. Become(BeginPreparation(w, "Reset", no, "Reset", 0))
  BY <1>4, <1>6
<1> QED BY ONLY <1>2, <1>4, <1>5, <1>7, no \in BOOLEAN, BeginInv

\* A snapshot is asked for while the window shows a paused machine: nothing is resumed.
LEMMA CreateReplaySnapshotInv == Standing /\ CreateReplaySnapshot => Standing'
<1>1. SUFFICES ASSUME Standing, CreateReplaySnapshot PROVE Standing'
  OBVIOUS
<1> DEFINE w == World
<1>2. /\ Typed(w) /\ MachineInv(w, applied, disk) /\ DialogInv(w) /\ w.win.open
      /\ w.win.prep = "None" /\ ~w.win.choosing /\ ~w.dlg.open /\ ~w.rt.owed
  BY <1>1, Idle DEF CreateReplaySnapshot
<1>3. w.rt.state # "Running"
  <2>1. w.win.shown.state = "Paused"
    BY <1>1, WorldFields DEF CreateReplaySnapshot, Enabled
  <2> QED BY <1>1, <1>2, <2>1 DEF Standing, Inv, Fresh
<1>4. /\ Become(BeginPreparation(w, "ReplaySnapshot", FALSE, "ReplaySnapshot", 0))
      /\ applied' = applied /\ disk' = disk
  BY <1>1 DEF CreateReplaySnapshot, KeepRest
<1>5. "ReplaySnapshot" \in KindsOf("ReplaySnapshot") /\ "ReplaySnapshot" \in Kinds
      /\ 0 \in {0} \cup Nets /\ "ReplaySnapshot" \in Preparations \ {"None", "Settings"}
  BY DEF KindsOf, Kinds, Preparations
<1> HIDE DEF w
<1>6. PICK no \in BOOLEAN : no = FALSE
  OBVIOUS
<1>7. Become(BeginPreparation(w, "ReplaySnapshot", no, "ReplaySnapshot", 0))
  BY <1>4, <1>6
<1> QED BY ONLY <1>2, <1>3, <1>4, <1>5, <1>7, no \in BOOLEAN, BeginInv

LEMMA StopReplayInv == Standing /\ StopReplay => Standing'
<1>1. SUFFICES ASSUME Standing, StopReplay PROVE Standing'
  OBVIOUS
<1> DEFINE w == World
<1>2. /\ Typed(w) /\ MachineInv(w, applied, disk) /\ DialogInv(w) /\ w.win.open
      /\ w.win.prep = "None" /\ ~w.win.choosing /\ ~w.dlg.open /\ ~w.rt.owed
  BY <1>1, Idle DEF StopReplay
<1>3. win.net \in {0} \cup Nets /\ w.win.net = win.net
  BY <1>2, WorldFields DEF Typed, IsWindow
<1>4. /\ Become(BeginPreparation(w, "Replay", TRUE, "StopReplay", win.net))
      /\ applied' = applied /\ disk' = disk
  BY <1>1 DEF StopReplay, KeepRest
<1>5. "StopReplay" \in KindsOf("Replay") /\ "StopReplay" \in Kinds
      /\ "Replay" \in Preparations \ {"None", "Settings"}
  BY DEF KindsOf, Kinds, Preparations
<1> HIDE DEF w
<1>6. PICK yes \in BOOLEAN : yes = TRUE
  OBVIOUS
<1>7. Become(BeginPreparation(w, "Replay", yes, "StopReplay", win.net))
  BY <1>4, <1>6
<1> QED BY ONLY <1>2, <1>3, <1>4, <1>5, <1>7, yes \in BOOLEAN, BeginInv

LEMMA OpenReplayInv == Standing /\ OpenReplay => Standing'
<1>1. SUFFICES ASSUME Standing, OpenReplay PROVE Standing'
  OBVIOUS
<1>8. PICK running \in BOOLEAN : running = (rt.state = "Running")
  OBVIOUS
<1> DEFINE w == World
           i == Interrupt(w)
           u == [i.win EXCEPT !.prep = "ReplayCatalog", !.resume = running]
           t == NewTask("ReplayCatalog", 0)
           v == [i EXCEPT !.win.prep = "ReplayCatalog", !.win.resume = running, !.task = t]
<1>2. /\ Typed(w) /\ MachineInv(w, applied, disk) /\ DialogInv(w) /\ w.win.open
      /\ MachineBase(w, applied, disk) /\ Sound(w.rt)
      /\ w.win.prep = "None" /\ ~w.win.choosing /\ ~w.dlg.open /\ ~w.rt.owed
      /\ ~w.dlg.button /\ ~w.dlg.applying
  BY <1>1, Idle DEF OpenReplay
<1>3. Become(v) /\ applied' = applied /\ disk' = disk
  BY <1>1, <1>8 DEF OpenReplay, KeepRest
<1>4. running <=> w.rt.state = "Running"
  BY <1>8, WorldFields
<1> HIDE DEF w
<1>5. /\ IsWorld(i) /\ i.win = w.win /\ i.dlg = w.dlg /\ i.chk = w.chk
      /\ i.conf = w.conf /\ i.task = w.task
      /\ IsRuntime(i.rt) /\ Sound(i.rt) /\ i.rt.state # "Running"
      /\ i.rt.owed => w.rt.owed \/ w.rt.state = "Running"
      /\ SameMachine(i.rt, w.rt)
  BY <1>2, InterruptFields DEF SameMachine, Typed
<1> HIDE DEF i, t
<1>6. v = [i EXCEPT !.win = u, !.task = t]
  BY <1>5 DEF IsWorld
<1>7. IsWindow(u) /\ IsWindow(w.win)
  BY <1>2, <1>5 DEF IsWindow, Typed, Preparations
<1>9. /\ u.prep = "ReplayCatalog" /\ u.resume = running
      /\ u.open = w.win.open /\ u.app = w.win.app /\ u.net = w.win.net
      /\ u.choosing = w.win.choosing /\ u.panes = w.win.panes
  BY <1>5, <1>7 DEF IsWindow
<1> HIDE DEF u, v
<1>10. /\ IsWorld(v) /\ v.win = u /\ v.dlg = w.dlg /\ v.chk = w.chk /\ v.rt = i.rt
       /\ v.conf = w.conf /\ v.task = t
  BY <1>5, <1>6 DEF IsWorld
<1>11. "ReplayCatalog" \in KindsOf(v.win.prep) /\ v.win.prep \in Preparations \ {"None"}
       /\ "ReplayCatalog" \in Kinds /\ 0 \in {0} \cup Nets
  BY <1>9, <1>10 DEF KindsOf, Preparations, Kinds
<1>12. IsTask(t)
  BY <1>11, NewTaskType DEF t
<1>13. Typed(v)
  BY <1>2, <1>5, <1>7, <1>10, <1>12 DEF Typed
<1>14. MachineInv(v, applied, disk)
  <2>1. v.rt.owed => v.win.resume
    BY <1>2, <1>4, <1>5, <1>9, <1>10
  <2>2. v.task = NewTask("ReplayCatalog", 0)
    BY <1>10 DEF t
  <2> QED BY ZenonT(60), <1>2, <1>5, <1>9, <1>10, <1>11, <2>1, <2>2, BegunBase
<1>15. DialogInv(v)
  BY <1>2, <1>9, <1>10, NoDialog, ChecksKept
<1>16. Inv(v, applied, disk) /\ IsWorld(v)
  BY <1>9, <1>10, <1>13, <1>14, <1>15 DEF Inv, Fresh
<1> QED BY <1>3, <1>16, Becomes

\* A world in which the choice of a starting point is over.
LEMMA ChosenFields ==
    ASSUME NEW w, Typed(w)
    PROVE  LET v == [w EXCEPT !.win.choosing = FALSE, !.win.resume = FALSE]
           IN  /\ Typed(v) /\ v.dlg = w.dlg /\ v.chk = w.chk /\ v.rt = w.rt /\ v.conf = w.conf
               /\ v.task = w.task /\ ~v.win.choosing /\ ~v.win.resume
               /\ v.win.prep = w.win.prep /\ v.win.open = w.win.open /\ v.win.app = w.win.app
               /\ v.win.net = w.win.net /\ v.win.pendingNet = w.win.pendingNet
               /\ v.win.shown = w.win.shown /\ v.win.panes = w.win.panes
<1> DEFINE u == [w.win EXCEPT !.choosing = FALSE, !.resume = FALSE]
           v == [w EXCEPT !.win.choosing = FALSE, !.win.resume = FALSE]
<1>1. IsWorld(w) /\ IsWindow(w.win)
  BY DEF Typed
<1>2. v = [w EXCEPT !.win = u]
  BY <1>1 DEF IsWorld
<1>3. IsWindow(u)
  BY <1>1 DEF IsWindow
<1>4. /\ ~u.choosing /\ ~u.resume /\ u.prep = w.win.prep /\ u.open = w.win.open
      /\ u.app = w.win.app /\ u.net = w.win.net /\ u.pendingNet = w.win.pendingNet
      /\ u.shown = w.win.shown /\ u.panes = w.win.panes
  BY <1>1 DEF IsWindow
<1> HIDE DEF u, v
<1>5. /\ IsWorld(v) /\ v.win = u /\ v.dlg = w.dlg /\ v.chk = w.chk /\ v.rt = w.rt
      /\ v.conf = w.conf /\ v.task = w.task
  BY <1>1, <1>2 DEF IsWorld
<1> QED BY <1>3, <1>4, <1>5 DEF Typed, v

LEMMA ChooseStartInv == ASSUME NEW accepted \in BOOLEAN PROVE Standing /\ ChooseStart(accepted) => Standing'
<1>1. SUFFICES ASSUME Standing, ChooseStart(accepted) PROVE Standing'
  OBVIOUS
<1> DEFINE w == World
           c == [w EXCEPT !.win.choosing = FALSE, !.win.resume = FALSE]
<1>2. /\ Typed(w) /\ MachineInv(w, applied, disk) /\ DialogInv(w)
      /\ w.win.open /\ w.win.choosing /\ ~w.conf.locked
      /\ applied' = applied /\ disk' = disk
  BY <1>1, WorldFields DEF ChooseStart, Standing, Inv, User, KeepRest
<1>3. Become(IF accepted THEN BeginReplay(c, w.win.resume)
             ELSE ApplyStatus(ResumeIf(c, w.win.resume)))
  BY <1>1, WorldFields DEF ChooseStart
<1> HIDE DEF w
<1>4. /\ Typed(c) /\ c.dlg = w.dlg /\ c.chk = w.chk /\ c.rt = w.rt /\ c.conf = w.conf
      /\ c.task = w.task /\ ~c.win.choosing /\ ~c.win.resume
      /\ c.win.prep = w.win.prep /\ c.win.open = w.win.open /\ c.win.app = w.win.app
      /\ c.win.net = w.win.net /\ c.win.pendingNet = w.win.pendingNet
      /\ c.win.shown = w.win.shown /\ c.win.panes = w.win.panes
  BY <1>2, ChosenFields
<1> HIDE DEF c
<1>5. /\ w.win.prep = "None" /\ w.rt.state # "Running" /\ w.win.resume \in BOOLEAN
      /\ MachineBase(w, applied, disk) /\ Sound(w.rt)
  BY <1>2 DEF MachineInv, MachineBase, Resuming, Typed, IsWindow
<1>6. w.rt.owed => w.win.resume
  BY <1>2 DEF MachineInv, Owing
<1>7. ~w.dlg.open /\ ~w.dlg.button /\ ~w.dlg.applying
  BY <1>2, <1>5 DEF DialogInv, Modal
<1>8. MachineBase(c, applied, disk)
  <2>1. Preparing(c) /\ Resuming(c) /\ Drafting(c)
    BY <1>4, <1>5 DEF MachineBase, Preparing, Resuming, Drafting
  <2>2. Consoles(c) /\ Applied(c, applied) /\ Ending(c, applied, disk) /\ Sound(c.rt)
    BY <1>4, <1>5 DEF MachineBase, Consoles, Applied, Ending
  <2> QED BY <2>1, <2>2 DEF MachineBase
<1>9. CASE accepted
  <2> DEFINE b == BeginReplay(c, w.win.resume)
  <2>1. Become(b)
    BY <1>3, <1>9
  <2>2. /\ Typed(b) /\ b.dlg = c.dlg /\ b.chk = c.chk /\ b.conf = c.conf
        /\ b.task = NewTask("OpenReplay", 0) /\ b.win.prep = "Replay"
        /\ b.win.resume = w.win.resume
        /\ b.win.open = c.win.open /\ b.win.app = c.win.app /\ b.win.net = c.win.net
        /\ b.win.pendingNet = c.win.pendingNet /\ b.win.choosing = c.win.choosing
        /\ b.win.panes = c.win.panes
        /\ Sound(b.rt) /\ SameMachine(b.rt, c.rt) /\ b.rt.state # "Running"
        /\ b.rt.owed => c.rt.owed \/ c.rt.state = "Running"
    BY <1>4, <1>5, ReplayFields
  <2> HIDE DEF b
  <2>3. MachineInv(b, applied, disk)
    <3>1. "OpenReplay" \in KindsOf(b.win.prep) /\ b.win.prep \in Preparations \ {"None"}
      BY <2>2 DEF KindsOf, Preparations
    <3>2. b.rt.owed => b.win.resume
      BY <1>4, <1>5, <1>6, <2>2
    <3> QED BY <1>2, <1>4, <1>5, <1>8, <2>2, <3>1, <3>2, BegunBase
  <2>4. DialogInv(b)
    BY <1>2, <1>4, <1>7, <2>2, NoDialog, ChecksKept
  <2>5. Inv(b, applied, disk) /\ IsWorld(b)
    BY <2>2, <2>3, <2>4 DEF Inv, Fresh, Typed
  <2> QED BY <1>2, <2>1, <2>5, Becomes
<1>10. CASE ~accepted
  <2> DEFINE r == ResumeIf(c, w.win.resume)
  <2>1. Become(ApplyStatus(r))
    BY <1>3, <1>10
  <2>2. /\ Typed(r) /\ r.win = c.win /\ r.dlg = c.dlg /\ r.chk = c.chk
        /\ r.conf = c.conf /\ r.task = c.task
        /\ Sound(r.rt) /\ SameMachine(r.rt, c.rt) /\ ~r.rt.owed
    BY <1>4, <1>5, <1>6, ResumeFields
  <2> HIDE DEF r
  <2>3. MachineInv(r, applied, disk)
    <3>1. Preparing(r) /\ Resuming(r) /\ Drafting(r) /\ Owing(r)
      BY <1>4, <1>5, <1>8, <2>2 DEF MachineBase, Preparing, Resuming, Drafting, Owing
    <3>2. Consoles(r) /\ Applied(r, applied) /\ Ending(r, applied, disk)
      BY <1>4, <1>5, <1>8, <2>2 DEF MachineBase, Consoles, Applied, Ending, SameMachine
    <3> QED BY <2>2, <3>1, <3>2 DEF MachineInv, MachineBase
  <2>4. DialogInv(r)
    BY <1>2, <1>4, <1>5, <1>7, <2>2, NoDialog, ChecksKept
  <2> QED BY <1>2, <1>4, <2>1, <2>2, <2>3, <2>4, StatusBecomes
<1> QED BY <1>9, <1>10

-----------------------------------------------------------------------------
(* The settings dialog.                                                    *)

\* The machine does not depend on what is edited while nothing is prepared.
LEMMA EditingBase ==
    ASSUME NEW w, NEW v, NEW a, NEW d, MachineInv(w, a, d), w.win.prep = "None", w.win.open,
           v.win.open = w.win.open, v.win.app = w.win.app, v.win.net = w.win.net,
           v.win.prep = w.win.prep, v.win.choosing = w.win.choosing,
           v.win.resume = w.win.resume, v.win.panes = w.win.panes,
           v.rt = w.rt, v.task = w.task, v.conf.committed = w.conf.committed,
           v.conf.locked = w.conf.locked, v.conf.frontend = w.conf.frontend,
           ~v.conf.editing.applying, v.conf.editing.active <=> v.dlg.open
    PROVE  MachineInv(v, a, d)
<1>1. w.task.kind = "none" /\ w.task.stage = "none"
  BY DEF MachineInv, MachineBase, Preparing, KindsOf
<1>2. Preparing(v) /\ Resuming(v) /\ Owing(v)
  BY DEF MachineInv, MachineBase, Preparing, Resuming, Owing
<1>3. Drafting(v)
  BY <1>1 DEF MachineInv, MachineBase, Drafting, Committed, Building
<1>4. Consoles(v)
  BY DEF MachineInv, MachineBase, Consoles
<1>5. Applied(v, a) /\ Ending(v, a, d)
  BY <1>1 DEF MachineInv, MachineBase, Applied, Ending, Committing, Committed
<1> QED BY <1>2, <1>3, <1>4, <1>5 DEF MachineInv, MachineBase

LEMMA ViewType ==
    ASSUME NEW draft, NEW n \in Nat
    PROVE  /\ ViewOf(draft, n) \in [success : BOOLEAN, revision : Nat, errors : BOOLEAN]
           /\ ViewOf(draft, n).success /\ ViewOf(draft, n).revision = n
BY DEF ViewOf, View

\* A dialog that has just opened has heard nothing, and no check is its own.
LEMMA OpenedInv ==
    ASSUME NEW w, NEW v, NEW draft, NEW net \in Nets, Typed(w), DialogInv(w),
           v.dlg = Opened(w.dlg.generation + 1, ViewOf(draft, 0), net), v.chk = w.chk,
           v.conf.editing = EditingOf(draft), v.win.open, ~v.win.choosing, v.win.prep = "None"
    PROVE  DialogInv(v)
<1> DEFINE n == w.dlg.generation + 1
           e == Opened(n, ViewOf(draft, 0), net)
<1>1. n \in Nat /\ w.dlg.generation \in Nat /\ w.chk.generation \in Nat /\ w.chk.queuedGeneration \in Nat
  BY DEF Typed, IsDialog, IsCheck
<1>2. /\ ViewOf(draft, 0) \in [success : BOOLEAN, revision : Nat, errors : BOOLEAN]
      /\ ViewOf(draft, 0).success
  BY ViewType
<1>9. w.chk.generation < n /\ w.chk.queuedGeneration < n
  BY <1>1 DEF DialogInv, Checking
<1> HIDE DEF n
<1>3. /\ e.open /\ e.generation = n /\ e.view = ViewOf(draft, 0) /\ e.net = net
      /\ e.rebuild /\ ~e.pending /\ ~e.timer /\ ~e.applying /\ ~e.button
      /\ e.result = NoResult /\ ~e.netCurrent
  BY <1>1, <1>2, OpenedDialog
<1> HIDE DEF e
<1>4. v.dlg = e
  BY DEF e, n
<1>5. net # 0 /\ v.conf.editing.draft = draft /\ v.conf.editing.revision = 0
  BY FrontendAssumption DEF Nets, EditingOf
<1>6. ~ForThis(v) /\ ~QueuedForThis(v)
  BY <1>1, <1>3, <1>4, <1>9 DEF ForThis, QueuedForThis
<1>7. Modal(v) /\ Shows(v) /\ Buttons(v) /\ Found(v) /\ Hears(v)
  BY <1>2, <1>3, <1>4, <1>5 DEF Modal, Shows, Buttons, Found, Hears, NoResult
<1>8. Checking(v) /\ Spared(v)
  BY <1>1, <1>3, <1>4, <1>6, <1>9 DEF DialogInv, Checking, Spared
<1> QED BY <1>7, <1>8 DEF DialogInv

LEMMA ShowSettingsInv == Standing /\ ShowSettings => Standing'
<1>1. SUFFICES ASSUME Standing, ShowSettings PROVE Standing'
  OBVIOUS
<1> DEFINE w == World
           n == w.dlg.generation + 1
           e == Opened(n, ViewOf(conf.committed, 0), win.net)
           c == [w.conf EXCEPT !.editing = EditingOf(conf.committed)]
           v == [w EXCEPT !.dlg = Opened(@.generation + 1, ViewOf(conf.committed, 0), win.net),
                          !.conf.editing = EditingOf(conf.committed)]
<1>2. /\ Typed(w) /\ MachineInv(w, applied, disk) /\ DialogInv(w)
      /\ MachineBase(w, applied, disk)
      /\ w.win.open /\ w.win.prep = "None" /\ ~w.win.choosing /\ ~w.dlg.open
  BY <1>1, Idle DEF ShowSettings
<1>3. ~w.conf.editing.active /\ ~w.conf.editing.applying
  BY <1>2 DEF MachineBase, Preparing, KindsOf, Drafting
<1>4. Become(v) /\ applied' = applied /\ disk' = disk
  BY <1>1, <1>3, WorldFields DEF ShowSettings, KeepRest
<1>5. /\ win.net \in Nets /\ IsWorld(w) /\ IsConf(w.conf) /\ IsDialog(w.dlg) /\ n \in Nat
  BY <1>2, WorldFields DEF Typed, IsWindow, IsDialog
<1>6. v = [w EXCEPT !.dlg = e, !.conf = c]
  BY <1>5 DEF IsWorld
<1> HIDE DEF w
<1>7. IsConf(c)
  BY <1>5 DEF IsConf, EditingOf
<1>8. /\ c.committed = w.conf.committed /\ c.locked = w.conf.locked /\ c.frontend = w.conf.frontend
      /\ c.editing = EditingOf(conf.committed)
  BY <1>5 DEF IsConf
<1>9. IsDialog(e) /\ e.open
  <2>1. ViewOf(conf.committed, 0) \in [success : BOOLEAN, revision : Nat, errors : BOOLEAN]
    BY ViewType
  <2> HIDE DEF n
  <2> QED BY <1>5, <2>1, OpenedDialog
<1> HIDE DEF e, c, v
<1>10. /\ IsWorld(v) /\ v.win = w.win /\ v.dlg = e /\ v.chk = w.chk /\ v.rt = w.rt
       /\ v.conf = c /\ v.task = w.task
  BY <1>5, <1>6 DEF IsWorld
<1>11. Typed(v)
  BY <1>2, <1>7, <1>9, <1>10 DEF Typed
<1>12. MachineInv(v, applied, disk)
  <2>1. ~v.conf.editing.applying /\ v.conf.editing.active
    BY <1>8, <1>10 DEF EditingOf
  <2> QED BY <1>2, <1>8, <1>9, <1>10, <2>1, EditingBase
<1>13. DialogInv(v)
  <2>1. v.dlg = Opened(w.dlg.generation + 1, ViewOf(conf.committed, 0), win.net)
    BY <1>10 DEF e, n
  <2>2. v.conf.editing = EditingOf(conf.committed)
    BY <1>8, <1>10
  <2> QED BY <1>2, <1>5, <1>10, <2>1, <2>2, OpenedInv
<1>14. Fresh(v)
  BY <1>1, <1>10 DEF Standing, Inv, Fresh, w
<1> QED BY <1>4, <1>10, <1>11, <1>12, <1>13, <1>14, Becomes DEF Inv

\* The end of an edit that is not being applied.
LEMMA CancelFields ==
    ASSUME NEW w, IsWorld(w), IsConf(w.conf), ~w.conf.editing.applying
    PROVE  LET v == CancelEdit(w)
           IN  /\ IsWorld(v) /\ v.win = w.win /\ v.dlg = w.dlg /\ v.chk = w.chk /\ v.rt = w.rt
               /\ v.task = w.task /\ IsConf(v.conf)
               /\ v.conf.committed = w.conf.committed /\ v.conf.locked = w.conf.locked
               /\ v.conf.frontend = w.conf.frontend
               /\ ~v.conf.editing.active /\ ~v.conf.editing.applying
<1> DEFINE c == [w.conf EXCEPT !.editing = NotEditing]
<1>1. CASE w.conf.editing.active
  <2>1. CancelEdit(w) = [w EXCEPT !.conf = c]
    BY <1>1 DEF CancelEdit, IsWorld
  <2>2. IsConf(c)
    BY DEF IsConf, NotEditing
  <2>3. /\ c.committed = w.conf.committed /\ c.locked = w.conf.locked
        /\ c.frontend = w.conf.frontend /\ ~c.editing.active /\ ~c.editing.applying
    BY DEF IsConf, NotEditing
  <2> HIDE DEF c
  <2> QED BY <2>1, <2>2, <2>3 DEF IsWorld
<1>2. CASE ~w.conf.editing.active
  BY <1>2 DEF CancelEdit
<1> QED BY <1>1, <1>2

\* A dialog that closes leaves the machine as it was.
LEMMA ClosesInv ==
    ASSUME NEW c, Standing, dlg.open, ~dlg.applying, win.open,
           IsWorld(c), c.dlg = Closed(dlg.generation), c.win = [win EXCEPT !.pendingNet = 0],
           IsCheck(c.chk), c.chk.stage = chk.stage, c.chk.generation = chk.generation,
           c.chk.queuedGeneration = chk.queuedGeneration, c.chk.queued => chk.queued,
           c.chk.netError = chk.netError, c.chk.net = chk.net,
           c.rt = rt, c.conf = conf, c.task = task,
           Become(CancelEdit(c)), applied' = applied, disk' = disk
    PROVE  Standing'
<1> DEFINE v == CancelEdit(c)
           w == World
<1>1. /\ Typed(w) /\ MachineInv(w, applied, disk) /\ DialogInv(w)
      /\ MachineBase(w, applied, disk) /\ Fresh(w)
  BY DEF Standing, Inv, MachineInv
<1>2. /\ w.win.prep = "None" /\ ~w.conf.editing.applying
  BY <1>1, WorldFields, DialogEdits DEF MachineBase, DialogInv
<1>3. IsConf(c.conf) /\ ~c.conf.editing.applying /\ IsWindow(win) /\ dlg.generation \in Nat
  BY <1>1, <1>2, WorldFields DEF Typed, IsDialog
<1>4. /\ IsWorld(v) /\ v.win = c.win /\ v.dlg = c.dlg /\ v.chk = c.chk /\ v.rt = c.rt
      /\ v.task = c.task /\ IsConf(v.conf)
      /\ v.conf.committed = c.conf.committed /\ v.conf.locked = c.conf.locked
      /\ v.conf.frontend = c.conf.frontend
      /\ ~v.conf.editing.active /\ ~v.conf.editing.applying
  BY <1>3, CancelFields
<1>5. Become(v)
  OBVIOUS
<1> HIDE DEF v
<1>6. /\ IsDialog(v.dlg) /\ ~v.dlg.open /\ v.dlg.generation = dlg.generation
      /\ ~v.dlg.button /\ ~v.dlg.applying
  BY <1>3, <1>4, ClosedDialog
<1>7. /\ IsWindow(v.win) /\ v.win.open = win.open /\ v.win.app = win.app /\ v.win.net = win.net
      /\ v.win.prep = win.prep /\ v.win.choosing = win.choosing
      /\ v.win.resume = win.resume /\ v.win.panes = win.panes /\ v.win.shown = win.shown
  <2>1. v.win = [win EXCEPT !.pendingNet = 0]
    BY <1>4
  <2> QED BY <1>3, <2>1 DEF IsWindow
<1>8. Typed(v)
  BY <1>1, <1>4, <1>6, <1>7, WorldFields DEF Typed
<1>9. MachineInv(v, applied, disk)
  <2>1. /\ w.win.open /\ v.win.open = w.win.open /\ v.win.app = w.win.app
        /\ v.win.net = w.win.net /\ v.win.prep = w.win.prep
        /\ v.win.choosing = w.win.choosing /\ v.win.resume = w.win.resume
        /\ v.win.panes = w.win.panes
    BY <1>7, WorldFields
  <2>2. /\ v.rt = w.rt /\ v.task = w.task /\ v.conf.committed = w.conf.committed
        /\ v.conf.locked = w.conf.locked /\ v.conf.frontend = w.conf.frontend
    BY <1>4, WorldFields
  <2> HIDE DEF w
  <2> QED BY <1>1, <1>2, <1>4, <1>6, <2>1, <2>2, EditingBase
<1>10. DialogInv(v)
  <2>1. KeepsChecks(v)
    BY <1>1, <1>4, <1>6, WorldFields DEF DialogInv, Checking, KeepsChecks
  <2>2. v.win.choosing => v.win.open
    BY <1>7
  <2>3. v.win.prep # "Settings"
    BY <1>2, <1>7, WorldFields
  <2> QED BY <1>6, <2>1, <2>2, <2>3, NoDialog
<1>11. Fresh(v)
  BY <1>1, <1>4, <1>7, WorldFields DEF Fresh
<1> QED BY <1>4, <1>5, <1>8, <1>9, <1>10, <1>11, Becomes DEF Inv

LEMMA CancelSettingsInv == Standing /\ CancelSettings => Standing'
<1>1. SUFFICES ASSUME Standing, CancelSettings PROVE Standing'
  OBVIOUS
<1>2. PICK still \in BOOLEAN : still = (chk.queued /\ chk.queuedGeneration # dlg.generation)
  OBVIOUS
<1> DEFINE k == [chk EXCEPT !.queued = still]
           u == [win EXCEPT !.pendingNet = 0]
           c == [World EXCEPT
                   !.dlg = Closed(@.generation), !.win.pendingNet = 0,
                   !.chk.queued = @ /\ chk.queuedGeneration # dlg.generation]
<1>3. /\ dlg.open /\ ~dlg.applying /\ win.open /\ Become(CancelEdit(c))
      /\ applied' = applied /\ disk' = disk
  BY <1>1 DEF CancelSettings, Rejects, User, KeepRest
<1>4. IsCheck(chk) /\ IsWorld(World)
  BY <1>1, WorldFields DEF Standing, Inv, Typed
<1>5. c = [World EXCEPT !.dlg = Closed(dlg.generation), !.win = u, !.chk = k]
  <2>1. c = [World EXCEPT !.dlg = Closed(dlg.generation), !.win.pendingNet = 0,
                          !.chk.queued = still]
    BY <1>2, WorldFields DEF World
  <2> HIDE DEF c
  <2> QED BY <2>1, WorldFields DEF IsWorld
<1>6. IsCheck(k)
  BY <1>4 DEF IsCheck
<1>7. /\ k.stage = chk.stage /\ k.generation = chk.generation
      /\ k.queuedGeneration = chk.queuedGeneration /\ (k.queued => chk.queued)
      /\ k.netError = chk.netError /\ k.net = chk.net
  BY <1>2, <1>4 DEF IsCheck
<1> HIDE DEF k, u, c
<1>8. /\ IsWorld(c) /\ c.dlg = Closed(dlg.generation) /\ c.win = u /\ c.chk = k
      /\ c.rt = rt /\ c.conf = conf /\ c.task = task
  BY <1>5, WorldFields DEF IsWorld
<1>9. c.win = [win EXCEPT !.pendingNet = 0]
  BY <1>8 DEF u
<1> QED BY <1>1, <1>3, <1>6, <1>7, <1>8, <1>9, ClosesInv

\* An edit: the view is accepted, and whatever was found out is of an older revision.
LEMMA EditedInv ==
    ASSUME NEW w, NEW v, NEW draft, Typed(w), DialogInv(w), w.dlg.open, ~w.dlg.applying,
           v.dlg = AcceptView(w.dlg, ViewOf(draft, w.conf.editing.revision + 1)), v.chk = w.chk,
           v.conf.editing.active, v.conf.editing.draft = draft,
           v.conf.editing.revision = w.conf.editing.revision + 1,
           w.conf.editing.active,
           v.win.open = w.win.open, v.win.choosing = w.win.choosing, v.win.prep = w.win.prep
    PROVE  DialogInv(v)
<1> DEFINE n == w.conf.editing.revision + 1
           e == AcceptView(w.dlg, ViewOf(draft, n))
<1>1. /\ w.conf.editing.revision \in Nat /\ w.chk.machine.revision \in Nat \cup {-1}
      /\ n \in Nat /\ n > 0 /\ IsDialog(w.dlg)
  BY DEF Typed, IsConf, IsCheck
<1>2. /\ ViewOf(draft, n) \in [success : BOOLEAN, revision : Nat, errors : BOOLEAN]
      /\ ViewOf(draft, n).success /\ ViewOf(draft, n).revision = n
  <2> HIDE DEF n
  <2> QED BY <1>1, ViewType
<1>3. /\ e.open /\ e.generation = w.dlg.generation /\ e.view = ViewOf(draft, n)
      /\ e.rebuild /\ ~e.applying /\ e.net = w.dlg.net
      /\ e.netRevision = w.dlg.netRevision /\ e.netCurrent = w.dlg.netCurrent
      /\ e.netError = w.dlg.netError /\ e.netOf = w.dlg.netOf
      /\ e.result = NoResult /\ ~e.button /\ ~e.pending /\ ~e.timer
  <2> HIDE DEF n
  <2> QED BY <1>1, <1>2, AcceptFields
<1>4. v.dlg = e
  OBVIOUS
<1>5. v.conf.editing.revision = n /\ n = w.conf.editing.revision + 1
  OBVIOUS
<1> HIDE DEF e, n
<1>6. Modal(v)
  BY <1>3, <1>4 DEF DialogInv, Modal
<1>7. Shows(v)
  BY <1>2, <1>3, <1>4, <1>5 DEF Shows
<1>8. Buttons(v)
  BY <1>3, <1>4 DEF Buttons
<1>9. Found(v)
  BY <1>3, <1>4 DEF DialogInv, Found, NoResult
<1>10. Checking(v)
  BY <1>1, <1>2, <1>3, <1>4, <1>5 DEF DialogInv, Checking, ForThis, QueuedForThis, SameNetwork
<1>11. Spared(v)
  BY <1>1, <1>2, <1>3, <1>4 DEF Spared
<1>12. Hears(v)
  BY <1>3, <1>4 DEF Hears
<1> QED BY <1>6, <1>7, <1>8, <1>9, <1>10, <1>11, <1>12 DEF DialogInv

LEMMA EditMachineInv == ASSUME NEW edit \in Edits PROVE Standing /\ EditMachine(edit) => Standing'
<1>1. SUFFICES ASSUME Standing, EditMachine(edit) PROVE Standing'
  OBVIOUS
<1> DEFINE w == World
           draft == ApplyEdit(conf.editing.draft, edit)
           n == conf.editing.revision + 1
           e == AcceptView(w.dlg, ViewOf(draft, n))
           c == [w.conf EXCEPT !.editing.draft = draft, !.editing.revision = n]
           v == [w EXCEPT !.conf.editing.draft = draft, !.conf.editing.revision = @ + 1,
                          !.dlg = AcceptView(@, ViewOf(draft, conf.editing.revision + 1))]
<1>2. /\ Typed(w) /\ MachineInv(w, applied, disk) /\ DialogInv(w)
      /\ MachineBase(w, applied, disk) /\ Fresh(w)
      /\ w.win.open /\ w.dlg.open /\ ~w.dlg.applying
      /\ w.conf.editing.active /\ ~w.conf.editing.applying
      /\ applied' = applied /\ disk' = disk
  BY <1>1, WorldFields DEF EditMachine, User, Standing, Inv, MachineInv, KeepRest
<1>3. Become(v)
  BY <1>1 DEF EditMachine
<1>4. w.win.prep = "None"
  BY <1>2, DialogEdits DEF MachineBase, DialogInv
<1>5. w.conf = conf /\ IsWorld(w) /\ IsConf(w.conf) /\ IsDialog(w.dlg) /\ n \in Nat
  BY <1>2, WorldFields DEF Typed, IsConf
<1> HIDE DEF w, draft
<1>6. v = [w EXCEPT !.conf = c, !.dlg = e]
  BY ZenonT(60), <1>5 DEF IsWorld
<1> HIDE DEF n
<1>7. IsConf(c)
  BY <1>5 DEF IsConf
<1>8. /\ c.committed = w.conf.committed /\ c.locked = w.conf.locked /\ c.frontend = w.conf.frontend
      /\ c.editing.active /\ ~c.editing.applying /\ c.editing.draft = draft
      /\ c.editing.revision = n
  BY <1>2, <1>5 DEF IsConf
<1>9. IsDialog(e) /\ e.open
  <2>1. ViewOf(draft, n) \in [success : BOOLEAN, revision : Nat, errors : BOOLEAN]
    BY <1>5, ViewType
  <2> QED BY <1>2, <1>5, <2>1, AcceptFields
<1> HIDE DEF e, c, v
<1>10. /\ IsWorld(v) /\ v.win = w.win /\ v.dlg = e /\ v.chk = w.chk /\ v.rt = w.rt
       /\ v.conf = c /\ v.task = w.task
  BY <1>5, <1>6 DEF IsWorld
<1>11. Typed(v)
  BY <1>2, <1>7, <1>9, <1>10 DEF Typed
<1>12. MachineInv(v, applied, disk)
  BY <1>2, <1>4, <1>8, <1>9, <1>10, EditingBase
<1>13. DialogInv(v)
  <2>1. n = w.conf.editing.revision + 1
    BY <1>5 DEF n
  <2>2. v.dlg = AcceptView(w.dlg, ViewOf(draft, w.conf.editing.revision + 1))
    BY <1>10, <2>1 DEF e
  <2>3. v.conf.editing.revision = w.conf.editing.revision + 1
    BY <1>8, <1>10, <2>1
  <2> QED BY <1>2, <1>8, <1>10, <2>2, <2>3, EditedInv
<1>14. Fresh(v)
  BY <1>2, <1>10 DEF Fresh
<1> QED BY <1>2, <1>3, <1>10, <1>11, <1>12, <1>13, <1>14, Becomes DEF Inv

\* A step that changes only the dialog, and keeps it open or closed.
LEMMA DialogBecomes ==
    ASSUME NEW e, Standing, IsDialog(e), e.open = dlg.open,
           DialogInv([World EXCEPT !.dlg = e]), Become([World EXCEPT !.dlg = e]),
           applied' = applied, disk' = disk
    PROVE  Standing'
<1> DEFINE w == World
           v == [w EXCEPT !.dlg = e]
<1>1. /\ Typed(w) /\ MachineInv(w, applied, disk) /\ Fresh(w) /\ w.dlg = dlg
  BY WorldFields DEF Standing, Inv
<1>2. Become(v) /\ DialogInv(v)
  OBVIOUS
<1>3. IsWorld(w)
  BY <1>1 DEF Typed
<1> HIDE DEF w
<1>4. /\ IsWorld(v) /\ v.win = w.win /\ v.dlg = e /\ v.chk = w.chk /\ v.rt = w.rt
      /\ v.conf = w.conf /\ v.task = w.task
  BY <1>3 DEF IsWorld
<1> HIDE DEF v
<1>5. Typed(v)
  BY <1>1, <1>4 DEF Typed
<1>6. MachineInv(v, applied, disk)
  BY <1>1, <1>4, MachineFrame DEF MachineInv, MachineBase, Ending
<1>7. Fresh(v)
  BY <1>1, <1>4 DEF Fresh
<1> QED BY <1>2, <1>4, <1>5, <1>6, <1>7, Becomes DEF Inv

LEMMA WithDialog ==
    ASSUME NEW e
    PROVE  LET v == [World EXCEPT !.dlg = e]
           IN  /\ v.win = win /\ v.dlg = e /\ v.chk = chk /\ v.rt = rt /\ v.conf = conf
               /\ v.task = task
BY DEF World

\* The rebuilt tree schedules a check of what it shows.
LEMMA RebuildViewInv == Standing /\ RebuildView => Standing'
<1>1. SUFFICES ASSUME Standing, RebuildView PROVE Standing'
  OBVIOUS
<1> DEFINE w == World
           e == Rebuilt(dlg)
           v == [w EXCEPT !.dlg = e]
<1>2. /\ Typed(w) /\ MachineBase(w, applied, disk) /\ DialogInv(w)
      /\ w.win = win /\ w.dlg = dlg /\ w.chk = chk /\ w.conf = conf /\ dlg.open /\ dlg.rebuild
      /\ applied' = applied /\ disk' = disk
  BY <1>1, WorldFields DEF RebuildView, Standing, Inv, MachineInv, KeepRest
<1>3. Become([World EXCEPT !.dlg = e])
  BY <1>1, WorldFields DEF RebuildView, World
<1>4. /\ IsDialog(e)
      /\ e.open = dlg.open /\ e.generation = dlg.generation /\ e.view = dlg.view
      /\ ~e.rebuild /\ e.applying = dlg.applying /\ e.net = dlg.net
      /\ e.netRevision = dlg.netRevision /\ e.netCurrent = dlg.netCurrent
      /\ e.netError = dlg.netError /\ e.netOf = dlg.netOf
      /\ e.result = NoResult /\ ~e.button
      /\ e.pending = Checkable(dlg) /\ e.timer = Checkable(dlg)
  BY <1>2, RebuiltFields DEF Typed
<1>5. v.win = w.win /\ v.dlg = e /\ v.chk = w.chk /\ v.conf = w.conf
  BY WithDialog, WorldFields
<1>13. Checkable(e) <=> Checkable(dlg)
  BY <1>4 DEF Checkable
<1>14. w.dlg.open /\ ~w.dlg.applying => w.conf.editing.active
  BY <1>2, DialogEdits DEF MachineBase, DialogInv
<1> HIDE DEF v, e, w
<1>6. Modal(v)
  BY <1>2, <1>4, <1>5 DEF DialogInv, Modal, Checkable
<1>7. Shows(v)
  BY <1>2, <1>4, <1>5 DEF DialogInv, Shows
<1>8. Buttons(v)
  BY <1>4, <1>5, <1>13 DEF Buttons
<1>9. Found(v)
  BY <1>2, <1>4, <1>5 DEF DialogInv, Found, NoResult
<1>10. Checking(v)
  BY <1>2, <1>4, <1>5 DEF DialogInv, Checking, ForThis, QueuedForThis, SameNetwork
<1>11. Spared(v)
  <2>1. ForThis(v) = ForThis(w) /\ QueuedForThis(v) = QueuedForThis(w)
    BY <1>2, <1>4, <1>5 DEF ForThis, QueuedForThis
  <2> QED BY <1>2, <1>4, <1>5, <2>1 DEF DialogInv, Spared
<1>12. Hears(v)
  BY <1>4, <1>5, <1>13 DEF Hears
<1>15. DialogInv([World EXCEPT !.dlg = e])
  BY <1>6, <1>7, <1>8, <1>9, <1>10, <1>11, <1>12 DEF DialogInv, v, w
<1> QED BY <1>1, <1>2, <1>3, <1>4, <1>15, DialogBecomes

\* An edited network text: every check there is is of an older text.
LEMMA EditNetworkInv == ASSUME NEW net \in Nets PROVE Standing /\ EditNetwork(net) => Standing'
<1>1. SUFFICES ASSUME Standing, EditNetwork(net) PROVE Standing'
  OBVIOUS
<1> DEFINE w == World
           e == NetworkChanged(dlg, net)
           v == [w EXCEPT !.dlg = e]
<1>2. /\ Typed(w) /\ MachineBase(w, applied, disk) /\ DialogInv(w)
      /\ w.win = win /\ w.dlg = dlg /\ w.chk = chk /\ w.conf = conf /\ dlg.open /\ ~dlg.applying
      /\ applied' = applied /\ disk' = disk
  BY <1>1, WorldFields DEF EditNetwork, Standing, Inv, MachineInv, KeepRest
<1>3. Become([World EXCEPT !.dlg = e])
  BY <1>1, WorldFields DEF EditNetwork, World
<1>4. /\ IsDialog(e)
      /\ e.open = dlg.open /\ e.generation = dlg.generation /\ e.view = dlg.view
      /\ e.rebuild = dlg.rebuild /\ ~e.applying /\ e.net = net
      /\ e.netRevision = dlg.netRevision + 1 /\ ~e.netCurrent
      /\ e.result = NoResult /\ ~e.button
      /\ e.pending = Checkable(dlg) /\ e.timer = Checkable(dlg)
  <2>1. IsDialog(dlg) /\ ~dlg.applying
    BY <1>2 DEF Typed
  <2> QED BY ONLY <2>1, net \in Nets, NetworkFields
<1>5. v.win = w.win /\ v.dlg = e /\ v.chk = w.chk /\ v.conf = w.conf
  BY WithDialog, WorldFields
<1>13. Checkable(e) <=> Checkable(dlg)
  BY <1>2, <1>4 DEF Checkable
<1>14. /\ dlg.netRevision \in Nat /\ chk.netRevision \in Nat /\ chk.latestRevision \in Nat
       /\ net # 0
  BY <1>2, FrontendAssumption DEF Typed, IsDialog, IsCheck, Nets
<1> HIDE DEF v, e, w
<1>6. Modal(v)
  BY <1>2, <1>4, <1>5, <1>14 DEF DialogInv, Modal
<1>7. Shows(v)
  BY <1>2, <1>4, <1>5 DEF DialogInv, Shows
<1>8. Buttons(v)
  BY <1>4, <1>5, <1>13 DEF Buttons
<1>9. Found(v)
  BY <1>2, <1>4, <1>5 DEF DialogInv, Found, NoResult
<1>16. /\ ForThis(v) = ForThis(w) /\ QueuedForThis(v) = QueuedForThis(w)
       /\ w.dlg.open /\ ForThis(w) => ~SameNetwork(v)
       /\ w.dlg.open /\ QueuedForThis(w) => w.chk.latestRevision # v.dlg.netRevision
  BY <1>2, <1>4, <1>5, <1>14 DEF DialogInv, Checking, ForThis, QueuedForThis, SameNetwork
<1>10. Checking(v)
  BY <1>2, <1>4, <1>5, <1>14, <1>16 DEF DialogInv, Checking
<1>11. Spared(v)
  BY <1>2, <1>4, <1>5, <1>16 DEF DialogInv, Spared
<1>12. Hears(v)
  BY <1>4, <1>5, <1>13 DEF Hears
<1>15. DialogInv([World EXCEPT !.dlg = e])
  BY <1>6, <1>7, <1>8, <1>9, <1>10, <1>11, <1>12 DEF DialogInv, v, w
<1> QED BY <1>1, <1>2, <1>3, <1>4, <1>15, DialogBecomes

\* The fields of the check a request asks for.
Asked(k, d) == [k EXCEPT !.latestNet = d.net, !.latestRevision = d.netRevision]

LEMMA AskedFields ==
    ASSUME NEW k, IsCheck(k), NEW d, IsDialog(d)
    PROVE  LET b == Asked(k, d)
           IN  /\ IsCheck(b) /\ b.latestNet = d.net /\ b.latestRevision = d.netRevision
               /\ b.stage = k.stage /\ b.generation = k.generation /\ b.machine = k.machine
               /\ b.net = k.net /\ b.netRevision = k.netRevision /\ b.netError = k.netError
               /\ b.queued = k.queued /\ b.queuedGeneration = k.queuedGeneration
<1>1. d.net \in {0} \cup Nets /\ d.netRevision \in Nat
  BY DEF IsDialog
<1> QED BY <1>1 DEF Asked, IsCheck

\* request_settings_preflight, from an open dialog: asked now, or when the task is idle.
LEMMA RequestFields ==
    ASSUME NEW w, Typed(w), w.dlg.open
    PROVE  LET v == RequestPreflight(w)
               b == Asked(w.chk, w.dlg)
           IN  /\ IsWorld(v) /\ v.win = w.win /\ v.dlg = w.dlg /\ v.rt = w.rt /\ v.conf = w.conf
               /\ v.task = w.task /\ IsCheck(v.chk)
               /\ w.chk.stage = "idle" => v.chk = Begun(b, w.dlg.generation)
               /\ w.chk.stage # "idle" =>
                    /\ v.chk.stage = w.chk.stage /\ v.chk.generation = w.chk.generation
                    /\ v.chk.machine = w.chk.machine /\ v.chk.net = w.chk.net
                    /\ v.chk.netRevision = w.chk.netRevision /\ v.chk.netError = w.chk.netError
                    /\ v.chk.queued /\ v.chk.queuedGeneration = w.dlg.generation
                    /\ v.chk.latestNet = w.dlg.net /\ v.chk.latestRevision = w.dlg.netRevision
<1> DEFINE v == RequestPreflight(w)
           b == Asked(w.chk, w.dlg)
           asked == [w EXCEPT !.chk.latestNet = w.dlg.net, !.chk.latestRevision = w.dlg.netRevision]
<1>1. IsWorld(w) /\ IsCheck(w.chk) /\ IsDialog(w.dlg) /\ w.dlg.generation \in Nat
  BY DEF Typed, IsDialog
<1>2. asked = [w EXCEPT !.chk = b]
  BY <1>1 DEF IsWorld, Asked
<1>3. /\ IsCheck(b) /\ b.latestNet = w.dlg.net /\ b.latestRevision = w.dlg.netRevision
      /\ b.stage = w.chk.stage /\ b.generation = w.chk.generation /\ b.machine = w.chk.machine
      /\ b.net = w.chk.net /\ b.netRevision = w.chk.netRevision /\ b.netError = w.chk.netError
      /\ b.queued = w.chk.queued /\ b.queuedGeneration = w.chk.queuedGeneration
  BY <1>1, AskedFields
<1>4. v = IF w.chk.stage # "idle"
          THEN [asked EXCEPT !.chk.queued = TRUE, !.chk.queuedGeneration = w.dlg.generation]
          ELSE StartPreflight(asked)
  BY DEF RequestPreflight
<1> HIDE DEF b, asked, v
<1>5. /\ IsWorld(asked) /\ asked.win = w.win /\ asked.dlg = w.dlg /\ asked.rt = w.rt
      /\ asked.conf = w.conf /\ asked.task = w.task /\ asked.chk = b
  BY <1>1, <1>2 DEF IsWorld
<1>6. CASE w.chk.stage = "idle"
  <2>1. v = StartPreflight(asked)
    BY <1>4, <1>6
  <2>2. /\ IsWorld(v) /\ v.win = w.win /\ v.dlg = w.dlg /\ v.rt = w.rt /\ v.conf = w.conf
        /\ v.task = w.task /\ v.chk = Begun(b, w.dlg.generation)
    BY <1>5, <2>1, StartFields
  <2>3. IsCheck(Begun(b, w.dlg.generation))
    BY <1>1, <1>3, BegunFields
  <2> QED BY <1>6, <2>2, <2>3 DEF v, b
<1>7. CASE w.chk.stage # "idle"
  <2> DEFINE k == [b EXCEPT !.queued = TRUE, !.queuedGeneration = w.dlg.generation]
  <2>1. v = [asked EXCEPT !.chk = k]
    BY <1>4, <1>5, <1>7 DEF IsWorld
  <2>2. /\ IsCheck(k) /\ k.queued /\ k.queuedGeneration = w.dlg.generation
        /\ k.stage = b.stage /\ k.generation = b.generation /\ k.machine = b.machine
        /\ k.net = b.net /\ k.netRevision = b.netRevision /\ k.netError = b.netError
        /\ k.latestNet = b.latestNet /\ k.latestRevision = b.latestRevision
    BY <1>1, <1>3 DEF IsCheck
  <2> HIDE DEF k
  <2>3. /\ IsWorld(v) /\ v.win = w.win /\ v.dlg = w.dlg /\ v.rt = w.rt /\ v.conf = w.conf
        /\ v.task = w.task /\ v.chk = k
    BY <1>5, <2>1 DEF IsWorld
  <2> QED BY <1>3, <1>7, <2>2, <2>3 DEF v
<1> QED BY <1>6, <1>7

LEMMA FiredFields ==
    ASSUME NEW d, IsDialog(d)
    PROVE  LET e == [d EXCEPT !.timer = FALSE]
           IN  /\ IsDialog(e)
               /\ e.open = d.open /\ e.generation = d.generation /\ e.view = d.view
               /\ e.rebuild = d.rebuild /\ e.applying = d.applying /\ e.net = d.net
               /\ e.netRevision = d.netRevision /\ e.netCurrent = d.netCurrent
               /\ e.netError = d.netError /\ e.netOf = d.netOf
               /\ e.result = d.result /\ e.pending = d.pending /\ ~e.timer /\ e.button = d.button
BY DEF IsDialog

\* The timer asks for a check of what the dialog shows, which begins or waits.
LEMMA PreflightTimerInv == Standing /\ PreflightTimer => Standing'
<1>1. SUFFICES ASSUME Standing, PreflightTimer PROVE Standing'
  OBVIOUS
<1> DEFINE w == World
           e == [dlg EXCEPT !.timer = FALSE]
           f == [w EXCEPT !.dlg = e]
           g == [World EXCEPT !.dlg.timer = FALSE]
<1>2. /\ Typed(w) /\ MachineInv(w, applied, disk) /\ DialogInv(w) /\ Fresh(w) /\ IsWorld(w)
      /\ w.win.open /\ w.dlg.open /\ w.dlg = dlg /\ w.dlg.timer /\ ~w.dlg.rebuild
      /\ applied' = applied /\ disk' = disk
  BY <1>1, WorldFields DEF PreflightTimer, Standing, Inv, Typed, KeepRest
<1>3. f = g
  BY <1>2 DEF IsWorld
<1>4. Become(IF w.dlg.pending THEN RequestPreflight(f) ELSE f)
  <2>1. Become(IF dlg.pending THEN RequestPreflight(g) ELSE g)
    BY <1>1 DEF PreflightTimer
  <2> HIDE DEF g, w, f
  <2> QED BY <1>2, <1>3, <2>1
<1>5. IsDialog(w.dlg) /\ IsCheck(w.chk)
  BY <1>2 DEF Typed
<1>6. /\ IsDialog(e)
      /\ e.open = w.dlg.open /\ e.generation = w.dlg.generation /\ e.view = w.dlg.view
      /\ e.rebuild = w.dlg.rebuild /\ e.applying = w.dlg.applying /\ e.net = w.dlg.net
      /\ e.netRevision = w.dlg.netRevision /\ e.netCurrent = w.dlg.netCurrent
      /\ e.netError = w.dlg.netError /\ e.netOf = w.dlg.netOf
      /\ e.result = w.dlg.result /\ e.pending = w.dlg.pending /\ ~e.timer /\ e.button = w.dlg.button
  <2>1. IsDialog(dlg)
    BY <1>2, <1>5
  <2>2. /\ IsDialog(e)
        /\ e.open = dlg.open /\ e.generation = dlg.generation /\ e.view = dlg.view
        /\ e.rebuild = dlg.rebuild /\ e.applying = dlg.applying /\ e.net = dlg.net
        /\ e.netRevision = dlg.netRevision /\ e.netCurrent = dlg.netCurrent
        /\ e.netError = dlg.netError /\ e.netOf = dlg.netOf
        /\ e.result = dlg.result /\ e.pending = dlg.pending /\ ~e.timer /\ e.button = dlg.button
    BY ONLY <2>1, FiredFields
  <2> HIDE DEF e, w
  <2> QED BY <1>2, <2>2
<1> HIDE DEF e, w, g
<1>7. /\ IsWorld(f) /\ f.win = w.win /\ f.dlg = e /\ f.chk = w.chk /\ f.rt = w.rt
      /\ f.conf = w.conf /\ f.task = w.task
  BY <1>2 DEF IsWorld
<1> HIDE DEF f
<1>8. Typed(f)
  BY <1>2, <1>6, <1>7 DEF Typed
<1>9. ASSUME NEW v, IsWorld(v), v.win = w.win, v.dlg = e, v.rt = w.rt, v.conf = w.conf,
             v.task = w.task, IsCheck(v.chk), DialogInv(v), Become(v)
      PROVE  Standing'
  <2>1. Typed(v)
    BY <1>2, <1>6, <1>9 DEF Typed
  <2>2. MachineInv(v, applied, disk)
    <3>1. w.win.app = "running"
      BY <1>2 DEF MachineInv, MachineBase, Ending, Typed, IsWindow
    <3> QED BY <1>2, <1>6, <1>9, <3>1, MachineFrame
  <2>3. Fresh(v)
    BY <1>2, <1>9 DEF Fresh
  <2> QED BY <1>2, <1>9, <2>1, <2>2, <2>3, Becomes DEF Inv
<1>10. Checkable(e) <=> Checkable(w.dlg)
  BY <1>6 DEF Checkable
<1>11. CASE ~w.dlg.pending
  <2>1. Modal(f) /\ Shows(f) /\ Found(f)
    BY <1>2, <1>6, <1>7 DEF DialogInv, Modal, Shows, Found
  <2>2. Buttons(f)
    BY <1>2, <1>6, <1>7, <1>10 DEF DialogInv, Buttons, Offers
  <2>3. ForThis(f) = ForThis(w) /\ QueuedForThis(f) = QueuedForThis(w) /\ SameNetwork(f) = SameNetwork(w)
    BY <1>6, <1>7 DEF ForThis, QueuedForThis, SameNetwork
  <2>4. Checking(f)
    BY <1>2, <1>6, <1>7, <2>3 DEF DialogInv, Checking
  <2>5. Spared(f)
    BY <1>2, <1>6, <1>7, <2>3 DEF DialogInv, Spared
  <2>6. Hears(f)
    BY <1>2, <1>6, <1>7, <1>10, <1>11, <2>3 DEF DialogInv, Hears
  <2>7. DialogInv(f)
    BY <2>1, <2>2, <2>4, <2>5, <2>6 DEF DialogInv
  <2>8. Become(f)
    BY <1>4, <1>11
  <2> QED BY <1>5, <1>7, <1>9, <2>7, <2>8
<1>12. CASE w.dlg.pending
  <2> DEFINE v == RequestPreflight(f)
             b == Asked(f.chk, f.dlg)
  <2>1. Become(v)
    BY <1>4, <1>12
  <2>2. /\ IsWorld(v) /\ v.win = w.win /\ v.dlg = e /\ v.rt = w.rt /\ v.conf = w.conf
        /\ v.task = w.task /\ IsCheck(v.chk)
        /\ w.chk.stage = "idle" => v.chk = Begun(b, e.generation)
        /\ w.chk.stage # "idle" =>
             /\ v.chk.stage = w.chk.stage /\ v.chk.generation = w.chk.generation
             /\ v.chk.machine = w.chk.machine /\ v.chk.net = w.chk.net
             /\ v.chk.netRevision = w.chk.netRevision /\ v.chk.netError = w.chk.netError
             /\ v.chk.queued /\ v.chk.queuedGeneration = e.generation
             /\ v.chk.latestNet = e.net /\ v.chk.latestRevision = e.netRevision
    <3>1. f.dlg.open
      BY <1>2, <1>6, <1>7
    <3>2. /\ IsWorld(v) /\ v.win = f.win /\ v.dlg = f.dlg /\ v.rt = f.rt /\ v.conf = f.conf
          /\ v.task = f.task /\ IsCheck(v.chk)
          /\ f.chk.stage = "idle" => v.chk = Begun(b, f.dlg.generation)
          /\ f.chk.stage # "idle" =>
               /\ v.chk.stage = f.chk.stage /\ v.chk.generation = f.chk.generation
               /\ v.chk.machine = f.chk.machine /\ v.chk.net = f.chk.net
               /\ v.chk.netRevision = f.chk.netRevision /\ v.chk.netError = f.chk.netError
               /\ v.chk.queued /\ v.chk.queuedGeneration = f.dlg.generation
               /\ v.chk.latestNet = f.dlg.net /\ v.chk.latestRevision = f.dlg.netRevision
      BY ONLY <1>8, <3>1, RequestFields
    <3> HIDE DEF v, b
    <3> QED BY <1>7, <3>2
  <2>3. /\ IsCheck(b) /\ b.latestNet = e.net /\ b.latestRevision = e.netRevision
        /\ b.queued = w.chk.queued /\ b.queuedGeneration = w.chk.queuedGeneration
    BY <1>5, <1>6, <1>7, AskedFields
  <2> HIDE DEF v, b
  <2>4. e.generation \in Nat /\ e.netRevision \in Nat
    BY <1>6 DEF IsDialog
  <2>5. w.chk.stage = "idle" =>
          /\ v.chk.stage = "sample" /\ v.chk.generation = e.generation
          /\ v.chk.net = e.net /\ v.chk.netRevision = e.netRevision /\ ~v.chk.queued
          /\ v.chk.queuedGeneration = w.chk.queuedGeneration
    <3>1. SUFFICES ASSUME w.chk.stage = "idle"
                   PROVE  /\ v.chk.stage = "sample" /\ v.chk.generation = e.generation
                          /\ v.chk.net = e.net /\ v.chk.netRevision = e.netRevision /\ ~v.chk.queued
                          /\ v.chk.queuedGeneration = w.chk.queuedGeneration
      OBVIOUS
    <3>2. v.chk = Begun(b, e.generation) /\ ~w.chk.queued
      BY <1>2, <2>2, <3>1 DEF DialogInv, Checking
    <3> QED BY <2>3, <2>4, <3>2, BegunFields
  <2>6. Checkable(e) /\ ~e.applying /\ ~e.button /\ ~e.rebuild
    BY <1>2, <1>6, <1>10, <1>12 DEF DialogInv, Buttons, Offers, Checkable
  <2>7. Modal(v) /\ Shows(v)
    BY <1>2, <1>6, <2>2 DEF DialogInv, Modal, Shows
  <2>8. Buttons(v)
    BY <1>2, <2>2, <2>6 DEF Buttons
  <2>9. Found(v)
    BY <1>2, <1>6, <2>2, <2>5 DEF DialogInv, Found
  <2>10. CASE w.chk.stage = "idle"
    <3>1. ForThis(v) /\ ~QueuedForThis(v) /\ SameNetwork(v)
      BY <2>2, <2>5, <2>10 DEF ForThis, QueuedForThis, SameNetwork
    <3>2. Checking(v)
      BY <1>2, <1>6, <2>2, <2>4, <2>5, <2>10, <3>1 DEF DialogInv, Checking
    <3>3. Spared(v)
      BY <1>6, <2>2, <2>6, <3>1 DEF Spared
    <3>4. Hears(v)
      BY <1>6, <1>12, <2>2, <2>5, <2>10, <3>1 DEF Hears
    <3> QED BY <1>9, <2>1, <2>2, <2>7, <2>8, <2>9, <3>2, <3>3, <3>4 DEF DialogInv
  <2>11. CASE w.chk.stage # "idle"
    <3>1. /\ ForThis(v) = ForThis(w) /\ QueuedForThis(v) /\ SameNetwork(v) = SameNetwork(w)
      BY <1>6, <2>2, <2>11 DEF ForThis, QueuedForThis, SameNetwork
    <3>2. Checking(v)
      BY <1>2, <1>6, <2>2, <2>4, <2>11, <3>1 DEF DialogInv, Checking
    <3>3. Spared(v)
      BY <1>2, <1>6, <2>2, <2>6, <3>1 DEF DialogInv, Spared
    <3>4. Hears(v)
      BY <1>6, <1>12, <2>2, <2>11, <3>1 DEF Hears
    <3> QED BY <1>9, <2>1, <2>2, <2>7, <2>8, <2>9, <3>2, <3>3, <3>4 DEF DialogInv
  <2> QED BY <2>10, <2>11
<1> QED BY <1>11, <1>12

\* Apply begins with a dialog that offers what it was told, and of which no check is left.
LEMMA AppliedInv ==
    ASSUME NEW w, NEW v, DialogInv(w), w.dlg.open, w.dlg.button, w.win.open,
           v.win.open, ~v.win.choosing, v.win.prep = "Settings", v.chk = w.chk,
           v.conf = w.conf,
           v.dlg.open, v.dlg.applying, ~v.dlg.pending, ~v.dlg.timer, ~v.dlg.button,
           v.dlg.generation = w.dlg.generation, v.dlg.view = w.dlg.view,
           v.dlg.rebuild = w.dlg.rebuild, v.dlg.net = w.dlg.net,
           v.dlg.netRevision = w.dlg.netRevision, v.dlg.netCurrent = w.dlg.netCurrent,
           v.dlg.netError = w.dlg.netError, v.dlg.netOf = w.dlg.netOf,
           v.dlg.result = w.dlg.result
    PROVE  DialogInv(v)
<1>1. /\ ForThis(v) = ForThis(w) /\ QueuedForThis(v) = QueuedForThis(w)
      /\ SameNetwork(v) = SameNetwork(w)
  BY DEF ForThis, QueuedForThis, SameNetwork
<1>2. Modal(v) /\ Shows(v) /\ Buttons(v) /\ Found(v)
  BY DEF DialogInv, Modal, Shows, Buttons, Found
<1>3. Checking(v)
  BY <1>1 DEF DialogInv, Checking
<1>4. Spared(v)
  BY <1>1 DEF DialogInv, Spared
<1>5. Hears(v)
  BY DEF Hears, Checkable
<1> QED BY <1>2, <1>3, <1>4, <1>5 DEF DialogInv

LEMMA ClickApplyInv == Standing /\ ClickApply => Standing'
<1>1. SUFFICES ASSUME Standing, ClickApply PROVE Standing'
  OBVIOUS
<1> DEFINE w == World
           unchanged == /\ ~(conf.editing.active /\ conf.editing.draft # conf.committed)
                        /\ dlg.net = win.net /\ rt.state # "Unconfigured"
<1>2. /\ Typed(w) /\ MachineInv(w, applied, disk) /\ MachineBase(w, applied, disk)
      /\ DialogInv(w) /\ IsWorld(w)
      /\ w.win = win /\ w.dlg = dlg /\ w.chk = chk /\ w.rt = rt /\ w.conf = conf /\ w.task = task
      /\ w.win.open /\ w.dlg.open /\ w.dlg.button
      /\ applied' = applied /\ disk' = disk
  BY <1>1, WorldFields DEF ClickApply, User, Standing, Inv, Typed, MachineInv, KeepRest
<1>3. ~w.dlg.applying /\ ~w.win.choosing /\ w.dlg.net # 0
  BY <1>2 DEF DialogInv, Modal
<1>4. w.win.prep = "None"
  BY <1>2, <1>3, DialogEdits DEF MachineBase, DialogInv
<1>5. CASE unchanged
  <2> DEFINE c == [World EXCEPT !.dlg = Closed(@.generation), !.win.pendingNet = 0]
  <2>1. Become(CancelEdit(c))
    BY <1>1, <1>5 DEF ClickApply, UnchangedSettings
  <2>2. /\ IsWorld(c) /\ c.dlg = Closed(dlg.generation) /\ c.win = [win EXCEPT !.pendingNet = 0]
        /\ c.chk = chk /\ c.rt = rt /\ c.conf = conf /\ c.task = task
    <3> DEFINE u == [win EXCEPT !.pendingNet = 0]
    <3>1. c = [World EXCEPT !.dlg = Closed(dlg.generation), !.win = u]
      <4> HIDE DEF w
      <4> QED BY WorldFields DEF IsWorld
    <3> HIDE DEF c, u, w
    <3>2. /\ IsWorld(c) /\ c.dlg = Closed(dlg.generation) /\ c.win = u
          /\ c.chk = chk /\ c.rt = rt /\ c.conf = conf /\ c.task = task
      BY <3>1, WorldFields DEF IsWorld
    <3> QED BY <3>2 DEF u
  <2> HIDE DEF c
  <2>3. IsCheck(c.chk) /\ dlg.open /\ ~dlg.applying /\ win.open
    BY <1>2, <1>3, <2>2 DEF Typed
  <2> HIDE DEF w
  <2> QED BY <1>1, <1>2, <2>1, <2>2, <2>3, ClosesInv
<1>6. CASE ~unchanged
  <2>1. PICK yes \in BOOLEAN, no \in BOOLEAN : yes = TRUE /\ no = FALSE
    OBVIOUS
  <2> DEFINE u == [w.win EXCEPT !.pendingNet = w.dlg.net]
             e == SetApplying(w.dlg, yes)
             x == [w EXCEPT !.win = u, !.dlg = e]
             y == [World EXCEPT !.dlg = SetApplying(@, TRUE), !.win.pendingNet = dlg.net]
             v == BeginPreparation(x, "Settings", no, "Settings", w.dlg.net)
  <2>2. Become(BeginPreparation(y, "Settings", FALSE, "Settings", dlg.net))
    BY <1>1, <1>2, <1>4, <1>6 DEF ClickApply
  <2>3. x = y
    BY <1>2, <2>1 DEF IsWorld
  <2>4. Become(v)
    <3> HIDE DEF x, y, w
    <3> QED BY <1>2, <2>1, <2>2, <2>3
  <2>5. IsWindow(w.win) /\ IsDialog(w.dlg) /\ w.dlg.net \in {0} \cup Nets
    BY <1>2 DEF Typed, IsDialog
  <2> HIDE DEF w, y
  <2>6. /\ IsDialog(e)
        /\ e.open = w.dlg.open /\ e.generation = w.dlg.generation /\ e.view = w.dlg.view
        /\ e.rebuild = w.dlg.rebuild /\ e.applying = yes /\ e.net = w.dlg.net
        /\ e.netRevision = w.dlg.netRevision /\ e.netCurrent = w.dlg.netCurrent
        /\ e.netError = w.dlg.netError /\ e.netOf = w.dlg.netOf
        /\ e.result = w.dlg.result /\ e.pending = w.dlg.pending
        /\ e.timer = (w.dlg.timer /\ ~yes)
        /\ yes => ~e.button
    BY ONLY <2>5, yes \in BOOLEAN, ApplyingFields
  <2>7. /\ IsWindow(u) /\ u.pendingNet = w.dlg.net
        /\ u.open = w.win.open /\ u.app = w.win.app /\ u.net = w.win.net /\ u.prep = w.win.prep
        /\ u.choosing = w.win.choosing /\ u.shown = w.win.shown /\ u.panes = w.win.panes
    BY <2>5 DEF IsWindow
  <2> HIDE DEF u, e
  <2>8. /\ IsWorld(x) /\ x.win = u /\ x.dlg = e /\ x.chk = w.chk /\ x.rt = w.rt
        /\ x.conf = w.conf /\ x.task = w.task
    <3>1. x = [w EXCEPT !.win = u, !.dlg = e]
      OBVIOUS
    <3> HIDE DEF x
    <3> QED BY <1>2, <3>1 DEF IsWorld
  <2> HIDE DEF x
  <2>9. Typed(x)
    BY <1>2, <2>6, <2>7, <2>8 DEF Typed
  <2>10. Sound(x.rt) /\ x.win.prep = "None"
    BY <1>2, <1>4, <2>7, <2>8 DEF MachineBase
  <2>11. /\ Typed(v) /\ v.dlg = x.dlg /\ v.chk = x.chk /\ v.conf = x.conf
         /\ v.task = NewTask("Settings", w.dlg.net) /\ v.win.prep = "Settings"
         /\ (v.win.resume <=> x.rt.state = "Running")
         /\ v.win.open = x.win.open /\ v.win.app = x.win.app /\ v.win.net = x.win.net
         /\ v.win.pendingNet = x.win.pendingNet /\ v.win.choosing = x.win.choosing
         /\ v.win.shown = x.win.shown /\ v.win.panes = x.win.panes
         /\ Sound(v.rt) /\ SameMachine(v.rt, x.rt) /\ v.rt.state # "Running"
         /\ v.rt.owed => x.rt.owed \/ x.rt.state = "Running"
    <3>1. "Settings" \in Preparations /\ "Settings" \in Kinds
      BY DEF Preparations, Kinds
    <3>2. PICK net \in {0} \cup Nets : net = w.dlg.net
      BY <2>5
    <3>3. LET b == BeginPreparation(x, "Settings", no, "Settings", net)
          IN  /\ Typed(b) /\ b.dlg = x.dlg /\ b.chk = x.chk /\ b.conf = x.conf
              /\ b.task = NewTask("Settings", net) /\ b.win.prep = "Settings"
              /\ (b.win.resume <=> x.rt.state = "Running")
              /\ b.win.open = x.win.open /\ b.win.app = x.win.app /\ b.win.net = x.win.net
              /\ b.win.pendingNet = x.win.pendingNet /\ b.win.choosing = x.win.choosing
              /\ b.win.shown = x.win.shown /\ b.win.panes = x.win.panes
              /\ Sound(b.rt) /\ SameMachine(b.rt, x.rt) /\ b.rt.state # "Running"
              /\ b.rt.owed => x.rt.owed \/ x.rt.state = "Running"
      BY ONLY <2>9, <2>10, <3>1, net \in {0} \cup Nets, no \in BOOLEAN, BeginFields
    <3> QED BY ONLY <3>2, <3>3
  <2> HIDE DEF v
  <2>12. ~w.rt.owed
    BY <1>2, <1>3, <1>4 DEF MachineInv, Owing
  <2>13. MachineInv(v, applied, disk)
    <3>1. /\ v.task = NewTask("Settings", w.dlg.net)
          /\ v.win.prep \in Preparations \ {"None"} /\ "Settings" \in KindsOf(v.win.prep)
      BY <2>11 DEF Preparations, KindsOf
    <3>2. /\ v.conf = w.conf /\ v.chk = w.chk /\ v.win.open /\ v.win.app = w.win.app
          /\ v.win.panes = w.win.panes /\ v.win.net = w.win.net /\ ~v.win.choosing
          /\ Sound(v.rt) /\ SameMachine(v.rt, w.rt) /\ v.rt.state # "Running"
          /\ v.dlg.open = w.dlg.open /\ w.dlg.net = v.win.pendingNet
          /\ v.rt.owed => v.win.resume
      BY ZenonT(60), <1>2, <1>3, <2>6, <2>7, <2>8, <2>11, <2>12
    <3>3. "Settings" # "StopReplay" /\ "Settings" # "ReplaySnapshot"
      OBVIOUS
    <3> QED BY ONLY <1>2, <1>3, <1>4, <3>1, <3>2, <3>3, BegunBase
  <2>14. DialogInv(v)
    <3>1. ~w.dlg.pending
      BY <1>2 DEF DialogInv, Buttons, Offers
    <3>2. /\ v.win.open /\ ~v.win.choosing /\ v.win.prep = "Settings" /\ v.chk = w.chk
          /\ v.conf = w.conf
          /\ v.dlg.open /\ v.dlg.applying /\ ~v.dlg.pending /\ ~v.dlg.timer /\ ~v.dlg.button
          /\ v.dlg.generation = w.dlg.generation /\ v.dlg.view = w.dlg.view
          /\ v.dlg.rebuild = w.dlg.rebuild /\ v.dlg.net = w.dlg.net
          /\ v.dlg.netRevision = w.dlg.netRevision /\ v.dlg.netCurrent = w.dlg.netCurrent
          /\ v.dlg.netError = w.dlg.netError /\ v.dlg.netOf = w.dlg.netOf
          /\ v.dlg.result = w.dlg.result
      BY ZenonT(60), <1>2, <1>3, <2>1, <2>6, <2>7, <2>8, <2>11, <3>1
    <3>3. DialogInv(w) /\ w.dlg.open /\ w.dlg.button /\ w.win.open
      BY <1>2
    <3> QED BY ONLY <3>2, <3>3, AppliedInv
  <2>15. Fresh(v)
    BY <2>11 DEF Fresh
  <2>16. Inv(v, applied, disk) /\ IsWorld(v)
    BY <2>11, <2>13, <2>14, <2>15 DEF Inv, Typed
  <2> QED BY <1>2, <2>4, <2>16, Becomes
<1> QED BY <1>5, <1>6

LEMMA CloseWindowInv == Standing /\ CloseWindow => Standing'
<1>1. SUFFICES ASSUME Standing, CloseWindow PROVE Standing'
  OBVIOUS
<1> DEFINE w == World
           u == [w.win EXCEPT !.open = FALSE]
           v == [w EXCEPT !.win.open = FALSE]
<1>2. /\ Typed(w) /\ MachineInv(w, applied, disk) /\ DialogInv(w) /\ IsWorld(w)
      /\ w.win.open /\ ~w.dlg.open /\ ~w.win.choosing
      /\ applied' = applied /\ disk' = disk
  BY <1>1, WorldFields DEF CloseWindow, User, Standing, Inv, Typed, KeepRest
<1>3. Become(v)
  BY <1>1 DEF CloseWindow
<1>4. IsWindow(w.win)
  BY <1>2 DEF Typed
<1> HIDE DEF w
<1>5. v = [w EXCEPT !.win = u]
  BY <1>2 DEF IsWorld
<1>6. /\ IsWindow(u) /\ ~u.open /\ u.pendingNet = w.win.pendingNet
      /\ u.app = w.win.app /\ u.net = w.win.net /\ u.prep = w.win.prep
      /\ u.choosing = w.win.choosing /\ u.resume = w.win.resume /\ u.panes = w.win.panes
  BY <1>4 DEF IsWindow
<1> HIDE DEF u, v
<1>7. /\ IsWorld(v) /\ v.win = u /\ v.dlg = w.dlg /\ v.chk = w.chk /\ v.rt = w.rt
      /\ v.conf = w.conf /\ v.task = w.task
  BY <1>2, <1>5 DEF IsWorld
<1>8. Typed(v)
  BY <1>2, <1>6, <1>7 DEF Typed
<1>9. MachineInv(v, applied, disk)
  <2>1. Preparing(v) /\ Resuming(v) /\ Owing(v) /\ Drafting(v) /\ Consoles(v)
    BY <1>2, <1>6, <1>7 DEF MachineInv, MachineBase, Preparing, Resuming, Owing, Drafting, Consoles
  <2>2. Applied(v, applied) /\ Ending(v, applied, disk)
    BY <1>2, <1>6, <1>7 DEF MachineInv, MachineBase, Applied, Ending
  <2> QED BY <1>2, <1>7, <2>1, <2>2 DEF MachineInv, MachineBase
<1>10. DialogInv(v)
  <2>1. ~w.dlg.button /\ ~w.dlg.applying /\ w.win.prep # "Settings"
    BY <1>2 DEF DialogInv, Modal
  <2> QED BY <1>2, <1>6, <1>7, <2>1, ChecksKept, NoDialog
<1>11. Fresh(v)
  BY <1>6, <1>7 DEF Fresh
<1> QED BY <1>2, <1>3, <1>7, <1>8, <1>9, <1>10, <1>11, Becomes DEF Inv

-----------------------------------------------------------------------------
(* The preparation task's thread.                                          *)

\* The last Record of the host, which a Replay opens.
Recorded == host = [files |-> host.files, record |-> host.record] /\ host.record.exists \in BOOLEAN

LEMMA NextFields ==
  /\ IsWorld(World') /\ World'.win = win' /\ World'.dlg = dlg' /\ World'.chk = chk'
  /\ World'.rt = rt' /\ World'.conf = conf' /\ World'.task = task'
BY DEF World, IsWorld

\* What every step of a thread has to show.
LEMMA ThreadBecomes ==
    ASSUME Standing, win' = win, dlg' = dlg, chk' = chk, disk' = disk,
           IsRuntime(rt'), IsConf(conf'), IsTask(task'),
           MachineInv(World', applied', disk'), DialogInv(World'),
           rt'.state = "Running" => rt.state = "Running" \/ win.prep # "None"
    PROVE  Standing'
<1>1. Typed(World')
  BY WorldFields, NextFields DEF Standing, Inv, Typed
<1>2. Fresh(World')
  BY WorldFields, NextFields DEF Standing, Inv, Fresh
<1> QED BY <1>1, <1>2 DEF Standing, Inv

\* The dialog sees nothing of a step that leaves the edited draft alone.
LEMMA UnseenByDialog ==
    ASSUME Standing, win' = win, dlg' = dlg, chk' = chk,
           conf'.editing.active = conf.editing.active, conf'.editing.draft = conf.editing.draft,
           conf'.editing.revision = conf.editing.revision
    PROVE  DialogInv(World')
<1> DEFINE w == World
           v == World'
<1>1. DialogInv(w) /\ v.dlg = w.dlg /\ v.chk = w.chk
      /\ v.conf.editing.active = w.conf.editing.active
      /\ v.conf.editing.draft = w.conf.editing.draft
      /\ v.conf.editing.revision = w.conf.editing.revision
      /\ v.win.open = w.win.open /\ v.win.choosing = w.win.choosing /\ v.win.prep = w.win.prep
  BY WorldFields, NextFields DEF Standing, Inv
<1> HIDE DEF w, v
<1>2. DialogInv(v)
  BY <1>1, DialogFrame
<1> QED BY <1>2 DEF v

LEMMA StageFields ==
    ASSUME NEW stage \in Stages, IsTask(task)
    PROVE  LET t == TaskTo(stage)
           IN  /\ IsTask(t) /\ t.stage = stage /\ t.kind = task.kind /\ t.net = task.net
               /\ t.draft = task.draft /\ t.build = task.build /\ t.manifest = task.manifest
               /\ t.ok = task.ok /\ t.snapshots = task.snapshots
BY DEF TaskTo, IsTask

LEMMA FinishedFields ==
    ASSUME NEW ok \in BOOLEAN, IsTask(task)
    PROVE  LET t == Finished(ok)
           IN  /\ IsTask(t) /\ t.stage = "done" /\ t.kind = task.kind /\ t.net = task.net
               /\ t.draft = task.draft /\ t.build = task.build /\ t.manifest = task.manifest
               /\ t.ok = ok /\ t.snapshots = task.snapshots
BY DEF Finished, IsTask, Stages

LEMMA FailureStage ==
    ASSUME IsTask(task), ~task.ok
    PROVE  LET t == AfterFailure
           IN  /\ IsTask(t) /\ t.kind = task.kind /\ t.net = task.net
               /\ t.draft = task.draft /\ t.build = task.build /\ ~t.ok
               /\ t.stage = IF task.kind = "Settings" THEN "commit" ELSE "done"
<1> DEFINE c == TaskTo("commit")
<1>1. "commit" \in Stages
  BY DEF Stages
<1>2. /\ IsTask(c) /\ c.stage = "commit" /\ c.kind = task.kind /\ c.net = task.net
      /\ c.draft = task.draft /\ c.build = task.build
  BY <1>1, StageFields
<1> HIDE DEF c
<1>3. LET t == [c EXCEPT !.ok = FALSE]
      IN  /\ IsTask(t) /\ t.kind = c.kind /\ t.net = c.net
          /\ t.draft = c.draft /\ t.build = c.build /\ ~t.ok /\ t.stage = c.stage
  BY <1>2 DEF IsTask
<1>4. CASE task.kind = "Settings"
  BY <1>2, <1>3, <1>4 DEF AfterFailure, c
<1>5. CASE task.kind # "Settings"
  <2>1. PICK no \in BOOLEAN : no = FALSE
    OBVIOUS
  <2>2. AfterFailure = Finished(no)
    BY <1>5, <2>1 DEF AfterFailure
  <2> QED BY <1>5, <2>1, <2>2, FinishedFields
<1> QED BY <1>4, <1>5

\* A task whose machine is not installed yet: what the step may change of it.
LEMMA BeforeInstall ==
    ASSUME NEW w, NEW v, NEW a, NEW d, MachineInv(w, a, d),
           w.task.stage \in {"start", "build"}, w.task.stage = "start" \/ w.task.kind \in Building,
           v.win = w.win, v.rt = w.rt, v.dlg.open = w.dlg.open, v.chk = w.chk,
           v.task.kind = w.task.kind, v.task.net = w.task.net,
           v.task.stage \in {"build", "install", "commit", "done"}, ~v.task.ok,
           v.task.stage \in {"build", "install"} => v.task.kind \in Building,
           v.task.stage = "commit" => v.task.kind = "Settings",
           v.conf.committed = w.conf.committed, v.conf.frontend = w.conf.frontend,
           v.conf.locked = w.conf.locked, v.conf.editing.active = w.conf.editing.active,
           v.conf.editing.applying
             <=> v.task.kind = "Settings" /\ v.task.stage \in {"build", "install", "commit"},
           v.conf.editing.applying => v.task.draft = v.conf.editing.draft,
           v.task.kind \in Building \ {"Settings"} /\ v.task.stage \in {"build", "install"}
             => v.task.draft = v.conf.committed,
           v.task.stage = "install" =>
             /\ v.task.build.frontend = FrontendOf(v.task.build.draft)
             /\ v.task.kind # "OpenReplay" => v.task.build.draft = v.task.draft
    PROVE  MachineInv(v, a, d)
<1>1. ~Committing(w.task) /\ ~Committed(w.task) /\ ~Committing(v.task) /\ ~Committed(v.task)
  BY DEF Committing, Committed, MachineInv, MachineBase, Preparing
<1>2. Preparing(v)
  BY DEF MachineInv, MachineBase, Preparing
<1>3. Resuming(v)
  BY DEF MachineInv, MachineBase, Resuming
<1>4. Owing(v)
  BY DEF MachineInv, Owing
<1>5. Drafting(v)
  BY <1>1 DEF MachineInv, MachineBase, Drafting
<1>6. Consoles(v)
  BY <1>1 DEF MachineInv, MachineBase, Consoles, Drafting
<1>7. Applied(v, a)
  BY <1>1 DEF MachineInv, MachineBase, Applied
<1>8. Ending(v, a, d)
  BY DEF MachineInv, MachineBase, Ending
<1> QED BY <1>2, <1>3, <1>4, <1>5, <1>6, <1>7, <1>8 DEF MachineInv, MachineBase

\* What a step of the thread finds.
LEMMA TaskFinds ==
    ASSUME Standing
    PROVE  /\ Typed(World) /\ MachineInv(World, applied, disk) /\ DialogInv(World)
           /\ IsRuntime(rt) /\ IsConf(conf) /\ IsTask(task) /\ IsWindow(win) /\ Sound(rt)
           /\ Preparing(World) /\ Resuming(World) /\ Owing(World) /\ Drafting(World)
           /\ Consoles(World) /\ Applied(World, applied) /\ Ending(World, applied, disk)
BY WorldFields DEF Standing, Inv, Typed, MachineInv, MachineBase

LEMMA TaskTakesDraftInv == Standing /\ TaskTakesDraft => Standing'
<1>1. SUFFICES ASSUME Standing, TaskTakesDraft PROVE Standing'
  OBVIOUS
<1> DEFINE w == World
           v == World'
<1>2. /\ MachineInv(w, applied, disk) /\ Preparing(w) /\ Drafting(w)
      /\ IsRuntime(rt) /\ IsConf(conf) /\ IsTask(task)
      /\ w.task = task /\ w.conf = conf /\ w.dlg = dlg /\ task.stage = "start" /\ ~conf.locked
      /\ applied' = applied /\ disk' = disk /\ win' = win /\ dlg' = dlg /\ chk' = chk /\ rt' = rt
  BY <1>1, TaskFinds, WorldFields DEF TaskTakesDraft, TaskAt, KeepGui
<1>3. /\ v.win = w.win /\ v.rt = w.rt /\ v.dlg = w.dlg /\ v.chk = w.chk
      /\ v.task = task' /\ v.conf = conf'
  BY <1>2, WorldFields, NextFields
<1>4. ~task.ok /\ ~conf.editing.applying
  BY <1>2 DEF Preparing, Drafting
<1> HIDE DEF v, w
<1>5. ASSUME IsConf(conf'), IsTask(task'), MachineInv(v, applied, disk),
             conf'.editing.active = conf.editing.active, conf'.editing.draft = conf.editing.draft,
             conf'.editing.revision = conf.editing.revision
      PROVE  Standing'
  <2>1. MachineInv(World', applied', disk')
    BY <1>2, <1>5 DEF v
  <2>2. DialogInv(World')
    BY <1>1, <1>2, <1>5, UnseenByDialog
  <2> QED BY <1>1, <1>2, <1>5, <2>1, <2>2, ThreadBecomes
<1>6. CASE task' = Finished(FALSE) /\ conf' = conf
  <2>1. PICK no \in BOOLEAN : no = FALSE
    OBVIOUS
  <2>2. task' = Finished(no)
    BY <1>6, <2>1
  <2>3. IsTask(task') /\ task'.stage = "done" /\ task'.kind = task.kind /\ task'.net = task.net
        /\ ~task'.ok
    BY <1>2, <2>1, <2>2, FinishedFields
  <2>4. MachineInv(v, applied, disk)
    BY <1>2, <1>3, <1>4, <1>6, <2>3, BeforeInstall
  <2> QED BY <1>2, <1>5, <1>6, <2>3, <2>4
<1>7. CASE /\ task.kind = "Settings" /\ conf.editing.active
           /\ conf' = [conf EXCEPT !.editing.applying = TRUE]
           /\ task' = [TaskTo("build") EXCEPT !.draft = conf.editing.draft]
  <2> DEFINE b == TaskTo("build")
  <2>1. /\ IsTask(b) /\ b.stage = "build" /\ b.kind = task.kind /\ b.net = task.net /\ b.ok = task.ok
    <3>1. "build" \in Stages
      BY DEF Stages
    <3> QED BY <1>2, <3>1, StageFields
  <2>2. task' = [b EXCEPT !.draft = conf.editing.draft]
    BY <1>7
  <2> HIDE DEF b
  <2>3. /\ IsTask(task') /\ task'.stage = "build" /\ task'.kind = task.kind
        /\ task'.net = task.net /\ ~task'.ok /\ task'.draft = conf.editing.draft
    BY <1>4, <2>1, <2>2 DEF IsTask
  <2>4. /\ IsConf(conf') /\ conf'.editing.applying
        /\ conf'.committed = conf.committed /\ conf'.frontend = conf.frontend
        /\ conf'.locked = conf.locked /\ conf'.editing.active = conf.editing.active
        /\ conf'.editing.draft = conf.editing.draft
        /\ conf'.editing.revision = conf.editing.revision
    BY <1>2, <1>7 DEF IsConf
  <2>5. MachineInv(v, applied, disk)
    <3>1. task.kind = "Settings" /\ task.kind \in Building
      BY <1>7 DEF Building
    <3>2. /\ v.conf.committed = w.conf.committed /\ v.conf.frontend = w.conf.frontend
          /\ v.conf.locked = w.conf.locked /\ v.conf.editing.active = w.conf.editing.active
          /\ v.conf.editing.applying /\ v.task.draft = v.conf.editing.draft
      BY <1>2, <1>3, <2>3, <2>4
    <3>3. /\ w.task.stage = "start" /\ v.task.kind = w.task.kind /\ v.task.net = w.task.net
          /\ v.task.stage = "build" /\ ~v.task.ok /\ v.task.kind = "Settings"
          /\ v.task.kind \in Building
      BY <1>2, <1>3, <2>3, <3>1
    <3> QED BY ONLY <1>2, <1>3, <3>2, <3>3, BeforeInstall
  <2> QED BY <1>5, <2>3, <2>4, <2>5
<1>8. CASE /\ task.kind \in {"Recording", "OpenReplay", "StopReplay"} /\ conf' = conf
           /\ task' = [TaskTo("build") EXCEPT !.draft = conf.committed]
  <2> DEFINE b == TaskTo("build")
  <2>1. /\ IsTask(b) /\ b.stage = "build" /\ b.kind = task.kind /\ b.net = task.net /\ b.ok = task.ok
    <3>1. "build" \in Stages
      BY DEF Stages
    <3> QED BY <1>2, <3>1, StageFields
  <2>2. task' = [b EXCEPT !.draft = conf.committed]
    BY <1>8
  <2> HIDE DEF b
  <2>3. /\ IsTask(task') /\ task'.stage = "build" /\ task'.kind = task.kind
        /\ task'.net = task.net /\ ~task'.ok /\ task'.draft = conf.committed
    BY <1>4, <2>1, <2>2 DEF IsTask
  <2>4. MachineInv(v, applied, disk)
    BY <1>2, <1>3, <1>4, <1>8, <2>3, BeforeInstall DEF Building
  <2> QED BY <1>2, <1>5, <1>8, <2>3, <2>4
<1> QED BY <1>1, <1>6, <1>7, <1>8 DEF TaskTakesDraft

\* A build that failed, or that the host refused.
LEMMA BuildRefused ==
    ASSUME Standing, TaskAt("build"), KeepGui, rt' = rt, conf' = conf, applied' = applied,
           task' = AfterFailure
    PROVE  Standing'
<1> DEFINE w == World
           v == World'
<1>1. /\ MachineInv(w, applied, disk) /\ Preparing(w) /\ Drafting(w)
      /\ IsRuntime(rt) /\ IsConf(conf) /\ IsTask(task)
      /\ w.task = task /\ w.conf = conf /\ task.stage = "build" /\ disk' = disk
      /\ win' = win /\ dlg' = dlg /\ chk' = chk
  BY TaskFinds, WorldFields DEF TaskAt, KeepGui
<1>2. /\ v.win = w.win /\ v.rt = w.rt /\ v.dlg = w.dlg /\ v.chk = w.chk
      /\ v.task = task' /\ v.conf = w.conf
  BY <1>1, WorldFields, NextFields
<1>3. ~task.ok /\ task.kind \in Building
      /\ (conf.editing.applying <=> task.kind = "Settings")
      /\ (conf.editing.applying => task.draft = conf.editing.draft)
      /\ (task.kind # "Settings" => task.draft = conf.committed)
  BY <1>1 DEF Preparing, Drafting
<1>4. /\ IsTask(task') /\ task'.kind = task.kind /\ task'.net = task.net
      /\ task'.draft = task.draft /\ ~task'.ok
      /\ task'.stage = IF task.kind = "Settings" THEN "commit" ELSE "done"
  BY <1>1, <1>3, FailureStage
<1>5. MachineInv(v, applied, disk)
  <2> HIDE DEF v, w
  <2> QED BY <1>1, <1>2, <1>3, <1>4, BeforeInstall
<1>6. MachineInv(World', applied', disk')
  BY <1>1, <1>5
<1>7. DialogInv(World')
  BY <1>1, UnseenByDialog
<1> HIDE DEF v, w
<1> QED BY <1>1, <1>4, <1>6, <1>7, ThreadBecomes

LEMMA TaskBuildFailsInv == Standing /\ TaskBuildFails => Standing'
BY BuildRefused DEF TaskBuildFails

\* Each builder returns a machine or a failure, of the draft it was given.
LEMMA SessionReturns ==
    ASSUME task.kind \in Building
    PROVE  \E draft : /\ \/ SessionBuilt = Failure(draft)
                         \/ SessionBuilt = Outcome("built", draft, FrontendOf(draft))
                      /\ task.kind # "OpenReplay" => draft = task.draft
<1>1. CASE task.kind = "OpenReplay"
  BY <1>1, ReplayReturns DEF SessionBuilt
<1>2. CASE task.kind # "OpenReplay"
  BY <1>2, NormalReturns, RecordingReturns DEF SessionBuilt
<1> QED BY <1>1, <1>2

LEMMA TaskBuildsInv == Standing /\ Recorded /\ TaskBuilds => Standing'
<1>1. SUFFICES ASSUME Standing, Recorded, TaskBuilds PROVE Standing'
  OBVIOUS
<1> DEFINE w == World
           v == World'
<1>2. /\ MachineInv(w, applied, disk) /\ Preparing(w) /\ Drafting(w)
      /\ IsRuntime(rt) /\ IsConf(conf) /\ IsTask(task)
      /\ w.task = task /\ w.conf = conf /\ task.stage = "build" /\ disk' = disk /\ applied' = applied
      /\ win' = win /\ dlg' = dlg /\ chk' = chk /\ rt' = rt /\ conf' = conf
  BY <1>1, TaskFinds, WorldFields DEF TaskAt, KeepGui, TaskBuilds
<1>3. ~task.ok /\ task.kind \in Building
      /\ (conf.editing.applying <=> task.kind = "Settings")
      /\ (conf.editing.applying => task.draft = conf.editing.draft)
      /\ (task.kind # "Settings" => task.draft = conf.committed)
  BY <1>2 DEF Preparing, Drafting
<1>4. PICK draft : /\ \/ SessionBuilt = Failure(draft)
                      \/ SessionBuilt = Outcome("built", draft, FrontendOf(draft))
                   /\ task.kind # "OpenReplay" => draft = task.draft
  BY <1>3, SessionReturns
<1> DEFINE manifest == IF task.kind = "Recording" THEN Manifest(host.files, task.draft)
                       ELSE IF task.kind = "OpenReplay" THEN host.record ELSE NoManifest
<1>5. task' = CASE SessionBuilt.result = "built" ->
                     [TaskTo("install") EXCEPT !.build = SessionBuilt, !.manifest = manifest]
                [] SessionBuilt.result = "failed" -> AfterFailure
                [] OTHER -> TaskTo("panicked")
  BY <1>1 DEF TaskBuilds
<1>6. manifest.exists \in BOOLEAN
  BY <1>1 DEF Recorded, Manifest, NoManifest
<1> HIDE DEF manifest
<1>7. CASE SessionBuilt = Failure(draft)
  <2>1. SessionBuilt.result = "failed"
    BY <1>7 DEF Failure, Outcome
  <2>2. task' = AfterFailure
    BY <1>5, <2>1
  <2> QED BY <1>1, <2>2, BuildRefused DEF TaskBuilds
<1>8. CASE SessionBuilt = Outcome("built", draft, FrontendOf(draft))
  <2> DEFINE b == TaskTo("install")
             o == SessionBuilt
  <2>1. o \in [result : {"built", "failed"}, draft : {draft}, frontend : {FrontendOf(draft)}]
        /\ o.result = "built" /\ o.draft = draft /\ o.frontend = FrontendOf(draft)
    BY <1>8 DEF Outcome
  <2>2. IsTask(b) /\ b.stage = "install" /\ b.kind = task.kind /\ b.net = task.net /\ b.ok = task.ok
        /\ b.draft = task.draft
    <3>1. "install" \in Stages
      BY DEF Stages
    <3> QED BY <1>2, <3>1, StageFields
  <2>3. task' = [b EXCEPT !.build = o, !.manifest = manifest]
    BY <1>5, <2>1
  <2> HIDE DEF b, o
  <2>4. /\ IsTask(task') /\ task'.stage = "install" /\ task'.kind = task.kind
        /\ task'.net = task.net /\ ~task'.ok /\ task'.draft = task.draft /\ task'.build = o
    BY <1>3, <1>6, <2>1, <2>2, <2>3 DEF IsTask
  <2>5. /\ v.win = w.win /\ v.rt = w.rt /\ v.dlg = w.dlg /\ v.chk = w.chk
        /\ v.task = task' /\ v.conf = w.conf
    BY <1>2, WorldFields, NextFields
  <2>6. MachineInv(v, applied, disk)
    <3> HIDE DEF v, w
    <3> QED BY <1>2, <1>3, <1>4, <2>1, <2>4, <2>5, BeforeInstall
  <2>7. MachineInv(World', applied', disk')
    BY <1>2, <2>6
  <2>8. DialogInv(World')
    BY <1>1, <1>2, UnseenByDialog
  <2> HIDE DEF v, w
  <2> QED BY <1>1, <1>2, <2>4, <2>7, <2>8, ThreadBecomes
<1> QED BY <1>4, <1>7, <1>8

LEMMA EndedFields ==
    ASSUME NEW r, IsRuntime(r)
    PROVE  LET n == RecordingEnded(r)
           IN  /\ IsRuntime(n) /\ n.state = r.state /\ n.generation = r.generation
               /\ n.draft = r.draft /\ n.healthy = r.healthy /\ n.owed = r.owed
               /\ n.mode \in {r.mode, "RecordCompleted"}
               /\ n.mode # r.mode => r.mode = "Recording"
<1>1. CASE r.mode = "Recording"
  <2>1. RecordingEnded(r) = [r EXCEPT !.mode = "RecordCompleted"]
    BY <1>1 DEF RecordingEnded
  <2> QED BY <1>1, <2>1 DEF IsRuntime, SessionModes
<1>2. CASE r.mode # "Recording"
  BY <1>2 DEF RecordingEnded
<1> QED BY <1>1, <1>2

LEMMA FailsFields ==
    ASSUME NEW r, IsRuntime(r), Sound(r), r.state # "Unconfigured"
    PROVE  LET n == WithoutNetwork(r)
           IN  /\ IsRuntime(n) /\ Sound(n) /\ n.state = "Paused" /\ ~n.owed
               /\ n.generation = r.generation /\ n.draft = r.draft
               /\ IsReplay(n.mode) <=> IsReplay(r.mode)
<1> DEFINE e == RecordingEnded(r)
           n == WithoutNetwork(r)
<1>1. /\ IsRuntime(e) /\ e.state = r.state /\ e.generation = r.generation
      /\ e.draft = r.draft /\ e.mode \in {r.mode, "RecordCompleted"}
      /\ e.mode # r.mode => r.mode = "Recording"
  BY EndedFields
<1>2. n = [e EXCEPT !.state = "Paused", !.healthy = FALSE, !.owed = FALSE]
  BY DEF WithoutNetwork
<1> HIDE DEF e, n
<1>3. /\ IsRuntime(n) /\ n.state = "Paused" /\ ~n.owed /\ n.generation = e.generation
      /\ n.draft = e.draft /\ n.mode = e.mode
  BY <1>1, <1>2 DEF IsRuntime, States
<1>4. Sound(n)
  BY <1>1, <1>3 DEF Sound
<1>5. IsReplay(n.mode) <=> IsReplay(r.mode)
  BY <1>1, <1>3 DEF IsReplay
<1> QED BY <1>1, <1>3, <1>4, <1>5 DEF n

\* The machine is the task's before the session's consoles are: the mutex covers both.
LEMMA TaskConfiguresInv == Standing /\ TaskConfigures => Standing'
<1>1. SUFFICES ASSUME Standing, TaskConfigures PROVE Standing'
  OBVIOUS
<1> DEFINE w == World
           v == World'
<1>2. /\ MachineInv(w, applied, disk) /\ Sound(w.rt) /\ Preparing(w) /\ Resuming(w)
      /\ Drafting(w) /\ Consoles(w) /\ Applied(w, applied) /\ Ending(w, applied, disk)
      /\ Owing(w) /\ IsWindow(win)
      /\ IsRuntime(rt) /\ IsConf(conf) /\ IsTask(task)
      /\ w.rt = rt /\ w.task = task /\ w.conf = conf /\ w.win = win /\ w.dlg = dlg
      /\ w.chk = chk /\ task.stage = "install" /\ ~conf.locked
      /\ disk' = disk /\ win' = win /\ dlg' = dlg /\ chk' = chk
  BY <1>1, TaskFinds, WorldFields DEF TaskAt, KeepGui, TaskConfigures
<1>3. /\ v.win = w.win /\ v.dlg = w.dlg /\ v.chk = w.chk /\ v.rt = rt'
      /\ v.task = task' /\ v.conf = conf'
  BY <1>2, WorldFields, NextFields
<1>4. /\ IsConf(conf') /\ conf'.locked /\ conf'.frontend = conf.frontend
      /\ conf'.committed = conf.committed /\ conf'.editing = conf.editing
  <2>1. conf' = [conf EXCEPT !.locked = TRUE]
    BY <1>1 DEF TaskConfigures
  <2> QED BY <1>2, <2>1 DEF IsConf
<1>5. /\ ~task.ok /\ task.kind \in Building /\ win.prep # "None" /\ win.app = "running"
      /\ rt.state # "Running" /\ ~Committing(task) /\ ~Committed(task)
      /\ rt.generation \in Nat /\ win.panes.generation \in Nat \cup {-1}
  BY <1>2 DEF Preparing, Resuming, Ending, IsWindow, Committing, Committed, IsRuntime
<1> HIDE DEF v, w
<1>6. ASSUME IsRuntime(rt'), Sound(rt'), rt'.state # "Running", rt'.owed => rt.owed,
             IsTask(task'), task'.stage = "installed", task'.kind = task.kind, task'.net = task.net,
             task'.draft = task.draft, task'.build = task.build, task'.ok => ~rt'.owed,
             Consoles(v), Applied(v, applied')
      PROVE  Standing'
  <2>1. Preparing(v) /\ Resuming(v)
    BY <1>2, <1>3, <1>5, <1>6 DEF Preparing, Resuming
  <2>2. Owing(v)
    BY <1>2, <1>3, <1>5, <1>6 DEF Owing
  <2>3. Drafting(v)
    BY <1>2, <1>3, <1>4, <1>5, <1>6 DEF Drafting, Committed
  <2>4. Ending(v, applied', disk)
    BY <1>2, <1>3, <1>5 DEF Ending
  <2>5. MachineInv(World', applied', disk')
    BY <1>2, <1>3, <1>6, <2>1, <2>2, <2>3, <2>4 DEF MachineInv, MachineBase, v
  <2>6. DialogInv(World')
    BY <1>1, <1>2, <1>4, UnseenByDialog
  <2> QED BY <1>1, <1>2, <1>4, <1>6, <2>5, <2>6, ThreadBecomes
<1>7. CASE /\ rt' = Installed(rt.generation + 1, SessionMode, task.build.draft, task.manifest)
           /\ task' = [TaskTo("installed") EXCEPT !.ok = TRUE]
           /\ applied' = IF task.kind \in {"Settings", "StopReplay"}
                         THEN [draft |-> task.draft, net |-> task.net] ELSE applied
  <2>1. SessionMode \in SessionModes
    BY DEF SessionMode, SessionModes
  <2>2. PICK n \in Nat : n = rt.generation + 1
    BY <1>5
  <2>3. rt' = Installed(n, SessionMode, task.build.draft, task.manifest)
    BY <1>7, <2>2
  <2>4. /\ IsRuntime(rt') /\ rt'.state = "Paused" /\ ~rt'.owed /\ rt'.generation = n
        /\ rt'.draft = task.build.draft /\ rt'.mode = SessionMode
    BY <1>2, <2>1, <2>3 DEF Installed, IsRuntime, IsTask, States
  <2>5. Sound(rt')
    BY <1>5, <2>2, <2>4 DEF Sound
  <2> DEFINE b == TaskTo("installed")
  <2>6. /\ IsTask(b) /\ b.stage = "installed" /\ b.kind = task.kind /\ b.net = task.net
        /\ b.draft = task.draft /\ b.build = task.build
    <3>1. "installed" \in Stages
      BY DEF Stages
    <3> QED BY <1>2, <3>1, StageFields
  <2>7. task' = [b EXCEPT !.ok = TRUE]
    BY <1>7
  <2> HIDE DEF b
  <2>8. /\ IsTask(task') /\ task'.stage = "installed" /\ task'.kind = task.kind
        /\ task'.net = task.net /\ task'.ok /\ task'.draft = task.draft /\ task'.build = task.build
    BY <2>6, <2>7 DEF IsTask
  <2>9. Committing(task') <=> task.kind = "Settings"
    BY <2>8 DEF Committing
  <2>10. ~Committed(task')
    BY <2>8 DEF Committed
  <2>11. /\ task.kind # "OpenReplay" => task.build.draft = task.draft
         /\ task.kind \notin {"Settings"} => task.draft = conf.committed
    BY <1>2, <1>5 DEF Drafting
  <2>12. Consoles(v)
    <3>1. win.panes.generation < rt'.generation
      BY <1>2, <1>5, <2>2, <2>4 DEF Consoles
    <3>2. win.panes.generation <= rt'.generation /\ win.panes.generation # rt'.generation
      BY <1>5, <2>2, <2>4, <3>1
    <3>3. task.kind = "OpenReplay" => IsReplay(rt'.mode)
      BY <2>4 DEF SessionMode, IsReplay
    <3>4. ~IsReplay(rt'.mode) => rt'.draft = IF Committing(task') THEN task'.draft ELSE conf'.committed
      BY <1>4, <2>4, <2>8, <2>9, <2>11, <3>3
    <3> QED BY <1>2, <1>3, <1>4, <2>4, <2>8, <3>2, <3>3, <3>4 DEF Consoles
  <2>13. Applied(v, applied')
    <3>1. applied = [draft |-> conf.committed, net |-> win.net]
      BY <1>2, <1>5 DEF Applied
    <3>2. task.kind = "StopReplay" => task.net = win.net /\ task.draft = conf.committed
      BY <1>2, <2>11 DEF Applied
    <3>3. applied' = IF task.kind = "Settings" THEN [draft |-> task.draft, net |-> task.net]
                     ELSE [draft |-> conf.committed, net |-> win.net]
      BY <1>7, <3>1, <3>2
    <3> QED BY <1>2, <1>3, <1>4, <2>8, <2>9, <2>10, <3>3 DEF Applied
  <2> QED BY <1>6, <2>4, <2>5, <2>8, <2>12, <2>13
<1>8. CASE /\ \/ rt' = rt
              \/ rt.state # "Unconfigured" /\ rt' = WithoutNetwork(rt)
           /\ task' = [TaskTo("installed") EXCEPT !.ok = FALSE]
           /\ applied' = applied
  <2>1. /\ IsRuntime(rt') /\ Sound(rt') /\ rt'.state # "Running" /\ (rt'.owed => rt.owed)
        /\ rt'.generation = rt.generation /\ rt'.draft = rt.draft
        /\ IsReplay(rt'.mode) <=> IsReplay(rt.mode)
    <3>1. Sound(rt)
      BY <1>2
    <3>2. CASE rt' = rt
      BY <1>2, <1>5, <3>1, <3>2
    <3>3. CASE rt.state # "Unconfigured" /\ rt' = WithoutNetwork(rt)
      BY <1>2, <3>1, <3>3, FailsFields
    <3> QED BY <1>8, <3>2, <3>3
  <2> DEFINE b == TaskTo("installed")
  <2>6. /\ IsTask(b) /\ b.stage = "installed" /\ b.kind = task.kind /\ b.net = task.net
        /\ b.draft = task.draft /\ b.build = task.build
    <3>1. "installed" \in Stages
      BY DEF Stages
    <3> QED BY <1>2, <3>1, StageFields
  <2>7. task' = [b EXCEPT !.ok = FALSE]
    BY <1>8
  <2> HIDE DEF b
  <2>8. /\ IsTask(task') /\ task'.stage = "installed" /\ task'.kind = task.kind
        /\ task'.net = task.net /\ ~task'.ok /\ task'.draft = task.draft /\ task'.build = task.build
    BY <2>6, <2>7 DEF IsTask
  <2>9. ~Committing(task') /\ ~Committed(task')
    BY <2>8 DEF Committing, Committed
  <2>10. Consoles(v)
    BY <1>2, <1>3, <1>4, <1>5, <2>1, <2>8, <2>9 DEF Consoles
  <2>11. Applied(v, applied')
    BY <1>2, <1>3, <1>4, <1>5, <1>8, <2>8, <2>9 DEF Applied
  <2> QED BY <1>6, <2>1, <2>8, <2>10, <2>11
<1> QED BY <1>1, <1>7, <1>8 DEF TaskConfigures

\* The consoles become the installed machine's, and the mutex is free again.
LEMMA TaskInstalledInv == Standing /\ TaskInstalled => Standing'
<1>1. SUFFICES ASSUME Standing, TaskInstalled PROVE Standing'
  OBVIOUS
<1> DEFINE w == World
           v == World'
<1>2. /\ MachineInv(w, applied, disk) /\ Sound(w.rt) /\ Preparing(w) /\ Resuming(w)
      /\ Drafting(w) /\ Consoles(w) /\ Applied(w, applied) /\ Ending(w, applied, disk)
      /\ Owing(w) /\ IsWindow(win)
      /\ IsRuntime(rt) /\ IsConf(conf) /\ IsTask(task)
      /\ w.rt = rt /\ w.task = task /\ w.conf = conf /\ w.win = win /\ w.dlg = dlg
      /\ w.chk = chk /\ task.stage = "installed"
      /\ disk' = disk /\ win' = win /\ dlg' = dlg /\ chk' = chk /\ rt' = rt /\ applied' = applied
  BY <1>1, TaskFinds, WorldFields DEF TaskAt, KeepGui, TaskInstalled
<1>3. /\ v.win = w.win /\ v.dlg = w.dlg /\ v.chk = w.chk /\ v.rt = w.rt
      /\ v.task = task' /\ v.conf = conf'
  BY <1>2, WorldFields, NextFields
<1>4. /\ IsConf(conf') /\ ~conf'.locked /\ conf'.frontend = FrontendInstalled
      /\ conf'.committed = conf.committed /\ conf'.editing = conf.editing
  <2>1. conf' = [conf EXCEPT !.frontend = FrontendInstalled, !.locked = FALSE]
    BY <1>1 DEF TaskInstalled
  <2> DEFINE f == FrontendInstalled
  <2> HIDE DEF f
  <2>2. conf' = [conf EXCEPT !.frontend = f, !.locked = FALSE]
    BY <2>1 DEF f
  <2>3. /\ IsConf(conf') /\ ~conf'.locked /\ conf'.frontend = f
        /\ conf'.committed = conf.committed /\ conf'.editing = conf.editing
    BY <1>2, <2>2 DEF IsConf
  <2> QED BY <2>3 DEF f
<1>5. /\ conf.locked /\ task.kind \in Building /\ win.prep # "None" /\ win.app = "running"
      /\ rt.state # "Running" /\ ~Committed(task)
  BY <1>2 DEF Preparing, Resuming, Ending, IsWindow, Committed, Drafting
<1>6. /\ IsTask(task') /\ task'.kind = task.kind /\ task'.net = task.net
      /\ task'.draft = task.draft /\ task'.build = task.build /\ task'.ok = task.ok
      /\ task'.stage = IF task.kind = "Settings" THEN "commit"
                       ELSE IF task.kind = "Recording" /\ task.ok THEN "run" ELSE "done"
  <2>1. "commit" \in Stages /\ "run" \in Stages
    BY DEF Stages
  <2>2. CASE task.kind = "Settings"
    <3>1. task' = TaskTo("commit")
      BY <1>1, <2>2 DEF TaskInstalled
    <3> QED BY <1>2, <2>1, <2>2, <3>1, StageFields
  <2>3. CASE task.kind = "Recording" /\ task.ok
    <3>1. task' = TaskTo("run")
      BY <1>1, <2>3 DEF TaskInstalled
    <3> QED BY <1>2, <2>1, <2>3, <3>1, StageFields
  <2>4. CASE task.kind # "Settings" /\ ~(task.kind = "Recording" /\ task.ok)
    <3>1. PICK ok \in BOOLEAN : ok = task.ok
      BY <1>2 DEF IsTask
    <3>2. task' = Finished(ok)
      BY <1>1, <2>4, <3>1 DEF TaskInstalled
    <3> QED BY <1>2, <2>4, <3>1, <3>2, FinishedFields
  <2> QED BY <2>2, <2>3, <2>4
<1> HIDE DEF v, w
<1>7. Committing(task') <=> Committing(task)
  BY <1>2, <1>6 DEF Committing
<1>8. ~Committed(task')
  BY <1>6 DEF Committed
<1>9. Preparing(v)
  BY <1>2, <1>3, <1>5, <1>6 DEF Preparing
<1>10. Resuming(v) /\ Owing(v) /\ Ending(v, applied, disk)
  BY <1>2, <1>3, <1>5, <1>6 DEF Resuming, Owing, Ending
<1>11. Drafting(v)
  BY <1>2, <1>3, <1>4, <1>5, <1>6, <1>8 DEF Drafting
<1>12. Consoles(v)
  <2>1. rt.generation > 0 => conf'.frontend = FrontendOf(rt.draft)
    BY <1>2, <1>4, <1>5 DEF Consoles, Drafting, FrontendInstalled
  <2> QED BY <1>2, <1>3, <1>4, <1>6, <1>7, <2>1 DEF Consoles
<1>13. Applied(v, applied)
  BY <1>2, <1>3, <1>4, <1>5, <1>6, <1>7, <1>8 DEF Applied
<1>14. MachineInv(World', applied', disk')
  BY <1>2, <1>3, <1>9, <1>10, <1>11, <1>12, <1>13 DEF MachineInv, MachineBase, v
<1>15. DialogInv(World')
  BY <1>1, <1>2, <1>4, UnseenByDialog
<1> QED BY <1>1, <1>2, <1>4, <1>6, <1>14, <1>15, ThreadBecomes

\* The draft is committed, and the dialog that is applying it has none to edit any more.
LEMMA CommittedDialog ==
    ASSUME NEW w, NEW v, DialogInv(w), w.dlg.applying, v.dlg = w.dlg, v.chk = w.chk,
           v.win = w.win, ~v.conf.editing.active
    PROVE  DialogInv(v)
<1>1. /\ ForThis(v) = ForThis(w) /\ QueuedForThis(v) = QueuedForThis(w)
      /\ SameNetwork(v) = SameNetwork(w)
  BY DEF ForThis, QueuedForThis, SameNetwork
<1>2. Modal(v) /\ Shows(v) /\ Buttons(v) /\ Found(v)
  BY DEF DialogInv, Modal, Shows, Buttons, Found
<1>3. Checking(v) /\ Spared(v)
  BY <1>1 DEF DialogInv, Checking, Spared
<1>4. Hears(v)
  BY DEF Hears, Checkable
<1> QED BY <1>2, <1>3, <1>4 DEF DialogInv

LEMMA TaskCommitsInv == Standing /\ TaskCommits => Standing'
<1>1. SUFFICES ASSUME Standing, TaskCommits PROVE Standing'
  OBVIOUS
<1> DEFINE w == World
           v == World'
<1>2. /\ MachineInv(w, applied, disk) /\ Sound(w.rt) /\ Preparing(w) /\ Resuming(w)
      /\ Drafting(w) /\ Consoles(w) /\ Applied(w, applied) /\ Ending(w, applied, disk)
      /\ Owing(w) /\ IsWindow(win) /\ DialogInv(w)
      /\ IsRuntime(rt) /\ IsConf(conf) /\ IsTask(task)
      /\ w.rt = rt /\ w.task = task /\ w.conf = conf /\ w.win = win /\ w.dlg = dlg
      /\ w.chk = chk /\ task.stage = "commit" /\ ~conf.locked
      /\ disk' = disk /\ win' = win /\ dlg' = dlg /\ chk' = chk /\ rt' = rt /\ applied' = applied
  BY <1>1, TaskFinds, WorldFields DEF TaskAt, KeepGui, TaskCommits
<1>3. /\ v.win = w.win /\ v.dlg = w.dlg /\ v.chk = w.chk /\ v.rt = w.rt
      /\ v.task = task' /\ v.conf = conf'
  BY <1>2, WorldFields, NextFields
<1>5. /\ task.kind = "Settings" /\ win.prep # "None" /\ win.app = "running"
      /\ rt.state # "Running" /\ ~Committed(task) /\ conf.editing.active
      /\ task.draft = conf.editing.draft
  <2>1. task.kind = "Settings" /\ win.prep # "None" /\ ~Committed(task)
    BY <1>2 DEF Preparing, Committed
  <2>2. win.prep = "Settings"
    BY <1>2, <2>1 DEF Preparing, KindsOf, IsWindow, Preparations
  <2>3. dlg.open
    BY <1>2, <2>2 DEF DialogInv, Modal
  <2> QED BY <1>2, <2>1, <2>3 DEF Resuming, Ending, IsWindow, Drafting
<1>6. /\ IsTask(task') /\ task'.kind = task.kind /\ task'.net = task.net
      /\ task'.draft = task.draft /\ task'.build = task.build /\ task'.ok = task.ok
      /\ task'.stage = "done"
  <2>1. PICK ok \in BOOLEAN : ok = task.ok
    BY <1>2 DEF IsTask
  <2>2. task' = Finished(ok)
    BY <1>1, <2>1 DEF TaskCommits
  <2> QED BY <1>2, <2>1, <2>2, FinishedFields
<1>7. /\ IsConf(conf') /\ conf'.locked = conf.locked /\ conf'.frontend = conf.frontend
      /\ ~conf'.editing.applying
      /\ task.ok => conf'.committed = task.draft /\ ~conf'.editing.active
      /\ ~task.ok => /\ conf'.committed = conf.committed
                     /\ conf'.editing.active = conf.editing.active
                     /\ conf'.editing.draft = conf.editing.draft
                     /\ conf'.editing.revision = conf.editing.revision
  <2>1. CASE task.ok
    <3>1. conf' = [conf EXCEPT !.committed = task.draft, !.editing = NotEditing]
      BY <1>1, <2>1 DEF TaskCommits
    <3> QED BY <1>2, <2>1, <3>1 DEF IsConf, NotEditing
  <2>2. CASE ~task.ok
    <3>1. conf' = [conf EXCEPT !.editing.applying = FALSE]
      BY <1>1, <2>2 DEF TaskCommits
    <3> QED BY <1>2, <2>2, <3>1 DEF IsConf
  <2> QED BY <2>1, <2>2
<1> HIDE DEF v, w
<1>8. /\ Committing(task) <=> task.ok
      /\ ~Committing(task')
      /\ Committed(task') <=> task.ok
  BY <1>2, <1>5, <1>6 DEF Committing, Committed
<1>9. Preparing(v)
  BY <1>2, <1>3, <1>5, <1>6 DEF Preparing
<1>10. Resuming(v) /\ Owing(v) /\ Ending(v, applied, disk)
  BY <1>2, <1>3, <1>5, <1>6 DEF Resuming, Owing, Ending
<1>11. Drafting(v)
  BY <1>2, <1>3, <1>5, <1>6, <1>7, <1>8 DEF Drafting
<1>12. Consoles(v)
  BY <1>2, <1>3, <1>6, <1>7, <1>8 DEF Consoles
<1>13. Applied(v, applied)
  BY <1>2, <1>3, <1>5, <1>6, <1>7, <1>8 DEF Applied
<1>14. MachineInv(World', applied', disk')
  BY <1>2, <1>3, <1>9, <1>10, <1>11, <1>12, <1>13 DEF MachineInv, MachineBase, v
<1>15. DialogInv(World')
  <2>1. CASE task.ok
    <3>1. w.dlg.applying
      BY <1>2, <1>5 DEF DialogInv, Modal, Preparing, KindsOf, IsWindow, Preparations
    <3>2. ~v.conf.editing.active /\ v.dlg = w.dlg /\ v.chk = w.chk /\ v.win = w.win
      BY <1>3, <1>7, <2>1
    <3>3. DialogInv(v)
      BY <1>2, <3>1, <3>2, CommittedDialog
    <3> QED BY <3>3 DEF v
  <2>2. CASE ~task.ok
    BY <1>1, <1>2, <1>7, <2>2, UnseenByDialog
  <2> QED BY <2>1, <2>2
<1> QED BY <1>1, <1>2, <1>6, <1>7, <1>14, <1>15, ThreadBecomes

\* The end of a task that has no machine to install.
LEMMA TaskEnds ==
    ASSUME Standing, task.stage \in {"start", "run"}, task.kind # "Settings",
           win' = win, dlg' = dlg, chk' = chk, disk' = disk, conf' = conf, applied' = applied,
           IsTask(task'), task'.stage = "done", task'.kind = task.kind, task'.net = task.net,
           IsRuntime(rt'), Sound(rt'), rt'.generation = rt.generation, rt'.draft = rt.draft,
           IsReplay(rt'.mode) <=> IsReplay(rt.mode),
           rt'.state = "Running" => rt.state = "Running" \/ task.kind = "Recording",
           rt'.owed => rt.owed /\ (task'.ok => task.kind = "ReplayCatalog")
    PROVE  Standing'
<1> DEFINE w == World
           v == World'
<1>1. /\ MachineInv(w, applied, disk) /\ Sound(w.rt) /\ Preparing(w) /\ Resuming(w)
      /\ Drafting(w) /\ Consoles(w) /\ Applied(w, applied) /\ Ending(w, applied, disk)
      /\ Owing(w) /\ IsWindow(win)
      /\ IsRuntime(rt) /\ IsConf(conf) /\ IsTask(task)
      /\ w.rt = rt /\ w.task = task /\ w.conf = conf /\ w.win = win /\ w.dlg = dlg
      /\ w.chk = chk
  BY TaskFinds, WorldFields
<1>2. /\ v.win = w.win /\ v.dlg = w.dlg /\ v.chk = w.chk /\ v.rt = rt'
      /\ v.task = task' /\ v.conf = w.conf
  BY <1>1, WorldFields, NextFields
<1> HIDE DEF v, w
<1>3. /\ ~Committing(task) /\ ~Committed(task) /\ ~Committing(task') /\ ~Committed(task')
      /\ win.prep # "None" /\ win.app = "running"
  BY <1>1 DEF Committing, Committed, Preparing, Ending, IsWindow
<1>4. Preparing(v) /\ Resuming(v)
  BY <1>1, <1>2, <1>3 DEF Preparing, Resuming
<1>5. Owing(v)
  BY <1>1, <1>2, <1>3 DEF Owing
<1>6. Drafting(v)
  BY <1>1, <1>2, <1>3 DEF Drafting
<1>7. Consoles(v)
  BY <1>1, <1>2, <1>3 DEF Consoles, Drafting
<1>8. Applied(v, applied)
  BY <1>1, <1>2, <1>3 DEF Applied
<1>9. Ending(v, applied, disk)
  BY <1>1, <1>2, <1>3 DEF Ending
<1>10. MachineInv(World', applied', disk')
  BY <1>1, <1>2, <1>4, <1>5, <1>6, <1>7, <1>8, <1>9 DEF MachineInv, MachineBase, v
<1>11. DialogInv(World')
  BY <1>1, UnseenByDialog
<1> QED BY <1>1, <1>3, <1>10, <1>11, ThreadBecomes

LEMMA TaskRunsInv == Standing /\ TaskRuns => Standing'
<1>1. SUFFICES ASSUME Standing, TaskRuns PROVE Standing'
  OBVIOUS
<1>2. /\ IsRuntime(rt) /\ IsTask(task) /\ Sound(rt) /\ task.stage = "run" /\ task.kind = "Recording"
      /\ win' = win /\ dlg' = dlg /\ chk' = chk /\ disk' = disk /\ conf' = conf
      /\ applied' = applied /\ rt' = RunMachine(World).rt /\ task' = Finished(CanExecute(rt))
  BY <1>1, TaskFinds, WorldFields DEF TaskRuns, TaskAt, KeepGui, Preparing
<1>3. /\ IsRuntime(rt') /\ Sound(rt') /\ ~rt'.owed /\ rt'.generation = rt.generation
      /\ rt'.draft = rt.draft /\ rt'.mode = rt.mode
  <2> DEFINE w == World
             v == RunMachine(w)
  <2>1. IsWorld(w) /\ IsRuntime(w.rt) /\ Sound(w.rt) /\ w.rt = rt
    BY <1>2, WorldFields
  <2>3. rt' = v.rt
    BY <1>2
  <2> HIDE DEF w
  <2>2. /\ IsRuntime(v.rt) /\ Sound(v.rt) /\ ~v.rt.owed
        /\ v.rt.generation = w.rt.generation /\ v.rt.mode = w.rt.mode
        /\ v.rt.draft = w.rt.draft
    BY <2>1, RunFields
  <2> HIDE DEF v
  <2> QED BY <2>1, <2>2, <2>3
<1>4. PICK ok \in BOOLEAN : ok = CanExecute(rt)
  BY <1>2 DEF CanExecute, IsRuntime
<1>5. IsTask(task') /\ task'.stage = "done" /\ task'.kind = task.kind /\ task'.net = task.net
  <2>1. task' = Finished(ok)
    BY <1>2, <1>4
  <2> QED BY <1>2, <2>1, FinishedFields
<1> QED BY <1>1, <1>2, <1>3, <1>5, TaskEnds

LEMMA TaskAsksInv == Standing /\ Recorded /\ TaskAsks => Standing'
<1>1. SUFFICES ASSUME Standing, Recorded, TaskAsks PROVE Standing'
  OBVIOUS
<1>2. /\ IsRuntime(rt) /\ IsTask(task) /\ Sound(rt) /\ task.stage = "start"
      /\ win' = win /\ dlg' = dlg /\ chk' = chk /\ disk' = disk /\ conf' = conf
      /\ applied' = applied /\ Owing(World) /\ World.rt = rt /\ World.task = task
  BY <1>1, TaskFinds, WorldFields DEF TaskAsks, TaskAt, KeepGui
<1>3. rt.owed => task.kind # "ReplaySnapshot"
  BY <1>2 DEF Owing
<1>4. PICK no \in BOOLEAN, yes \in BOOLEAN : no = FALSE /\ yes = TRUE
  OBVIOUS
<1>5. ASSUME NEW ok \in BOOLEAN, task' = Finished(ok)
      PROVE  /\ IsTask(task') /\ task'.stage = "done" /\ task'.kind = task.kind
             /\ task'.net = task.net /\ task'.ok = ok
  BY <1>2, <1>5, FinishedFields
<1>6. CASE /\ task.kind = "Reset" /\ rt.state # "Unconfigured" /\ ~IsReplay(rt.mode)
           /\ rt' = [rt EXCEPT !.state = "Paused", !.healthy = TRUE, !.owed = FALSE]
           /\ task' = Finished(TRUE)
  <2>1. task' = Finished(yes)
    BY <1>4, <1>6
  <2>2. /\ IsRuntime(rt') /\ rt'.state = "Paused" /\ ~rt'.owed
        /\ rt'.generation = rt.generation /\ rt'.draft = rt.draft /\ rt'.mode = rt.mode
    BY <1>2, <1>6 DEF IsRuntime, States
  <2>3. Sound(rt')
    BY <1>2, <1>6, <2>2 DEF Sound
  <2> QED BY <1>1, <1>2, <1>5, <1>6, <2>1, <2>2, <2>3, TaskEnds
<1>7. CASE /\ task.kind = "Reset" /\ task' = Finished(FALSE)
           /\ rt' = rt \/ (rt.state # "Unconfigured" /\ rt' = WithoutNetwork(rt))
  <2>1. task' = Finished(no)
    BY <1>4, <1>7
  <2>2. /\ IsRuntime(rt') /\ Sound(rt') /\ (rt'.state = "Running" => rt.state = "Running")
        /\ (rt'.owed => rt.owed)
        /\ rt'.generation = rt.generation /\ rt'.draft = rt.draft
        /\ IsReplay(rt'.mode) <=> IsReplay(rt.mode)
    BY <1>2, <1>7, FailsFields
  <2> QED BY <1>1, <1>2, <1>4, <1>5, <1>7, <2>1, <2>2, TaskEnds
<1>8. CASE /\ task.kind = "ReplaySnapshot" /\ rt' = rt
           /\ \E ok \in {rt.state = "Paused" /\ rt.mode = "Replaying", FALSE} : task' = Finished(ok)
  <2>1. PICK ok \in BOOLEAN : task' = Finished(ok)
    BY <1>8
  <2> QED BY <1>1, <1>2, <1>3, <1>5, <1>8, <2>1, TaskEnds
<1>9. CASE /\ task.kind = "ReplayCatalog" /\ rt' = rt
           /\ \E snapshots \in BOOLEAN :
                task' = [Finished(host.record.exists) EXCEPT !.snapshots = snapshots]
  <2>1. PICK snapshots \in BOOLEAN :
          task' = [Finished(host.record.exists) EXCEPT !.snapshots = snapshots]
    BY <1>9
  <2>2. PICK ok \in BOOLEAN : ok = host.record.exists
    BY <1>1 DEF Recorded
  <2> DEFINE f == Finished(ok)
  <2>3. IsTask(f) /\ f.stage = "done" /\ f.kind = task.kind /\ f.net = task.net
    BY <1>2, FinishedFields
  <2>4. task' = [f EXCEPT !.snapshots = snapshots]
    BY <2>1, <2>2
  <2> HIDE DEF f
  <2>5. IsTask(task') /\ task'.stage = "done" /\ task'.kind = task.kind /\ task'.net = task.net
    BY <2>3, <2>4 DEF IsTask
  <2> QED BY <1>1, <1>2, <1>9, <2>5, TaskEnds
<1> QED BY <1>1, <1>6, <1>7, <1>8, <1>9 DEF TaskAsks

-----------------------------------------------------------------------------
(* The preflight task's thread.                                            *)

LEMMA CheckBecomes ==
    ASSUME Standing, win' = win, dlg' = dlg, rt' = rt, conf' = conf, task' = task,
           disk' = disk, applied' = applied, IsCheck(chk'), DialogInv(World'),
           chk.stage \notin {"idle", "done"}
    PROVE  Standing'
<1> DEFINE w == World
           v == World'
<1>1. /\ Typed(w) /\ MachineInv(w, applied, disk) /\ Fresh(w) /\ Ending(w, applied, disk)
      /\ v.win = w.win /\ v.dlg = w.dlg /\ v.rt = w.rt /\ v.conf = w.conf /\ v.task = w.task
      /\ w.chk = chk /\ v.chk = chk' /\ IsWorld(v)
  BY TaskFinds, WorldFields, NextFields DEF Standing, Inv
<1>2. DialogInv(v)
  OBVIOUS
<1> HIDE DEF v, w
<1>3. MachineInv(v, applied, disk)
  BY <1>1, MachineFrame DEF Ending
<1>4. Typed(v) /\ Fresh(v)
  BY <1>1 DEF Typed, Fresh
<1> QED BY <1>1, <1>2, <1>3, <1>4 DEF Standing, Inv, v

\* What is sampled is what the dialog shows, unless it was edited since it asked.
LEMMA CheckMachineInv == Standing /\ CheckMachine => Standing'
<1>1. SUFFICES ASSUME Standing, CheckMachine PROVE Standing'
  OBVIOUS
<1> DEFINE w == World
           v == World'
           sampled == IF ~conf.editing.active \/ conf.editing.applying
                      THEN Result(0, FALSE, FALSE, DefaultDraft)
                      ELSE Result(conf.editing.revision, TRUE,
                                  PreflightErrors(host.files, conf.editing.draft) # {},
                                  conf.editing.draft)
<1>2. /\ Typed(w) /\ Preparing(w) /\ Drafting(w) /\ DialogInv(w)
      /\ IsConf(conf) /\ IsCheck(chk) /\ IsDialog(dlg)
      /\ w.conf = conf /\ w.dlg = dlg /\ w.chk = chk
      /\ v.win = w.win /\ v.dlg = w.dlg /\ v.conf = w.conf /\ v.chk = chk'
      /\ chk.stage = "sample" /\ chk' = [chk EXCEPT !.stage = "network", !.machine = sampled]
  BY <1>1, TaskFinds, WorldFields, NextFields DEF CheckMachine, Typed
<1>3. IsOutcome(sampled)
  BY <1>2 DEF Result, IsOutcome, IsConf
<1>4. /\ ~sampled.success => sampled.revision = 0
      /\ sampled.success => /\ sampled.revision = conf.editing.revision
                            /\ sampled.draft = conf.editing.draft
      /\ sampled.success <=> conf.editing.active /\ ~conf.editing.applying
  BY <1>2 DEF Result, IsConf
<1> HIDE DEF sampled, v, w
<1>5. /\ IsCheck(chk') /\ chk'.stage = "network" /\ chk'.machine = sampled
      /\ chk'.generation = chk.generation /\ chk'.net = chk.net
      /\ chk'.netRevision = chk.netRevision /\ chk'.netError = chk.netError
      /\ chk'.queued = chk.queued /\ chk'.queuedGeneration = chk.queuedGeneration
      /\ chk'.latestNet = chk.latestNet /\ chk'.latestRevision = chk.latestRevision
  <2>1. /\ IsCheck(chk) /\ chk' = [chk EXCEPT !.stage = "network", !.machine = sampled]
    BY <1>2
  <2>2. /\ chk'.stage = "network" /\ chk'.machine = sampled
        /\ chk'.generation = chk.generation /\ chk'.net = chk.net
        /\ chk'.netRevision = chk.netRevision /\ chk'.netError = chk.netError
        /\ chk'.queued = chk.queued /\ chk'.queuedGeneration = chk.queuedGeneration
        /\ chk'.latestNet = chk.latestNet /\ chk'.latestRevision = chk.latestRevision
    BY ONLY <2>1 DEF IsCheck
  <2>3. IsCheck(chk')
    BY ONLY <2>1, <1>3 DEF IsCheck, IsOutcome
  <2> QED BY <2>2, <2>3
<1>6. /\ ForThis(v) = ForThis(w) /\ QueuedForThis(v) = QueuedForThis(w)
      /\ SameNetwork(v) = SameNetwork(w)
  BY <1>2, <1>5 DEF ForThis, QueuedForThis, SameNetwork
<1>7. dlg.open /\ ~dlg.applying => sampled.success
  BY <1>2, <1>4, DialogEdits DEF DialogInv
<1>8. Modal(v) /\ Shows(v) /\ Buttons(v) /\ Found(v)
  BY <1>2, <1>5 DEF DialogInv, Modal, Shows, Buttons, Found
<1>9. Checking(v)
  <2>1. conf.editing.revision \in Nat /\ dlg.view.revision \in Nat
    BY <1>2 DEF IsConf, IsDialog
  <2>2. dlg.open /\ ForThis(w) /\ ~sampled.success => dlg.view.revision > 0
    BY <1>2, <1>7, <2>1 DEF DialogInv, Spared
  <2> QED BY <1>2, <1>4, <1>5, <1>6, <2>1, <2>2 DEF DialogInv, Checking
<1>10. Spared(v)
  BY <1>2, <1>5, <1>6 DEF DialogInv, Spared
<1>11. Hears(v)
  <2>1. dlg.open /\ Checkable(dlg) => sampled.revision = dlg.view.revision
    <3>1. SUFFICES ASSUME dlg.open, Checkable(dlg) PROVE sampled.revision = dlg.view.revision
      OBVIOUS
    <3>2. sampled.success /\ conf.editing.active
      BY <1>4, <1>7, <3>1 DEF Checkable
    <3>3. dlg.view = ViewOf(conf.editing.draft, conf.editing.revision)
      BY <1>2, <3>1, <3>2 DEF DialogInv, Shows
    <3> QED BY <1>4, <3>2, <3>3 DEF ViewOf, View
  <2> QED BY <1>2, <1>5, <1>6, <2>1 DEF DialogInv, Hears
<1>12. DialogInv(World')
  BY <1>8, <1>9, <1>10, <1>11 DEF DialogInv, v
<1>13. /\ win' = win /\ dlg' = dlg /\ rt' = rt /\ conf' = conf /\ task' = task
       /\ disk' = disk /\ applied' = applied
  BY <1>1 DEF CheckMachine
<1> QED BY <1>1, <1>2, <1>5, <1>12, <1>13, CheckBecomes

LEMMA CheckNetworkInv == Standing /\ CheckNetwork => Standing'
<1>1. SUFFICES ASSUME Standing, CheckNetwork PROVE Standing'
  OBVIOUS
<1> DEFINE w == World
           v == World'
<1>2. PICK error \in BOOLEAN : error = ~NetworkReady(chk.net)
  OBVIOUS
<1>3. /\ DialogInv(w) /\ IsCheck(chk)
      /\ w.conf = conf /\ w.dlg = dlg /\ w.chk = chk
      /\ v.win = w.win /\ v.dlg = w.dlg /\ v.conf = w.conf /\ v.chk = chk'
      /\ chk.stage = "network" /\ chk' = [chk EXCEPT !.stage = "done", !.netError = error]
  BY <1>1, <1>2, TaskFinds, WorldFields, NextFields DEF CheckNetwork, Typed
<1> HIDE DEF v, w
<1>4. /\ IsCheck(chk') /\ chk'.stage = "done" /\ chk'.machine = chk.machine
      /\ chk'.generation = chk.generation /\ chk'.net = chk.net
      /\ chk'.netRevision = chk.netRevision /\ chk'.netError = error
      /\ chk'.queued = chk.queued /\ chk'.queuedGeneration = chk.queuedGeneration
      /\ chk'.latestNet = chk.latestNet /\ chk'.latestRevision = chk.latestRevision
  BY <1>3 DEF IsCheck
<1>5. /\ ForThis(v) = ForThis(w) /\ QueuedForThis(v) = QueuedForThis(w)
      /\ SameNetwork(v) = SameNetwork(w)
  BY <1>3, <1>4 DEF ForThis, QueuedForThis, SameNetwork
<1>6. Modal(v) /\ Shows(v) /\ Buttons(v) /\ Found(v)
  BY <1>3, <1>4 DEF DialogInv, Modal, Shows, Buttons, Found
<1>7. Checking(v)
  BY <1>2, <1>3, <1>4, <1>5 DEF DialogInv, Checking
<1>8. Spared(v) /\ Hears(v)
  BY <1>3, <1>4, <1>5 DEF DialogInv, Spared, Hears
<1>9. DialogInv(World')
  BY <1>6, <1>7, <1>8 DEF DialogInv, v
<1>10. /\ win' = win /\ dlg' = dlg /\ rt' = rt /\ conf' = conf /\ task' = task
       /\ disk' = disk /\ applied' = applied
  BY <1>1 DEF CheckNetwork
<1> QED BY <1>1, <1>3, <1>4, <1>9, <1>10, CheckBecomes

-----------------------------------------------------------------------------
(* The worker, the host, the start and the exit.                           *)

\* The worker stops the machine on its own.
LEMMA StopBecomes ==
    ASSUME Standing, KeepAllButRt, IsRuntime(rt'), Sound(rt'), rt'.state = "Paused",
           rt'.generation = rt.generation, rt'.draft = rt.draft,
           IsReplay(rt'.mode) <=> IsReplay(rt.mode), rt'.owed => rt.owed
    PROVE  Standing'
<1> DEFINE w == World
           v == World'
<1>1. /\ Typed(w) /\ MachineInv(w, applied, disk) /\ DialogInv(w)
      /\ v.win = w.win /\ v.dlg = w.dlg /\ v.chk = w.chk /\ v.conf = w.conf /\ v.task = w.task
      /\ w.rt = rt /\ v.rt = rt' /\ IsWorld(v) /\ applied' = applied /\ disk' = disk
  BY TaskFinds, WorldFields, NextFields DEF KeepAllButRt
<1> HIDE DEF v, w
<1>2. MachineInv(v, applied, disk)
  BY <1>1, RuntimeBase
<1>3. DialogInv(v)
  BY <1>1, DialogFrame
<1>4. Typed(v) /\ Fresh(v)
  BY <1>1 DEF Typed, Fresh
<1> QED BY <1>1, <1>2, <1>3, <1>4 DEF Standing, Inv, v

LEMMA StopsAtBreakpointInv == Standing /\ StopsAtBreakpoint => Standing'
<1>1. SUFFICES ASSUME Standing, StopsAtBreakpoint PROVE Standing'
  OBVIOUS
<1>2. /\ IsRuntime(rt) /\ Sound(rt) /\ rt.state = "Running" /\ KeepAllButRt
      /\ rt' = [rt EXCEPT !.state = "Paused"]
  BY <1>1, TaskFinds DEF StopsAtBreakpoint
<1>3. /\ IsRuntime(rt') /\ rt'.state = "Paused" /\ rt'.generation = rt.generation
      /\ rt'.draft = rt.draft /\ rt'.mode = rt.mode /\ rt'.owed = rt.owed
  BY <1>2 DEF IsRuntime, States
<1>4. Sound(rt')
  BY <1>2, <1>3 DEF Sound
<1> QED BY <1>1, <1>2, <1>3, <1>4, StopBecomes

LEMMA MachineStopsInv == Standing /\ MachineStops => Standing'
<1>1. SUFFICES ASSUME Standing, MachineStops PROVE Standing'
  OBVIOUS
<1> DEFINE e == RecordingEnded(rt)
<1>2. /\ IsRuntime(rt) /\ Sound(rt) /\ rt.state = "Running" /\ KeepAllButRt
  BY <1>1, TaskFinds DEF MachineStops
<1>3. rt' = [e EXCEPT !.state = "Paused", !.mode = IF @ = "Replaying" THEN "ReplayEnded" ELSE @]
  BY <1>1 DEF MachineStops
<1>4. /\ IsRuntime(e) /\ e.generation = rt.generation /\ e.draft = rt.draft
      /\ e.owed = rt.owed /\ e.mode \in {rt.mode, "RecordCompleted"}
      /\ e.mode # rt.mode => rt.mode = "Recording"
  BY <1>2, EndedFields
<1> HIDE DEF e
<1>5. PICK mode \in SessionModes : mode = IF e.mode = "Replaying" THEN "ReplayEnded" ELSE e.mode
  BY <1>4 DEF IsRuntime, SessionModes
<1>6. rt' = [e EXCEPT !.state = "Paused", !.mode = mode]
  BY <1>3, <1>4, <1>5 DEF IsRuntime
<1>7. /\ IsRuntime(rt') /\ rt'.state = "Paused" /\ rt'.generation = rt.generation
      /\ rt'.draft = rt.draft /\ rt'.mode = mode /\ rt'.owed = rt.owed
  BY <1>4, <1>6 DEF IsRuntime, States
<1>8. Sound(rt')
  BY <1>2, <1>7 DEF Sound
<1>9. IsReplay(mode) <=> IsReplay(rt.mode)
  BY <1>4, <1>5 DEF IsReplay
<1> QED BY <1>1, <1>2, <1>7, <1>8, <1>9, StopBecomes

LEMMA NetworkFailsInv == Standing /\ NetworkFails => Standing'
<1>1. SUFFICES ASSUME Standing, NetworkFails PROVE Standing'
  OBVIOUS
<1>2. /\ IsRuntime(rt) /\ Sound(rt) /\ rt.state # "Unconfigured" /\ KeepAllButRt
      /\ rt' = WithoutNetwork(rt)
  BY <1>1, TaskFinds DEF NetworkFails
<1>3. /\ IsRuntime(rt') /\ Sound(rt') /\ rt'.state = "Paused" /\ ~rt'.owed
      /\ rt'.generation = rt.generation /\ rt'.draft = rt.draft
      /\ IsReplay(rt'.mode) <=> IsReplay(rt.mode)
  BY <1>2, FailsFields
<1> QED BY <1>1, <1>2, <1>3, StopBecomes

LEMMA SameWorld ==
    ASSUME Standing, UNCHANGED <<win, dlg, chk, rt, conf, task, disk, applied>>
    PROVE  Standing'
<1>1. World' = World
  BY DEF World
<1> QED BY <1>1 DEF Standing

\* An exit finds no dialog, and no applied settings that the window has not taken over.
LEMMA ExitInv == Standing /\ Exit => Standing'
<1>1. SUFFICES ASSUME Standing, Exit PROVE Standing'
  OBVIOUS
<1> DEFINE w == World
           v == World'
<1>2. PICK saved \in BOOLEAN :
        /\ disk' = IF saved THEN [draft |-> CommittedDraft, net |-> win.net] ELSE disk
        /\ win' = [win EXCEPT !.app = IF saved THEN "saved" ELSE "lost"]
  BY <1>1 DEF Exit
<1>3. /\ Typed(w) /\ MachineInv(w, applied, disk) /\ DialogInv(w) /\ Fresh(w) /\ IsWindow(win)
      /\ w.win = win /\ w.conf = conf /\ w.task = task /\ w.chk = chk /\ w.dlg = dlg
      /\ ~win.open /\ Quiet /\ applied' = applied
      /\ v.win = win' /\ v.dlg = w.dlg /\ v.chk = w.chk /\ v.rt = w.rt /\ v.conf = w.conf
      /\ v.task = w.task /\ IsWorld(v)
  BY <1>1, TaskFinds, WorldFields, NextFields DEF Exit, Standing, Inv
<1> HIDE DEF v, w
<1>4. /\ IsWindow(win') /\ win'.app = (IF saved THEN "saved" ELSE "lost")
      /\ win'.open = win.open /\ win'.net = win.net /\ win'.pendingNet = win.pendingNet
      /\ win'.prep = win.prep /\ win'.choosing = win.choosing /\ win'.resume = win.resume
      /\ win'.panes = win.panes
  <2>1. PICK app \in {"running", "saved", "lost"} : app = IF saved THEN "saved" ELSE "lost"
    OBVIOUS
  <2>2. win' = [win EXCEPT !.app = app]
    BY <1>2, <2>1
  <2> QED BY <1>3, <2>1, <2>2 DEF IsWindow
<1>5. task.kind # "Settings"
  <2>1. win.prep # "Settings"
    BY <1>3 DEF DialogInv, Modal
  <2> QED BY <1>3, <2>1 DEF MachineInv, MachineBase, Preparing, KindsOf
<1>6. applied = [draft |-> conf.committed, net |-> win.net]
  BY <1>3, <1>5 DEF MachineInv, MachineBase, Applied, Committing, Committed
<1>7. Ending(v, applied, disk')
  <2>1. win.net \in Nets /\ disk = [draft |-> disk.draft, net |-> disk.net] /\ disk.net \in Nets
    BY <1>3 DEF IsWindow, MachineInv, MachineBase, Ending
  <2>2. disk' = [draft |-> disk'.draft, net |-> disk'.net] /\ disk'.net \in Nets
    BY <1>2, <2>1
  <2>3. saved => disk' = applied
    BY <1>2, <1>6 DEF CommittedDraft
  <2> QED BY <1>3, <1>4, <2>2, <2>3 DEF Ending, Quiet
<1>8. /\ Sound(v.rt) /\ Preparing(v) /\ Resuming(v) /\ Owing(v) /\ Drafting(v) /\ Consoles(v)
      /\ Applied(v, applied)
  BY <1>3, <1>4 DEF MachineInv, MachineBase, Preparing, Resuming, Owing, Drafting, Consoles, Applied
<1>9. DialogInv(v)
  BY <1>3, <1>4, DialogFrame
<1>10. Typed(v) /\ Fresh(v)
  BY <1>3, <1>4 DEF Typed, Fresh
<1> QED BY <1>3, <1>7, <1>8, <1>9, <1>10 DEF Standing, Inv, MachineInv, MachineBase, v

\* What an application finds at its start.
LEMMA StartsInv ==
    ASSUME NEW files, NEW stored, stored = [draft |-> stored.draft, net |-> stored.net],
           stored.net \in Nets
    PROVE  LET v == ShownWorld(Started(files, stored), stored) IN Inv(v, stored, stored)
<1> DEFINE r == Started(files, stored)
           w == StartedWorld(r, stored)
<1>1. /\ IsRuntime(r) /\ Sound(r) /\ r.state # "Running" /\ ~r.owed
      /\ r.generation > 0 => r.draft = stored.draft
  <2>1. IsRuntime(Unconfigured) /\ Sound(Unconfigured) /\ Unconfigured.state = "Unconfigured"
        /\ ~Unconfigured.owed /\ Unconfigured.generation = 0
    BY DEF Unconfigured, IsRuntime, Sound, NoManifest, States, SessionModes
  <2> DEFINE i == Installed(1, "Normal", stored.draft, NoManifest)
  <2>2. IsRuntime(i) /\ Sound(i) /\ i.state = "Paused" /\ ~i.owed /\ i.draft = stored.draft
    <3>1. i = [state |-> "Paused", mode |-> "Normal", generation |-> 1, draft |-> stored.draft,
               healthy |-> TRUE, owed |-> FALSE, manifest |-> NoManifest]
      BY DEF Installed
    <3> HIDE DEF i
    <3>2. /\ i.state = "Paused" /\ i.mode = "Normal" /\ i.generation = 1 /\ i.draft = stored.draft
          /\ i.healthy = TRUE /\ i.owed = FALSE /\ i.manifest = NoManifest
      BY <3>1
    <3>3. IsRuntime(i)
      BY <3>1, <3>2 DEF IsRuntime, NoManifest, States, SessionModes
    <3>4. Sound(i)
      BY <3>2 DEF Sound
    <3> QED BY <3>2, <3>3, <3>4
  <2>3. r = Unconfigured \/ r = i
    BY DEF Started
  <2> HIDE DEF i, r
  <2> QED BY <2>1, <2>2, <2>3
<1> HIDE DEF r
<1>2. /\ IsWorld(w) /\ w.win = NewWindow(stored.net) /\ w.dlg = Closed(0) /\ w.chk = IdleCheck
      /\ w.rt = r /\ w.task = NoTask
      /\ w.conf = [committed |-> stored.draft, editing |-> NotEditing, locked |-> FALSE,
                   frontend |-> IF r.generation = 0 THEN DefaultFrontend
                                ELSE FrontendOf(stored.draft)]
  BY DEF StartedWorld, IsWorld
<1>3. ShownWorld(r, stored) = ApplyStatus(w)
  BY DEF ShownWorld
<1> HIDE DEF w
<1>4. /\ IsConf(w.conf) /\ w.conf.committed = stored.draft /\ ~w.conf.locked
      /\ ~w.conf.editing.active /\ ~w.conf.editing.applying
      /\ r.generation # 0 => w.conf.frontend = FrontendOf(stored.draft)
  BY <1>2 DEF IsConf, NotEditing
<1>5. /\ IsWindow(w.win) /\ w.win.open /\ w.win.app = "running" /\ w.win.net = stored.net
      /\ w.win.prep = "None" /\ ~w.win.choosing /\ w.win.panes.generation = -1
  <2>1. Status(Unconfigured) \in [state : States, mode : SessionModes, runnable : BOOLEAN]
    BY DEF Status, Unconfigured, CanExecute, States, SessionModes
  <2> DEFINE s == Status(Unconfigured)
  <2>2. w.win = [open |-> TRUE, app |-> "running", net |-> stored.net, pendingNet |-> 0, prep |-> "None",
                 resume |-> FALSE, stops |-> FALSE, choosing |-> FALSE, shown |-> s, panes |-> NoPanes]
    BY <1>2 DEF NewWindow
  <2> HIDE DEF s
  <2>3. s \in [state : States, mode : SessionModes, runnable : BOOLEAN]
    BY <2>1 DEF s
  <2> QED BY <2>2, <2>3 DEF IsWindow, NoPanes, Preparations
<1>6. /\ IsCheck(w.chk) /\ w.chk.stage = "idle" /\ ~w.chk.queued /\ w.chk.generation = 0
      /\ w.chk.queuedGeneration = 0
  BY <1>2 DEF IsCheck, IdleCheck, NoResult
<1>7. /\ IsDialog(w.dlg) /\ ~w.dlg.open /\ w.dlg.generation = 0 /\ ~w.dlg.button /\ ~w.dlg.applying
  BY <1>2, ClosedDialog
<1>8. /\ IsTask(w.task) /\ w.task.kind = "none" /\ w.task.stage = "none" /\ ~w.task.ok
      /\ ~Committing(w.task) /\ ~Committed(w.task)
  BY <1>2, NoTaskType DEF NoTask, Committing, Committed
<1>9. Typed(w)
  BY <1>1, <1>2, <1>4, <1>5, <1>6, <1>7, <1>8 DEF Typed
<1>10. Preparing(w) /\ Resuming(w) /\ Owing(w)
  BY <1>1, <1>2, <1>5, <1>8 DEF Preparing, Resuming, Owing, KindsOf
<1>11. Drafting(w)
  BY <1>4, <1>7, <1>8 DEF Drafting, Building
<1>12. Consoles(w)
  <2>1. r.generation \in Nat
    BY <1>1 DEF IsRuntime
  <2> QED BY <1>1, <1>2, <1>4, <1>5, <1>8, <2>1 DEF Consoles
<1>13. Applied(w, stored)
  BY <1>4, <1>5, <1>8 DEF Applied
<1>14. Ending(w, stored, stored)
  BY <1>5 DEF Ending
<1>15. DialogInv(w)
  <2>1. KeepsChecks(w)
    BY <1>6, <1>7 DEF KeepsChecks
  <2> QED BY <1>5, <1>7, <2>1, NoDialog
<1>16. MachineInv(w, stored, stored)
  BY <1>1, <1>2, <1>10, <1>11, <1>12, <1>13, <1>14 DEF MachineInv, MachineBase
<1>17. Inv(ApplyStatus(w), stored, stored)
  BY <1>4, <1>9, <1>15, <1>16, StatusInv
<1> QED BY <1>3, <1>17 DEF r

LEMMA RestartInv == Standing /\ Restart => Standing'
<1>1. SUFFICES ASSUME Standing, Restart PROVE Standing'
  OBVIOUS
<1> DEFINE v == ShownWorld(Started(host.files, disk), disk)
<1>2. disk = [draft |-> disk.draft, net |-> disk.net] /\ disk.net \in Nets
  BY <1>1, TaskFinds DEF Ending
<1>3. Inv(v, disk, disk)
  BY <1>2, StartsInv
<1>4. Become(v) /\ applied' = disk /\ disk' = disk
  BY <1>1 DEF Restart
<1> HIDE DEF v
<1>5. IsWorld(v)
  BY <1>3 DEF Inv, Typed
<1> QED BY <1>3, <1>4, <1>5, Becomes

LEMMA InitStanding == Init => Standing /\ Recorded
<1>1. SUFFICES ASSUME Init PROVE Standing /\ Recorded
  OBVIOUS
<1> DEFINE v == ShownWorld(Started(InitialHost, disk), disk)
<1>2. disk = [draft |-> disk.draft, net |-> disk.net] /\ disk.net \in Nets
  BY <1>1, FrontendAssumption DEF Init, Nets
<1>3. Inv(v, disk, disk)
  BY <1>2, StartsInv
<1>4. /\ win = v.win /\ dlg = v.dlg /\ chk = v.chk /\ rt = v.rt /\ conf = v.conf /\ task = v.task
      /\ applied = disk
  BY <1>1 DEF Init
<1> HIDE DEF v
<1>5. World = v
  BY <1>3, <1>4 DEF Inv, Typed, IsWorld, World
<1>6. Recorded
  BY <1>1 DEF Init, Recorded, NoManifest
<1> QED BY <1>3, <1>4, <1>5, <1>6 DEF Standing

\* Every Record there is says whether there is one.
LEMMA RecordedInv == Standing /\ Recorded /\ Next => Recorded'
<1>1. SUFFICES ASSUME Standing, Recorded, Next PROVE Recorded'
  OBVIOUS
<1>2. SavedRecord.exists \in BOOLEAN /\ rt.manifest.exists \in BOOLEAN
  BY <1>1, TaskFinds DEF SavedRecord, IsRuntime, Recorded
<1>3. ASSUME NEW m, m.exists \in BOOLEAN, host' = [host EXCEPT !.record = m] PROVE Recorded'
  BY <1>1, <1>3 DEF Recorded
<1>4. ASSUME host' = host PROVE Recorded'
  BY <1>1, <1>4 DEF Recorded
<1>5. CASE StopRecording
  BY <1>2, <1>3, <1>4, <1>5 DEF StopRecording
<1>6. CASE TaskAsks
  <2>1. host' = host \/ host' = [host EXCEPT !.record = SavedRecord]
    BY <1>6 DEF TaskAsks
  <2> QED BY <1>2, <1>3, <1>4, <2>1
<1>7. CASE MachineStops
  BY <1>2, <1>3, <1>7 DEF MachineStops
<1>8. CASE NetworkFails
  BY <1>2, <1>3, <1>8 DEF NetworkFails
<1>9. CASE HostChanges
  <2>1. PICK files : host' = [host EXCEPT !.files = files]
    BY <1>9 DEF HostChanges
  <2> QED BY <1>1, <2>1 DEF Recorded
<1>10. CASE Gui /\ ~StopRecording
  BY <1>4, <1>10 DEF Gui, Tick, Run, Pause, RunWithRecord, Reset, CreateReplaySnapshot, StopReplay,
     OpenReplay, ChooseStart, ShowSettings, CancelSettings, EditMachine, RebuildView, EditNetwork,
     PreflightTimer, ClickApply, CloseWindow, KeepRest
<1>11. CASE Threads /\ ~TaskAsks
  BY <1>4, <1>11 DEF Threads, TaskTakesDraft, TaskBuilds, TaskBuildFails, TaskConfigures,
     TaskInstalled, TaskCommits, TaskRuns, CheckMachine, CheckNetwork
<1>12. CASE StopsAtBreakpoint \/ Exit \/ Restart \/ Ended
  BY <1>4, <1>12 DEF StopsAtBreakpoint, Exit, Restart, Ended, vars
<1> QED BY <1>1, <1>5, <1>6, <1>7, <1>8, <1>9, <1>10, <1>11, <1>12 DEF Next

LEMMA NextInv == Standing /\ Recorded /\ Next => Standing'
<1>1. SUFFICES ASSUME Standing, Recorded, Next PROVE Standing'
  OBVIOUS
<1>2. CASE Gui
  BY <1>1, <1>2, TickInv, RunInv, PauseInv, RunWithRecordInv, ResetInv, CreateReplaySnapshotInv,
     StopReplayInv, OpenReplayInv, ChooseStartInv, StopRecordingInv, ShowSettingsInv,
     CancelSettingsInv, EditMachineInv, RebuildViewInv, EditNetworkInv, PreflightTimerInv,
     ClickApplyInv, CloseWindowInv DEF Gui, Nets
<1>3. CASE Threads
  BY <1>1, <1>3, TaskTakesDraftInv, TaskBuildsInv, TaskBuildFailsInv, TaskConfiguresInv,
     TaskInstalledInv, TaskCommitsInv, TaskRunsInv, TaskAsksInv, CheckMachineInv, CheckNetworkInv
     DEF Threads
<1>4. CASE StopsAtBreakpoint \/ MachineStops \/ NetworkFails
  BY <1>1, <1>4, StopsAtBreakpointInv, MachineStopsInv, NetworkFailsInv
<1>5. CASE HostChanges
  BY <1>1, <1>5, SameWorld DEF HostChanges
<1>6. CASE Exit \/ Restart
  BY <1>1, <1>6, ExitInv, RestartInv
<1>7. CASE Ended
  BY <1>1, <1>7, SameWorld DEF Ended, vars
<1> QED BY <1>1, <1>2, <1>3, <1>4, <1>5, <1>6, <1>7 DEF Next

-----------------------------------------------------------------------------
(* The results.                                                            *)

\* The inductive invariant: window, dialog, both tasks' threads, session, worker and
\* saved file agree after every event of the GUI thread and every step of the other
\* threads (main_window.cpp, settings_dialog.cpp, session.rs).
THEOREM ApplicationStands == Spec => [](Standing /\ Recorded)
<1>1. Standing /\ Recorded /\ [Next]_vars => (Standing /\ Recorded)'
  <2>1. Standing /\ Recorded /\ UNCHANGED vars => (Standing /\ Recorded)'
    BY SameWorld DEF vars, Recorded
  <2> QED BY <2>1, NextInv, RecordedInv
<1> QED BY <1>1, InitStanding, PTL DEF Spec

\* The Apply button offers only what the preflight found: the edited draft compiles, and
\* the network text shown is one a session can use (settings_dialog.cpp:337-351,
\* main_window.cpp:864-883).
THEOREM ApplyIsChecked == Spec => []ApplyChecked
<1>1. Standing => ApplyChecked
  <2>1. SUFFICES ASSUME Standing, dlg.open, dlg.button
                 PROVE  /\ conf.editing.active /\ dlg.result.draft = conf.editing.draft
                        /\ dlg.netOf = dlg.net
                        /\ CanCompile(conf.editing.draft) /\ Usable(NetworkTexts[dlg.net])
    BY DEF ApplyChecked
  <2>2. /\ DialogInv(World) /\ IsDialog(dlg) /\ World.dlg = dlg /\ World.conf = conf
    BY <2>1, WorldFields DEF Standing, Inv, Typed
  <2>3. Offers(dlg) /\ conf.editing.active
    BY <2>1, <2>2 DEF DialogInv, Buttons
  <2>4. /\ dlg.result.draft = conf.editing.draft /\ dlg.netOf = dlg.net /\ NetworkReady(dlg.net)
    BY <2>1, <2>2, <2>3 DEF DialogInv, Found, Offers
  <2>5. CanCompile(conf.editing.draft)
    <3>1. dlg.view = ViewOf(conf.editing.draft, conf.editing.revision)
      BY <2>1, <2>2, <2>3 DEF DialogInv, Shows
    <3>2. dlg.view.errors <=> Errors(conf.editing.draft) # {}
      <4>1. PICK errors \in BOOLEAN : errors <=> Errors(conf.editing.draft) # {}
        OBVIOUS
      <4>2. dlg.view = View(TRUE, conf.editing.revision, errors)
        BY <3>1, <4>1, Zenon DEF ViewOf
      <4> QED BY <4>1, <4>2 DEF View
    <3>3. ~dlg.view.errors
      BY <2>3 DEF Offers, Checkable
    <3> QED BY <3>2, <3>3 DEF CanCompile
  <2>6. NetworkTexts[dlg.net] \in NetworkText
    <3>1. dlg.net \in Nets
      BY <2>1, <2>2 DEF DialogInv, Modal, IsDialog
    <3> QED BY <3>1, FrontendAssumption DEF Nets
  <2>7. Usable(NetworkTexts[dlg.net])
    BY <2>4, <2>6, ParsesIsUsable DEF NetworkReady, Prepares
  <2> QED BY <2>3, <2>4, <2>5, <2>7
<1> QED BY <1>1, ApplicationStands, PTL

\* A dialog that says it is checking hears of it, whatever the user, the timer and the two
\* threads do in between; one that does not shows the outcome of what it shows
\* (main_window.cpp:800-862, settings_dialog.cpp:289-335).
THEOREM CheckAlwaysComes == Spec => []CheckComes
<1>1. Standing => CheckComes
  <2>1. SUFFICES ASSUME Standing PROVE CheckComes
    OBVIOUS
  <2>2. Hears(World) /\ World.dlg = dlg /\ World.chk = chk
    BY <2>1, WorldFields DEF Standing, Inv, DialogInv
  <2> QED BY <2>2 DEF Hears, CheckComes, ForThis, QueuedForThis, SameNetwork
<1> QED BY <1>1, ApplicationStands, PTL

\* A machine the window paused for an operation is not forgotten: when nothing is prepared
\* or chosen any more, it was run again, replaced, or cannot run (main_window.cpp:487-608).
THEOREM InterruptedMachineResumes == Spec => []InterruptedResumes
<1>1. Standing => InterruptedResumes
  BY TaskFinds, WorldFields DEF InterruptedResumes, Owing
<1> QED BY <1>1, ApplicationStands, PTL

\* The builders never panic, consoles and drafts are of the machine that is there, and what
\* an exit saves is what was last applied together (builder.rs, session.rs,
\* main.rs:74-86, main_window.cpp:610-618).
THEOREM SessionIsCoherent == Spec => []SessionCoherent
<1>1. Standing => SessionCoherent
  <2>1. SUFFICES ASSUME Standing PROVE SessionCoherent
    OBVIOUS
  <2>2. BuildsNeverPanic
    BY <2>1, TaskFinds DEF BuildsNeverPanic, IsTask, Stages
  <2>3. SavedTogether
    BY <2>1, TaskFinds, WorldFields DEF SavedTogether, Ending
  <2>4. dlg.open /\ ~dlg.applying => dlg.view.success /\ conf.editing.active
    BY <2>1, TaskFinds, DialogEdits, WorldFields DEF DialogInv, Shows
  <2>5. ~dlg.open => ~conf.editing.active
    BY <2>1, TaskFinds, WorldFields DEF Drafting
  <2>6. /\ ~conf.locked /\ rt.generation > 0 => conf.frontend = FrontendOf(rt.draft)
        /\ win.panes.generation = rt.generation /\ rt.generation > 0 =>
             win.panes.consoles = FrontendOf(rt.draft)
        /\ rt.generation > 0 /\ ~IsReplay(rt.mode) /\ task.stage \notin {"installed", "commit"} =>
             rt.draft = conf.committed
    <3>1. Consoles(World) /\ World.rt = rt /\ World.conf = conf /\ World.win = win
          /\ World.task = task
      BY <2>1, TaskFinds, WorldFields
    <3> QED BY <3>1 DEF Consoles, Committing
  <2> QED BY <2>2, <2>3, <2>4, <2>5, <2>6 DEF SessionCoherent, DraftsAgree
<1> QED BY <1>1, ApplicationStands, PTL

===============================================================================
