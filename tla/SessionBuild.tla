----------------------------- MODULE SessionBuild -----------------------------
(***************************************************************************)
(* The IRIS Indigo (IP12) machine definition: the draft a user edits, the  *)
(* semantic analysis that turns a draft into diagnostics, a topology view  *)
(* and a build plan, and the plan itself.  Source:                         *)
(*   se_config/src/{draft,value,view}.rs,                                  *)
(*   se_machine/src/indigo/ip12/{definition,plan}.rs.                      *)
(*                                                                         *)
(* Identifiers (node, property, resource) are triples <<name, i, j>>, so   *)
(* that the ones the code formats from indices stay distinct; a draft maps *)
(* property identifiers to values and slot identifiers to device kinds.    *)
(* A path is an opaque string: "" and " " are the ones trim() empties.     *)
(***************************************************************************)
EXTENDS Integers, Sequences, FiniteSets

CONSTANTS Targets,   \* the SCSI targets of an instance, of the code's 1..7
          Luns       \* the logical units of an instance, of the code's 0..7

ASSUME TopologyAssumption == Targets \subseteq 1..7 /\ Luns \subseteq 0..7

Text(path) == [kind |-> "Text", text |-> path, int |-> 0]
Integer(n) == [kind |-> "Integer", text |-> "", int |-> n]
Blank(path) == path \in {"", " "}

Banks == 0..2
Ports == 0..3        \* Keyboard, Mouse, SerialA, SerialB, in canonical order
Keyboard == 0
Mouse == 1

Node(name) == <<name, 0, 0>>
FPU_BACKEND == Node("cpu.0.fpu.0.backend")
FIRMWARE_PATH == Node("firmware.0.image-path")
GRAPHICS_SLOT == Node("gio.0.slot.graphics")
MemoryProperty(bank) == <<"memory.simm-mib", bank, 0>>
PortNode(port) == <<"serial.port", port, 0>>
ScsiLun(target, lun) == <<"scsi.lun", target, lun>>
ScsiMedium(target, lun) == <<"scsi.medium-path", target, lun>>

\* Resource identifiers of the build plan.
FirmwareImage == Node("firmware.0.image")
MediumResource(target, lun) == <<"scsi.medium", target, lun>>

MODEL == "indigo-ip12"
LG1 == "sgi.gio.lg1"
SCSI_DISK == "scsi.disk"
SCSI_CDROM == "scsi.cdrom"
PortDevice(port) ==
  CASE port = Keyboard -> "sgi.serial.keyboard"
    [] port = Mouse -> "sgi.serial.mouse"
    [] OTHER -> "terminal.vt100"

-----------------------------------------------------------------------------
(* Drafts and edits *)

\* MachineDraft::apply.  An edit is [of |-> "property", id, value] or
\* [of |-> "attachment", id, device] with device "" for an emptied slot.
ApplyEdit(draft, edit) ==
  IF edit.of = "property"
  THEN [draft EXCEPT !.properties =
          [p \in DOMAIN @ \cup {edit.id} |-> IF p = edit.id THEN edit.value ELSE @[p]]]
  ELSE [draft EXCEPT !.attachments =
          [s \in IF edit.device = "" THEN DOMAIN @ \ {edit.id} ELSE DOMAIN @ \cup {edit.id}
             |-> IF s = edit.id THEN edit.device ELSE @[s]]]

DefaultDraft ==
  [model |-> MODEL,
   properties |->
     [p \in {FPU_BACKEND, FIRMWARE_PATH} \cup {MemoryProperty(b) : b \in Banks} |->
        CASE p = FPU_BACKEND -> Text("softfloat")
          [] p = FIRMWARE_PATH -> Text("")
          [] p = MemoryProperty(0) -> Integer(2)
          [] OTHER -> Integer(0)],
   attachments |->
     [s \in {GRAPHICS_SLOT} \cup {PortNode(p) : p \in Ports} |->
        IF s = GRAPHICS_SLOT THEN LG1 ELSE PortDevice(s[2])]]

-----------------------------------------------------------------------------
(* Semantic analysis: the diagnostics, section by section *)

Diagnostic(code, kind, id) == [code |-> code, kind |-> kind, id |-> id]
OnProperty(code, id) == {Diagnostic(code, "property", id)}
OnNode(code, id) == {Diagnostic(code, "node", id)}

HasProperty(draft, id) == id \in DOMAIN draft.properties
ValueOr(draft, id, default) == IF HasProperty(draft, id) THEN draft.properties[id] ELSE default
DeviceAt(draft, slot) == IF slot \in DOMAIN draft.attachments THEN draft.attachments[slot] ELSE ""

\* required_value: an absent required property is an error of its own.
MissingErrors(draft, id) ==
  IF HasProperty(draft, id) THEN {} ELSE OnProperty("ip12.property.missing", id)

ModelErrors(draft) ==
  IF draft.model = MODEL THEN {} ELSE {Diagnostic("ip12.model.mismatch", "global", Node(""))}

FpuBackends == {"softfloat", "native"}
CpuErrors(draft) ==
  MissingErrors(draft, FPU_BACKEND) \cup
  (IF ValueOr(draft, FPU_BACKEND, Text("softfloat")).kind # "Text"
   THEN OnProperty("ip12.property.invalid-type", FPU_BACKEND)
   ELSE IF ValueOr(draft, FPU_BACKEND, Text("softfloat")).text \notin FpuBackends
        THEN OnProperty("ip12.property.unsupported-value", FPU_BACKEND)
        ELSE {})

SimmSizes == {0, 2, 4, 8}
BankValue(draft, bank) ==
  ValueOr(draft, MemoryProperty(bank), Integer(IF bank = 0 THEN 2 ELSE 0))
ValidSize(value) == value.kind = "Integer" /\ value.int \in SimmSizes
BankErrors(draft, bank) ==
  MissingErrors(draft, MemoryProperty(bank)) \cup
  (IF ValidSize(BankValue(draft, bank)) THEN {}
   ELSE OnProperty(IF BankValue(draft, bank).kind = "Integer"
                   THEN "ip12.property.unsupported-value"
                   ELSE "ip12.property.invalid-type", MemoryProperty(bank)))
Populated(draft) ==
  \E b \in Banks : ValidSize(BankValue(draft, b)) /\ BankValue(draft, b).int > 0
MemoryErrors(draft) ==
  (UNION {BankErrors(draft, b) : b \in Banks}) \cup
  (IF Populated(draft) THEN {} ELSE OnNode("ip12.memory.no-installed-bank", Node("memory")))

SlotErrors(draft, slot, supported) ==
  IF DeviceAt(draft, slot) \in supported \cup {""} THEN {}
  ELSE OnNode("ip12.attachment.unsupported-device", slot)

ScsiDevices == {SCSI_DISK, SCSI_CDROM}
MediumValue(draft, target, lun) == ValueOr(draft, ScsiMedium(target, lun), Text(""))
\* One logical unit: only a removable drive may start without a medium.
LunErrors(draft, target, lun) ==
  SlotErrors(draft, ScsiLun(target, lun), ScsiDevices) \cup
  (IF DeviceAt(draft, ScsiLun(target, lun)) \notin ScsiDevices THEN {}
   ELSE IF MediumValue(draft, target, lun).kind # "Text"
        THEN OnProperty("ip12.property.invalid-type", ScsiMedium(target, lun))
   ELSE IF Blank(MediumValue(draft, target, lun).text)
           /\ DeviceAt(draft, ScsiLun(target, lun)) = SCSI_DISK
        THEN OnProperty("ip12.scsi.medium-required", ScsiMedium(target, lun))
   ELSE {})
ScsiErrors(draft) == UNION {LunErrors(draft, t, l) : t \in Targets, l \in Luns}

SerialErrors(draft) ==
  UNION {SlotErrors(draft, PortNode(p), {PortDevice(p)}) : p \in Ports}

FirmwareErrors(draft) ==
  IF ValueOr(draft, FIRMWARE_PATH, Text("")).kind # "Text"
  THEN OnProperty("ip12.property.invalid-type", FIRMWARE_PATH)
  ELSE IF Blank(ValueOr(draft, FIRMWARE_PATH, Text("")).text)
       THEN OnProperty("ip12.firmware.image-required", FIRMWARE_PATH)
       ELSE {}

KnownProperties ==
  {FPU_BACKEND, FIRMWARE_PATH} \cup {MemoryProperty(b) : b \in Banks}
    \cup {ScsiMedium(t, l) : t \in Targets, l \in Luns}
KnownSlots ==
  {GRAPHICS_SLOT} \cup {PortNode(p) : p \in Ports}
    \cup {ScsiLun(t, l) : t \in Targets, l \in Luns}
\* Projection::finish: what the draft holds and the IP12 does not define.
UnknownErrors(draft) ==
  (UNION {OnProperty("ip12.property.unknown", p) :
            p \in DOMAIN draft.properties \ KnownProperties})
  \cup (UNION {OnNode("ip12.attachment.unknown-slot", s) :
                 s \in DOMAIN draft.attachments \ KnownSlots})

\* Every diagnostic of Ip12Definition::analyze; all of them are errors.
Errors(draft) ==
  ModelErrors(draft) \cup CpuErrors(draft) \cup MemoryErrors(draft)
    \cup SlotErrors(draft, GRAPHICS_SLOT, {LG1}) \cup ScsiErrors(draft)
    \cup SerialErrors(draft) \cup FirmwareErrors(draft) \cup UnknownErrors(draft)

-----------------------------------------------------------------------------
(* The topology view: nodes in the order the projection pushes them *)

TopologyNode(id, parent, role, attachment, properties) ==
  [id |-> id, parent |-> parent, role |-> role,
   attachment |-> attachment, properties |-> properties]
Plain(id, parent, role) == TopologyNode(id, parent, role, FALSE, {})
Root == Node(MODEL)

CpuNodes(draft) ==
  <<Plain(Node("cpu.0"), Root, "Component"),
    TopologyNode(Node("cpu.0.fpu.0"), Node("cpu.0"), "Component", FALSE, {FPU_BACKEND})>>

\* The four sockets of a bank, each with its module when the bank is installed.
SocketNodes(draft, bank, socket) ==
  <<Plain(<<"memory.socket", bank, socket>>, <<"memory.bank", bank, 0>>, "Slot")>> \o
  (IF ValidSize(BankValue(draft, bank)) /\ BankValue(draft, bank).int > 0
   THEN <<Plain(<<"memory.module", bank, socket>>, <<"memory.socket", bank, socket>>, "Device")>>
   ELSE <<>>)
BankNodes(draft, bank) ==
  <<TopologyNode(<<"memory.bank", bank, 0>>, Node("memory"), "Component", FALSE,
                 {MemoryProperty(bank)})>>
    \o SocketNodes(draft, bank, 0) \o SocketNodes(draft, bank, 1)
    \o SocketNodes(draft, bank, 2) \o SocketNodes(draft, bank, 3)
MemoryNodes(draft) ==
  <<Plain(Node("memory"), Root, "Component")>>
    \o BankNodes(draft, 0) \o BankNodes(draft, 1) \o BankNodes(draft, 2)

\* A slot with an attachment editor, and the device it holds below it.
AttachedNodes(draft, slot, parent, role, device, properties) ==
  <<TopologyNode(slot, parent, role, TRUE, {})>> \o
  (IF DeviceAt(draft, slot) = "" THEN <<>>
   ELSE <<TopologyNode(device, slot, "Device", FALSE, properties)>>)

GioNodes(draft) ==
  <<Plain(Node("gio.0"), Root, "Component"),
    Plain(Node("gio.0.slot.0"), Node("gio.0"), "Slot"),
    Plain(Node("gio.0.slot.1"), Node("gio.0"), "Slot")>> \o
  AttachedNodes(draft, GRAPHICS_SLOT, Node("gio.0"), "Slot", Node("gio.0.graphics.device"), {}) \o
  (IF DeviceAt(draft, GRAPHICS_SLOT) = LG1
   THEN <<Plain(Node("gio.0.graphics.video.0"), Node("gio.0.graphics.device"), "Endpoint")>>
   ELSE <<>>)

LunNodes(draft, target, lun) ==
  AttachedNodes(draft, ScsiLun(target, lun), <<"scsi.target", target, 0>>, "Slot",
                <<"scsi.device", target, lun>>,
                IF DeviceAt(draft, ScsiLun(target, lun)) \in ScsiDevices
                THEN {ScsiMedium(target, lun)} ELSE {})
TargetNodes(draft, target) ==
  LET upTo[lun \in -1..7] ==
        IF lun < 0 THEN <<>>
        ELSE upTo[lun - 1] \o (IF lun \in Luns THEN LunNodes(draft, target, lun) ELSE <<>>)
  IN  <<Plain(<<"scsi.target", target, 0>>, Node("scsi.0"), "Component")>> \o upTo[7]
ScsiNodes(draft) ==
  LET upTo[target \in 0..7] ==
        IF target < 1 THEN <<>>
        ELSE upTo[target - 1] \o (IF target \in Targets THEN TargetNodes(draft, target) ELSE <<>>)
  IN  <<Plain(Node("scsi.0"), Root, "Component"),
        Plain(<<"scsi.target", 0, 0>>, Node("scsi.0"), "Component"),
        Plain(Node("scsi.0.host-adapter"), <<"scsi.target", 0, 0>>, "Device")>> \o upTo[7]

PortNodes(draft, port) ==
  <<Plain(<<"serial.channel", port, 0>>, <<"serial", port \div 2, 0>>, "Component")>> \o
  AttachedNodes(draft, PortNode(port), <<"serial.channel", port, 0>>, "Endpoint",
                <<"serial.device", port, 0>>, {})
SerialNodes(draft) ==
  <<Plain(<<"serial", 0, 0>>, Root, "Component")>> \o PortNodes(draft, 0) \o PortNodes(draft, 1) \o
  <<Plain(<<"serial", 1, 0>>, Root, "Component")>> \o PortNodes(draft, 2) \o PortNodes(draft, 3)

FixedNodes ==
  <<Plain(Node("parallel.0"), Root, "Endpoint"),
    Plain(Node("ethernet.0"), Root, "Component"),
    Plain(Node("ethernet.0.port.0"), Node("ethernet.0"), "Endpoint")>>

FirmwareNodes == <<TopologyNode(Node("firmware.0"), Root, "Component", FALSE, {FIRMWARE_PATH})>>

\* Ip12Definition::resolve: the nodes of the view, parents before children.
Nodes(draft) ==
  <<Plain(Root, Node(""), "Root")>> \o CpuNodes(draft) \o MemoryNodes(draft) \o GioNodes(draft)
    \o ScsiNodes(draft) \o SerialNodes(draft) \o FixedNodes \o FirmwareNodes

-----------------------------------------------------------------------------
(* The build plan *)

StorageAccess(device) == IF device = SCSI_DISK THEN "ReadWrite" ELSE "ReadOnly"

\* The units whose device and medium the analysis accepted.
ScsiAttachments(draft) ==
  {[target |-> u[1], lun |-> u[2], device |-> DeviceAt(draft, ScsiLun(u[1], u[2])),
    medium |-> ~Blank(MediumValue(draft, u[1], u[2]).text)] :
      u \in {v \in Targets \X Luns : /\ DeviceAt(draft, ScsiLun(v[1], v[2])) \in ScsiDevices
                                     /\ LunErrors(draft, v[1], v[2]) = {}}}

Requirement(path, kind, origin) == [path |-> path, kind |-> kind, origin |-> origin]

\* ResourceRequirements: each host resource the plan names, by identifier.
ResourceIds(draft) ==
  (IF FirmwareErrors(draft) = {} THEN {FirmwareImage} ELSE {})
    \cup {MediumResource(a.target, a.lun) : a \in {b \in ScsiAttachments(draft) : b.medium}}
Resources(draft) ==
  [r \in ResourceIds(draft) |->
     IF r = FirmwareImage
     THEN Requirement(ValueOr(draft, FIRMWARE_PATH, Text("")).text, "Bytes", FIRMWARE_PATH)
     ELSE Requirement(MediumValue(draft, r[2], r[3]).text,
                      StorageAccess(DeviceAt(draft, ScsiLun(r[2], r[3]))),
                      ScsiMedium(r[2], r[3]))]

PortAttachments(draft) ==
  {p \in Ports : DeviceAt(draft, PortNode(p)) = PortDevice(p)}

\* Ip12MemoryConfiguration::try_from_simm_mib over the sizes analysis accepted.
MemoryConfiguration(draft) ==
  IF Populated(draft) /\ \A b \in Banks : ValidSize(BankValue(draft, b))
  THEN [b \in Banks |-> BankValue(draft, b).int]
  ELSE [b \in Banks |-> 0]

\* Ip12Definition::compile: no plan while a diagnostic is an error.
CanCompile(draft) == Errors(draft) = {}

\* Ip12BuildPlan, for a draft that compiles.
BuildPlan(draft) ==
  [backend |-> ValueOr(draft, FPU_BACKEND, Text("softfloat")).text,
   memory |-> MemoryConfiguration(draft),
   gio |-> DeviceAt(draft, GRAPHICS_SLOT) = LG1,
   scsi |-> ScsiAttachments(draft),
   ports |-> PortAttachments(draft),
   resources |-> Resources(draft)]

-----------------------------------------------------------------------------
(***************************************************************************)
(* From a draft to a machine: the host resources a build plan needs, the   *)
(* assembly of an IP12 from them, and the three builders (Normal,          *)
(* Recording, Replay).  Source: se_session/src/{normal,recording,replay,   *)
(* machine,frontend}.rs, se_machine/src/resource.rs,                       *)
(* se_machine/src/indigo/ip12/builder.rs.                                  *)
(*                                                                         *)
(* The host is a function from paths to files.  Of a file's content the    *)
(* code tells apart whether the device it is given to accepts its size,    *)
(* and its identity (SHA-256), here a version number.                      *)
(***************************************************************************)

CONSTANT HostPaths      \* the paths an instance's drafts may name

HostFile(writable, fits, version) ==
  [present |-> TRUE, writable |-> writable, fits |-> fits, version |-> version]
NoFile == [present |-> FALSE, writable |-> FALSE, fits |-> FALSE, version |-> 0]
FileAt(host, path) == IF path \in HostPaths THEN host[path] ELSE NoFile

-----------------------------------------------------------------------------
(* Preparing the resources of a plan *)

\* prepare_requirement of a Normal session: only a disk is opened for writing.
NormalOpens(host, requirement) ==
  /\ FileAt(host, requirement.path).present
  /\ requirement.kind = "ReadWrite" => FileAt(host, requirement.path).writable

\* prepare_requirement of a Recording: the medium is opened read-only under an overlay.
RecordingOpens(host, requirement) == FileAt(host, requirement.path).present

\* host_resource_diagnostic: the error of one requirement, at the property it came from.
HostError(host, requirement) ==
  Diagnostic(IF ~FileAt(host, requirement.path).present
             THEN "host.resource.not-found" ELSE "host.resource.permission-denied",
             "property", requirement.origin)

\* preflight_configuration: nothing to say of a draft that does not compile.
PreflightErrors(host, draft) ==
  IF ~CanCompile(draft) THEN {}
  ELSE {HostError(host, Resources(draft)[r]) :
          r \in {q \in ResourceIds(draft) : ~NormalOpens(host, Resources(draft)[q])}}

-----------------------------------------------------------------------------
(* Assembly *)

\* The file behind each resource of the plan, as the provider opened it.
Contents(host, plan, paths) == [r \in DOMAIN plan.resources |-> FileAt(host, paths[r])]
PlanPaths(plan) == [r \in DOMAIN plan.resources |-> plan.resources[r].path]

\* What builder::build takes from the prepared resources.
Consumed(plan) ==
  {FirmwareImage} \cup {MediumResource(a.target, a.lun) : a \in {b \in plan.scsi : b.medium}}

\* The assertions and panics of builder::build, FrontendPlan::from_ip12 and take_*.
AssemblyPanics(plan) ==
  \/ Consumed(plan) # DOMAIN plan.resources
  \/ plan.resources[FirmwareImage].kind # "Bytes"
  \/ \E r \in Consumed(plan) \ {FirmwareImage} : plan.resources[r].kind = "Bytes"
  \/ \E a \in plan.scsi : ~a.medium /\ a.device # SCSI_CDROM
  \/ \E a, b \in plan.scsi : a # b /\ a.target = b.target /\ a.lun = b.lun
  \/ plan.memory = [b \in Banks |-> 0]

\* InvalidScsiMedium, ScsiAttachment and BoardConstruction.
AssemblyFails(plan, contents) == \E r \in DOMAIN plan.resources : ~contents[r].fits

\* FrontendPlan::from_ip12: a console for each terminal.
FrontendOf(draft) == PortAttachments(draft) \ {Keyboard, Mouse}
DefaultFrontend == {}

Outcome(result, draft, frontend) == [result |-> result, draft |-> draft, frontend |-> frontend]
Failure(draft) == Outcome("failed", draft, DefaultFrontend)
Assemble(host, draft, plan, paths) ==
  IF AssemblyPanics(plan) THEN Outcome("panicked", draft, DefaultFrontend)
  ELSE IF AssemblyFails(plan, Contents(host, plan, paths)) THEN Failure(draft)
  ELSE Outcome("built", draft, FrontendOf(draft))

-----------------------------------------------------------------------------
(* The builders *)

\* se_session::normal::build_configuration.
NormalBuild(host, draft) ==
  IF ~CanCompile(draft) THEN Failure(draft)
  ELSE IF \E r \in ResourceIds(draft) : ~NormalOpens(host, Resources(draft)[r])
       THEN Failure(draft)
       ELSE Assemble(host, draft, BuildPlan(draft), PlanPaths(BuildPlan(draft)))

\* se_session::recording::build_configuration.
RecordingBuild(host, draft) ==
  IF ~CanCompile(draft) THEN Failure(draft)
  ELSE IF \E r \in ResourceIds(draft) : ~RecordingOpens(host, Resources(draft)[r])
       THEN Failure(draft)
       ELSE Assemble(host, draft, BuildPlan(draft), PlanPaths(BuildPlan(draft)))

\* The manifest of a Record: the machine, and the identity of each resource.
NoManifest == [exists |-> FALSE]
Manifest(host, draft) ==
  [exists |-> TRUE, machine |-> draft,
   resources |-> [r \in ResourceIds(draft) |->
                    [kind |-> Resources(draft)[r].kind, hint |-> Resources(draft)[r].path,
                     version |-> FileAt(host, Resources(draft)[r].path).version]]]

\* validate_contract: the recorded resources are those the recorded machine needs.
ContractHolds(manifest) ==
  /\ DOMAIN manifest.resources = ResourceIds(manifest.machine)
  /\ \A r \in DOMAIN manifest.resources :
       manifest.resources[r].kind = Resources(manifest.machine)[r].kind

\* A Replay looks for a resource where the current machine has it, or where it was.
ReplayPath(manifest, current, r) ==
  IF /\ CanCompile(current) /\ r \in ResourceIds(current)
     /\ Resources(current)[r].kind = manifest.resources[r].kind
  THEN Resources(current)[r].path
  ELSE manifest.resources[r].hint

SameIdentity(host, manifest, current, r) ==
  /\ FileAt(host, ReplayPath(manifest, current, r)).present
  /\ FileAt(host, ReplayPath(manifest, current, r)).version = manifest.resources[r].version

\* se_session::replay::build_configuration.
ReplayBuild(host, current, manifest) ==
  IF \/ ~manifest.exists \/ ~CanCompile(manifest.machine) \/ ~ContractHolds(manifest)
     \/ \E r \in DOMAIN manifest.resources : ~SameIdentity(host, manifest, current, r)
  THEN Failure(current)
  ELSE Assemble(host, manifest.machine, BuildPlan(manifest.machine),
                [r \in DOMAIN manifest.resources |-> ReplayPath(manifest, current, r)])

-----------------------------------------------------------------------------
(* startup_readiness: a first start, with no firmware chosen yet *)

FirmwareUnselected(draft) ==
  HasProperty(draft, FIRMWARE_PATH) /\ draft.properties[FIRMWARE_PATH] = Text("")
StartsUnconfigured(draft) ==
  /\ FirmwareUnselected(draft)
  /\ \A e \in Errors(draft) : e.code = "ip12.firmware.image-required"
=============================================================================
