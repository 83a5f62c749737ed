------------------------------- MODULE Frontend -------------------------------
(***************************************************************************)
(* The application around the runtime: the main window, its settings       *)
(* dialog, the UI session that owns the machine drafts, the background     *)
(* tasks that build and install machines, and the saved configuration.     *)
(* Source: se_app/src/{main,config}.rs, se_ui/src/session.rs,              *)
(* se_ui/cpp/src/{main_window,settings_dialog}.cpp.                        *)
(*                                                                         *)
(* Threads: the GUI thread, whose event handlers are the actions below; a  *)
(* preparation task; a preflight task.  They share the UI session's        *)
(* configuration, whose mutex is conf.locked: a handler or a step that     *)
(* takes the mutex waits until it is free.  Of the runtime worker the      *)
(* window sees its state, mode and generation; Runtime has the rest.       *)
(***************************************************************************)
EXTENDS SessionBuild, Settings

CONSTANTS
    Edits,           \* edits of the machine page an instance tries
    NetworkTexts,    \* editable network settings, a sequence
    Hosts,           \* host files: the start, and what may replace it
    Directories,     \* directories of the host a TFTP root may name
    Starts,          \* stored configurations: [draft, net]
    Budgets          \* bounds: [edits, nets, ops, changes, restarts]

ASSUME FrontendAssumption ==
  /\ NetworkTexts \in Seq(NetworkText)
  /\ \A start \in Starts :
       start = [draft |-> start.draft, net |-> start.net] /\ start.net \in 1..Len(NetworkTexts)

VARIABLES
    win,       \* MainWindow
    dlg,       \* the settings dialog (Settings)
    chk,       \* SettingsPreflightTask and the request that waits for it
    rt,        \* the runtime as its status tells
    conf,      \* MachineConfigurationState and its mutex
    task,      \* PreparationTask or ReplayCatalogTask
    host,      \* [files, record]: the host's files and the last Record
    disk,      \* config.toml, [draft, net]
    applied,   \* the draft and the network last installed together
    budget     \* what is left of the bounds

vars == <<win, dlg, chk, rt, conf, task, host, disk, applied, budget>>

World == [win |-> win, dlg |-> dlg, chk |-> chk, rt |-> rt, conf |-> conf, task |-> task]
Become(w) ==
  /\ win' = w.win /\ dlg' = w.dlg /\ chk' = w.chk
  /\ rt' = w.rt /\ conf' = w.conf /\ task' = w.task

Spend(item) == budget[item] > 0 /\ budget' = [budget EXCEPT ![item] = @ - 1]

NetworkReady(net) == Prepares(NetworkTexts[net], Directories)

-----------------------------------------------------------------------------
(* The runtime *)

\* owed: the window paused this machine for an operation that has not replaced it.
Unconfigured ==
  [state |-> "Unconfigured", mode |-> "Normal", generation |-> 0, draft |-> DefaultDraft,
   healthy |-> TRUE, owed |-> FALSE, manifest |-> NoManifest]
Installed(generation, mode, draft, manifest) ==
  [state |-> "Paused", mode |-> mode, generation |-> generation, draft |-> draft,
   healthy |-> TRUE, owed |-> FALSE, manifest |-> manifest]

IsReplay(mode) == mode \in {"Replaying", "ReplayEnded"}
NormalSession(mode) == mode \in {"Normal", "RecordCompleted"}
CanExecute(r) == r.state # "Unconfigured" /\ r.mode # "ReplayEnded" /\ r.healthy

RunMachine(w) ==
  IF CanExecute(w.rt) THEN [w EXCEPT !.rt.state = "Running", !.rt.owed = FALSE] ELSE w
PauseMachine(w) == [w EXCEPT !.rt.state = "Paused"]

\* The end of a Recording, by an execution error or a network failure, saves it.
RecordingEnded(r) == IF r.mode = "Recording" THEN [r EXCEPT !.mode = "RecordCompleted"] ELSE r
SavedRecord == IF rt.mode = "Recording" THEN rt.manifest ELSE host.record

\* A failure of the NAT session stops the machine until it is reset or replaced.
WithoutNetwork(r) ==
  [RecordingEnded(r) EXCEPT !.state = "Paused", !.healthy = FALSE, !.owed = FALSE]

\* configure is refused while a Recording, or another session's Replay, is active.
Configurable(r, mode) == r.mode # "Recording" /\ (IsReplay(r.mode) => mode = "Normal")

-----------------------------------------------------------------------------
(* What the window shows *)

NoPanes == [generation |-> -1, consoles |-> {}]
Status(r) == [state |-> r.state, mode |-> r.mode, runnable |-> CanExecute(r)]
NewWindow(net) ==
  [open |-> TRUE, app |-> "running", net |-> net, pendingNet |-> 0, prep |-> "None",
   resume |-> FALSE, stops |-> FALSE, choosing |-> FALSE, shown |-> Status(Unconfigured),
   panes |-> NoPanes]

\* apply_runtime_status: the endpoint catalog is read again for another machine.
ApplyStatus(w) ==
  [w EXCEPT !.win.shown = Status(w.rt),
            !.win.panes = IF @.generation = w.rt.generation THEN @
                          ELSE [generation |-> w.rt.generation, consoles |-> w.conf.frontend]]

\* The actions a status enables, while nothing is being prepared.
Enabled(op) ==
  LET s == win.shown
  IN  /\ win.open /\ win.prep = "None" /\ ~win.choosing /\ ~dlg.open
      /\ CASE op = "Run"              -> s.state = "Paused" /\ s.runnable
           [] op = "Pause"            -> s.state = "Running"
           [] op = "Recording"        -> s.state # "Unconfigured" /\ NormalSession(s.mode)
           [] op = "Reset"            -> s.state # "Unconfigured" /\ ~IsReplay(s.mode)
           [] op = "StopRecording"    -> s.mode = "Recording"
           [] op \in {"OpenReplay", "Settings"} -> NormalSession(s.mode)
           [] op = "ReplaySnapshot"   -> s.state = "Paused" /\ s.mode = "Replaying"
           [] op = "StopReplay"       -> IsReplay(s.mode)

-----------------------------------------------------------------------------
(* Preparations *)

NoTask == [kind |-> "none", stage |-> "none", net |-> 0, draft |-> DefaultDraft,
           build |-> Failure(DefaultDraft), manifest |-> NoManifest, ok |-> FALSE,
           snapshots |-> FALSE]
NewTask(kind, net) == [NoTask EXCEPT !.kind = kind, !.stage = "start", !.net = net]

\* A running machine is paused for the operation.
Interrupt(w) ==
  IF w.rt.state = "Running" THEN [PauseMachine(w) EXCEPT !.rt.owed = TRUE] ELSE w

BeginPreparation(w, prep, stops, kind, net) ==
  IF w.win.prep # "None" THEN w
  ELSE [Interrupt(w) EXCEPT !.win.prep = prep, !.win.stops = stops,
                            !.win.resume = w.rt.state = "Running", !.task = NewTask(kind, net)]

ResumeIf(w, resume) == IF resume THEN RunMachine(w) ELSE w

\* Mutant: only begin_preparation decides whether to resume.
ReplayForgetsResume(w, resume) == BeginPreparation(w, "Replay", FALSE, "OpenReplay", 0)

\* The second half of opening a Replay keeps what the first half interrupted.
BeginReplay(w, resume) ==
  [BeginPreparation(w, "Replay", FALSE, "OpenReplay", 0) EXCEPT !.win.resume = resume]

FinishedTask(w) == w.task.stage = "done"
NothingPrepared(w) ==
  [w EXCEPT !.win.prep = "None", !.win.resume = FALSE, !.win.stops = FALSE, !.task = NoTask]

\* poll_preparation, for a catalog: a Record with snapshots asks where to start.
CatalogDone(w, idle) ==
  IF ~w.task.ok THEN ResumeIf(idle, w.win.resume)
  ELSE IF w.task.snapshots
       THEN [idle EXCEPT !.win.choosing = TRUE, !.win.resume = w.win.resume]
       ELSE BeginReplay(idle, w.win.resume)

\* Mutant: the settings of an apply that failed are kept.
FailedKeepsNetwork(w, idle) ==
  ResumeIf([idle EXCEPT !.win.net = IF w.win.pendingNet = 0 THEN @ ELSE w.win.pendingNet,
                        !.win.pendingNet = 0,
                        !.dlg = IF w.win.prep = "Settings" /\ @.open THEN ShowApplyFailure(@)
                                ELSE @],
           w.win.resume /\ CanExecute(w.rt))

PreparationFailed(w, idle) ==
  ResumeIf([idle EXCEPT !.win.pendingNet = 0,
                        !.dlg = IF w.win.prep = "Settings" /\ @.open THEN ShowApplyFailure(@)
                                ELSE @],
           w.win.resume /\ CanExecute(w.rt))

PreparationSucceeded(w, idle) ==
  IF w.win.prep # "Settings" THEN idle
  ELSE [idle EXCEPT !.win.net = IF w.win.pendingNet = 0 THEN @ ELSE w.win.pendingNet,
                    !.win.pendingNet = 0, !.dlg = Closed(@.generation)]

PollPreparation(w) ==
  IF w.win.prep = "None" \/ ~FinishedTask(w) THEN w
  ELSE IF w.win.prep = "ReplayCatalog" THEN CatalogDone(w, NothingPrepared(w))
  ELSE IF w.task.ok THEN PreparationSucceeded(w, NothingPrepared(w))
  ELSE PreparationFailed(w, NothingPrepared(w))

-----------------------------------------------------------------------------
(* The preflight task *)

IdleCheck == [stage |-> "idle", generation |-> 0, machine |-> NoResult, net |-> 0,
              netRevision |-> 0, netError |-> FALSE, queued |-> FALSE, queuedGeneration |-> 0,
              latestNet |-> 0, latestRevision |-> 0]

StartPreflight(w) ==
  [w EXCEPT !.chk.stage = "sample", !.chk.generation = w.dlg.generation, !.chk.machine = NoResult,
            !.chk.net = w.chk.latestNet, !.chk.netRevision = w.chk.latestRevision,
            !.chk.netError = FALSE]

\* request_settings_preflight: one task at a time; the newest request waits for it.
RequestPreflight(w) ==
  LET asked == [w EXCEPT !.chk.latestNet = w.dlg.net, !.chk.latestRevision = w.dlg.netRevision]
  IN  IF ~w.dlg.open THEN asked
      ELSE IF w.chk.stage # "idle"
           THEN [asked EXCEPT !.chk.queued = TRUE, !.chk.queuedGeneration = w.dlg.generation]
           ELSE StartPreflight(asked)

\* Mutant: an outcome is given to whatever dialog is open.
ForSomeDialog(w) == w.dlg.open
ForThisDialog(w) == w.dlg.open /\ w.chk.generation = w.dlg.generation

Restarts(w) == w.chk.queued /\ w.dlg.open /\ w.chk.queuedGeneration = w.dlg.generation

PollPreflight(w) ==
  IF w.chk.stage # "done" THEN w
  ELSE LET told == IF ForThisDialog(w)
                   THEN [w EXCEPT !.dlg = ApplyPreflightResult(@, w.chk)] ELSE w
           idle == [told EXCEPT !.chk.stage = "idle", !.chk.queued = FALSE]
       IN  IF Restarts(w) THEN StartPreflight(idle) ELSE idle

-----------------------------------------------------------------------------
(* Events of the GUI thread *)

\* update_runtime, every 100 ms, in the nested loop of a modal dialog too.
UpdateRuntime(w) == IF w.win.prep = "None" THEN ApplyStatus(w) ELSE w
Tick ==
  /\ win.open /\ ~conf.locked
  /\ Become(UpdateRuntime(PollPreparation(PollPreflight(World))))
  /\ UNCHANGED <<host, disk, applied, budget>>

User == win.open /\ ~conf.locked
KeepRest == UNCHANGED <<host, disk, applied>>

Run == User /\ Enabled("Run") /\ Become(ApplyStatus(RunMachine(World)))
       /\ KeepRest /\ UNCHANGED budget
Pause == User /\ Enabled("Pause") /\ rt.state # "Unconfigured"
         /\ Become(ApplyStatus(PauseMachine(World))) /\ KeepRest /\ UNCHANGED budget

RunWithRecord ==
  /\ User /\ Enabled("Recording") /\ Spend("ops") /\ KeepRest
  /\ Become(BeginPreparation(World, "Recording", FALSE, "Recording", win.net))
Reset ==
  /\ User /\ Enabled("Reset") /\ Spend("ops") /\ KeepRest
  /\ Become(BeginPreparation(World, "Reset", FALSE, "Reset", 0))
CreateReplaySnapshot ==
  /\ User /\ Enabled("ReplaySnapshot") /\ Spend("ops") /\ KeepRest
  /\ Become(BeginPreparation(World, "ReplaySnapshot", FALSE, "ReplaySnapshot", 0))
StopReplay ==
  /\ User /\ Enabled("StopReplay") /\ Spend("ops") /\ KeepRest
  /\ Become(BeginPreparation(World, "Replay", TRUE, "StopReplay", win.net))

\* open_replay: the machine is interrupted before the catalog is read.
OpenReplay ==
  /\ User /\ Enabled("OpenReplay") /\ Spend("ops") /\ KeepRest
  /\ Become([Interrupt(World) EXCEPT !.win.prep = "ReplayCatalog",
                                     !.win.resume = rt.state = "Running",
                                     !.task = NewTask("ReplayCatalog", 0)])

\* The choice of a starting point, made in the nested loop of a modal dialog.
ChooseStart(accepted) ==
  /\ User /\ win.choosing /\ KeepRest /\ UNCHANGED budget
  /\ LET chosen == [World EXCEPT !.win.choosing = FALSE, !.win.resume = FALSE]
     IN  Become(IF accepted THEN BeginReplay(chosen, win.resume)
                ELSE ApplyStatus(ResumeIf(chosen, win.resume)))

StopRecording ==
  /\ User /\ Enabled("StopRecording") /\ UNCHANGED <<disk, applied, budget>>
  /\ IF rt.mode = "Recording"
     THEN /\ Become(ApplyStatus([World EXCEPT !.rt.mode = "RecordCompleted"]))
          /\ host' = [host EXCEPT !.record = rt.manifest]
     ELSE Become(ApplyStatus(World)) /\ UNCHANGED host

-----------------------------------------------------------------------------
(* The settings dialog and the session's drafts *)

NotEditing == [active |-> FALSE, draft |-> DefaultDraft, applying |-> FALSE, revision |-> 0]
EditingOf(draft) == [active |-> TRUE, draft |-> draft, applying |-> FALSE, revision |-> 0]
ViewOf(draft, revision) == View(TRUE, revision, Errors(draft) # {})

\* show_settings, with begin_machine_edit in the dialog's constructor.
ShowSettings ==
  /\ User /\ Enabled("Settings") /\ KeepRest /\ Spend("ops")
  /\ IF conf.editing.active
     THEN Become([World EXCEPT !.dlg = Opened(@.generation + 1, View(FALSE, 0, FALSE), win.net)])
     ELSE Become([World EXCEPT !.dlg = Opened(@.generation + 1, ViewOf(conf.committed, 0), win.net),
                               !.conf.editing = EditingOf(conf.committed)])

CancelEdit(w) ==
  IF w.conf.editing.active /\ ~w.conf.editing.applying
  THEN [w EXCEPT !.conf.editing = NotEditing] ELSE w

Rejects(d) == d.open /\ ~d.applying

\* reject, and the window's handler of the signal.
CancelSettings ==
  /\ User /\ Rejects(dlg) /\ KeepRest /\ UNCHANGED budget
  /\ Become(CancelEdit([World EXCEPT
       !.dlg = Closed(@.generation), !.win.pendingNet = 0,
       !.chk.queued = @ /\ chk.queuedGeneration # dlg.generation]))

\* The editors of the view: the properties and slots of the nodes it shows.
OfferedBy(node, edit) ==
  IF edit.of = "property" THEN edit.id \in node.properties ELSE node.attachment /\ node.id = edit.id
Offered(draft, edit) ==
  \E nodes \in {Nodes(draft)} : \E i \in DOMAIN nodes : OfferedBy(nodes[i], edit)

\* apply_machine_edit, and accept_machine_view of what it returns.
EditMachine(edit) ==
  /\ User /\ dlg.open /\ ~dlg.applying /\ dlg.view.success /\ Spend("edits") /\ KeepRest
  /\ conf.editing.active /\ ~conf.editing.applying /\ Offered(conf.editing.draft, edit)
  /\ LET draft == ApplyEdit(conf.editing.draft, edit)
     IN  Become([World EXCEPT !.conf.editing.draft = draft, !.conf.editing.revision = @ + 1,
                              !.dlg = AcceptView(@, ViewOf(draft, conf.editing.revision + 1))])

RebuildView ==
  /\ win.open /\ dlg.open /\ dlg.rebuild /\ Become([World EXCEPT !.dlg = Rebuilt(@)])
  /\ KeepRest /\ UNCHANGED budget

EditNetwork(net) ==
  /\ win.open /\ dlg.open /\ ~dlg.applying /\ net # dlg.net /\ Spend("nets")
  /\ Become([World EXCEPT !.dlg = NetworkChanged(@, net)]) /\ KeepRest

\* The 275 ms timer: what was posted before it was started is handled before it fires.
PreflightTimer ==
  /\ win.open /\ dlg.open /\ dlg.timer /\ ~dlg.rebuild /\ KeepRest /\ UNCHANGED budget
  /\ LET fired == [World EXCEPT !.dlg.timer = FALSE]
     IN  Become(IF dlg.pending THEN RequestPreflight(fired) ELSE fired)

UnchangedSettings(w) == CancelEdit([w EXCEPT !.dlg = Closed(@.generation), !.win.pendingNet = 0])

\* apply_settings: nothing to do, refused, or a task of its own.
ClickApply ==
  /\ User /\ dlg.open /\ dlg.button /\ KeepRest
  /\ IF ~(conf.editing.active /\ conf.editing.draft # conf.committed)
        /\ dlg.net = win.net /\ rt.state # "Unconfigured"
     THEN Become(UnchangedSettings(World)) /\ UNCHANGED budget
     ELSE IF win.prep # "None"
     THEN Become([World EXCEPT !.dlg = ShowApplyFailure(@)]) /\ UNCHANGED budget
     ELSE /\ Spend("ops")
          /\ Become(BeginPreparation([World EXCEPT !.dlg = SetApplying(@, TRUE),
                                                   !.win.pendingNet = dlg.net],
                                     "Settings", FALSE, "Settings", dlg.net))

-----------------------------------------------------------------------------
(* The preparation task's thread *)

TaskAt(stage) == task.stage = stage
TaskTo(stage) == [task EXCEPT !.stage = stage]
Finished(ok) == [task EXCEPT !.stage = "done", !.ok = ok]
KeepGui == UNCHANGED <<win, dlg, chk, disk, budget>>

\* The draft is taken under the mutex; an edited draft is being applied from then on.
TaskTakesDraft ==
  /\ TaskAt("start") /\ ~conf.locked /\ KeepGui /\ UNCHANGED <<rt, host, applied>>
  /\ \/ /\ task.kind = "Settings"
        /\ IF ~conf.editing.active \/ conf.editing.applying
           THEN task' = Finished(FALSE) /\ UNCHANGED conf
           ELSE /\ conf' = [conf EXCEPT !.editing.applying = TRUE]
                /\ task' = [TaskTo("build") EXCEPT !.draft = conf.editing.draft]
     \/ /\ task.kind \in {"Recording", "OpenReplay", "StopReplay"}
        /\ task' = [TaskTo("build") EXCEPT !.draft = conf.committed] /\ UNCHANGED conf

\* The builder for the kind of session, after the network settings are prepared.
SessionBuilt ==
  IF task.kind = "OpenReplay" THEN ReplayBuild(host.files, task.draft, host.record)
  ELSE IF ~NetworkReady(task.net) THEN Failure(task.draft)
  ELSE IF task.kind = "Recording" THEN RecordingBuild(host.files, task.draft)
  ELSE NormalBuild(host.files, task.draft)

\* What a task does after its build failed or its machine was refused.
AfterFailure == IF task.kind = "Settings" THEN [TaskTo("commit") EXCEPT !.ok = FALSE]
                ELSE Finished(FALSE)

TaskBuilds ==
  /\ TaskAt("build") /\ KeepGui /\ UNCHANGED <<rt, conf, host, applied>>
  /\ \E outcome \in {SessionBuilt} :
       task' = CASE outcome.result = "built" ->
                      [TaskTo("install") EXCEPT
                         !.build = outcome,
                         !.manifest = IF task.kind = "Recording"
                                      THEN Manifest(host.files, task.draft)
                                      ELSE IF task.kind = "OpenReplay" THEN host.record
                                      ELSE NoManifest]
                 [] outcome.result = "failed" -> AfterFailure
                 [] OTHER -> TaskTo("panicked")

\* A session may also fail to start for reasons of the host: no state file, no NAT.
TaskBuildFails ==
  /\ TaskAt("build") /\ KeepGui /\ UNCHANGED <<rt, conf, host, applied>> /\ task' = AfterFailure

SessionMode == CASE task.kind = "Recording" -> "Recording"
                 [] task.kind = "OpenReplay" -> "Replaying"
                 [] OTHER -> "Normal"

\* install: the mutex is held while the worker configures the machine.
TaskConfigures ==
  /\ TaskAt("install") /\ ~conf.locked /\ KeepGui /\ UNCHANGED host
  /\ conf' = [conf EXCEPT !.locked = TRUE]
  /\ \/ /\ Configurable(rt, SessionMode)
        /\ rt' = Installed(rt.generation + 1, SessionMode, task.build.draft, task.manifest)
        /\ task' = [TaskTo("installed") EXCEPT !.ok = TRUE]
        /\ applied' = IF task.kind \in {"Settings", "StopReplay"}
                      THEN [draft |-> task.draft, net |-> task.net] ELSE applied
     \/ /\ \/ UNCHANGED rt
           \/ rt.state # "Unconfigured" /\ task.kind # "OpenReplay"
              /\ Configurable(rt, SessionMode) /\ rt' = WithoutNetwork(rt)
        /\ task' = [TaskTo("installed") EXCEPT !.ok = FALSE]
        /\ UNCHANGED applied

FrontendInstalled == IF task.ok THEN task.build.frontend ELSE conf.frontend

TaskInstalled ==
  /\ TaskAt("installed") /\ KeepGui /\ UNCHANGED <<rt, host, applied>>
  /\ conf' = [conf EXCEPT !.frontend = FrontendInstalled, !.locked = FALSE]
  /\ task' = CASE task.kind = "Settings" -> TaskTo("commit")
               [] task.kind = "Recording" /\ task.ok -> TaskTo("run")
               [] OTHER -> Finished(task.ok)

\* configure_edited_machine, after the install: the draft is committed, or edited again.
TaskCommits ==
  /\ TaskAt("commit") /\ ~conf.locked /\ KeepGui /\ UNCHANGED <<rt, host, applied>>
  /\ conf' = IF task.ok THEN [conf EXCEPT !.committed = task.draft, !.editing = NotEditing]
             ELSE [conf EXCEPT !.editing.applying = FALSE]
  /\ task' = Finished(task.ok)

\* The last command of run_with_record.
TaskRuns ==
  /\ TaskAt("run") /\ KeepGui /\ UNCHANGED <<conf, host, applied>>
  /\ rt' = RunMachine(World).rt
  /\ task' = Finished(CanExecute(rt))

\* The tasks that only ask the runtime, or read a Record's catalog.
TaskAsks ==
  /\ TaskAt("start") /\ KeepGui /\ UNCHANGED <<conf, applied>>
  /\ \/ /\ task.kind = "Reset" /\ rt.state # "Unconfigured" /\ ~IsReplay(rt.mode)
        /\ rt' = [rt EXCEPT !.state = "Paused", !.healthy = TRUE, !.owed = FALSE]
        /\ task' = Finished(TRUE) /\ UNCHANGED host
     \/ /\ task.kind = "Reset" /\ task' = Finished(FALSE)
        /\ IF rt.state = "Unconfigured" \/ IsReplay(rt.mode) THEN UNCHANGED <<rt, host>>
           ELSE rt' = WithoutNetwork(rt) /\ host' = [host EXCEPT !.record = SavedRecord]
     \/ /\ task.kind = "ReplaySnapshot" /\ UNCHANGED <<rt, host>>
        /\ \E ok \in {rt.state = "Paused" /\ rt.mode = "Replaying", FALSE} : task' = Finished(ok)
     \/ /\ task.kind = "ReplayCatalog" /\ UNCHANGED <<rt, host>>
        /\ \E snapshots \in BOOLEAN :
             task' = [Finished(host.record.exists) EXCEPT !.snapshots = snapshots]

-----------------------------------------------------------------------------
(* The preflight task's thread *)

\* preflight_edited_machine samples whatever is edited when it gets there.
CheckMachine ==
  /\ chk.stage = "sample" /\ ~conf.locked
  /\ chk' = [chk EXCEPT
       !.stage = "network",
       !.machine = IF ~conf.editing.active \/ conf.editing.applying
                   THEN Result(0, FALSE, FALSE, DefaultDraft)
                   ELSE Result(conf.editing.revision, TRUE,
                               PreflightErrors(host.files, conf.editing.draft) # {},
                               conf.editing.draft)]
  /\ UNCHANGED <<win, dlg, rt, conf, task, host, disk, applied, budget>>

CheckNetwork ==
  /\ chk.stage = "network"
  /\ chk' = [chk EXCEPT !.stage = "done", !.netError = ~NetworkReady(chk.net)]
  /\ UNCHANGED <<win, dlg, rt, conf, task, host, disk, applied, budget>>

-----------------------------------------------------------------------------
(* The worker and the host on their own *)

KeepAllButRt == UNCHANGED <<win, dlg, chk, conf, task, disk, applied>>

\* A breakpoint.
StopsAtBreakpoint ==
  /\ rt.state = "Running" /\ rt' = [rt EXCEPT !.state = "Paused"]
  /\ KeepAllButRt /\ UNCHANGED <<host, budget>>

\* An execution error, or the end of a Replay.
MachineStops ==
  /\ rt.state = "Running" /\ KeepAllButRt /\ UNCHANGED budget
  /\ rt' = [RecordingEnded(rt) EXCEPT !.state = "Paused",
                                      !.mode = IF @ = "Replaying" THEN "ReplayEnded" ELSE @]
  /\ host' = [host EXCEPT !.record = SavedRecord]

\* The NAT session fails.
NetworkFails ==
  /\ rt.state # "Unconfigured" /\ ~IsReplay(rt.mode) /\ rt.healthy
  /\ KeepAllButRt /\ Spend("changes")
  /\ rt' = WithoutNetwork(rt) /\ host' = [host EXCEPT !.record = SavedRecord]

HostChanges ==
  /\ win.app = "running" /\ Spend("changes")
  /\ \E files \in Hosts \ {host.files} : host' = [host EXCEPT !.files = files]
  /\ UNCHANGED <<win, dlg, chk, rt, conf, task, disk, applied>>

-----------------------------------------------------------------------------
(* The application: start and exit *)

\* The window closes; its destructor waits for the tasks.
CloseWindow ==
  /\ User /\ ~dlg.open /\ ~win.choosing /\ KeepRest /\ UNCHANGED budget
  /\ Become([World EXCEPT !.win.open = FALSE])

Quiet == task.stage \in {"none", "done"} /\ chk.stage \in {"idle", "done"}

CommittedDraft == conf.committed

\* The machine's state, then the configuration, each by a file that replaces the old one.
Exit ==
  /\ win.app = "running" /\ ~win.open /\ Quiet
  /\ \E saved \in {NetworkReady(win.net) \/ Parses(NetworkTexts[win.net]), FALSE} :
       /\ disk' = IF saved THEN [draft |-> CommittedDraft, net |-> win.net] ELSE disk
       /\ win' = [win EXCEPT !.app = IF saved THEN "saved" ELSE "lost"]
  /\ UNCHANGED <<dlg, chk, rt, conf, task, host, applied, budget>>

\* The machine a start finds: built from the stored draft, or none.
Started(files, stored) ==
  IF StartsUnconfigured(stored.draft) \/ ~NetworkReady(stored.net)
     \/ NormalBuild(files, stored.draft).result # "built"
  THEN Unconfigured ELSE Installed(1, "Normal", stored.draft, NoManifest)

StartedWorld(r, stored) ==
  [win |-> NewWindow(stored.net), dlg |-> Closed(0), chk |-> IdleCheck, rt |-> r,
   conf |-> [committed |-> stored.draft, editing |-> NotEditing, locked |-> FALSE,
             frontend |-> IF r.generation = 0 THEN DefaultFrontend ELSE FrontendOf(stored.draft)],
   task |-> NoTask]
ShownWorld(r, stored) == ApplyStatus(StartedWorld(r, stored))

Restart ==
  /\ win.app # "running" /\ Spend("restarts") /\ UNCHANGED <<host, disk>>
  /\ Become(ShownWorld(Started(host.files, disk), disk))
  /\ applied' = disk

\* After an exit with no restart left.
Ended == win.app # "running" /\ budget.restarts = 0 /\ UNCHANGED vars

-----------------------------------------------------------------------------

InitialHost == CHOOSE files \in Hosts : \A p \in HostPaths : files[p].present /\ files[p].writable
                                                          /\ files[p].fits /\ files[p].version = 1

Init ==
  /\ budget \in Budgets
  /\ disk \in Starts
  /\ applied = disk
  /\ host = [files |-> InitialHost, record |-> NoManifest]
  /\ \E w \in {ShownWorld(Started(InitialHost, disk), disk)} :
       /\ win = w.win /\ dlg = w.dlg /\ chk = w.chk /\ rt = w.rt /\ conf = w.conf /\ task = w.task

Gui ==
  \/ Tick \/ Run \/ Pause \/ RunWithRecord \/ Reset \/ CreateReplaySnapshot \/ StopReplay
  \/ OpenReplay \/ (\E accepted \in BOOLEAN : ChooseStart(accepted)) \/ StopRecording
  \/ ShowSettings \/ CancelSettings \/ (\E edit \in Edits : EditMachine(edit)) \/ RebuildView
  \/ (\E net \in 1..Len(NetworkTexts) : EditNetwork(net)) \/ PreflightTimer \/ ClickApply
  \/ CloseWindow

Threads ==
  \/ TaskTakesDraft \/ TaskBuilds \/ TaskBuildFails \/ TaskConfigures \/ TaskInstalled
  \/ TaskCommits \/ TaskRuns \/ TaskAsks \/ CheckMachine \/ CheckNetwork

Next ==
  \/ Gui \/ Threads \/ StopsAtBreakpoint \/ MachineStops \/ NetworkFails \/ HostChanges \/ Exit \/ Restart \/ Ended

Spec == Init /\ [][Next]_vars

-----------------------------------------------------------------------------
(* Properties *)

\* The builders' panics and assertions (builder.rs, resource.rs, frontend.rs) are out of
\* reach: a draft that compiles has a plan that can be assembled.
BuildsNeverPanic == task.stage # "panicked"

\* The Apply button offers exactly what was checked: the draft and the network text of
\* the outcome it was enabled by are the ones that would be applied
\* (settings_dialog.cpp:337-351, main_window.cpp:864-883).
ApplyChecked ==
  dlg.open /\ dlg.button =>
    /\ conf.editing.active /\ dlg.result.draft = conf.editing.draft
    /\ dlg.netOf = dlg.net
    /\ CanCompile(conf.editing.draft) /\ Usable(NetworkTexts[dlg.net])

\* A dialog that says it is checking is going to hear: its timer runs, its request
\* waits for the task before it, or the task that runs checks what it shows.  One that
\* does not say so shows the outcome for what it shows.
CheckComes ==
  dlg.open /\ Checkable(dlg) /\ ~dlg.rebuild =>
    IF dlg.pending
    THEN \/ dlg.timer
         \/ /\ chk.stage # "idle" /\ chk.queued /\ chk.queuedGeneration = dlg.generation
            /\ chk.latestRevision = dlg.netRevision
         \/ /\ chk.stage # "idle" /\ chk.generation = dlg.generation
            /\ chk.netRevision = dlg.netRevision
            /\ chk.stage = "sample" \/ chk.machine.revision = dlg.view.revision
    ELSE dlg.result.revision = dlg.view.revision /\ dlg.result.success /\ dlg.netCurrent

\* A machine that the window paused for an operation runs again when the operation
\* failed or was given up, unless it cannot (main_window.cpp:487-608).
InterruptedResumes ==
  win.open /\ win.prep = "None" /\ ~win.choosing => ~rt.owed

\* The consoles, the committed draft and the edit belong to the machine and the dialog
\* that are there: what endpoint_catalog attaches consoles by is of the machine it lists.
DraftsAgree ==
  /\ ~conf.locked /\ rt.generation > 0 => conf.frontend = FrontendOf(rt.draft)
  /\ win.panes.generation = rt.generation /\ rt.generation > 0 =>
       win.panes.consoles = FrontendOf(rt.draft)
  /\ rt.generation > 0 /\ ~IsReplay(rt.mode) /\ task.stage \notin {"installed", "commit"} =>
       rt.draft = conf.committed
  /\ dlg.open /\ ~dlg.applying => dlg.view.success /\ conf.editing.active
  /\ ~dlg.open => ~conf.editing.active

\* What an exit saves is the draft and the network last applied together
\* (main.rs:74-86, main_window.cpp:610-618).
SavedTogether == win.app = "saved" => disk = applied

\* The session, the runtime, the window and the saved file tell one story.
SessionCoherent == BuildsNeverPanic /\ DraftsAgree /\ SavedTogether
=============================================================================
