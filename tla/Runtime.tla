-------------------------------- MODULE Runtime --------------------------------
(***************************************************************************)
(* The runtime worker (crates/se_runtime/src/runtime.rs): one thread that  *)
(* owns the machine, its NAT session and the Record or Replay session, and *)
(* alternates between commands and instructions.                           *)
(*                                                                         *)
(* A handler runs to its end before the next one begins, so it is one      *)
(* action.  It is written as the worker is: operators take the worker s    *)
(* and return the worker they leave behind, or the set of those they may   *)
(* leave behind when the disk, the storage or the network may fail.  A     *)
(* command that is rejected without a change is not a step.                *)
(*                                                                         *)
(* The NAT session is the one of NetworkSession, seen from here: frames    *)
(* that have arrived, and a failure that is latched, then reported twice   *)
(* (by take_failure and by a NetworkFailure command), in either order.     *)
(***************************************************************************)
EXTENDS Record

CONSTANTS
    CHECKPOINT_INTERVAL,    \* instructions between two checkpoints
    DiskMayFail,            \* a write of a Record or of a snapshot may fail
    StorageMayFail,         \* the host storage may fail under the guest
    NetworkMayFail,         \* a NAT session may fail to start, or later
    Ethernet,               \* the machine has an Ethernet endpoint
    Modes,                  \* modes the user configures
    Breakpoints,            \* addresses the user toggles
    MaxLog,                 \* bound: events of a machine while it is recorded
    MaxLiveLog,             \* bound: events of a machine in Normal and RecordCompleted
    MaxGenerations,         \* bound: machines
    MaxNetworks,            \* bound: NAT sessions, started or not
    MaxRecordings,          \* bound: Records that are begun
    MaxRuns,                \* bound: times the application is started
    MaxFrames               \* bound: frames that arrive

\* What the worker holds of a NAT session.
Sessions ==
    [generation : Nat, first : Nat, rx : Seq(Events), failure : {"none", "latched", "taken"},
     notified : BOOLEAN]

ASSUME RuntimeConstants ==
    /\ CHECKPOINT_INTERVAL \in Nat \ {0}
    /\ {DiskMayFail, StorageMayFail, NetworkMayFail, Ethernet} \subseteq BOOLEAN
    /\ Modes \subseteq {"Normal", "Recording", "Replaying"}
    /\ Breakpoints \subseteq Nat
    /\ {MaxLog, MaxLiveLog, MaxGenerations, MaxNetworks, MaxRecordings, MaxRuns, MaxFrames} \subseteq Nat
    /\ None \notin Sessions \cup Events

VARIABLES
    rt,         \* struct Worker
    files,      \* the Record and the snapshot on disk, None while there is none
    host        \* the world outside: commands in flight, what happened so far, the exit
                \* (replay_first: a Replay was opened before there was a machine)

vars == <<rt, files, host>>

InitWorker ==
    [state |-> "Unconfigured", mode |-> "Normal", machine |-> None, generation |-> 0,
     remainder |-> 0, instant |-> 0, position |-> Origin, completed |-> 0,
     preserved |-> None, session_error |-> FALSE, last_error |-> FALSE,
     breakpoints |-> {}, ignore |-> None, output |-> None, revised |-> FALSE,
     recorder |-> None, deadline |-> 0, replay |-> None,
     network |-> None, network_config |-> FALSE, network_generation |-> 0,
     network_error |-> FALSE, pending |-> None]

Init ==
    /\ rt = InitWorker
    /\ files = [record |-> None, snapshot |-> None]
    /\ host = [inbox |-> {}, frames |-> 0, recordings |-> 0, runs |-> 1, replay_first |-> FALSE,
               result |-> "running"]

-----------------------------------------------------------------------------
(* A world w is the worker together with what its handlers write outside.   *)

World == [rt |-> rt, files |-> files, host |-> host]

\* Every handler starts with no revision announced.
Start == [World EXCEPT !.rt.revised = FALSE]

Becomes(w) == rt' = w.rt /\ files' = w.files /\ host' = w.host

\* The result of f on some result of the set W.
Then(W, f(_)) == UNION {f(w) : w \in W}

\* A result that only happens where the environment may fail.
Maybe(fails, w) == IF fails THEN {w} ELSE {}

Revise(w) == [w EXCEPT !.rt.revised = TRUE]

IsReplay(mode) == mode \in {"Replaying", "ReplayCompleted", "ReplayDiverged"}
Recording(w) == w.rt.mode = "Recording"
Replaying(w) == w.rt.mode = "Replaying"
RecorderFailed(w) == Recording(w) /\ w.rt.recorder.failed

RequireRunnable(s) ==
    /\ s.machine # None
    /\ ~s.network_error
    /\ s.mode \notin {"ReplayCompleted", "ReplayDiverged"}

Stopped(s) == IF s.machine = None THEN "Unconfigured" ELSE "Paused"

-----------------------------------------------------------------------------
(* Record failures and the end of a Record.                                 *)

SetRecordFailure(w) ==
    Revise([w EXCEPT !.rt.recorder = None, !.rt.state = "Paused",
                     !.rt.mode = "RecordCompleted", !.rt.session_error = TRUE])

CheckRecordFailure(w) == IF RecorderFailed(w) THEN SetRecordFailure(w) ELSE w

\* Writes one Timeline entry; a failure is latched in the recorder.
RecordTimeline(w, entry) ==
    {[w EXCEPT !.rt.recorder = RecordEntry(@, entry)]}
        \cup Maybe(DiskMayFail, [w EXCEPT !.rt.recorder = FailRecorder(@)])

RecordCheckpoint(w) ==
    IF Recording(w)
    THEN RecordTimeline(w, Checkpoint(w.rt.position, Fingerprint(w.rt.machine)))
    ELSE {w}

\* A Record that ends without a new revision.
StopRecordingSilently(w, outcome) ==
    LET footer == Finalized(w.rt.recorder, w.rt.position, outcome, Fingerprint(w.rt.machine))
        done == [w EXCEPT !.files.record = footer, !.rt.recorder = None,
                          !.rt.mode = "RecordCompleted", !.rt.session_error = FALSE]
    IN CASE ~Recording(w) -> {w}
         [] RecorderFailed(w) -> {SetRecordFailure(w)}
         [] OTHER -> {done} \cup Maybe(DiskMayFail, SetRecordFailure(w))

StopRecording(w, outcome) ==
    LET footer == Finalized(w.rt.recorder, w.rt.position, outcome, Fingerprint(w.rt.machine))
        done == Revise([w EXCEPT !.files.record = footer, !.rt.recorder = None,
                                 !.rt.mode = "RecordCompleted", !.rt.session_error = FALSE])
    IN CASE ~Recording(w) -> {w}
         [] RecorderFailed(w) -> {SetRecordFailure(w)}
         [] OTHER -> {done} \cup Maybe(DiskMayFail, SetRecordFailure(w))

-----------------------------------------------------------------------------
(* The end of a Replay.                                                     *)

\* A Replay that ends without stopping the machine.
EndReplayKeepsRunning(w, mode, failed) ==
    IF Replaying(w)
    THEN Revise([w EXCEPT !.rt.session_error = failed, !.rt.mode = mode])
    ELSE [w EXCEPT !.rt.mode = "Normal"]

\* The worker takes the session out of its mode and puts it back; a mode other
\* than Replaying is lost.
EndReplay(w, mode, failed) ==
    IF Replaying(w)
    THEN Revise([w EXCEPT !.rt.state = "Paused", !.rt.session_error = failed, !.rt.mode = mode])
    ELSE [w EXCEPT !.rt.mode = "Normal"]

SetReplayDivergence(w) == EndReplay(w, "ReplayDiverged", TRUE)

CompleteReplay(w) == EndReplay(w, "ReplayCompleted", FALSE)

CheckReplayStorageFailure(w) ==
    IF Replaying(w) /\ w.rt.replay.failed THEN SetReplayDivergence(w) ELSE w

FailSession(w) ==
    CASE Recording(w) -> SetRecordFailure(w)
      [] Replaying(w) -> SetReplayDivergence(w)
      [] OTHER -> w

VerifyFinalFingerprint(w) ==
    IF Fingerprint(w.rt.machine) = w.rt.replay.record.digest
    THEN CompleteReplay(w)
    ELSE SetReplayDivergence(w)

-----------------------------------------------------------------------------
(* The NAT session.                                                         *)

\* Dropping a session joins its worker, which reports a failure it has met, or
\* meets while it stops, under the generation the session was started with.
DropNetwork(w) ==
    LET s == w.rt
        gone == [w EXCEPT !.rt.network = None]
        reported == [gone EXCEPT !.host.inbox = @ \cup {s.network.generation}]
    IN CASE s.network = None -> {gone}
         [] s.network # None /\ s.network.notified -> {gone}
         [] OTHER -> IF s.network.failure # "none" THEN {reported}
                     ELSE {gone} \cup Maybe(NetworkMayFail, reported)

FailNetwork(w) ==
    LET failed == [w EXCEPT !.rt.network_error = TRUE, !.rt.state = Stopped(w.rt)]
    IN IF w.rt.network_error
       THEN {w}
       ELSE {Revise(v) : v \in StopRecording(failed, Outcome("HostNetworkError"))}

NewSession(w) ==
    [generation |-> w.rt.network_generation, first |-> w.host.frames,
     rx |-> <<>>, failure |-> "none", notified |-> FALSE]

\* A session that fails to start has told the runtime so, or had no worker yet.
StartNetwork(w) ==
    {[w EXCEPT !.rt.network = NewSession(w)]}
        \cup IF NetworkMayFail
             THEN FailNetwork(w)
                  \cup FailNetwork([w EXCEPT !.host.inbox = @ \cup {w.rt.network_generation}])
             ELSE {}

ReplaceNetwork(w, config) ==
    LET next == [w EXCEPT !.rt.state = Stopped(w.rt), !.rt.network_generation = @ + 1]
    IN Then(DropNetwork(next), LAMBDA v : IF config THEN StartNetwork(v) ELSE {v})

\* ReplaceNetwork returned Ok.
Replaced(w, config) == config => w.rt.network # None

\* Consumes one frame and records it; the frame is no longer pending.
AcceptNetworkInput(w) ==
    LET v == [w EXCEPT !.rt.machine = ReceiveInput(@, w.rt.pending), !.rt.pending = None]
    IN IF Recording(w)
       THEN RecordTimeline(v, MachineInput(w.rt.position, w.rt.pending))
       ELSE {v}

TakeFailure(w) ==
    IF w.rt.network # None /\ w.rt.network.failure = "latched"
    THEN FailNetwork([w EXCEPT !.rt.network.failure = "taken"])
    ELSE {w}

\* Takes the next frame although the machine has not taken the last one.
FetchFrameAlways(w) ==
    IF w.rt.network # None /\ w.rt.network.rx # <<>>
    THEN [w EXCEPT !.rt.pending = Head(w.rt.network.rx), !.rt.network.rx = Tail(@)]
    ELSE w

FetchFrame(w) ==
    IF w.rt.pending = None /\ w.rt.network # None /\ w.rt.network.rx # <<>>
    THEN [w EXCEPT !.rt.pending = Head(w.rt.network.rx), !.rt.network.rx = Tail(@)]
    ELSE w

\* Moves at most one frame to the machine, then looks for a failure.
ProcessNetworkBoundary(w) ==
    LET v == FetchFrame(w)
    IN IF v.rt.pending # None /\ ~WouldBlock(v.rt.machine, v.rt.pending)
       THEN Then(AcceptNetworkInput(v),
                 LAMBDA u : IF RecorderFailed(u) THEN {FailSession(u)} ELSE TakeFailure(u))
       ELSE TakeFailure(v)

-----------------------------------------------------------------------------
(* Replay boundaries.                                                       *)

\* reset_machine, shared by the Reset command and a replayed reset.
ResetMachine(w) ==
    [w EXCEPT !.rt.machine = ResetGuest(@), !.rt.remainder = 0, !.rt.instant = 0,
              !.rt.pending = None, !.rt.last_error = FALSE, !.rt.ignore = None,
              !.rt.output = w.rt.generation]

NextEpoch(pos) == [epoch |-> pos.epoch + 1, completed |-> 0]

\* A Timeline entry this machine cannot have recorded.
Contradicts(w, entry) ==
    \/ entry.kind = "input" /\ WouldBlock(w.rt.machine, entry.data[1])
    \/ entry.kind = "reset" /\ w.rt.position.epoch = U64_MAX
    \/ entry.kind = "checkpoint" /\ Fingerprint(w.rt.machine) # entry.data

\* Applies one Timeline entry.
ApplyEntry(w, entry) ==
    CASE entry.kind = "input" -> [w EXCEPT !.rt.machine = ReceiveInput(@, entry.data[1])]
      [] entry.kind = "reset" -> [ResetMachine(w) EXCEPT !.rt.position = NextEpoch(@)]
      [] entry.kind = "checkpoint" -> w

\* One turn of the loop of process_replay_boundary.
BoundaryTurn(acc, entry) ==
    LET position == acc.world.rt.position
        taken == [acc.world EXCEPT !.rt.replay.cursor = @ + 1]
    IN IF acc.stop \/ Before(position, entry.position) THEN [acc EXCEPT !.stop = TRUE]
       ELSE IF Before(entry.position, position)
       THEN [acc EXCEPT !.stop = TRUE, !.diverged = TRUE]
       ELSE IF Contradicts(taken, entry)
       THEN [world |-> taken, stop |-> TRUE, diverged |-> TRUE]
       ELSE [acc EXCEPT !.world = ApplyEntry(taken, entry)]

\* The loop, over the entries the cursor has not passed.
BoundaryTurns(w) ==
    LET r == w.rt.replay
        left == Len(r.record.timeline) - r.cursor
        turns[k \in 0..left] ==
            IF k = 0 THEN [world |-> w, stop |-> FALSE, diverged |-> FALSE]
            ELSE BoundaryTurn(turns[k - 1], r.record.timeline[r.cursor + k])
    IN turns[left]

\* After the entries of this position: the footer.
AtFooter(w) ==
    LET r == w.rt.replay
    IN CASE Before(FinalPosition(r), w.rt.position) -> SetReplayDivergence(w)
         [] Before(w.rt.position, FinalPosition(r)) -> w
         [] OTHER -> IF ~TimelineConsumed(r) THEN SetReplayDivergence(w)
                     ELSE IF r.record.outcome.kind = "ExecutionError" THEN w
                     ELSE VerifyFinalFingerprint(w)

ProcessReplayBoundary(w) ==
    LET end == BoundaryTurns(w)
    IN IF end.diverged THEN SetReplayDivergence(end.world) ELSE AtFooter(end.world)

\* A boundary that is noticed one instruction late.
ReplayBoundaryLate(w) ==
    Replaying(w) /\ Before(NextBoundaryPosition(w.rt.replay), w.rt.position)

ReplayBoundaryDue(w) ==
    Replaying(w) /\ ~Before(w.rt.position, NextBoundaryPosition(w.rt.replay))

-----------------------------------------------------------------------------
(* Instructions.  A result is a world and whether the instruction failed.   *)

Result(w, error) == [world |-> w, error |-> error]
Completed(W) == {Result(w, FALSE) : w \in W}

Broken(w, failure) == [w EXCEPT !.rt.machine = ExecuteWithStorageError(@, failure)]

\* The instruction itself; the host storage may fail under it.  The copies that a
\* Recording or a Replay makes of a disk latch that for the worker; a CD-ROM is
\* read from the plain file, as every medium of a Normal machine is, and then
\* only the guest learns of it.
AttemptInstruction(w) ==
    {[w EXCEPT !.rt.machine = ExecuteInstruction(@)]}
        \cup Maybe(StorageMayFail, Broken(w, "read_error"))
        \cup Maybe(StorageMayFail /\ Recording(w),
                   [Broken(w, "storage_error") EXCEPT !.rt.recorder = FailRecorder(@)])
        \cup Maybe(StorageMayFail /\ Replaying(w),
                   [Broken(w, "storage_error") EXCEPT !.rt.replay.failed = TRUE])

FinishInstruction(w) ==
    LET tick == AdvanceCycle(w.rt.remainder)
    IN [w EXCEPT !.rt.remainder = tick.remainder,
                 !.rt.instant = @ + tick.elapsed,
                 !.rt.machine = AdvanceTime(@, tick.elapsed),
                 !.rt.completed = (@ + 1) % (U64_MAX + 1)]

PositionOverflows(w) == w.rt.position.completed = U64_MAX
AdvancePosition(w) == [w EXCEPT !.rt.position.completed = @ + 1]

ExecuteNormal(w) == ProcessNetworkBoundary(FinishInstruction(w))

RecordCheckpointIfDue(w) ==
    IF Recording(w) /\ w.rt.deadline = w.rt.position.completed
    THEN {IF RecorderFailed(v) THEN FailSession(v)
          ELSE [v EXCEPT !.rt.deadline = @ + CHECKPOINT_INTERVAL] : v \in RecordCheckpoint(w)}
    ELSE {w}

ExecuteRecording(w) ==
    LET v == FinishInstruction(w)
    IN IF PositionOverflows(v)
       THEN {FailSession(v)}
       ELSE Then(ProcessNetworkBoundary(AdvancePosition(v)),
                 LAMBDA u : RecordCheckpointIfDue(CheckRecordFailure(u)))

\* The Replay is about to reproduce the error its Record ended with.
ExpectsError(w) ==
    LET r == w.rt.replay
    IN /\ w.rt.position = FinalPosition(r)
       /\ TimelineConsumed(r)
       /\ r.record.outcome.kind = "ExecutionError"

ExecuteReplay(w, expected) ==
    IF expected
    THEN SetReplayDivergence(w)
    ELSE LET v == FinishInstruction(w)
         IN IF PositionOverflows(v)
            THEN FailSession(v)
            ELSE LET u == CheckReplayStorageFailure(AdvancePosition(v))
                 IN IF ReplayBoundaryDue(u) THEN ProcessReplayBoundary(u) ELSE u

\* What follows the instruction that took w to v.
FinishAttempt(w, v) ==
    CASE InstructionFails(w.rt.machine) -> {Result(v, TRUE)}
      [] ~InstructionFails(w.rt.machine) /\ Recording(v) -> Completed(ExecuteRecording(v))
      [] ~InstructionFails(w.rt.machine) /\ Replaying(v) ->
            Completed({ExecuteReplay(v, ExpectsError(w))})
      [] OTHER -> Completed(ExecuteNormal(v))

\* execute_timed_instruction, without the flush of its output.
ExecuteInstructions(w) ==
    IF w.rt.mode \in {"ReplayCompleted", "ReplayDiverged"}
    THEN Completed({w})
    ELSE UNION {FinishAttempt(w, v) : v \in AttemptInstruction(w)}

HandleExecutionError(w) ==
    LET address == ExecutionAddress(w.rt.machine)
        v == CheckReplayStorageFailure(CheckRecordFailure([w EXCEPT !.rt.last_error = TRUE]))
    IN IF Replaying(v)
       THEN {IF ExpectsError(v) /\ v.rt.replay.record.outcome.address = address
             THEN VerifyFinalFingerprint(v)
             ELSE SetReplayDivergence(v)}
       ELSE StopRecording(v, ExecutionErrorAt(address))

\* What Step and the batches do with a result.
Settle(result) ==
    IF result.error
    THEN {[v EXCEPT !.rt.state = "Paused"] : v \in HandleExecutionError(result.world)}
    ELSE {[result.world EXCEPT !.rt.last_error = FALSE]}

Flushed(w) == [w EXCEPT !.rt.output = None]

-----------------------------------------------------------------------------
(* Commands.                                                                *)

Running == host.result = "running"
HasMachine == Running /\ rt.machine # None
RoomInLog == Len(rt.machine.log) < IF rt.mode = "Recording" THEN MaxLog ELSE MaxLiveLog

Run ==
    /\ Running /\ RequireRunnable(rt)
    /\ LET address == ExecutionAddress(rt.machine)
       IN Becomes(Revise([Start EXCEPT !.rt.state = "Running",
                    !.rt.ignore = IF address \in rt.breakpoints THEN address ELSE None]))

Pause ==
    /\ HasMachine
    /\ Becomes(Revise([Start EXCEPT !.rt.state = "Paused", !.rt.ignore = None]))

ToggleBreakpoint ==
    /\ HasMachine
    /\ \E address \in Breakpoints :
         Becomes(Revise([Start EXCEPT !.rt.breakpoints =
             IF address \in @ THEN @ \ {address} ELSE @ \cup {address}]))

Step ==
    /\ Running /\ RequireRunnable(rt) /\ rt.state # "Running"
    /\ RoomInLog \/ Replaying(World)
    /\ \E w \in Then(ExecuteInstructions(Start), Settle) :
         Becomes(Revise(Flushed([w EXCEPT !.rt.state = "Paused", !.rt.ignore = None])))

\* One turn of a batch: stop at a breakpoint, or execute one instruction.
StopAtBreakpoint ==
    /\ Running /\ rt.state = "Running"
    /\ LET address == ExecutionAddress(rt.machine)
       IN address \in rt.breakpoints /\ rt.ignore # address
    /\ Becomes(Revise(Flushed([Start EXCEPT !.rt.state = "Paused"])))

\* Going past a breakpoint uses up its exemption.
PassBreakpoint(w) ==
    [w EXCEPT !.rt.ignore = IF @ = ExecutionAddress(w.rt.machine) THEN None ELSE @]

ExecuteBatch ==
    /\ Running /\ rt.state = "Running"
    /\ RoomInLog \/ Replaying(World)
    /\ LET address == ExecutionAddress(rt.machine)
       IN address \notin rt.breakpoints \/ rt.ignore = address
    /\ \E w \in Then(ExecuteInstructions(PassBreakpoint(Start)), Settle) :
         Becomes(Revise(Flushed(w)))

\* The reset is noted, the machine cleared, and its first checkpoint written.
NoteReset(w) == IF Recording(w) THEN RecordTimeline(w, ResetEntry(w.rt.position)) ELSE {w}

ClearMachine(w) ==
    [ResetMachine(w) EXCEPT !.rt.network_error = FALSE, !.rt.state = "Paused",
                            !.rt.position = IF Recording(w) THEN NextEpoch(@) ELSE @]

FinishReset(w) ==
    IF RecorderFailed(w) THEN {CheckRecordFailure(w)}
    ELSE {Revise(Flushed([w EXCEPT !.rt.deadline =
                              IF Recording(w) THEN CHECKPOINT_INTERVAL ELSE @]))}

ResetNoted(w) ==
    IF RecorderFailed(w) THEN {CheckRecordFailure(w)}
    ELSE Then(RecordCheckpoint(ClearMachine(w)), FinishReset)

\* The reset once the NAT session is replaced.
ResetConnected(w, config) ==
    IF Replaced(w, config) THEN Then(NoteReset(w), ResetNoted) ELSE {CheckRecordFailure(w)}

Reset ==
    /\ HasMachine /\ ~IsReplay(rt.mode) /\ RoomInLog
    /\ Recording(World) => rt.position.epoch < U64_MAX
    /\ rt.network_config => rt.network_generation < MaxNetworks
    /\ \E v \in IF rt.network_config THEN ReplaceNetwork(Start, TRUE) ELSE {Start} :
         \E w \in ResetConnected(v, rt.network_config) : Becomes(w)

StopRecordingCommand ==
    /\ Running /\ Recording(World)
    /\ \E w \in StopRecording(Start, Outcome("UserStopped")) : Becomes(w)

\* A handle names the machine whose catalog it was read from.
CurrentHandle(handle) == handle = rt.generation

LiveInput ==
    /\ HasMachine /\ ~IsReplay(rt.mode) /\ RoomInLog
    /\ \E handle \in 0..rt.generation :
         /\ CurrentHandle(handle)
         /\ LET input == <<"input", handle>>
                w == [Start EXCEPT !.rt.machine = ReceiveInput(@, input)]
                W == IF Recording(w)
                     THEN RecordTimeline(w, MachineInput(rt.position, input)) ELSE {w}
            IN \E v \in W :
                 Becomes(IF RecorderFailed(v) THEN CheckRecordFailure(v) ELSE Revise(v))

\* insert_media and eject_media.
MediaCommand ==
    /\ HasMachine /\ RoomInLog
    /\ \E handle \in 0..rt.generation :
         /\ CurrentHandle(handle)
         /\ rt.mode = "Normal"
         /\ Becomes(Revise([Start EXCEPT !.rt.machine = ChangeMedia(@, <<"media", handle>>)]))

CreateReplaySnapshot ==
    /\ Running /\ rt.state = "Paused" /\ Replaying(World) /\ ~rt.replay.failed
    /\ Becomes(Revise([Start EXCEPT !.files.snapshot =
         Snapshot(rt.replay, rt.position, rt.completed, rt.instant, rt.remainder, rt.machine)]))

\* Believes a failure whichever session it is of.
ConcernsSomeSession(generation) == rt.network # None /\ ~IsReplay(rt.mode)

ConcernsSession(generation) ==
    generation = rt.network_generation /\ rt.network # None /\ ~IsReplay(rt.mode)

NetworkFailure ==
    /\ Running
    /\ \E generation \in host.inbox :
         LET w == [Start EXCEPT !.host.inbox = @ \ {generation}]
         IN \E v \in IF ConcernsSession(generation) THEN FailNetwork(w) ELSE {w} : Becomes(v)

-----------------------------------------------------------------------------
(* Configure and Shutdown.                                                  *)

\* Prefers the state of the current machine to the preserved one.
RetainedFromMachine(s) == IF s.machine = None THEN s.preserved ELSE NonvolatileState(s.machine)

\* The nonvolatile state that outlives the current machine.
Retained(s) ==
    IF s.preserved # None THEN s.preserved
    ELSE IF s.machine # None THEN NonvolatileState(s.machine) ELSE None

\* A machine at its first instruction, with the session it is configured for.
ColdStart(mode, machine) ==
    [mode |-> mode, machine |-> machine, remainder |-> 0, instant |-> 0, position |-> Origin,
     completed |-> rt.completed, preserved |-> None, recorder |-> None, deadline |-> 0,
     replay |-> None, network_config |-> Ethernet]

NormalStart ==
    LET machine == NewMachine("user", "user")
        retained == Retained(rt)
    IN ColdStart("Normal", IF retained = None THEN machine
                           ELSE RestoreNonvolatileState(machine, retained))

\* The Recording machine starts from the user's stored state, in a copy.
RecordingStart ==
    LET machine == NewMachine("session", "user")
        retained == Retained(rt)
    IN [ColdStart("Recording", machine) EXCEPT
          !.preserved = IF retained = None THEN NonvolatileState(machine) ELSE retained,
          !.recorder = RecordEntry(NewRecorder, Checkpoint(Origin, Fingerprint(machine))),
          !.deadline = CHECKPOINT_INTERVAL]

\* The Replay machine is the recorded one.
ReplayStart ==
    [ColdStart("Replaying", NewMachine("session", "session")) EXCEPT
       !.preserved = Retained(rt),
       !.replay = NewReplay(files.record, 0),
       !.network_config = FALSE]

RestoreSnapshot(start, snap) ==
    [start EXCEPT !.machine = snap.machine, !.instant = snap.instant,
                  !.remainder = snap.remainder, !.position = snap.position,
                  !.completed = snap.completed, !.replay.cursor = snap.cursor]

\* Everything about the old machine is replaced at once.
Install(w, next) ==
    [w EXCEPT !.rt = [field \in DOMAIN @ |->
        CASE field \in DOMAIN next -> next[field]
          [] field = "generation" -> @.generation + 1
          [] field = "state" -> "Paused"
          [] field = "breakpoints" -> {}
          [] field \in {"pending", "output", "ignore"} -> None
          [] field \in {"network_error", "last_error", "session_error"} -> FALSE
          [] OTHER -> @[field]]]

\* The machine is installed, if the NAT session could be replaced.
Installed(w, next) ==
    LET v == Install(w, next)
    IN IF ~Replaced(w, next.network_config) THEN w
       ELSE Revise(IF Replaying(v) THEN ProcessReplayBoundary(v) ELSE v)

\* Installs a machine; w is the worker, or w with the bounds counted.
Configure(w, next) ==
    \E v \in ReplaceNetwork(w, next.network_config) : Becomes(Installed(v, next))

MayConfigure(mode) ==
    /\ Running /\ mode \in Modes /\ rt.mode # "Recording"
    /\ rt.generation < MaxGenerations /\ rt.network_generation < MaxNetworks

ConfigureNormal == MayConfigure("Normal") /\ Configure(Start, NormalStart)

ConfigureRecording ==
    /\ MayConfigure("Recording") /\ ~IsReplay(rt.mode) /\ host.recordings < MaxRecordings
    /\ Configure([Start EXCEPT !.host.recordings = @ + 1], RecordingStart)

\* The first checkpoint cannot be written; or a snapshot is refused: no step.
ConfigureReplay ==
    /\ MayConfigure("Replaying") /\ ~IsReplay(rt.mode)
    /\ files.record # None /\ Parses(files.record)
    /\ LET w == [Start EXCEPT !.host.replay_first = @ \/ rt.machine = None]
       IN \/ Configure(w, ReplayStart)
          \/ /\ files.snapshot # None /\ SnapshotFits(files.record, files.snapshot)
             /\ Configure(w, RestoreSnapshot(ReplayStart, files.snapshot))

\* The worker ends and returns the nonvolatile state the application saves.
Shutdown ==
    /\ Running
    /\ \E w \in Then(DropNetwork(Start), LAMBDA v : StopRecording(v, Outcome("Shutdown"))) :
         Becomes([w EXCEPT !.host.result = Retained(w.rt)])

-----------------------------------------------------------------------------
(* The host.                                                                *)

NetworkAlive == Running /\ rt.network # None /\ rt.network.failure = "none"

FrameArrives ==
    /\ NetworkAlive /\ host.frames < MaxFrames
    /\ Becomes([Start EXCEPT !.host.frames = @ + 1,
                             !.rt.network.rx = Append(@, <<"frame", host.frames>>)])

NetworkFails ==
    /\ NetworkMayFail /\ NetworkAlive
    /\ Becomes([Start EXCEPT !.rt.network.failure = "latched"])

NetworkNotifies ==
    /\ Running /\ rt.network # None /\ rt.network.failure # "none" /\ ~rt.network.notified
    /\ Becomes([Start EXCEPT !.rt.network.notified = TRUE,
                             !.host.inbox = @ \cup {rt.network.generation}])

\* The application is started again and finds the files it left.
Restart ==
    /\ ~Running /\ host.runs < MaxRuns
    /\ rt' = InitWorker
    /\ host' = [host EXCEPT !.inbox = {}, !.runs = @ + 1, !.replay_first = FALSE,
                              !.result = "running"]
    /\ UNCHANGED files

Ended == ~Running /\ UNCHANGED vars

Command ==
    \/ Run \/ Pause \/ ToggleBreakpoint \/ Step \/ Reset \/ StopRecordingCommand
    \/ LiveInput \/ MediaCommand \/ CreateReplaySnapshot \/ NetworkFailure
    \/ ConfigureNormal \/ ConfigureRecording \/ ConfigureReplay \/ Shutdown

Batch == StopAtBreakpoint \/ ExecuteBatch
Host == FrameArrives \/ NetworkFails \/ NetworkNotifies

Next == Command \/ Batch \/ Host \/ Restart \/ Ended

\* The worker thread is scheduled and so is the NAT worker that reports; a
\* command in the channel is received.  The user promises nothing.
\* Weak fairness is written out with the guard of each action for its ENABLED.
BatchReady ==
    /\ Running /\ rt.state = "Running"
    /\ \/ RoomInLog \/ Replaying(World)
       \/ ExecutionAddress(rt.machine) \in rt.breakpoints \ {rt.ignore}
NotifyReady == Running /\ rt.network # None /\ rt.network.failure # "none" /\ ~rt.network.notified
FailureReady == Running /\ host.inbox # {}

Fairness ==
    /\ []<>~BatchReady \/ []<><<Batch>>_vars
    /\ []<>~NotifyReady \/ []<><<NetworkNotifies>>_vars
    /\ []<>~FailureReady \/ []<><<NetworkFailure>>_vars

Spec == Init /\ [][Next]_vars
FairSpec == Spec /\ Fairness

-----------------------------------------------------------------------------
(* Properties.                                                              *)

\* Every path that stops the machine (a failed instruction, a full or broken
\* Record, a NAT failure reported either way, the end or a divergence of a
\* Replay) also takes the worker out of Running: what Run refuses never runs.
RunningIsRunnable == rt.state = "Running" => RequireRunnable(rt)

\* A Record that lost an entry, or whose network failed, ends at once: no
\* handler leaves a Recording behind that check_record_failure would end.
RecordingHealthy ==
    Recording(World) => ~rt.recorder.failed /\ ~rt.network_error

\* A finished Record passes parse_record, whatever mixture of inputs, resets,
\* checkpoints and failures produced it.
RecordParses == files.record # None => Parses(files.record)

\* A Replay has failed where it can: its storage has, or a read of a CD-ROM did,
\* now or while the Record was made, which nobody noted in the Record.
StorageFailed ==
    \/ rt.replay.failed
    \/ ~NoReadFailed(rt.machine.log) \/ ~NoReadFailed(rt.replay.record.digest)

\* A Replay of a Record this program wrote only ever is in a state its Record was
\* in, at every boundary, from the start or from a snapshot, and does not diverge,
\* as long as the storage works.
ReplayFaithful ==
    IsReplay(rt.mode) /\ ~StorageFailed
        => /\ rt.mode # "ReplayDiverged"
           /\ IsPrefix(rt.machine.log, rt.replay.record.digest)

\* A snapshot that create_snapshot wrote passes validate_replay_snapshot.
SnapshotRestorable ==
    files.snapshot # None /\ files.snapshot.record = files.record
        => SnapshotFits(files.record, files.snapshot)

\* A session is blamed only for its own failure: a NetworkFailure of an older
\* generation never stops the session that replaced it.
NetworkErrorJustified ==
    rt.network_error => rt.network = None \/ rt.network.failure # "none"

\* The frames a machine consumed, the one it could not take yet and the queued
\* ones, in the order they are to be consumed.
Places(log, pending, rx) == log \o (IF pending = None THEN <<>> ELSE <<pending>>) \o rx

\* Where the frames from number first on are.
FramePlaces(places, first) ==
    {i \in DOMAIN places : places[i][1] = "frame" /\ places[i][2] >= first}

\* Each frame the current session received is in exactly one place, in order:
\* consumed by the machine, pending, or still queued.
FramesExact ==
    rt.network # None
        => LET places == Places(rt.machine.log, rt.pending, rt.network.rx)
               mine == FramePlaces(places, rt.network.first)
           IN /\ {places[i][2] : i \in mine} = rt.network.first .. host.frames - 1
              /\ \A i, j \in mine : i < j => places[i][2] < places[j][2]

\* The clock never drifts: whole attoseconds and remainder together are exactly
\* the completed cycles, across resets and restored snapshots.
VirtualTimeExact ==
    rt.machine # None
        => rt.instant * FREQUENCY_HZ + rt.remainder
             = rt.machine.cycles * ATTOSECONDS_PER_SECOND

\* What a Recording leaves on disk can be replayed, from the start and from a
\* snapshot, and a machine restored from it has the time its cycles make.
RecordSound == RecordParses /\ SnapshotRestorable /\ VirtualTimeExact

\* The breakpoint exemption Run grants belongs to the instruction the machine
\* is about to execute.
ExemptionFresh ==
    rt.state = "Running" /\ rt.ignore # None => rt.ignore = ExecutionAddress(rt.machine)

\* What stops a session stops it at once, and nothing else does: a machine that
\* runs may run, past no breakpoint but the one it was resumed from; a Recording
\* that goes on is whole; a session is blamed for its own failure only.
StopsJustified ==
    RunningIsRunnable /\ RecordingHealthy /\ NetworkErrorJustified /\ ExemptionFresh

\* What a Recording or Replay machine wrote to its nonvolatile state reaches
\* neither a Normal machine nor the state Shutdown returns to be saved, unless the
\* first machine of this run of the application was a Replay's: then there is no
\* state of the user's to keep beside it, and configure keeps the Replay's.
NonvolatileIsolated ==
    ~host.replay_first
        => /\ host.result # "session"
           /\ rt.mode = "Normal" /\ rt.machine # None => NonvolatileState(rt.machine) = "user"

\* What Status and Debug show of a worker.
Visible(s) == <<s.state, s.mode, s.generation, s.completed, s.position, s.session_error,
                s.network_error, s.last_error, s.breakpoints, s.machine>>

\* "Monotonic debugger-visible state revision": nothing a debugger sees changes
\* without a new revision.
RevisionAdvances == [][Visible(rt') # Visible(rt) => rt'.revised \/ rt' = InitWorker]_vars

\* A running Replay comes to rest.
ReplayEnds == (Replaying(World) /\ rt.state = "Running") ~> (rt.state # "Running" \/ ~Running)

\* A NAT session that failed is reported, unless it is replaced first.
NetworkFailureSurfaces ==
    \A g \in 0..MaxNetworks :
        (rt.network # None /\ rt.network.failure # "none" /\ rt.network.generation = g)
            ~> (rt.network_error \/ rt.network_generation # g \/ ~Running)

\* What the worker was asked to bring to an end, or to report, it does.
WorkerProgress == ReplayEnds /\ NetworkFailureSurfaces
================================================================================
