-------------------------------- MODULE Record --------------------------------
(***************************************************************************)
(* The emulated machine as the runtime sees it (crates/se_machine          *)
(* machine.rs), and the CPU clock of the runtime that drives it.           *)
(*                                                                         *)
(* The guest is deterministic: its state is a function of what has been    *)
(* done to it since it was built.  That history, log, stands for the       *)
(* state, so two machines with the same log are the same machine, and the  *)
(* fingerprint the runtime records and verifies is the log.  cycles is the *)
(* number of instructions completed since the last reset; the program      *)
(* counter, the instruction that fails and the readiness of the Ethernet   *)
(* receiver are functions of it.                                           *)
(***************************************************************************)
EXTENDS Integers, Sequences, SequencesExt

CONSTANTS
    FREQUENCY_HZ,               \* cpu_frequency_hz()
    ATTOSECONDS_PER_SECOND,     \* 10^18 in the code
    ADDRESSES,                  \* the guest program is a loop of this length
    FAULT_AT                    \* the cycle whose instruction cannot complete

ASSUME MachineConstants ==
    /\ FREQUENCY_HZ \in Nat \ {0}
    /\ ATTOSECONDS_PER_SECOND \in Nat \ {0}
    /\ ADDRESSES \in Nat \ {0}
    /\ FAULT_AT \in Nat

\* What happens to a machine: an instruction and its time, an input, a change
\* of its media, a reset, or a failure of an instruction or of the storage, of
\* which a session may hear (storage_error) or not (read_error).
StorageFailures == {"storage_error", "read_error"}
Events == ({"cycle", "fault", "input", "frame", "media", "reset"} \cup StorageFailures) \X Nat

Machines ==
    [owner : {"user", "session"}, nv : {"user", "session"}, cycles : Nat, log : Seq(Events)]

\* A machine of one owner with the nonvolatile state it is built with.
NewMachine(owner, nv) == [owner |-> owner, nv |-> nv, cycles |-> 0, log |-> <<>>]

Happened(m, event) == [m EXCEPT !.log = Append(@, event)]

ExecutionAddress(m) == m.cycles % ADDRESSES
Fingerprint(m) == m.log
NonvolatileState(m) == m.nv
RestoreNonvolatileState(m, nv) == [m EXCEPT !.nv = nv]

\* A guest instruction may write the nonvolatile state.
WritesNonvolatile(m) == [m EXCEPT !.nv = IF @ = "user" THEN m.owner ELSE @]

InstructionFails(m) == m.cycles = FAULT_AT

\* execute_instruction: a failed instruction may change the machine, too, but
\* it does not complete.
ExecuteInstruction(m) ==
    IF InstructionFails(m)
    THEN Happened(WritesNonvolatile(m), <<"fault", 0>>)
    ELSE [WritesNonvolatile(m) EXCEPT !.cycles = @ + 1]

\* An instruction during which the host storage fails: the guest sees an error.
ExecuteWithStorageError(m, failure) == Happened(ExecuteInstruction(m), <<failure, 0>>)

\* The guest saw no failure but those its session heard of.
NoReadFailed(log) == \A i \in DOMAIN log : log[i][1] # "read_error"

AdvanceTime(m, elapsed) == Happened(m, <<"cycle", elapsed>>)

\* Serial, keyboard and mouse input is always consumed.  An Ethernet frame is
\* consumed when the receiver is ready for it, and would block otherwise.
WouldBlock(m, input) == input[1] = "frame" /\ m.cycles % 2 = 1
ReceiveInput(m, input) == Happened(m, input)
ChangeMedia(m, change) == Happened(m, change)

ResetGuest(m) == [Happened(m, <<"reset", 0>>) EXCEPT !.cycles = 0]

-----------------------------------------------------------------------------
(* CpuClock: whole attoseconds per cycle, and the remainder carried over.   *)

WholeAttosecondsPerCycle == ATTOSECONDS_PER_SECOND \div FREQUENCY_HZ
RemainderPerCycle == ATTOSECONDS_PER_SECOND % FREQUENCY_HZ

AdvanceCycle(remainder) ==
    LET sum == remainder + RemainderPerCycle
        carry == IF sum >= FREQUENCY_HZ THEN 1 ELSE 0
    IN [remainder |-> sum - carry * FREQUENCY_HZ,
        elapsed   |-> WholeAttosecondsPerCycle + carry]

-----------------------------------------------------------------------------
(***************************************************************************)
(* What a Record holds and what a Replay reads of it (crates/se_runtime    *)
(* record.rs): positions, the Timeline, the footer, the cursor of a        *)
(* Replay, and the test a manual snapshot has to pass before it is         *)
(* restored.  A digest is the fingerprint of the machine.                  *)
(***************************************************************************)

CONSTANTS
    None,           \* Option::None
    U64_MAX         \* the largest value of a u64 counter

ASSUME RecordConstants == U64_MAX \in Nat /\ None \notin Machines \cup {"user", "session"}

\* ExecutionPosition: ordered by epoch, then by completed instructions.
Origin == [epoch |-> 0, completed |-> 0]
Before(p, q) == p.epoch < q.epoch \/ (p.epoch = q.epoch /\ p.completed < q.completed)
Earlier(p, q) == IF Before(q, p) THEN q ELSE p

\* Timeline entries.
Checkpoint(pos, digest) == [position |-> pos, kind |-> "checkpoint", data |-> digest]
MachineInput(pos, input) == [position |-> pos, kind |-> "input", data |-> <<input>>]
ResetEntry(pos) == [position |-> pos, kind |-> "reset", data |-> <<>>]

\* How a Record ends: an execution error names the address it happened at.
Outcome(kind) == [kind |-> kind, address |-> 0]
ExecutionErrorAt(address) == [kind |-> "ExecutionError", address |-> address]

\* Recorder: an open Record.  Once failed it takes no further entry and cannot
\* be finalized.
NewRecorder == [timeline |-> <<>>, failed |-> FALSE]
RecordEntry(r, entry) == [r EXCEPT !.timeline = Append(@, entry)]
FailRecorder(r) == [r EXCEPT !.failed = TRUE]

\* finalize() writes the footer and commits the file.
Finalized(r, pos, outcome, digest) ==
    [timeline |-> r.timeline, position |-> pos, outcome |-> outcome, digest |-> digest]

\* parse_record accepts the file: positions never go back, the footer is last.
Parses(record) ==
    LET t == record.timeline
    IN /\ \A i \in 1..(Len(t) - 1) : ~Before(t[i + 1].position, t[i].position)
       /\ t # <<>> => ~Before(record.position, Last(t).position)

-----------------------------------------------------------------------------
(* ReplaySession: the parsed Record, a cursor, the health of its storage.   *)

NewReplay(record, cursor) == [record |-> record, cursor |-> cursor, failed |-> FALSE]

TimelineConsumed(r) == r.cursor = Len(r.record.timeline)
NextEntry(r) == r.record.timeline[r.cursor + 1]
FinalPosition(r) == r.record.position

\* The next position at which a Replay has something to do.
NextBoundaryPosition(r) ==
    IF TimelineConsumed(r)
    THEN FinalPosition(r)
    ELSE Earlier(NextEntry(r).position, FinalPosition(r))

LastCheckpoint(timeline) ==
    LET checkpoints == SelectSeq(timeline, LAMBDA e : e.kind = "checkpoint")
    IN IF checkpoints = <<>> THEN None ELSE Last(checkpoints).position

-----------------------------------------------------------------------------
(* A manual snapshot.                                                       *)

\* A snapshot that names the last checkpoint of the whole Record.
SnapshotOfWholeTimeline(r, pos, completed, instant, remainder, machine) ==
    [record |-> r.record, position |-> pos, completed |-> completed, instant |-> instant,
     remainder |-> remainder, cursor |-> r.cursor,
     checkpoint |-> LastCheckpoint(r.record.timeline),
     machine |-> machine]

Snapshot(r, pos, completed, instant, remainder, machine) ==
    [record |-> r.record, position |-> pos, completed |-> completed, instant |-> instant,
     remainder |-> remainder, cursor |-> r.cursor,
     checkpoint |-> LastCheckpoint(SubSeq(r.record.timeline, 1, r.cursor)),
     machine |-> machine]

\* validate_replay_snapshot accepts the snapshot for the Record.
SnapshotFits(record, snap) ==
    LET t == record.timeline
    IN /\ snap.record = record
       /\ snap.cursor <= Len(t)
       /\ ~Before(record.position, snap.position)
       /\ snap.cursor > 0 => ~Before(snap.position, t[snap.cursor].position)
       /\ snap.cursor < Len(t) => Before(snap.position, t[snap.cursor + 1].position)
       /\ snap.checkpoint = LastCheckpoint(SubSeq(t, 1, snap.cursor))
=============================================================================
