----------------------------- MODULE RecordFiles -----------------------------
(***************************************************************************)
(* The files of a Record and of its snapshot cache (crates/se_runtime      *)
(* record.rs), with failing writes and crashes between any two steps.      *)
(*                                                                         *)
(* A file is written under its name with the suffix .partial, synchronized *)
(* and renamed.  disk maps a name to what it holds, partial maps it to     *)
(* what its .partial file holds.  What has not been synchronized may be    *)
(* torn by a crash.  The directory is not synchronized after a rename      *)
(* (replace_file, except on Windows): a power loss may undo the last one    *)
(* of each name, whichever of the others it keeps.  before maps a name to   *)
(* what it held then; the next synchronization of a file of that name      *)
(* stores the rename.                                                      *)
(*                                                                         *)
(* The user interface runs one operation at a time (preparation_state_ of  *)
(* main_window.cpp): a Recording, or one task on the cache.  Rejections    *)
(* that touch no file are not steps.                                       *)
(***************************************************************************)
EXTENDS Integers, FiniteSets

LOCAL INSTANCE TLC

CONSTANTS
    None,           \* Option::None, or a missing file
    Torn,           \* the content of a file whose writing was interrupted
    Positions,      \* execution positions a snapshot is made at
    Versions,       \* values of the instruction counter in a snapshot
    MaxRecords,     \* bound: Records that are begun
    MaxSnapshots,   \* bound: snapshots that are begun
    MaxFaults       \* bound: failing writes, crashes and power losses

\* What a file holds: a Record, a snapshot, or an index of snapshots.
RecordValue == [id : Nat, started : BOOLEAN]
SnapshotValue == [record : Nat, position : Positions, version : Versions]
CatalogValue == [record : Nat, entries : SUBSET SnapshotValue]

FileValue == [value : {Torn} \cup RecordValue \cup SnapshotValue \cup CatalogValue,
              durable : BOOLEAN]

ASSUME FilesConstants ==
    /\ MaxRecords \in Nat /\ MaxSnapshots \in Nat /\ MaxFaults \in Nat
    /\ 0 \notin Positions

ASSUME TornIsNothing ==
    /\ Torn \notin RecordValue /\ Torn \notin SnapshotValue /\ Torn \notin CatalogValue
    /\ None \notin Nat /\ None \notin FileValue

VARIABLES
    disk,           \* files under their names
    partial,        \* files under their names with .partial
    before,         \* what the storage may still have under a name
    writer,         \* RecorderInner of the open Record
    replay,         \* RecordIdentity of the Record being replayed
    task,           \* the cache operation in progress
    result,         \* what the last cache operation returned
    begun,          \* Records begun so far
    created,        \* history: record and position of each snapshot reported as created
    made,           \* snapshots begun so far
    faults          \* failing writes, crashes and power losses so far

vars == <<disk, partial, before, writer, replay, task, result, begun, created, made, faults>>

RecordFile == <<"record", 0>>
IndexFile == <<"index", 0>>
SnapshotFile(p) == <<"snapshot", p>>
Names == {RecordFile, IndexFile} \cup {SnapshotFile(p) : p \in Positions}

File(value, durable) == [value |-> value, durable |-> durable]
ReplaySnapshot(record, p, version) == [record |-> record, position |-> p, version |-> version]
SnapshotCatalog(record, entries) == [record |-> record, entries |-> entries]

Idle == [op |-> "idle", stage |-> "idle", position |-> None, version |-> None,
         file |-> None, value |-> None, entries |-> {}, last |-> FALSE]
NoResult == [op |-> "none", ok |-> TRUE, cause |-> None, record |-> None, entries |-> {}, position |-> None]

Init ==
    /\ disk = [n \in Names |-> None]
    /\ partial = [n \in Names |-> None]
    /\ before = disk
    /\ writer = None
    /\ replay = None
    /\ task = Idle
    /\ result = NoResult
    /\ begun = 0
    /\ created = {}
    /\ made = 0 /\ faults = 0

\* A file that can be read and passes its magic, length and CRC.
Readable(n) == disk[n] # None /\ disk[n].value # Torn

\* identity_for_open_file: its size and hash name one Record.
RecordIdentity == disk[RecordFile].value.id

Rename(n) ==
    /\ disk' = [disk EXCEPT ![n] = partial[n]]
    /\ partial' = [partial EXCEPT ![n] = None]

\* sync_all: the .partial file of a name, and what was renamed to that name before.
Synchronize(n) ==
    /\ partial' = [partial EXCEPT ![n].durable = TRUE]
    /\ before' = [before EXCEPT ![n] = disk[n]]

-----------------------------------------------------------------------------
(* Recorder.                                                                *)

Quiet == task = Idle
NoCacheChange == UNCHANGED <<replay, task, result, created>>

\* create and create_or_replace; create_new refuses an existing partial file.
CreateRecord ==
    /\ Quiet /\ writer = None /\ replay = None /\ begun < MaxRecords
    /\ partial[RecordFile] = None
    /\ \E replace \in BOOLEAN :
         /\ replace \/ disk[RecordFile] = None
         /\ writer' = [id |-> begun + 1, started |-> FALSE, footer |-> FALSE]
    /\ begun' = begun + 1
    /\ partial' = [partial EXCEPT ![RecordFile] = File([id |-> begun + 1, started |-> FALSE], FALSE)]
    /\ result' = NoResult
    /\ UNCHANGED <<disk, before, replay, task, created>>

\* start writes the manifest.
StartRecord ==
    /\ writer # None /\ ~writer.started
    /\ writer' = [writer EXCEPT !.started = TRUE]
    /\ partial' = [partial EXCEPT ![RecordFile].value.started = TRUE]
    /\ UNCHANGED <<disk, before, begun>> /\ NoCacheChange

\* A discard that does not ask whether the manifest was written.
DiscardAny ==
    /\ writer # None /\ ~writer.footer
    /\ writer' = None
    /\ partial' = [partial EXCEPT ![RecordFile] = None]
    /\ UNCHANGED <<disk, before, begun>> /\ NoCacheChange

\* The machine could not be built: the partial file is removed again.
DiscardUnstarted ==
    /\ writer # None /\ ~writer.started
    /\ writer' = None
    /\ partial' = [partial EXCEPT ![RecordFile] = None]
    /\ UNCHANGED <<disk, before, begun>> /\ NoCacheChange

\* finalize, first half: the footer, flushed and synchronized.
WriteFooter ==
    /\ writer # None /\ writer.started /\ ~writer.footer
    /\ writer' = [writer EXCEPT !.footer = TRUE]
    /\ Synchronize(RecordFile)
    /\ UNCHANGED <<disk, begun>> /\ NoCacheChange

\* finalize, second half: commit_record_file.
CommitRecord ==
    /\ writer # None /\ writer.footer
    /\ writer' = None
    /\ Rename(RecordFile)
    /\ UNCHANGED <<before, begun>> /\ NoCacheChange

\* A write fails, or the Recording is given up: disable drops the writer and
\* the partial file stays.
AbandonRecord ==
    /\ writer # None /\ writer.started
    /\ writer' = None
    /\ UNCHANGED <<disk, partial, before, begun>> /\ NoCacheChange

\* The Replay of the complete Record begins, and ends.
OpenReplay ==
    /\ Quiet /\ writer = None /\ replay = None /\ Readable(RecordFile)
    /\ replay' = RecordIdentity
    /\ result' = NoResult
    /\ UNCHANGED <<disk, partial, before, writer, task, begun, created>>

CloseReplay ==
    /\ Quiet /\ replay # None
    /\ replay' = None
    /\ result' = NoResult
    /\ UNCHANGED <<disk, partial, before, writer, task, begun, created>>

-----------------------------------------------------------------------------
(* Cache operations.  A task writes files in stages; the stage after a      *)
(* rename depends on which file was written.                                *)

NoRecordChange == UNCHANGED <<writer, replay, begun>>

\* The Record a task works on.
Subject == IF task.op = "create" THEN replay ELSE RecordIdentity

Return(ok, cause) ==
    /\ task' = Idle
    /\ result' = [op |-> task.op, ok |-> ok, cause |-> cause, record |-> Subject,
                  entries |-> task.entries, position |-> task.position]
    /\ created' = IF task.op = "create" /\ ok
                  THEN created \cup {<<replay, task.position>>} ELSE created

\* write_cache_file begins.
Write(t, n, value, last) ==
    [t EXCEPT !.stage = "open", !.file = n, !.value = value, !.last = last]

BeginTask(t) ==
    /\ Quiet /\ writer = None
    /\ task' = t
    /\ result' = NoResult
    /\ UNCHANGED <<disk, partial, before, created>> /\ NoRecordChange

\* ReplaySession::create_snapshot.
BeginCreate ==
    /\ replay # None /\ made < MaxSnapshots
    /\ made' = made + 1
    /\ \E p \in Positions, v \in Versions :
         BeginTask(Write([Idle EXCEPT !.op = "create", !.position = p, !.version = v],
                         SnapshotFile(p), ReplaySnapshot(replay, p, v), FALSE))

\* Replayer::snapshot_catalog.
BeginCatalog ==
    /\ replay = None /\ Readable(RecordFile)
    /\ BeginTask([Idle EXCEPT !.op = "catalog", !.stage = "load"])

\* Replayer::open_snapshot, of a snapshot the catalog has just listed.
BeginOpen ==
    /\ replay = None /\ Readable(RecordFile)
    /\ result.op = "catalog" /\ result.ok
    /\ \E e \in result.entries :
         BeginTask([Idle EXCEPT !.op = "open", !.stage = "load", !.position = e.position])

\* write_cache_file, step by step: create_new ...
OpenPartial ==
    /\ task.stage = "open"
    /\ IF partial[task.file] # None
       THEN Return(FALSE, "partial exists") /\ UNCHANGED partial
       ELSE /\ partial' = [partial EXCEPT ![task.file] = File(task.value, FALSE)]
            /\ task' = [task EXCEPT !.stage = "sync"]
            /\ UNCHANGED <<result, created>>
    /\ UNCHANGED <<disk, before>> /\ NoRecordChange

\* A synchronization that is skipped.
SkipSync ==
    /\ task.stage = "sync"
    /\ task' = [task EXCEPT !.stage = "rename"]
    /\ UNCHANGED <<disk, partial, before, result, created>> /\ NoRecordChange

\* ... write, flush and sync_all ...
SyncPartial ==
    /\ task.stage = "sync"
    /\ Synchronize(task.file)
    /\ task' = [task EXCEPT !.stage = "rename"]
    /\ UNCHANGED <<disk, result, created>> /\ NoRecordChange

\* ... and replace_file.
RenamePartial ==
    /\ task.stage = "rename"
    /\ Rename(task.file)
    /\ IF task.last
       THEN Return(TRUE, None)
       ELSE /\ task' = [task EXCEPT !.stage = IF task.file = IndexFile THEN "loaded" ELSE "load"]
            /\ UNCHANGED <<result, created>>
    /\ UNCHANGED before /\ NoRecordChange

\* A failed write leaves its partial file where it is.
WriteFails ==
    /\ task.stage \in {"sync", "rename"}
    /\ Return(FALSE, "io")
    /\ partial' = IF task.stage = "sync" THEN [partial EXCEPT ![task.file].value = Torn] ELSE partial
    /\ UNCHANGED <<disk, before>> /\ NoRecordChange

\* validate_catalog: each entry has a file of its size.  Two snapshots of one
\* position have the same size.
ValidCatalog(catalog) == \A e \in catalog.entries : disk[SnapshotFile(e.position)] # None

Usable(record) ==
    /\ Readable(IndexFile)
    /\ disk[IndexFile].value.record = record
    /\ ValidCatalog(disk[IndexFile].value)

\* The complete snapshots of this Record in the directory.
Rebuilt(record) ==
    {s \in {disk[SnapshotFile(p)].value : p \in {q \in Positions : Readable(SnapshotFile(q))}} :
        s.record = record}

\* load_or_rebuild_catalog, and rebuild_catalog, which writes the index.
LoadCatalog ==
    /\ task.stage = "load"
    /\ task' = IF Usable(Subject)
               THEN [task EXCEPT !.stage = "loaded", !.entries = disk[IndexFile].value.entries]
               ELSE Write([task EXCEPT !.entries = Rebuilt(Subject)], IndexFile,
                          SnapshotCatalog(Subject, Rebuilt(Subject)), FALSE)
    /\ UNCHANGED <<disk, partial, before, result, created>> /\ NoRecordChange

\* An index that starts anew with each snapshot.
AddEntryAlone(entries) == {ReplaySnapshot(replay, task.position, task.version)}

AddEntry(entries) ==
    {e \in entries : e.position # task.position}
        \cup {ReplaySnapshot(replay, task.position, task.version)}

\* create_snapshot goes on: the catalog with the new entry is written.
UpdateIndex ==
    /\ task.stage = "loaded" /\ task.op = "create"
    /\ task' = Write(task, IndexFile, SnapshotCatalog(Subject, AddEntry(task.entries)), TRUE)
    /\ UNCHANGED <<disk, partial, before, result, created>> /\ NoRecordChange

ListCatalog ==
    /\ task.stage = "loaded" /\ task.op = "catalog"
    /\ Return(TRUE, None)
    /\ UNCHANGED <<disk, partial, before>> /\ NoRecordChange

\* install_snapshot: the entry, the file, its identity, the Record it is of.
InstallSnapshot ==
    /\ task.stage = "loaded" /\ task.op = "open"
    /\ LET n == SnapshotFile(task.position)
           listed == {e \in task.entries : e.position = task.position}
       IN IF Readable(n) /\ disk[n].value \in listed /\ disk[n].value.record = RecordIdentity
          THEN Return(TRUE, None) /\ replay' = RecordIdentity
          ELSE Return(FALSE, "identity") /\ UNCHANGED replay
    /\ UNCHANGED <<disk, partial, before, writer, begun>>

-----------------------------------------------------------------------------
Unsynchronized(files) == {n \in Names : files[n] # None /\ ~files[n].durable}
TornAt(files, lost) == [n \in Names |-> IF n \in lost THEN File(Torn, FALSE) ELSE files[n]]

\* What is in memory is lost.
Forget == writer' = None /\ replay' = None /\ task' = Idle /\ result' = NoResult /\ UNCHANGED begun

\* The process is killed: a file may be left half written, every rename stays.
Crash ==
    /\ writer # None \/ task # Idle \/ replay # None
    /\ \E lost \in SUBSET Unsynchronized(partial) : partial' = TornAt(partial, lost)
    /\ Forget /\ UNCHANGED <<disk, before, created>>

\* A reported snapshot can be found in these files: its own is there, and an index
\* of its Record, which is believed, lists it.
Holds(files, n) == files[n] # None /\ files[n].value # Torn
Found(files, c) ==
    /\ Holds(files, SnapshotFile(c[2])) /\ files[SnapshotFile(c[2])].value.record = c[1]
    /\ Holds(files, IndexFile) /\ files[IndexFile].value.record = c[1]
         => \E e \in files[IndexFile].value.entries : e.position = c[2]

\* The host loses its power: renames are undone, each for itself, and a file that was
\* not synchronized is torn or gone.  What cannot be found any more is not promised.
\* (A partial file that was removed may come back: what a crash before the removal
\* leaves.)
PowerLoss ==
    /\ \E undone \in SUBSET {n \in Names : before[n] # disk[n]} :
       \E lost \in SUBSET (Unsynchronized(partial) \ undone) :
       \E gone \in SUBSET lost :
         /\ disk' = [n \in Names |-> IF n \in undone THEN before[n]
                                    ELSE TornAt(disk, Unsynchronized(disk))[n]]
         /\ partial' = [n \in Names |-> IF n \in undone THEN disk[n]
                                       ELSE IF n \in gone THEN None ELSE TornAt(partial, lost)[n]]
    /\ before' = disk'
    /\ Forget
    /\ created' = {c \in created : Found(disk', c)}

Record == CreateRecord \/ StartRecord \/ DiscardUnstarted \/ WriteFooter \/ CommitRecord
            \/ AbandonRecord \/ OpenReplay \/ CloseReplay
Cache == BeginCatalog \/ BeginOpen \/ OpenPartial \/ SyncPartial \/ RenamePartial
            \/ LoadCatalog \/ UpdateIndex \/ ListCatalog \/ InstallSnapshot
Fault == WriteFails \/ Crash \/ PowerLoss

Next == \/ (Record \/ Cache) /\ UNCHANGED <<made, faults>>
        \/ BeginCreate /\ UNCHANGED faults
        \/ faults < MaxFaults /\ Fault /\ faults' = faults + 1 /\ UNCHANGED made

Spec == Init /\ [][Next]_vars

-----------------------------------------------------------------------------
\* What the file of a name may hold.
Value(n) ==
    IF n = RecordFile THEN RecordValue
    ELSE IF n = IndexFile THEN CatalogValue
    ELSE {s \in SnapshotValue : s.position = n[2]}

Files == [Names -> {None} \cup FileValue]

Stored(f) == /\ f \in Files
             /\ \A n \in Names : f[n] # None => f[n].value \in Value(n) \cup {Torn}

Tasks == [op : {"idle", "create", "catalog", "open"},
          stage : {"idle", "open", "sync", "rename", "load", "loaded"},
          position : Positions \cup {None}, version : Versions \cup {None},
          file : Names \cup {None}, value : SnapshotValue \cup CatalogValue \cup {None},
          entries : SUBSET SnapshotValue, last : BOOLEAN]

\* Each file holds what its name says, or is torn; a task and the open Record
\* exclude each other.
TypeOK ==
    /\ Stored(disk) /\ Stored(partial) /\ Stored(before)
    /\ writer \in {None} \cup [id : Nat, started : BOOLEAN, footer : BOOLEAN]
    /\ replay \in Nat \cup {None}
    /\ begun \in Nat
    /\ task \in Tasks
    /\ writer # None => /\ task = Idle /\ replay = None
                        /\ partial[RecordFile] # None /\ partial[RecordFile].value # Torn

\* A file that can be found under its name is complete, whatever crash, power loss
\* or failed write came before: finalize and write_cache_file synchronize first.
NamedFilesComplete ==
    \A n \in Names : disk[n] # None => disk[n].durable /\ disk[n].value # Torn

\* "A Record with a started manifest remains available for recovery": short of a
\* power loss its partial file is not lost and not written over by another Record,
\* it only becomes the complete Record.  A crash may tear it.
StartedRecordKept ==
    [][Holds(partial, RecordFile) /\ partial[RecordFile].value.started
         => \/ partial'[RecordFile] # None
               /\ partial'[RecordFile].value \in {partial[RecordFile].value, Torn}
            \/ disk'[RecordFile] = partial[RecordFile]
            \/ PowerLoss]_vars

\* A snapshot that was reported as created is listed ever after, by every catalog of
\* its Record, through crashes and rebuilt indexes, unless a power loss has undone
\* the rename of its file or of the index.
CreatedListed ==
    result.op = "catalog" /\ result.ok
        => \A c \in created : c[1] = result.record
             => \E e \in result.entries : e.position = c[2]

\* A catalog lists snapshots of its own Record only, one for each position, also
\* when a new Record has replaced the one the files were made for, or an old one has
\* come back.
ListedBelongs ==
    result.op = "catalog" /\ result.ok
        => \A e, f \in result.entries : e.record = result.record
                                        /\ (e.position = f.position => e = f)

\* What is opened is what the catalog lists, also when a crash between the two
\* renames has left an index that lists an older snapshot of the position, or a
\* power loss one of another Record.
OpenedIsListed ==
    result.op = "open" /\ result.ok
        => /\ disk[SnapshotFile(result.position)].value \in result.entries
           /\ disk[SnapshotFile(result.position)].value.record = result.record
           /\ replay = result.record

\* A catalog is what was created for its Record and nothing else.
CatalogExact == CreatedListed /\ ListedBelongs /\ OpenedIsListed

\* Positions are interchangeable, and counters are.
Interchangeable ==
    {[x \in Positions \cup Versions |-> IF x \in Positions THEN p[x] ELSE v[x]] :
        p \in Permutations(Positions), v \in Permutations(Versions)}
===============================================================================
