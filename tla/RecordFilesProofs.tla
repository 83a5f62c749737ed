-------------------------- MODULE RecordFilesProofs --------------------------
(***************************************************************************)
(* Proofs about RecordFiles, for any positions, any number of Records, and  *)
(* with any number of failing writes, crashes and power losses.            *)
(***************************************************************************)
EXTENDS RecordFiles, TLAPS

\* What write_cache_file has done so far, and what a task may rely on.
TaskInv ==
    /\ task.stage \in {"open", "sync", "rename"} =>
         /\ task.file \in Names \ {RecordFile}
         /\ task.value \in Value(task.file)
    /\ task.stage = "sync" => partial[task.file] = File(task.value, FALSE)
    /\ task.stage = "rename" => partial[task.file] = File(task.value, TRUE)
    /\ task # Idle => task.op # "idle"
    /\ task.op = "create" => replay \in Nat /\ task.position \in Positions /\ task.version \in Versions
    /\ task.op \in {"catalog", "open"} => Readable(RecordFile)

\* The partial Record has the manifest once its writer has started, and is
\* synchronized once the footer is written.
WriterInv ==
    writer # None => /\ partial[RecordFile].value.started = writer.started
                     /\ writer.footer => partial[RecordFile].durable

\* What a catalog has returned are snapshots.
ResultInv == result.entries \in SUBSET SnapshotValue

\* What a power loss may bring back is complete too.
StorageInv ==
    /\ Stored(before)
    /\ \A n \in Names : before[n] # None => before[n].durable /\ before[n].value # Torn

FilesInv == TypeOK /\ TaskInv /\ WriterInv /\ NamedFilesComplete

\* The steps of a cache task, with those that the bounds count.
CacheStep == Cache \/ BeginCreate \/ WriteFails

\* The inductive invariant.
Inv == FilesInv /\ StorageInv /\ ResultInv

-----------------------------------------------------------------------------
(* Names and values.                                                        *)

\* The names of the files are distinct.
LEMMA NamesDistinct ==
    /\ RecordFile \in Names /\ IndexFile \in Names /\ RecordFile # IndexFile
    /\ \A p \in Positions : /\ SnapshotFile(p) \in Names /\ SnapshotFile(p)[2] = p
                            /\ SnapshotFile(p) # RecordFile /\ SnapshotFile(p) # IndexFile
BY DEF Names, RecordFile, IndexFile, SnapshotFile

\* No value that a file is meant to hold is torn.
LEMMA ValuesAreWhole == \A n \in Names : Torn \notin Value(n)
BY TornIsNothing DEF Value

\* The values of the names are values of files.
LEMMA ValuesAreValues ==
    /\ \A n \in Names : Value(n) \subseteq RecordValue \cup SnapshotValue \cup CatalogValue
    /\ \A n \in Names \ {RecordFile} : Value(n) \subseteq SnapshotValue \cup CatalogValue
    /\ Value(RecordFile) = RecordValue /\ Value(IndexFile) = CatalogValue
    /\ \A p \in Positions : Value(SnapshotFile(p)) = {s \in SnapshotValue : s.position = p}
BY NamesDistinct DEF Value

\* Idle is a task.
LEMMA IdleIsTask == Idle \in Tasks /\ Idle.op = "idle" /\ Idle.stage = "idle"
BY DEF Idle, Tasks

-----------------------------------------------------------------------------
(* Files.                                                                   *)

\* A file under construction, and what can be read of it.
LEMMA FileIsFile ==
    ASSUME NEW n \in Names, NEW v \in Value(n) \cup {Torn}, NEW d \in BOOLEAN
    PROVE  /\ File(v, d) \in FileValue /\ File(v, d) # None
           /\ File(v, d).value = v /\ File(v, d).durable = d
<1>1. v \in {Torn} \cup RecordValue \cup SnapshotValue \cup CatalogValue
  BY ValuesAreValues
<1>2. File(v, d) \in FileValue
  BY <1>1 DEF File, FileValue
<1> QED BY <1>2, TornIsNothing DEF File

\* A file may be written, removed, or replaced by one of the same name.
LEMMA PutStored ==
    ASSUME NEW f, Stored(f), NEW n \in Names, NEW v \in Value(n) \cup {Torn}, NEW d \in BOOLEAN
    PROVE  Stored([f EXCEPT ![n] = File(v, d)])
<1> DEFINE g == [f EXCEPT ![n] = File(v, d)]
<1>1. g \in Files
  BY FileIsFile DEF Stored, Files
<1>2. \A m \in Names : g[m] = IF m = n THEN File(v, d) ELSE f[m]
  BY DEF Stored, Files
<1>3. \A m \in Names : g[m] # None => g[m].value \in Value(m) \cup {Torn}
  BY <1>2, FileIsFile DEF Stored
<1> QED BY <1>1, <1>3 DEF Stored

LEMMA MoveStored ==
    ASSUME NEW f, NEW g, Stored(f), Stored(g), NEW n \in Names
    PROVE  Stored([f EXCEPT ![n] = g[n]]) /\ Stored([f EXCEPT ![n] = None])
BY DEF Stored, Files

\* Setting one field of a record with two.
LEMMA SetDurable ==
    ASSUME NEW S, NEW T, NEW r \in [value : S, durable : T], NEW c
    PROVE  [r EXCEPT !.durable = c] = [value |-> r.value, durable |-> c]
OBVIOUS

LEMMA SetValue ==
    ASSUME NEW S, NEW T, NEW r \in [value : S, durable : T], NEW c
    PROVE  [r EXCEPT !.value = c] = [value |-> c, durable |-> r.durable]
OBVIOUS

LEMMA SetStarted ==
    ASSUME NEW S, NEW T, NEW r \in [id : S, started : T], NEW c
    PROVE  [r EXCEPT !.started = c] = [id |-> r.id, started |-> c]
OBVIOUS

\* The fields of a file.
LEMMA StoredFile ==
    ASSUME NEW f, Stored(f), NEW n \in Names, f[n] # None
    PROVE  /\ f[n].value \in Value(n) \cup {Torn}
           /\ f[n].durable \in BOOLEAN
           /\ f[n] = File(f[n].value, f[n].durable)
           /\ [f EXCEPT ![n].durable = TRUE] = [f EXCEPT ![n] = File(f[n].value, TRUE)]
           /\ [f EXCEPT ![n].value = Torn] = [f EXCEPT ![n] = File(Torn, f[n].durable)]
<1>1. f[n] \in FileValue
  BY DEF Stored, Files
<1>2. f[n].durable \in BOOLEAN /\ f[n] = File(f[n].value, f[n].durable)
  BY <1>1 DEF FileValue, File
<1>3. [f[n] EXCEPT !.durable = TRUE] = File(f[n].value, TRUE)
  BY <1>1, SetDurable, ZenonT(60) DEF FileValue, File
<1>4. [f[n] EXCEPT !.value = Torn] = File(Torn, f[n].durable)
  BY <1>1 DEF FileValue, File
<1> QED BY <1>2, <1>3, <1>4 DEF Stored

\* Synchronizing a file, and tearing one, replace it by a file.
LEMMA SyncedFile ==
    ASSUME NEW f, Stored(f), NEW n \in Names, f[n] # None
    PROVE  [f EXCEPT ![n].durable = TRUE] = [f EXCEPT ![n] = File(f[n].value, TRUE)]
BY StoredFile

LEMMA TornFile ==
    ASSUME NEW f, Stored(f), NEW n \in Names, f[n] # None
    PROVE  [f EXCEPT ![n].value = Torn] = [f EXCEPT ![n] = File(Torn, f[n].durable)]
BY StoredFile

LEMMA FileFields ==
    ASSUME NEW f, Stored(f), NEW n \in Names, f[n] # None
    PROVE  f[n].value \in Value(n) \cup {Torn} /\ f[n].durable \in BOOLEAN
BY StoredFile

\* The Record that is being written gets its manifest.
LEMMA StartStored ==
    ASSUME NEW f, Stored(f), f[RecordFile] # None, f[RecordFile].value # Torn
    PROVE  LET v == [id |-> f[RecordFile].value.id, started |-> TRUE]
           IN  /\ v \in RecordValue
               /\ [f EXCEPT ![RecordFile].value.started = TRUE]
                    = [f EXCEPT ![RecordFile] = File(v, f[RecordFile].durable)]
<1> DEFINE v == [id |-> f[RecordFile].value.id, started |-> TRUE]
<1>1. f[RecordFile] \in FileValue /\ f[RecordFile].value \in RecordValue
  BY NamesDistinct, ValuesAreValues DEF Stored, Files
<1>2. v \in RecordValue
  BY <1>1 DEF RecordValue
<1>4. [f[RecordFile].value EXCEPT !.started = TRUE] = v
  BY <1>1, SetStarted, ZenonT(40) DEF RecordValue
<1> HIDE DEF v
<1>3. [f[RecordFile] EXCEPT !.value = v] = File(v, f[RecordFile].durable)
  BY <1>1, SetValue DEF FileValue, File
<1>5. [f EXCEPT ![RecordFile].value.started = TRUE] = [f EXCEPT ![RecordFile].value = v]
  BY <1>4
<1>6. [f EXCEPT ![RecordFile].value = v] = [f EXCEPT ![RecordFile] = File(v, f[RecordFile].durable)]
  BY <1>3
<1> QED BY <1>2, <1>5, <1>6 DEF v

-----------------------------------------------------------------------------
(* Tasks.                                                                   *)

\* The fields of a task after an update.
LEMMA StageIsTask ==
    ASSUME NEW t \in Tasks,
           NEW s \in {"idle", "open", "sync", "rename", "load", "loaded"}
    PROVE  LET u == [t EXCEPT !.stage = s]
           IN  /\ u \in Tasks /\ u.stage = s
               /\ u.op = t.op /\ u.position = t.position /\ u.version = t.version
               /\ u.file = t.file /\ u.value = t.value
BY DEF Tasks

LEMMA EntriesIsTask ==
    ASSUME NEW t \in Tasks, NEW E \in SUBSET SnapshotValue
    PROVE  LET u == [t EXCEPT !.entries = E]
           IN  /\ u \in Tasks /\ u.stage = t.stage
               /\ u.op = t.op /\ u.position = t.position /\ u.version = t.version
BY DEF Tasks

LEMMA WriteIsTask ==
    ASSUME NEW t \in Tasks, NEW n \in Names, NEW v \in SnapshotValue \cup CatalogValue,
           NEW b \in BOOLEAN
    PROVE  LET u == Write(t, n, v, b)
           IN  /\ u \in Tasks /\ u.stage = "open"
               /\ u.op = t.op /\ u.position = t.position /\ u.version = t.version
               /\ u.file = n /\ u.value = v
BY DEF Tasks, Write

-----------------------------------------------------------------------------
\* Nothing is on the disk at first.
LEMMA InitInv == Init => Inv
<1> SUFFICES ASSUME Init PROVE Inv OBVIOUS
<1> USE DEF Init
<1>1. TypeOK
  BY IdleIsTask DEF TypeOK, Stored, Files
<1>2. TaskInv
  BY IdleIsTask DEF TaskInv
<1>3. WriterInv /\ NamedFilesComplete
  BY DEF WriterInv, NamedFilesComplete
<1>4. ResultInv
  BY DEF ResultInv, NoResult
<1>5. StorageInv
  BY DEF StorageInv, Stored, Files
<1> QED BY <1>1, <1>2, <1>3, <1>4, <1>5 DEF Inv, FilesInv

\* What can be read under a name is of the kind of the name.
LEMMA ReadableValue ==
    ASSUME Stored(disk), NEW n \in Names, Readable(n)
    PROVE  disk[n].value \in Value(n)
BY StoredFile DEF Readable

\* The values a task writes have their type.
LEMMA SubjectIsRecord == ASSUME TypeOK, TaskInv, task # Idle PROVE Subject \in Nat
<1>1. CASE task.op = "create"
  BY <1>1 DEF TaskInv, Subject
<1>2. CASE task.op \in {"catalog", "open"}
  <2>1. disk[RecordFile].value \in RecordValue
    BY <1>2, NamesDistinct, ValuesAreValues, ReadableValue DEF TaskInv, TypeOK
  <2>2. Subject = disk[RecordFile].value.id
    BY <1>2 DEF Subject, RecordIdentity
  <2> QED BY <2>1, <2>2 DEF RecordValue
<1> QED BY <1>1, <1>2 DEF TypeOK, TaskInv, Tasks

LEMMA RebuiltIsCatalog == ASSUME Stored(disk), NEW r PROVE Rebuilt(r) \subseteq SnapshotValue
<1>1. ASSUME NEW p \in Positions, Readable(SnapshotFile(p))
      PROVE  disk[SnapshotFile(p)].value \in SnapshotValue
  BY <1>1, NamesDistinct, ValuesAreValues, ReadableValue
<1> QED BY <1>1 DEF Rebuilt

LEMMA IndexIsCatalog ==
    ASSUME Stored(disk), Readable(IndexFile) PROVE disk[IndexFile].value \in CatalogValue
BY NamesDistinct, ValuesAreValues, ReadableValue

-----------------------------------------------------------------------------
\* The storage has complete files under their names: what was there when a file
\* of the name was synchronized, or what a power loss has left.
LEMMA StorageKept == Inv /\ [Next]_vars => StorageInv'
<1> SUFFICES ASSUME Inv, [Next]_vars PROVE StorageInv'
  OBVIOUS
<1>1. /\ Stored(disk) /\ Stored(before)
      /\ \A n \in Names : disk[n] # None => disk[n].durable /\ disk[n].value # Torn
      /\ \A n \in Names : before[n] # None => before[n].durable /\ before[n].value # Torn
  BY DEF Inv, FilesInv, TypeOK, StorageInv, NamedFilesComplete
<1>2. ASSUME UNCHANGED before PROVE StorageInv'
  BY <1>1, <1>2 DEF StorageInv, Stored
<1>3. ASSUME NEW n \in Names, before' = [before EXCEPT ![n] = disk[n]] PROVE StorageInv'
  <2>1. Stored(before')
    BY <1>1, <1>3, MoveStored
  <2>2. \A m \in Names : before'[m] = IF m = n THEN disk[n] ELSE before[m]
    BY <1>1, <1>3 DEF Stored, Files
  <2> QED BY <1>1, <2>1, <2>2 DEF StorageInv
<1>4. ASSUME PowerLoss PROVE StorageInv'
  <2>1. PICK undone \in SUBSET Names :
          disk' = [n \in Names |-> IF n \in undone THEN before[n]
                                 ELSE TornAt(disk, Unsynchronized(disk))[n]]
    BY <1>4 DEF PowerLoss
  <2>2. Unsynchronized(disk) = {}
    BY <1>1 DEF Unsynchronized
  <2>3. \A n \in Names : disk'[n] = before[n] \/ disk'[n] = disk[n]
    BY <2>1, <2>2 DEF TornAt
  <2>4. disk' \in Files
    BY <1>1, <2>1, <2>3 DEF Stored, Files
  <2>5. Stored(disk') /\ before' = disk'
    BY <1>1, <1>4, <2>3, <2>4 DEF Stored, PowerLoss
  <2> QED BY <1>1, <2>3, <2>5 DEF StorageInv
<1>5. CASE Record
  <2>1. CASE WriteFooter
    BY <1>3, <2>1, NamesDistinct DEF WriteFooter, Synchronize
  <2>2. CASE ~WriteFooter
    BY <1>2, <1>5, <2>2 DEF Record, CreateRecord, StartRecord, DiscardUnstarted, CommitRecord,
                            AbandonRecord, OpenReplay, CloseReplay
  <2> QED BY <2>1, <2>2
<1>6. CASE CacheStep
  <2>1. CASE SyncPartial
    <3>1. task.file \in Names
      BY <2>1 DEF SyncPartial, Inv, FilesInv, TaskInv
    <3> QED BY <1>3, <2>1, <3>1 DEF SyncPartial, Synchronize
  <2>2. CASE ~SyncPartial
    BY <1>2, <1>6, <2>2 DEF CacheStep, Cache, BeginCreate, BeginCatalog, BeginOpen, BeginTask,
                            OpenPartial, RenamePartial, WriteFails, LoadCatalog, UpdateIndex,
                            ListCatalog, InstallSnapshot
  <2> QED BY <2>1, <2>2
<1>7. CASE Crash \/ UNCHANGED vars
  BY <1>2, <1>7 DEF Crash, vars
<1> QED BY <1>4, <1>5, <1>6, <1>7 DEF Next, Fault, CacheStep

\* The Recorder's steps keep the invariant.
LEMMA RecordInv == Inv /\ Record /\ StorageInv' => FilesInv'
<1> SUFFICES ASSUME Inv, Record, StorageInv' PROVE FilesInv'
  OBVIOUS
<1> USE NamesDistinct DEF Inv, FilesInv
<1>0. Stored(disk) /\ Stored(partial) /\ Value(RecordFile) = RecordValue /\ Stored(before')
  BY ValuesAreValues DEF TypeOK, StorageInv
<1>1. CASE CreateRecord
  <2> DEFINE v == [id |-> begun + 1, started |-> FALSE]
  <2>1. v \in Value(RecordFile)
    BY <1>0 DEF TypeOK, RecordValue
  <2>2. /\ partial' = [partial EXCEPT ![RecordFile] = File(v, FALSE)]
        /\ writer' = [id |-> begun + 1, started |-> FALSE, footer |-> FALSE]
        /\ UNCHANGED <<disk, replay, task, created>> /\ begun' = begun + 1
        /\ task = Idle /\ replay = None
    BY <1>1 DEF CreateRecord, Quiet
  <2> HIDE DEF v
  <2>3. Stored(partial')
    BY <1>0, <2>1, <2>2, PutStored
  <2>4. partial'[RecordFile] # None /\ partial'[RecordFile].value # Torn
    <3>1. partial'[RecordFile] = File(v, FALSE)
      BY <1>0, <2>2 DEF Stored, Files
    <3>2. File(v, FALSE).value = v
      BY DEF File
    <3>3. File(v, FALSE) # None
      BY <2>1, FileIsFile
    <3> QED BY <2>1, <3>1, <3>2, <3>3, ValuesAreWhole
  <2>7. partial'[RecordFile].value.started = FALSE
    <3>1. partial'[RecordFile] = File(v, FALSE)
      BY <1>0, <2>2 DEF Stored, Files
    <3> QED BY <3>1 DEF File, v
  <2>5. TypeOK'
    <3>1. writer' \in [id : Nat, started : BOOLEAN, footer : BOOLEAN] /\ begun' \in Nat
      BY <2>2 DEF TypeOK
    <3> QED BY <1>0, <2>2, <2>3, <2>4, <3>1, IdleIsTask DEF TypeOK
  <2>6. TaskInv' /\ WriterInv' /\ NamedFilesComplete'
    BY <2>2, <2>7, IdleIsTask DEF TaskInv, WriterInv, NamedFilesComplete
  <2> QED BY <2>5, <2>6
<1>2. CASE StartRecord
  <2> DEFINE v == [id |-> partial[RecordFile].value.id, started |-> TRUE]
  <2>1. /\ partial[RecordFile] # None /\ partial[RecordFile].value # Torn
        /\ task = Idle /\ replay = None
    BY <1>2 DEF StartRecord, TypeOK
  <2>2. v \in Value(RecordFile)
        /\ partial' = [partial EXCEPT ![RecordFile] = File(v, partial[RecordFile].durable)]
    BY <1>0, <1>2, <2>1, StartStored DEF StartRecord
  <2>3. partial[RecordFile].durable \in BOOLEAN
    BY <1>0, <2>1, FileFields
  <2>4. writer' \in [id : Nat, started : BOOLEAN, footer : BOOLEAN] /\ writer'.footer = writer.footer
        /\ writer'.started = TRUE
    BY <1>2 DEF StartRecord, TypeOK
  <2>5. UNCHANGED <<disk, replay, task, begun>> /\ writer # None
    BY <1>2 DEF StartRecord, NoCacheChange
  <2> HIDE DEF v
  <2>6. Stored(partial')
    BY <1>0, <2>2, <2>3, PutStored
  <2>7. /\ partial'[RecordFile] # None /\ partial'[RecordFile].value # Torn
        /\ partial'[RecordFile].durable = partial[RecordFile].durable
        /\ partial'[RecordFile].value = v
    BY <1>0, <2>2, <2>3, FileIsFile, ValuesAreWhole DEF Stored, Files
  <2>10. v.started = TRUE
    BY DEF v
  <2>8. TypeOK'
    BY <1>0, <2>1, <2>4, <2>5, <2>6, <2>7, IdleIsTask DEF TypeOK
  <2>9. TaskInv' /\ WriterInv' /\ NamedFilesComplete'
    BY <2>1, <2>4, <2>5, <2>7, <2>10, IdleIsTask DEF TaskInv, WriterInv, NamedFilesComplete
  <2> QED BY <2>8, <2>9
<1>3. CASE DiscardUnstarted
  <2>1. /\ UNCHANGED <<disk, replay, task, begun>> /\ writer' = None /\ task = Idle
        /\ partial' = [partial EXCEPT ![RecordFile] = None]
    BY <1>3 DEF DiscardUnstarted, NoCacheChange, TypeOK
  <2>2. Stored(partial')
    BY <1>0, <2>1, MoveStored
  <2>3. TypeOK'
    BY <1>0, <2>1, <2>2, IdleIsTask DEF TypeOK
  <2>4. TaskInv' /\ WriterInv' /\ NamedFilesComplete'
    BY <2>1, IdleIsTask DEF TaskInv, WriterInv, NamedFilesComplete
  <2> QED BY <2>3, <2>4
<1>4. CASE WriteFooter
  <2>1. /\ partial[RecordFile] # None /\ partial[RecordFile].value # Torn
        /\ task = Idle /\ replay = None
    BY <1>4 DEF WriteFooter, TypeOK
  <2>2. partial[RecordFile].value \in Value(RecordFile)
        /\ partial' = [partial EXCEPT ![RecordFile] = File(partial[RecordFile].value, TRUE)]
    <3>1. partial' = [partial EXCEPT ![RecordFile].durable = TRUE]
      BY <1>4 DEF WriteFooter, Synchronize
    <3>2. /\ partial[RecordFile].value \in Value(RecordFile) \cup {Torn}
          /\ [partial EXCEPT ![RecordFile].durable = TRUE]
                = [partial EXCEPT ![RecordFile] = File(partial[RecordFile].value, TRUE)]
      BY <1>0, <2>1, SyncedFile, FileFields
    <3> QED BY <2>1, <3>1, <3>2
  <2>3. writer' \in [id : Nat, started : BOOLEAN, footer : BOOLEAN] /\ writer'.started = writer.started
        /\ writer # None
    BY <1>4 DEF WriteFooter, TypeOK
  <2>4. UNCHANGED <<disk, replay, task, begun>>
    BY <1>4 DEF WriteFooter, NoCacheChange
  <2>5. Stored(partial')
    BY <1>0, <2>2, PutStored
  <2>6. partial'[RecordFile] = File(partial[RecordFile].value, TRUE)
    BY <1>0, <2>2 DEF Stored, Files
  <2>7. /\ partial'[RecordFile] # None /\ partial'[RecordFile].value # Torn
        /\ partial'[RecordFile].durable /\ partial'[RecordFile].value = partial[RecordFile].value
    <3>1. File(partial[RecordFile].value, TRUE).durable /\
          File(partial[RecordFile].value, TRUE).value = partial[RecordFile].value
      BY DEF File
    <3>2. partial'[RecordFile] # None
      BY <2>2, <2>6, FileIsFile
    <3> QED BY <2>1, <2>6, <3>1, <3>2
  <2>8. TypeOK'
    BY <1>0, <2>1, <2>3, <2>4, <2>5, <2>7, IdleIsTask DEF TypeOK
  <2>9. TaskInv' /\ WriterInv' /\ NamedFilesComplete'
    BY <2>1, <2>3, <2>4, <2>7, IdleIsTask DEF TaskInv, WriterInv, NamedFilesComplete
  <2> QED BY <2>8, <2>9
<1>5. CASE CommitRecord
  <2>1. /\ UNCHANGED <<replay, task, begun>> /\ writer' = None /\ task = Idle
        /\ partial' = [partial EXCEPT ![RecordFile] = None]
        /\ disk' = [disk EXCEPT ![RecordFile] = partial[RecordFile]]
        /\ partial[RecordFile].durable /\ partial[RecordFile].value # Torn
    BY <1>5 DEF CommitRecord, Rename, NoCacheChange, TypeOK, WriterInv
  <2>2. Stored(partial') /\ Stored(disk')
    BY <1>0, <2>1, MoveStored
  <2>3. TypeOK'
    BY <1>0, <2>1, <2>2, IdleIsTask DEF TypeOK
  <2>4. NamedFilesComplete'
    BY <1>0, <2>1 DEF NamedFilesComplete, Stored, Files
  <2>5. TaskInv' /\ WriterInv'
    BY <2>1, IdleIsTask DEF TaskInv, WriterInv
  <2> QED BY <2>3, <2>4, <2>5
<1>6. CASE AbandonRecord
  <2>1. UNCHANGED <<disk, partial, replay, task, begun>> /\ writer' = None /\ task = Idle
    BY <1>6 DEF AbandonRecord, NoCacheChange, TypeOK
  <2> QED BY <1>0, <2>1, IdleIsTask DEF TypeOK, TaskInv, WriterInv, NamedFilesComplete
<1>7. CASE OpenReplay
  <2>1. UNCHANGED <<disk, partial, writer, task, begun>> /\ writer = None /\ task = Idle
        /\ replay' = RecordIdentity /\ Readable(RecordFile)
    BY <1>7 DEF OpenReplay, Quiet
  <2>2. replay' \in Nat
    <3>1. disk[RecordFile].value \in RecordValue
      BY <1>0, <2>1, ReadableValue
    <3> QED BY <2>1, <3>1 DEF RecordIdentity, RecordValue
  <2>3. TypeOK'
    BY <1>0, <2>1, <2>2 DEF TypeOK
  <2>4. TaskInv' /\ WriterInv' /\ NamedFilesComplete'
    BY <2>1, IdleIsTask DEF TaskInv, WriterInv, NamedFilesComplete
  <2> QED BY <2>3, <2>4
<1>8. CASE CloseReplay
  <2>1. UNCHANGED <<disk, partial, writer, task, begun>> /\ task = Idle /\ replay' = None
    BY <1>8 DEF CloseReplay, Quiet
  <2> QED BY <1>0, <2>1, IdleIsTask DEF TypeOK, TaskInv, WriterInv, NamedFilesComplete
<1> QED BY <1>1, <1>2, <1>3, <1>4, <1>5, <1>6, <1>7, <1>8 DEF Record

\* The steps of a cache task keep the invariant.
LEMMA CacheInv == Inv /\ CacheStep /\ StorageInv' => FilesInv'
<1> SUFFICES ASSUME Inv, CacheStep, StorageInv' PROVE FilesInv'
  OBVIOUS
<1> USE NamesDistinct DEF Inv, FilesInv
<1>0. Stored(disk) /\ Stored(partial) /\ task \in Tasks /\ Stored(before')
  BY DEF TypeOK, StorageInv
<1>a. ASSUME task' = Idle, UNCHANGED <<disk, writer, begun>>, Stored(partial'), writer = None,
             replay' \in Nat \cup {None}
      PROVE  FilesInv'
  BY <1>0, <1>a, IdleIsTask DEF TypeOK, TaskInv, WriterInv, NamedFilesComplete
<1>b. task # Idle => writer = None
  BY DEF TypeOK
<1>1. CASE BeginCreate
  <2>1. PICK p \in Positions, v \in Versions :
          BeginTask(Write([Idle EXCEPT !.op = "create", !.position = p, !.version = v],
                          SnapshotFile(p), ReplaySnapshot(replay, p, v), FALSE))
    BY <1>1 DEF BeginCreate
  <2> DEFINE t == [Idle EXCEPT !.op = "create", !.position = p, !.version = v]
             x == ReplaySnapshot(replay, p, v)
             no == FALSE
  <2>2. UNCHANGED <<disk, partial, writer, replay, begun>> /\ writer = None
        /\ task' = Write(t, SnapshotFile(p), x, no) /\ replay \in Nat /\ no \in BOOLEAN
    BY <1>1, <2>1 DEF BeginCreate, BeginTask, NoRecordChange, TypeOK
  <2>3. t \in Tasks /\ t.op = "create" /\ t.position = p /\ t.version = v
    BY DEF Tasks, Idle
  <2>4. x \in SnapshotValue /\ x \in Value(SnapshotFile(p))
    BY <2>2, ValuesAreValues DEF ReplaySnapshot, SnapshotValue
  <2> HIDE DEF t, x, no
  <2>5. /\ task' \in Tasks /\ task'.stage = "open" /\ task'.op = "create"
        /\ task'.position = p /\ task'.version = v
        /\ task'.file = SnapshotFile(p) /\ task'.value = x
    BY <2>2, <2>3, <2>4, WriteIsTask
  <2>6. TypeOK'
    BY <1>0, <2>2, <2>5 DEF TypeOK
  <2>7. TaskInv'
    BY <2>2, <2>4, <2>5 DEF TaskInv
  <2>8. WriterInv' /\ NamedFilesComplete'
    BY <2>2 DEF WriterInv, NamedFilesComplete
  <2> QED BY <2>6, <2>7, <2>8
<1>2. CASE BeginCatalog \/ BeginOpen
  <2>1. PICK op \in {"catalog", "open"} : /\ task'.op = op /\ task' \in Tasks /\ task'.stage = "load"
    <3>1. CASE BeginCatalog
      <4>1. task' = [Idle EXCEPT !.op = "catalog", !.stage = "load"]
        BY <3>1 DEF BeginCatalog, BeginTask
      <4> QED BY <4>1 DEF Tasks, Idle
    <3>2. CASE BeginOpen
      <4>1. PICK e \in result.entries : task' = [Idle EXCEPT !.op = "open", !.stage = "load", !.position = e.position]
        BY <3>2 DEF BeginOpen, BeginTask
      <4>2. e.position \in Positions
        BY DEF ResultInv, SnapshotValue
      <4> QED BY <4>1, <4>2 DEF Tasks, Idle
    <3> QED BY <1>2, <3>1, <3>2
  <2>2. UNCHANGED <<disk, partial, writer, replay, begun>> /\ writer = None /\ Readable(RecordFile)
    BY <1>2 DEF BeginCatalog, BeginOpen, BeginTask, NoRecordChange
  <2>3. TypeOK'
    BY <1>0, <2>1, <2>2 DEF TypeOK
  <2>4. TaskInv'
    BY <2>1, <2>2 DEF TaskInv, Readable
  <2>5. WriterInv' /\ NamedFilesComplete'
    BY <2>2 DEF WriterInv, NamedFilesComplete
  <2> QED BY <2>3, <2>4, <2>5
<1>3. CASE OpenPartial
  <2>1. /\ UNCHANGED <<disk, writer, replay, begun>> /\ task.stage = "open" /\ task # Idle
        /\ writer = None
    BY <1>3, <1>b, IdleIsTask DEF OpenPartial, NoRecordChange
  <2>2. task.file \in Names /\ task.file # RecordFile /\ task.value \in Value(task.file)
    BY <2>1 DEF TaskInv
  <2>3. CASE partial[task.file] # None
    BY <1>3, <1>a, <2>1, <2>3, <1>0 DEF OpenPartial, Return, TypeOK
  <2>4. CASE partial[task.file] = None
    <3>1. /\ partial' = [partial EXCEPT ![task.file] = File(task.value, FALSE)]
          /\ task' = [task EXCEPT !.stage = "sync"]
      BY <1>3, <2>4 DEF OpenPartial
    <3>2. Stored(partial')
      BY <1>0, <2>2, <3>1, PutStored
    <3>3. partial'[task.file] = File(task.value, FALSE)
      BY <1>0, <2>2, <3>1 DEF Stored, Files
    <3>4. /\ task' \in Tasks /\ task'.stage = "sync" /\ task'.op = task.op
          /\ task'.position = task.position /\ task'.version = task.version
          /\ task'.file = task.file /\ task'.value = task.value
      BY <1>0, <3>1, StageIsTask
    <3>5. TypeOK'
      BY <1>0, <2>1, <3>2, <3>4 DEF TypeOK
    <3>6. TaskInv'
      BY <2>1, <2>2, <3>3, <3>4 DEF TaskInv, Readable
    <3>7. WriterInv' /\ NamedFilesComplete'
      BY <2>1 DEF WriterInv, NamedFilesComplete
    <3> QED BY <3>5, <3>6, <3>7
  <2> QED BY <2>3, <2>4
<1>4. CASE SyncPartial
  <2>1. /\ UNCHANGED <<disk, writer, replay, begun>> /\ task.stage = "sync" /\ task # Idle
        /\ writer = None /\ partial' = [partial EXCEPT ![task.file].durable = TRUE]
        /\ task' = [task EXCEPT !.stage = "rename"]
    BY <1>4, <1>b, IdleIsTask DEF SyncPartial, Synchronize, NoRecordChange
  <2>2. /\ task.file \in Names /\ task.file # RecordFile /\ task.value \in Value(task.file)
        /\ partial[task.file] = File(task.value, FALSE)
    BY <2>1 DEF TaskInv
  <2>3. partial[task.file] # None
    BY <2>2, FileIsFile
  <2>4. partial[task.file].value = task.value
    BY <2>2 DEF File
  <2>5. partial' = [partial EXCEPT ![task.file] = File(task.value, TRUE)]
    <3>1. [partial EXCEPT ![task.file].durable = TRUE]
            = [partial EXCEPT ![task.file] = File(partial[task.file].value, TRUE)]
      BY <1>0, <2>2, <2>3, SyncedFile
    <3> QED BY <2>1, <2>4, <3>1
  <2>6. Stored(partial')
    BY <1>0, <2>2, <2>5, PutStored
  <2>7. partial'[task.file] = File(task.value, TRUE)
    BY <1>0, <2>2, <2>5 DEF Stored, Files
  <2>8. /\ task' \in Tasks /\ task'.stage = "rename" /\ task'.op = task.op
        /\ task'.position = task.position /\ task'.version = task.version
        /\ task'.file = task.file /\ task'.value = task.value
    BY <1>0, <2>1, StageIsTask
  <2>9. TypeOK'
    BY <1>0, <2>1, <2>6, <2>8 DEF TypeOK
  <2>10. TaskInv'
    BY <2>1, <2>2, <2>7, <2>8 DEF TaskInv, Readable
  <2>11. WriterInv' /\ NamedFilesComplete'
    BY <2>1 DEF WriterInv, NamedFilesComplete
  <2> QED BY <2>9, <2>10, <2>11
<1>5. CASE RenamePartial
  <2>1. /\ UNCHANGED <<writer, replay, begun>> /\ task.stage = "rename" /\ task # Idle
        /\ writer = None /\ disk' = [disk EXCEPT ![task.file] = partial[task.file]]
        /\ partial' = [partial EXCEPT ![task.file] = None]
    BY <1>5, <1>b, IdleIsTask DEF RenamePartial, Rename, NoRecordChange
  <2>2. /\ task.file \in Names /\ task.file # RecordFile /\ task.value \in Value(task.file)
        /\ partial[task.file] = File(task.value, TRUE)
    BY <2>1 DEF TaskInv
  <2>3. partial[task.file].value = task.value /\ partial[task.file].durable
    BY <2>2 DEF File
  <2>4. partial[task.file].value # Torn
    BY <2>2, <2>3, ValuesAreWhole
  <2>5. Stored(disk') /\ Stored(partial')
    BY <1>0, <2>1, <2>2, MoveStored
  <2>6. NamedFilesComplete'
    BY <1>0, <2>1, <2>2, <2>3, <2>4 DEF NamedFilesComplete, Stored, Files
  <2>7. WriterInv'
    BY <2>1 DEF WriterInv
  <2>8. CASE task.last
    <3>1. task' = Idle
      BY <1>5, <2>8 DEF RenamePartial, Return
    <3> QED BY <1>0, <2>1, <2>5, <2>6, <2>7, <3>1, IdleIsTask DEF TypeOK, TaskInv
  <2>9. CASE ~task.last
    <3>1. PICK s \in {"loaded", "load"} : task' = [task EXCEPT !.stage = s]
      BY <1>5, <2>9 DEF RenamePartial
    <3>2. /\ task' \in Tasks /\ task'.stage = s /\ task'.op = task.op
          /\ task'.position = task.position /\ task'.version = task.version
      <4>1. s \in {"idle", "open", "sync", "rename", "load", "loaded"}
        OBVIOUS
      <4> QED BY <1>0, <3>1, <4>1, StageIsTask, ZenonT(40)
    <3>3. TypeOK'
      BY <1>0, <2>1, <2>5, <3>2 DEF TypeOK
    <3>4. disk'[RecordFile] = disk[RecordFile]
      BY <1>0, <2>1, <2>2 DEF Stored, Files
    <3>5. TaskInv'
      BY <2>1, <3>2, <3>4 DEF TaskInv, Readable
    <3> QED BY <2>6, <2>7, <3>3, <3>5
  <2> QED BY <2>8, <2>9
<1>6. CASE WriteFails
  <2>1. /\ UNCHANGED <<disk, writer, replay, begun>> /\ task.stage \in {"sync", "rename"} /\ task # Idle
        /\ writer = None /\ task' = Idle
        /\ partial' = IF task.stage = "sync" THEN [partial EXCEPT ![task.file].value = Torn] ELSE partial
    BY <1>6, <1>b, IdleIsTask DEF WriteFails, Return, NoRecordChange
  <2>2. Stored(partial')
    <3>1. CASE task.stage = "sync"
      <4>1. /\ task.file \in Names /\ task.value \in Value(task.file)
            /\ partial[task.file] = File(task.value, FALSE)
        BY <3>1 DEF TaskInv
      <4>2. partial[task.file] # None
        BY <4>1, FileIsFile
      <4>3. partial[task.file].durable \in BOOLEAN
            /\ partial' = [partial EXCEPT ![task.file] = File(Torn, partial[task.file].durable)]
        <5>1. /\ partial[task.file].durable \in BOOLEAN
              /\ [partial EXCEPT ![task.file].value = Torn]
                    = [partial EXCEPT ![task.file] = File(Torn, partial[task.file].durable)]
          BY <1>0, <4>1, <4>2, TornFile, FileFields
        <5> QED BY <2>1, <3>1, <5>1
      <4> QED BY <1>0, <4>1, <4>3, PutStored
    <3> QED BY <1>0, <2>1, <3>1
  <2> QED BY <1>a, <2>1, <2>2 DEF TypeOK
<1>7. CASE LoadCatalog
  <2>1. /\ UNCHANGED <<disk, partial, writer, replay, begun>> /\ task.stage = "load" /\ task # Idle
        /\ writer = None
    BY <1>7, <1>b, IdleIsTask DEF LoadCatalog, NoRecordChange
  <2>2. /\ task' \in Tasks /\ task'.op = task.op
        /\ task'.position = task.position /\ task'.version = task.version
        /\ \/ task'.stage = "loaded"
           \/ /\ task'.stage = "open" /\ task'.file = IndexFile
              /\ task'.value \in Value(IndexFile)
    <3>1. CASE Usable(Subject)
      <4>1. task' = [task EXCEPT !.stage = "loaded", !.entries = disk[IndexFile].value.entries]
        BY <1>7, <3>1 DEF LoadCatalog
      <4>2. disk[IndexFile].value.entries \in SUBSET SnapshotValue
        <5>1. disk[IndexFile].value \in CatalogValue
          BY <1>0, <3>1, IndexIsCatalog DEF Usable
        <5> QED BY <5>1 DEF CatalogValue
      <4>3. [task EXCEPT !.stage = "loaded"] \in Tasks
        BY <1>0, StageIsTask
      <4> QED BY <1>0, <4>1, <4>2 DEF Tasks
    <3>2. CASE ~Usable(Subject)
      <4> DEFINE E == Rebuilt(Subject)
                 t == [task EXCEPT !.entries = E]
                 c == SnapshotCatalog(Subject, E)
                 no == FALSE
      <4>1. task' = Write(t, IndexFile, c, no) /\ no \in BOOLEAN
        BY <1>7, <3>2 DEF LoadCatalog
      <4>2. E \in SUBSET SnapshotValue
        BY <1>0, RebuiltIsCatalog
      <4>3. Subject \in Nat
        BY <2>1, SubjectIsRecord
      <4> HIDE DEF E
      <4>4. c \in CatalogValue
        BY <4>2, <4>3 DEF SnapshotCatalog, CatalogValue
      <4>5. /\ t \in Tasks /\ t.op = task.op
            /\ t.position = task.position /\ t.version = task.version
        BY <1>0, <4>2, EntriesIsTask
      <4> HIDE DEF t, c, no
      <4> QED BY <4>1, <4>4, <4>5, WriteIsTask, ValuesAreValues
    <3> QED BY <3>1, <3>2
  <2>3. TypeOK'
    BY <1>0, <2>1, <2>2 DEF TypeOK
  <2>4. TaskInv'
    BY <2>1, <2>2 DEF TaskInv, Readable
  <2>5. WriterInv' /\ NamedFilesComplete'
    BY <2>1 DEF WriterInv, NamedFilesComplete
  <2> QED BY <2>3, <2>4, <2>5
<1>8. CASE UpdateIndex
  <2> DEFINE E == AddEntry(task.entries)
             c == SnapshotCatalog(Subject, E)
             yes == TRUE
  <2>1. /\ UNCHANGED <<disk, partial, writer, replay, begun>> /\ task.op = "create" /\ task # Idle
        /\ writer = None /\ task' = Write(task, IndexFile, c, yes) /\ yes \in BOOLEAN
    BY <1>8, <1>b, IdleIsTask DEF UpdateIndex, NoRecordChange
  <2>2. E \in SUBSET SnapshotValue
    <3>1. task.entries \in SUBSET SnapshotValue
      BY <1>0 DEF Tasks
    <3>2. ReplaySnapshot(replay, task.position, task.version) \in SnapshotValue
      BY <2>1 DEF TaskInv, ReplaySnapshot, SnapshotValue
    <3> QED BY <3>1, <3>2 DEF AddEntry
  <2>3. Subject \in Nat
    BY <2>1, SubjectIsRecord
  <2> HIDE DEF E
  <2>4. c \in CatalogValue
    BY <2>2, <2>3 DEF SnapshotCatalog, CatalogValue
  <2> HIDE DEF c, yes
  <2>5. /\ task' \in Tasks /\ task'.stage = "open" /\ task'.op = task.op
        /\ task'.position = task.position /\ task'.version = task.version
        /\ task'.file = IndexFile /\ task'.value = c
    BY <1>0, <2>1, <2>4, WriteIsTask
  <2>6. TypeOK'
    BY <1>0, <2>1, <2>5 DEF TypeOK
  <2>7. TaskInv'
    BY <2>1, <2>4, <2>5, ValuesAreValues DEF TaskInv, Readable
  <2>8. WriterInv' /\ NamedFilesComplete'
    BY <2>1 DEF WriterInv, NamedFilesComplete
  <2> QED BY <2>6, <2>7, <2>8
<1>9. CASE ListCatalog
  <2>1. /\ UNCHANGED <<disk, partial, writer, replay, begun>> /\ task # Idle
        /\ writer = None /\ task' = Idle
    BY <1>9, <1>b, IdleIsTask DEF ListCatalog, Return, NoRecordChange
  <2> QED BY <1>0, <1>a, <2>1 DEF TypeOK
<1>10. CASE InstallSnapshot
  <2>1. /\ UNCHANGED <<disk, partial, writer, begun>> /\ task # Idle /\ task.op = "open"
        /\ writer = None /\ task' = Idle /\ (replay' = RecordIdentity \/ replay' = replay)
    BY <1>10, <1>b, IdleIsTask DEF InstallSnapshot, Return
  <2>2. RecordIdentity \in Nat
    BY <2>1, SubjectIsRecord DEF Subject
  <2> QED BY <1>0, <1>a, <2>1, <2>2 DEF TypeOK
<1> QED BY <1>1, <1>2, <1>3, <1>4, <1>5, <1>6, <1>7, <1>8, <1>9, <1>10 DEF CacheStep, Cache

\* A crash keeps it, and a power loss does: what is under its name has been
\* synchronized, now and before the renames that are undone.
LEMMA CrashInv == Inv /\ (Crash \/ PowerLoss) /\ StorageInv' => FilesInv'
<1> SUFFICES ASSUME Inv, Crash \/ PowerLoss, StorageInv' PROVE FilesInv'
  OBVIOUS
<1>0. Stored(disk) /\ Stored(partial) /\ Stored(before')
  BY DEF Inv, FilesInv, TypeOK, StorageInv
<1>1. /\ writer' = None /\ replay' = None /\ task' = Idle /\ begun' = begun
  BY DEF Crash, PowerLoss, Forget
<1>2. \A n \in Names : /\ File(Torn, FALSE) \in FileValue /\ File(Torn, FALSE) # None
                       /\ File(Torn, FALSE).value = Torn
  BY FileIsFile
<1>3. ASSUME NEW f, f \in [Names -> {None} \cup FileValue],
             \A n \in Names : f[n] \in {None, File(Torn, FALSE), partial[n], disk[n]}
      PROVE  Stored(f)
  BY <1>0, <1>2, <1>3 DEF Stored, Files
<1>4. CASE Crash
  <2>1. PICK lost \in SUBSET Names : partial' = TornAt(partial, lost)
    BY <1>4 DEF Crash, Unsynchronized
  <2>2. \A n \in Names : partial'[n] \in {None, File(Torn, FALSE), partial[n], disk[n]}
    BY <2>1 DEF TornAt
  <2>3. partial' \in [Names -> {None} \cup FileValue]
    BY <1>0, <1>2, <2>1 DEF TornAt, Stored, Files
  <2>4. Stored(partial')
    BY <1>3, <2>2, <2>3
  <2>5. disk' = disk
    BY <1>4 DEF Crash
  <2> QED BY <1>0, <1>1, <2>4, <2>5, IdleIsTask
          DEF Inv, FilesInv, TypeOK, TaskInv, WriterInv, NamedFilesComplete
<1>5. CASE PowerLoss
  <2>a. PICK undone \in SUBSET Names :
          \E lost \in SUBSET (Unsynchronized(partial) \ undone) :
          \E gone \in SUBSET lost :
            partial' = [n \in Names |-> IF n \in undone THEN disk[n]
                                      ELSE IF n \in gone THEN None ELSE TornAt(partial, lost)[n]]
    BY <1>5 DEF PowerLoss
  <2>1. PICK lost \in SUBSET (Unsynchronized(partial) \ undone) :
        \E gone \in SUBSET lost :
          partial' = [n \in Names |-> IF n \in undone THEN disk[n]
                                    ELSE IF n \in gone THEN None ELSE TornAt(partial, lost)[n]]
    BY <2>a
  <2>b. PICK gone \in SUBSET lost :
          partial' = [n \in Names |-> IF n \in undone THEN disk[n]
                                    ELSE IF n \in gone THEN None ELSE TornAt(partial, lost)[n]]
    BY <2>1
  <2>2. \A n \in Names : partial'[n] \in {None, File(Torn, FALSE), partial[n], disk[n]}
    BY <2>b DEF TornAt
  <2>3. \A n \in Names : /\ partial[n] \in {None} \cup FileValue
                         /\ disk[n] \in {None} \cup FileValue
    BY <1>0 DEF Stored, Files
  <2>4. \A n \in Names : partial'[n] \in {None} \cup FileValue
    BY <1>2, <2>2, <2>3
  <2>5. partial' \in [Names -> {None} \cup FileValue]
    BY <2>b, <2>4
  <2>6. Stored(partial')
    BY <1>3, <2>2, <2>5
  <2>7. disk' = before'
    BY <1>5 DEF PowerLoss
  <2>8. Stored(disk') /\ NamedFilesComplete'
    BY <2>7 DEF StorageInv, NamedFilesComplete
  <2> QED BY <1>0, <1>1, <2>6, <2>8, IdleIsTask DEF Inv, FilesInv, TypeOK, TaskInv, WriterInv
<1> QED BY <1>4, <1>5

\* An operation returns the entries its task has loaded, or none.
LEMMA ResultKept == Inv /\ [Next]_vars => ResultInv'
<1> SUFFICES ASSUME Inv, [Next]_vars PROVE ResultInv'
  OBVIOUS
<1>1. task.entries \in SUBSET SnapshotValue /\ NoResult.entries = {}
  BY DEF Inv, FilesInv, TypeOK, Tasks, NoResult
<1>2. \/ result' = NoResult \/ result' = result
      \/ \E ok, cause : Return(ok, cause)
  <2>1. CASE Record
    BY <2>1 DEF Record, CreateRecord, StartRecord, DiscardUnstarted, WriteFooter, CommitRecord,
                AbandonRecord, OpenReplay, CloseReplay, NoCacheChange
  <2>2. CASE CacheStep
    BY <2>2 DEF CacheStep, Cache, BeginCreate, BeginCatalog, BeginOpen, BeginTask, OpenPartial,
                SyncPartial, RenamePartial, WriteFails, LoadCatalog, UpdateIndex, ListCatalog,
                InstallSnapshot
  <2>3. CASE Crash \/ PowerLoss
    BY <2>3 DEF Crash, PowerLoss, Forget
  <2> QED BY <2>1, <2>2, <2>3 DEF Next, Fault, CacheStep, vars
<1>3. ASSUME NEW ok, NEW cause, Return(ok, cause) PROVE result'.entries = task.entries
  BY <1>3 DEF Return
<1> QED BY <1>1, <1>2, <1>3 DEF ResultInv, Inv

\* Every step keeps the invariant.
LEMMA NextInv == Inv /\ [Next]_vars => Inv'
<1> SUFFICES ASSUME Inv, [Next]_vars PROVE Inv'
  OBVIOUS
<1>1. CASE UNCHANGED vars
  BY <1>1 DEF vars, Inv, FilesInv, StorageInv, ResultInv, TypeOK, Stored, TaskInv, WriterInv, NamedFilesComplete, Readable
<1>2. StorageInv' /\ ResultInv'
  BY StorageKept, ResultKept
<1>3. CASE Next
  BY <1>2, <1>3, RecordInv, CacheInv, CrashInv DEF Next, Fault, CacheStep, Inv
<1> QED BY <1>1, <1>3

\* The invariant holds for ever.
THEOREM InvAlways == Spec => []Inv
<1> QED BY InitInv, NextInv, PTL DEF Spec

\* Every file and every task has its type: no name ever holds the content of
\* another kind of file.
THEOREM TypeCorrect == Spec => []TypeOK
<1>1. Inv => TypeOK
  BY DEF Inv, FilesInv
<1> QED BY <1>1, InvAlways, PTL

\* Whatever writes fail, wherever the process is killed and whichever renames a
\* power loss undoes, a Record, a snapshot or an index that is found under its name
\* is complete.
THEOREM FilesCorrect == Spec => []NamedFilesComplete
<1>1. Inv => NamedFilesComplete
  BY DEF Inv, FilesInv
<1> QED BY <1>1, InvAlways, PTL

\* Short of a power loss, the partial file of a Record whose manifest is written
\* goes only by becoming the complete Record: no failure and no cache operation
\* loses it, no other Record is written over it, and a crash may tear it at most.
THEOREM StartedKept == Spec => StartedRecordKept
<1> DEFINE Kept == Holds(partial, RecordFile) /\ partial[RecordFile].value.started
                     => \/ partial'[RecordFile] # None
                           /\ partial'[RecordFile].value \in {partial[RecordFile].value, Torn}
                        \/ disk'[RecordFile] = partial[RecordFile]
                        \/ PowerLoss
<1>1. Inv /\ [Next]_vars => [Kept]_vars
  <2> SUFFICES ASSUME Inv, Next, Holds(partial, RecordFile), partial[RecordFile].value.started,
                      ~PowerLoss
               PROVE  \/ partial'[RecordFile] # None
                           /\ partial'[RecordFile].value \in {partial[RecordFile].value, Torn}
                      \/ disk'[RecordFile] = partial[RecordFile]
    OBVIOUS
  <2> USE NamesDistinct
  <2>0. Stored(disk) /\ Stored(partial) /\ partial[RecordFile] # None
    BY DEF Inv, FilesInv, TypeOK, Holds
  <2>1. CASE Record
    <3>1. ~CreateRecord /\ ~DiscardUnstarted /\ ~StartRecord
      BY <2>0 DEF CreateRecord, DiscardUnstarted, StartRecord, Inv, FilesInv, WriterInv
    <3>2. CASE WriteFooter
      <4> DEFINE v == partial[RecordFile].value
                 yes == TRUE
      <4>1. partial' = [partial EXCEPT ![RecordFile] = File(v, yes)]
        BY <2>0, <3>2, SyncedFile DEF WriteFooter, Synchronize
      <4>2. partial'[RecordFile] = File(v, yes)
        BY <2>0, <4>1 DEF Stored, Files
      <4>3. v \in Value(RecordFile) \cup {Torn} /\ yes \in BOOLEAN
        BY <2>0, FileFields
      <4> HIDE DEF yes
      <4> QED BY <4>2, <4>3, FileIsFile
    <3>3. CASE CommitRecord
      BY <2>0, <3>3 DEF CommitRecord, Rename, Stored, Files
    <3>4. CASE AbandonRecord \/ OpenReplay \/ CloseReplay
      BY <2>0, <3>4 DEF AbandonRecord, OpenReplay, CloseReplay
    <3> QED BY <2>1, <3>1, <3>2, <3>3, <3>4 DEF Record
  <2>2. CASE CacheStep
    <3>1. \/ partial' = partial
          \/ /\ task.stage \in {"open", "sync", "rename"}
             /\ \E w : partial' = [partial EXCEPT ![task.file] = w]
      BY <2>2 DEF CacheStep, Cache, BeginCreate, BeginCatalog, BeginOpen, BeginTask, OpenPartial,
                  SyncPartial, Synchronize, Rename, RenamePartial, WriteFails, LoadCatalog,
                  UpdateIndex, ListCatalog, InstallSnapshot
    <3>2. CASE task.stage \in {"open", "sync", "rename"}
      BY <2>0, <3>1, <3>2 DEF Inv, FilesInv, TaskInv, Stored, Files
    <3> QED BY <2>0, <3>1, <3>2
  <2>3. CASE Crash
    <3>1. File(Torn, FALSE) # None /\ File(Torn, FALSE).value = Torn
      BY FileIsFile
    <3>2. partial'[RecordFile] \in {partial[RecordFile], File(Torn, FALSE)}
      BY <2>3 DEF Crash, TornAt
    <3> QED BY <2>0, <3>1, <3>2
  <2> QED BY <2>1, <2>2, <2>3 DEF Next, Fault, CacheStep
<1> QED BY <1>1, InvAlways, PTL DEF Spec, StartedRecordKept

-----------------------------------------------------------------------------
(* The catalog.                                                             *)

\* The complete Record, by its number.
Current == IF disk[RecordFile] = None THEN 0 ELSE disk[RecordFile].value.id

\* Entries a catalog of the complete Record may have.
Listing(E) ==
    /\ \A e, f \in E : e.record = Current /\ (e.position = f.position => e = f)
    /\ \A c \in created : c[1] = Current => \E e \in E : e.position = c[2]

Snapshotted(p) ==
    disk[SnapshotFile(p)] # None /\ disk[SnapshotFile(p)].value.record = Current

\* Files of Records numbered below m; the index has entries of its own Record only,
\* one for a position.
Old(files, m) ==
    /\ files[RecordFile] # None => files[RecordFile].value.id < m
    /\ files[IndexFile] # None =>
         /\ files[IndexFile].value.record < m
         /\ \A e, f \in files[IndexFile].value.entries :
              e.record = files[IndexFile].value.record /\ (e.position = f.position => e = f)

\* Nothing is made for a Record that has not been begun, or for the one under
\* construction, and a result is shown until the next operation.
AgeInv ==
    /\ Current \in Nat /\ Old(disk, begun + 1)
    /\ \A c \in created : c[1] \in Nat /\ c[1] <= begun /\ c[2] \in Positions
    /\ writer # None => /\ partial[RecordFile].value.id = begun
                        /\ Old(disk, begun) /\ \A c \in created : c[1] # begun
    /\ writer # None \/ task # Idle => result = NoResult
    /\ replay # None => disk[RecordFile] # None /\ replay = Current
    /\ task # Idle => disk[RecordFile] # None

\* The same of the files that a power loss may bring back.
BeforeInv == Old(before, begun + 1) /\ (writer # None => Old(before, begun))

\* What the cache directory has for the complete Record.
CacheFilesInv ==
    /\ \A c \in created : c[1] = Current => Snapshotted(c[2])
    /\ disk[IndexFile] # None /\ disk[IndexFile].value.record = Current
         => Listing(disk[IndexFile].value.entries)

Writing == task.stage \in {"open", "sync", "rename"}
WritingIndex == Writing /\ task.file = IndexFile

\* What a task has in hand.
CatalogTaskInv ==
    /\ Writing /\ task.file # IndexFile =>
         /\ task.op = "create" /\ ~task.last
         /\ task.file = SnapshotFile(task.position) /\ task.value.record = Current
    /\ WritingIndex => task.value.record = Current /\ Listing(task.value.entries)
    /\ WritingIndex /\ task.last =>
         task.op = "create" /\ \E e \in task.value.entries : e.position = task.position
    /\ task.stage = "loaded" \/ WritingIndex => Listing(task.entries)
    /\ task.op = "create" /\ (task.stage \in {"load", "loaded"} \/ WritingIndex)
         => Snapshotted(task.position)

ResultListing ==
    /\ result.op = "catalog" /\ result.ok => result.record = Current /\ Listing(result.entries)
    /\ OpenedIsListed

CatalogInv == AgeInv /\ BeforeInv /\ CacheFilesInv /\ CatalogTaskInv /\ ResultListing

\* What the catalog is about, after a step that leaves the files and the
\* reported snapshots alone.
LEMMA ListingKept ==
    ASSUME disk' = disk, created' = created
    PROVE  /\ Current' = Current
           /\ \A E : Listing(E)' <=> Listing(E)
           /\ \A p : Snapshotted(p)' <=> Snapshotted(p)
           /\ CacheFilesInv' <=> CacheFilesInv
<1>1. Current' = Current
  BY DEF Current
<1>2. \A E : Listing(E)' <=> Listing(E)
  BY <1>1 DEF Listing
<1>3. \A p : Snapshotted(p)' <=> Snapshotted(p)
  BY <1>1 DEF Snapshotted
<1>4. CacheFilesInv' <=> CacheFilesInv
  BY <1>1, <1>2, <1>3 DEF CacheFilesInv
<1> QED BY <1>1, <1>2, <1>3, <1>4

\* With no task, and no catalog just returned, nothing is in hand.
LEMMA NothingInHand ==
    /\ task = Idle => CatalogTaskInv
    /\ result = NoResult => ResultListing
BY IdleIsTask DEF CatalogTaskInv, Writing, WritingIndex, ResultListing, OpenedIsListed, NoResult, Idle

\* Numbers of files are numbers.
LEMMA FileNumbers ==
    ASSUME NEW f, Stored(f), \A n \in Names : f[n] # None => f[n].value # Torn
    PROVE  /\ f[RecordFile] # None => f[RecordFile].value.id \in Nat
           /\ f[IndexFile] # None => f[IndexFile].value.record \in Nat
           /\ \A m \in Nat : Old(f, m) => Old(f, m + 1)
<1>1. f[RecordFile] # None => f[RecordFile].value \in RecordValue
  BY NamesDistinct, ValuesAreValues DEF Stored
<1>2. f[IndexFile] # None => f[IndexFile].value \in CatalogValue
  BY NamesDistinct, ValuesAreValues DEF Stored
<1>3. /\ f[RecordFile] # None => f[RecordFile].value.id \in Nat
      /\ f[IndexFile] # None => f[IndexFile].value.record \in Nat
  BY <1>1, <1>2 DEF RecordValue, CatalogValue
<1> QED BY <1>3 DEF Old

LEMMA DiskNumbers ==
    ASSUME Inv
    PROVE  /\ Current \in Nat /\ begun \in Nat
           /\ disk[IndexFile] # None => disk[IndexFile].value.record \in Nat
           /\ \A m \in Nat : Old(disk, m) => Old(disk, m + 1)
           /\ \A m \in Nat : Old(before, m) => Old(before, m + 1)
<1>1. /\ Stored(disk) /\ Stored(before) /\ begun \in Nat
      /\ \A n \in Names : disk[n] # None => disk[n].value # Torn
      /\ \A n \in Names : before[n] # None => before[n].value # Torn
  BY DEF Inv, FilesInv, TypeOK, StorageInv, NamedFilesComplete
<1> QED BY <1>1, FileNumbers DEF Current

\* A file of a name may be replaced by an old one.
LEMMA MixedOld ==
    ASSUME NEW f, NEW g, NEW h, NEW m, Old(f, m), Old(g, m),
           \A n \in Names : h[n] = f[n] \/ h[n] = g[n]
    PROVE  Old(h, m)
BY NamesDistinct DEF Old

LEMMA BeforeKept == Inv /\ CatalogInv /\ [Next]_vars => BeforeInv'
<1> SUFFICES ASSUME Inv, CatalogInv, [Next]_vars PROVE BeforeInv'
  OBVIOUS
<1>1. /\ Old(disk, begun + 1) /\ (writer # None => Old(disk, begun)) /\ BeforeInv
      /\ Stored(before) /\ begun \in Nat
      /\ \A m \in Nat : Old(before, m) => Old(before, m + 1)
  BY DiskNumbers DEF CatalogInv, AgeInv, Inv, StorageInv
<1>2. CASE before' = before /\ begun' = begun /\ (writer' = None \/ writer # None)
  <2>1. Old(before', begun' + 1) /\ (writer' # None => Old(before', begun'))
    BY <1>1, <1>2 DEF BeforeInv
  <2> QED BY <2>1 DEF BeforeInv
<1>3. CASE CreateRecord
  <2>1. before' = before /\ begun' = begun + 1
    BY <1>3 DEF CreateRecord
  <2>2. Old(before, begun + 1) /\ Old(before, begun + 1 + 1)
    BY <1>1 DEF BeforeInv
  <2>3. Old(before', begun' + 1) /\ Old(before', begun')
    BY <2>1, <2>2
  <2> QED BY <2>3 DEF BeforeInv
<1>4. ASSUME NEW n \in Names, before' = [before EXCEPT ![n] = disk[n]], UNCHANGED begun,
             writer' = None \/ writer # None
      PROVE  BeforeInv'
  <2>1. \A m \in Names : before'[m] = disk[m] \/ before'[m] = before[m]
    BY <1>1, <1>4 DEF Stored, Files
  <2>2. Old(before', begun + 1) /\ (writer # None => Old(before', begun))
    BY <1>1, <2>1, MixedOld DEF BeforeInv
  <2>3. Old(before', begun' + 1) /\ (writer' # None => Old(before', begun'))
    BY <1>4, <2>2
  <2> QED BY <2>3 DEF BeforeInv
<1>5. CASE PowerLoss
  <2>1. PICK undone \in SUBSET Names :
          disk' = [n \in Names |-> IF n \in undone THEN before[n]
                                 ELSE TornAt(disk, Unsynchronized(disk))[n]]
    BY <1>5 DEF PowerLoss
  <2>2. Unsynchronized(disk) = {}
    BY DEF Unsynchronized, Inv, FilesInv, NamedFilesComplete
  <2>3. \A n \in Names : disk'[n] = before[n] \/ disk'[n] = disk[n]
    BY <2>1, <2>2 DEF TornAt
  <2>4. Old(disk', begun + 1)
    BY <1>1, <2>3, MixedOld DEF BeforeInv
  <2>5. writer' = None /\ begun' = begun /\ before' = disk'
    BY <1>5 DEF PowerLoss, Forget
  <2>6. Old(before', begun' + 1)
    BY <2>4, <2>5
  <2> QED BY <2>5, <2>6 DEF BeforeInv
<1>6. CASE WriteFooter
  BY <1>4, <1>6, NamesDistinct DEF WriteFooter, Synchronize
<1>7. CASE SyncPartial
  <2>1. task.file \in Names /\ UNCHANGED <<writer, begun>>
    BY <1>7 DEF SyncPartial, NoRecordChange, Inv, FilesInv, TaskInv
  <2> QED BY <1>4, <1>7, <2>1 DEF SyncPartial, Synchronize
<1>8. CASE Record /\ ~CreateRecord /\ ~WriteFooter
  BY <1>2, <1>8 DEF Record, StartRecord, DiscardUnstarted, CommitRecord, AbandonRecord, OpenReplay,
                    CloseReplay
<1>9. CASE CacheStep /\ ~SyncPartial
  BY <1>2, <1>9 DEF CacheStep, Cache, BeginCreate, BeginCatalog, BeginOpen, BeginTask, OpenPartial,
                    RenamePartial, WriteFails, LoadCatalog, UpdateIndex, ListCatalog, InstallSnapshot,
                    NoRecordChange
<1>10. CASE Crash \/ UNCHANGED vars
  BY <1>2, <1>10 DEF Crash, Forget, vars
<1> QED BY <1>3, <1>5, <1>6, <1>7, <1>8, <1>9, <1>10 DEF Next, Fault, CacheStep

LEMMA CurrentReadable ==
    ASSUME Inv
    PROVE  /\ \A n \in Names : Readable(n) <=> disk[n] # None
           /\ disk[RecordFile] # None => /\ RecordIdentity = Current
                                         /\ disk[RecordFile].value \in RecordValue
<1>1. \A n \in Names : Readable(n) <=> disk[n] # None
  BY DEF Inv, FilesInv, NamedFilesComplete, Readable
<1>2. RecordFile \in Names /\ Value(RecordFile) = RecordValue /\ Stored(disk)
  BY NamesDistinct, ValuesAreValues DEF Inv, FilesInv, TypeOK
<1>3. disk[RecordFile] # None => disk[RecordFile].value \in RecordValue
  BY <1>1, <1>2, ReadableValue
<1> QED BY <1>1, <1>3 DEF RecordIdentity, Current

LEMMA InitCatalog == Init => CatalogInv
<1> SUFFICES ASSUME Init PROVE CatalogInv
  OBVIOUS
<1>1. task = Idle /\ result = NoResult /\ created = {} /\ writer = None /\ replay = None /\ begun = 0
  BY DEF Init
<1>2. disk[RecordFile] = None /\ disk[IndexFile] = None
  BY NamesDistinct DEF Init
<1>3. Current = 0
  BY <1>2 DEF Current
<1>4. AgeInv /\ CacheFilesInv
  BY <1>1, <1>2, <1>3 DEF AgeInv, CacheFilesInv, Old
<1>5. BeforeInv
  BY <1>1, <1>2 DEF Init, BeforeInv, Old
<1> QED BY <1>1, <1>4, <1>5, NothingInHand DEF CatalogInv

\* The Recorder's steps.
LEMMA RecordCatalog == Inv /\ CatalogInv /\ Record /\ BeforeInv' => CatalogInv'
<1> SUFFICES ASSUME Inv, CatalogInv, Record, BeforeInv' PROVE CatalogInv'
  OBVIOUS
<1>0. /\ Stored(disk) /\ Stored(partial) /\ begun \in Nat /\ RecordFile \in Names
      /\ AgeInv /\ CacheFilesInv /\ Current \in Nat
      /\ writer # None => task = Idle /\ replay = None
  BY NamesDistinct DEF Inv, FilesInv, TypeOK, CatalogInv, AgeInv
<1>1. CASE CreateRecord
  <2> DEFINE v == [id |-> begun + 1, started |-> FALSE]
  <2>1. /\ partial' = [partial EXCEPT ![RecordFile] = File(v, FALSE)]
        /\ UNCHANGED <<disk, replay, task, created>> /\ begun' = begun + 1
        /\ task = Idle /\ replay = None /\ result' = NoResult
    BY <1>1 DEF CreateRecord, Quiet
  <2>2. partial'[RecordFile].value.id = begun'
    <3>1. partial'[RecordFile] = File(v, FALSE)
      BY <1>0, <2>1 DEF Stored, Files
    <3> QED BY <2>1, <3>1 DEF File
  <2>3. AgeInv' /\ CacheFilesInv'
    <3>1. Current' = Current /\ CacheFilesInv'
      BY <1>0, <2>1, ListingKept
    <3>2. Old(disk', begun') /\ Old(disk', begun' + 1) 
          /\ \A c \in created' : /\ c[1] \in Nat /\ c[2] \in Positions
                                  /\ c[1] <= begun' /\ c[1] # begun'
      <4>1. Old(disk, begun + 1) /\ Old(disk, begun + 1 + 1)
        BY <1>0, DiskNumbers DEF AgeInv
      <4> QED BY <1>0, <2>1, <4>1 DEF AgeInv
    <3>3. Current' \in Nat /\ replay' = None /\ task' = Idle
      BY <1>0, <2>1, <3>1
    <3>4. /\ \A c \in created' : c[1] \in Nat /\ c[1] <= begun' /\ c[2] \in Positions
          /\ \A c \in created' : c[1] # begun'
      BY <3>2
    <3>5. Old(disk', begun' + 1) /\ Old(disk', begun')
      BY <3>2
    <3> QED BY <2>1, <2>2, <3>1, <3>3, <3>4, <3>5 DEF AgeInv
  <2>4. CatalogTaskInv' /\ ResultListing'
    BY <2>1, NothingInHand, IdleIsTask
       DEF CatalogTaskInv, Writing, WritingIndex, ResultListing, OpenedIsListed, NoResult, Idle
  <2> QED BY <2>3, <2>4 DEF CatalogInv
<1>2. CASE StartRecord \/ WriteFooter
  <2>1. /\ UNCHANGED <<disk, replay, task, created, begun, result>>
        /\ task = Idle /\ replay = None /\ writer # None /\ result = NoResult
    BY <1>0, <1>2 DEF StartRecord, WriteFooter, NoCacheChange, AgeInv
  <2>2. partial'[RecordFile].value.id = partial[RecordFile].value.id
    <3>1. partial[RecordFile] # None /\ partial[RecordFile].value # Torn
      BY <2>1 DEF Inv, FilesInv, TypeOK
    <3>2. CASE StartRecord
      <4> DEFINE v == [id |-> partial[RecordFile].value.id, started |-> TRUE]
      <4>1. partial' = [partial EXCEPT ![RecordFile] = File(v, partial[RecordFile].durable)]
        BY <1>0, <3>1, <3>2, StartStored DEF StartRecord
      <4>2. partial'[RecordFile] = File(v, partial[RecordFile].durable)
        BY <1>0, <4>1 DEF Stored, Files
      <4> QED BY <4>2 DEF File
    <3>3. CASE WriteFooter
      <4>1. partial' = [partial EXCEPT ![RecordFile] = File(partial[RecordFile].value, TRUE)]
        BY <1>0, <3>1, <3>3, SyncedFile DEF WriteFooter, Synchronize
      <4>2. partial'[RecordFile] = File(partial[RecordFile].value, TRUE)
        BY <1>0, <4>1 DEF Stored, Files
      <4> QED BY <4>2 DEF File
    <3> QED BY <1>2, <3>2, <3>3
  <2>3. AgeInv' /\ CacheFilesInv'
    BY <1>0, <2>1, <2>2, ListingKept DEF AgeInv
  <2>4. CatalogTaskInv' /\ ResultListing'
    BY <2>1, IdleIsTask DEF CatalogTaskInv, Writing, WritingIndex, ResultListing, OpenedIsListed, NoResult, Idle
  <2> QED BY <2>3, <2>4 DEF CatalogInv
<1>3. CASE DiscardUnstarted \/ AbandonRecord
  <2>1. /\ UNCHANGED <<disk, replay, task, created, begun, result>> /\ writer' = None
        /\ task = Idle /\ replay = None /\ result = NoResult
    BY <1>0, <1>3 DEF DiscardUnstarted, AbandonRecord, NoCacheChange, AgeInv
  <2>2. AgeInv' /\ CacheFilesInv'
    BY <1>0, <2>1, ListingKept DEF AgeInv
  <2>3. CatalogTaskInv' /\ ResultListing'
    BY <2>1, IdleIsTask DEF CatalogTaskInv, Writing, WritingIndex, ResultListing, OpenedIsListed, NoResult, Idle
  <2> QED BY <2>2, <2>3 DEF CatalogInv
<1>4. CASE CommitRecord
  <2>1. /\ UNCHANGED <<replay, task, created, begun, result>> /\ writer # None /\ writer' = None
        /\ disk' = [disk EXCEPT ![RecordFile] = partial[RecordFile]]
        /\ task = Idle /\ replay = None /\ result = NoResult
        /\ partial[RecordFile].value.id = begun /\ Old(disk, begun) /\ \A c \in created : c[1] # begun
    BY <1>0, <1>4 DEF CommitRecord, Rename, NoCacheChange, AgeInv
  <2>2. partial[RecordFile] # None
    BY <2>1 DEF Inv, FilesInv, TypeOK
  <2>3. Current' = begun /\ disk'[IndexFile] = disk[IndexFile]
    BY <1>0, <2>1, <2>2, NamesDistinct DEF Current, Stored, Files
  <2>a. disk[IndexFile] # None => /\ disk[IndexFile].value.record \in Nat
                                 /\ disk[IndexFile].value.record < begun
    BY <2>1, DiskNumbers DEF Old
  <2>4. AgeInv'
    <3>1. disk'[RecordFile].value.id = begun
      BY <1>0, <2>1 DEF Stored, Files
    <3>2. Old(disk', begun + 1)
      BY <1>0, <2>1, <2>3, <2>a, <3>1 DEF Old
    <3> QED BY <1>0, <2>1, <2>3, <3>2 DEF AgeInv
  <2>5. CacheFilesInv'
    BY <1>0, <2>1, <2>3, <2>a DEF CacheFilesInv
  <2>6. CatalogTaskInv' /\ ResultListing'
    BY <2>1, IdleIsTask DEF CatalogTaskInv, Writing, WritingIndex, ResultListing, OpenedIsListed, NoResult, Idle
  <2> QED BY <2>4, <2>5, <2>6 DEF CatalogInv
<1>5. CASE OpenReplay \/ CloseReplay
  <2>1. /\ UNCHANGED <<disk, partial, writer, task, created, begun>>
        /\ task = Idle /\ result' = NoResult
        /\ replay' = None \/ (Readable(RecordFile) /\ replay' = RecordIdentity)
        /\ writer = None \/ replay' = None
    BY <1>0, <1>5 DEF OpenReplay, CloseReplay, Quiet
  <2>2. replay' # None => disk[RecordFile] # None /\ replay' = Current
    BY <1>0, <2>1, CurrentReadable
  <2>3. AgeInv' /\ CacheFilesInv'
    BY <1>0, <2>1, <2>2, ListingKept DEF AgeInv
  <2>4. CatalogTaskInv' /\ ResultListing'
    BY <2>1, IdleIsTask DEF CatalogTaskInv, Writing, WritingIndex, ResultListing, OpenedIsListed, NoResult, Idle
  <2> QED BY <2>3, <2>4 DEF CatalogInv
<1> QED BY <1>1, <1>2, <1>3, <1>4, <1>5 DEF Record

\* A crash loses what is in memory.
LEMMA CrashCatalog == Inv /\ CatalogInv /\ Crash /\ BeforeInv' => CatalogInv'
<1> SUFFICES ASSUME Inv, CatalogInv, Crash, BeforeInv' PROVE CatalogInv'
  OBVIOUS
<1>1. /\ writer' = None /\ replay' = None /\ task' = Idle /\ result' = NoResult
      /\ UNCHANGED <<disk, begun, created>>
  BY DEF Crash, Forget
<1>2. AgeInv' /\ CacheFilesInv'
  BY <1>1, ListingKept DEF CatalogInv, AgeInv
<1>3. CatalogTaskInv' /\ ResultListing'
  BY <1>1, IdleIsTask
     DEF CatalogTaskInv, Writing, WritingIndex, ResultListing, OpenedIsListed, NoResult, Idle
<1> QED BY <1>2, <1>3 DEF CatalogInv

\* A power loss may bring back an older Record, an older index and older snapshots;
\* what is still promised can be found in what it has left.
LEMMA PowerCatalog == Inv /\ CatalogInv /\ PowerLoss /\ Inv' /\ BeforeInv' => CatalogInv'
<1> SUFFICES ASSUME Inv, CatalogInv, PowerLoss, Inv', BeforeInv' PROVE CatalogInv'
  OBVIOUS
<1>1. /\ writer' = None /\ replay' = None /\ task' = Idle /\ result' = NoResult
      /\ begun' = begun /\ disk' = before'
      /\ created' = {c \in created : Found(disk', c)}
  BY DEF PowerLoss, Forget
<1>2. Old(disk', begun' + 1) /\ Stored(disk')
  BY <1>1 DEF BeforeInv, Inv, StorageInv
<1>3. \A n \in Names : disk'[n] # None => disk'[n].value # Torn
  BY DEF Inv, FilesInv, NamedFilesComplete
<1>4. Current' \in Nat
  BY <1>2, <1>3, FileNumbers DEF Current
<1>5. AgeInv'
  BY <1>1, <1>2, <1>4 DEF CatalogInv, AgeInv
<1>6. CacheFilesInv'
  <2>1. ASSUME NEW c \in created', c[1] = Current' PROVE Snapshotted(c[2])'
    BY <1>1, <2>1 DEF Found, Holds, Snapshotted
  <2>2. ASSUME disk'[IndexFile] # None, disk'[IndexFile].value.record = Current'
        PROVE  Listing(disk[IndexFile].value.entries)'
    <3>1. \A e, f \in disk'[IndexFile].value.entries :
            e.record = Current' /\ (e.position = f.position => e = f)
      BY <1>2, <2>2 DEF Old
    <3>2. ASSUME NEW c \in created', c[1] = Current'
          PROVE  \E e \in disk'[IndexFile].value.entries : e.position = c[2]
      <4>1. Found(disk', c) /\ Holds(disk', IndexFile)
        BY <1>1, <1>3, <2>2, <3>2, NamesDistinct DEF Holds
      <4> QED BY <2>2, <3>2, <4>1 DEF Found
    <3> QED BY <3>1, <3>2 DEF Listing
  <2> QED BY <2>1, <2>2 DEF CacheFilesInv
<1>7. CatalogTaskInv' /\ ResultListing'
  BY <1>1, IdleIsTask
     DEF CatalogTaskInv, Writing, WritingIndex, ResultListing, OpenedIsListed, NoResult, Idle
<1> QED BY <1>5, <1>6, <1>7 DEF CatalogInv

\* A task works on the complete Record.
LEMMA SubjectCurrent ==
    ASSUME Inv, AgeInv, task # Idle
    PROVE  /\ Subject = Current /\ Current \in Nat /\ disk[RecordFile] # None
           /\ writer = None /\ task \in Tasks
           /\ task.op = "create" => replay = Current
<1>1. /\ disk[RecordFile] # None /\ writer = None /\ task \in Tasks /\ Current \in Nat
  BY DEF AgeInv, Inv, FilesInv, TypeOK
<1>2. RecordIdentity = Current
  BY <1>1, CurrentReadable
<1>3. task.op = "create" => replay = Current
  BY TornIsNothing DEF Inv, FilesInv, TaskInv, AgeInv
<1> QED BY <1>1, <1>2, <1>3 DEF Subject

\* rebuild_catalog lists what was created.
LEMMA RebuiltListing ==
    ASSUME Inv, CatalogInv
    PROVE  Listing(Rebuilt(Current))
<1> DEFINE at(p) == disk[SnapshotFile(p)].value
<1>1. ASSUME NEW p \in Positions, disk[SnapshotFile(p)] # None
      PROVE  Readable(SnapshotFile(p)) /\ at(p).position = p
  <2>1. SnapshotFile(p) \in Names /\ Stored(disk) /\ Value(SnapshotFile(p)) = {s \in SnapshotValue : s.position = p}
    BY NamesDistinct, ValuesAreValues DEF Inv, FilesInv, TypeOK
  <2>2. Readable(SnapshotFile(p))
    BY <1>1, <2>1, CurrentReadable
  <2> QED BY <2>1, <2>2, ReadableValue
<1>2. \A e \in Rebuilt(Current) : \E p \in Positions : disk[SnapshotFile(p)] # None /\ e = at(p)
  BY DEF Rebuilt, Readable
<1>3. \A e \in Rebuilt(Current) : e.record = Current
  BY DEF Rebuilt
<1>4. ASSUME NEW e \in Rebuilt(Current), NEW f \in Rebuilt(Current), e.position = f.position
      PROVE  e = f
  <2>1. PICK p \in Positions : disk[SnapshotFile(p)] # None /\ e = at(p)
    BY <1>2
  <2>2. PICK q \in Positions : disk[SnapshotFile(q)] # None /\ f = at(q)
    BY <1>2
  <2>3. e.position = p /\ f.position = q
    BY <1>1, <2>1, <2>2
  <2> QED BY <1>4, <2>1, <2>2, <2>3
<1>5. ASSUME NEW c \in created, c[1] = Current
      PROVE  \E e \in Rebuilt(Current) : e.position = c[2]
  <2>1. c[2] \in Positions /\ Snapshotted(c[2])
    BY <1>5 DEF CatalogInv, AgeInv, CacheFilesInv
  <2>2. Readable(SnapshotFile(c[2])) /\ at(c[2]).position = c[2] /\ at(c[2]).record = Current
    BY <1>1, <2>1 DEF Snapshotted
  <2>3. at(c[2]) \in Rebuilt(Current)
    BY <2>1, <2>2 DEF Rebuilt
  <2> QED BY <2>2, <2>3
<1> HIDE DEF at
<1> QED BY <1>3, <1>4, <1>5 DEF Listing

\* A task begins.
LEMMA BeginCatalogInv ==
    Inv /\ CatalogInv /\ (BeginCreate \/ BeginCatalog \/ BeginOpen) /\ BeforeInv' => CatalogInv'
<1> SUFFICES ASSUME Inv, CatalogInv, BeginCreate \/ BeginCatalog \/ BeginOpen, BeforeInv' PROVE CatalogInv'
  OBVIOUS
<1>0. AgeInv /\ CacheFilesInv
  BY DEF CatalogInv
<1>1. /\ UNCHANGED <<disk, partial, created, writer, replay, begun>> /\ result' = NoResult
      /\ writer = None
  BY DEF BeginCreate, BeginCatalog, BeginOpen, BeginTask, NoRecordChange
<1>2. disk[RecordFile] # None
  BY <1>0, CurrentReadable, NamesDistinct DEF BeginCreate, BeginCatalog, BeginOpen, AgeInv
<1>3. AgeInv' /\ CacheFilesInv'
  BY <1>0, <1>1, <1>2, ListingKept DEF AgeInv
<1>4. ResultListing'
  BY <1>1 DEF ResultListing, OpenedIsListed, NoResult
<1>5. CatalogTaskInv'
  <2>1. CASE BeginCreate
    <3>1. PICK p \in Positions, v \in Versions :
            task' = Write([Idle EXCEPT !.op = "create", !.position = p, !.version = v],
                          SnapshotFile(p), ReplaySnapshot(replay, p, v), FALSE)
      BY <2>1 DEF BeginCreate, BeginTask
    <3>2. /\ task'.stage = "open" /\ task'.file = SnapshotFile(p) /\ task'.op = "create"
          /\ task'.last = FALSE /\ task'.position = p /\ task'.value = ReplaySnapshot(replay, p, v)
      BY <3>1 DEF Write, Idle
    <3>3. task'.value.record = Current
      <4>1. replay = Current
        BY <1>0, <2>1 DEF BeginCreate, AgeInv
      <4> QED BY <3>2, <4>1 DEF ReplaySnapshot
    <3>4. SnapshotFile(p) # IndexFile /\ Current' = Current
      BY <1>1, NamesDistinct, ListingKept
    <3> QED BY <3>2, <3>3, <3>4 DEF CatalogTaskInv, Writing, WritingIndex
  <2>2. CASE BeginCatalog \/ BeginOpen
    <3>1. task'.stage = "load" /\ task'.op \in {"catalog", "open"}
      BY <2>2 DEF BeginCatalog, BeginOpen, BeginTask, Idle
    <3> QED BY <3>1 DEF CatalogTaskInv, Writing, WritingIndex
  <2> QED BY <2>1, <2>2
<1> QED BY <1>3, <1>4, <1>5 DEF CatalogInv

\* A task returns and the files are as they were.
LEMMA ReturnCatalog ==
    ASSUME Inv, CatalogInv, task # Idle, NEW ok, NEW cause, Return(ok, cause),
           UNCHANGED <<disk, writer, begun>>, replay' = replay \/ replay' = Current,
           ~ok \/ task.op # "create", ok /\ task.op = "catalog" => Listing(task.entries),
           ok /\ task.op = "open" => /\ disk[SnapshotFile(task.position)].value \in task.entries
                                     /\ disk[SnapshotFile(task.position)].value.record = Current
                                     /\ replay' = Current,
           BeforeInv'
    PROVE  CatalogInv'
<1>1. /\ Subject = Current /\ Current \in Nat /\ disk[RecordFile] # None /\ writer = None
  BY SubjectCurrent DEF CatalogInv
<1>2. /\ task' = Idle /\ created' = created
      /\ result'.op = task.op /\ result'.ok = ok /\ result'.record = Current
      /\ result'.entries = task.entries /\ result'.position = task.position
  BY <1>1 DEF Return
<1>3. AgeInv' /\ CacheFilesInv'
  BY <1>1, <1>2, ListingKept DEF CatalogInv, AgeInv
<1>4. CatalogTaskInv'
  BY <1>2, IdleIsTask DEF CatalogTaskInv, Writing, WritingIndex
<1>5. ResultListing'
  <2>2. result'.op = "catalog" /\ result'.ok => result'.record = Current' /\ Listing(result.entries)'
    BY <1>2, ListingKept
  <2>3. OpenedIsListed'
    BY <1>2 DEF OpenedIsListed
  <2> QED BY <2>2, <2>3 DEF ResultListing
<1> QED BY <1>3, <1>4, <1>5 DEF CatalogInv

\* A task goes on and the files are as they were.
LEMMA TaskCatalog ==
    ASSUME Inv, CatalogInv, task # Idle,
           UNCHANGED <<disk, writer, begun, replay, created, result>>,
           CatalogTaskInv', BeforeInv'
    PROVE  CatalogInv'
<1>1. disk[RecordFile] # None /\ writer = None
  BY SubjectCurrent DEF CatalogInv
<1>2. AgeInv' /\ CacheFilesInv'
  BY <1>1, ListingKept DEF CatalogInv, AgeInv
<1>3. ResultListing'
  BY DEF CatalogInv, AgeInv, ResultListing, OpenedIsListed, NoResult
<1> QED BY <1>2, <1>3 DEF CatalogInv

\* write_cache_file, up to the rename.
LEMMA WriteCatalog ==
    Inv /\ CatalogInv /\ (OpenPartial \/ SyncPartial \/ WriteFails) /\ BeforeInv' => CatalogInv'
<1> SUFFICES ASSUME Inv, CatalogInv, OpenPartial \/ SyncPartial \/ WriteFails, BeforeInv' PROVE CatalogInv'
  OBVIOUS
<1>1. UNCHANGED <<disk, writer, replay, begun>> /\ Writing /\ task # Idle /\ task \in Tasks
  BY IdleIsTask DEF OpenPartial, SyncPartial, WriteFails, NoRecordChange, Writing, Inv, FilesInv, TypeOK
<1>2. ASSUME NEW cause, Return(FALSE, cause) PROVE CatalogInv'
  BY <1>1, <1>2, ReturnCatalog
<1>3. ASSUME NEW s \in {"sync", "rename"}, task' = [task EXCEPT !.stage = s],
             UNCHANGED <<created, result>>
      PROVE  CatalogInv'
  <2>1. /\ task'.stage = s /\ task'.op = task.op /\ task'.position = task.position
        /\ task'.file = task.file /\ task'.value = task.value
        /\ task'.entries = task.entries /\ task'.last = task.last
    BY <1>1, <1>3 DEF Tasks
  <2>2. CatalogTaskInv
    BY DEF CatalogInv
  <2>3. CatalogTaskInv'
    BY <1>1, <1>3, <2>1, <2>2, ListingKept DEF CatalogTaskInv, Writing, WritingIndex
  <2> QED BY <1>1, <1>3, <2>3, TaskCatalog
<1> QED BY <1>2, <1>3 DEF OpenPartial, SyncPartial, WriteFails

\* The catalog is loaded or rebuilt.
LEMMA LoadCatalogInv == Inv /\ CatalogInv /\ LoadCatalog /\ BeforeInv' => CatalogInv'
<1> SUFFICES ASSUME Inv, CatalogInv, LoadCatalog, BeforeInv' PROVE CatalogInv'
  OBVIOUS
<1>1. /\ UNCHANGED <<disk, writer, replay, begun, created, result>> /\ task.stage = "load"
      /\ task # Idle
  BY IdleIsTask DEF LoadCatalog, NoRecordChange
<1>2. Subject = Current /\ task \in Tasks
  BY <1>1, SubjectCurrent DEF CatalogInv
<1>3. task.op = "create" => Snapshotted(task.position)
  BY <1>1 DEF CatalogInv, CatalogTaskInv
<1>4. CatalogTaskInv'
  <2>1. CASE Usable(Subject)
    <3>1. task' = [task EXCEPT !.stage = "loaded", !.entries = disk[IndexFile].value.entries]
      BY <2>1 DEF LoadCatalog
    <3>2. /\ task'.stage = "loaded" /\ task'.op = task.op /\ task'.position = task.position
          /\ task'.entries = disk[IndexFile].value.entries
      BY <1>2, <3>1 DEF Tasks
    <3>3. Listing(disk[IndexFile].value.entries)
      BY <1>2, <2>1 DEF Usable, Readable, CatalogInv, CacheFilesInv
    <3> QED BY <1>1, <1>3, <3>2, <3>3, ListingKept DEF CatalogTaskInv, Writing, WritingIndex
  <2>2. CASE ~Usable(Subject)
    <3> DEFINE E == Rebuilt(Current)
               c == SnapshotCatalog(Current, E)
    <3>1. task' = Write([task EXCEPT !.entries = E], IndexFile, c, FALSE)
      BY <1>2, <2>2 DEF LoadCatalog
    <3>2. Listing(E)
      BY RebuiltListing
    <3>3. c.record = Current /\ c.entries = E
      BY DEF SnapshotCatalog
    <3> HIDE DEF E, c
    <3>4. /\ task'.stage = "open" /\ task'.op = task.op /\ task'.position = task.position
          /\ task'.entries = E /\ task'.file = IndexFile /\ task'.value = c /\ task'.last = FALSE
      BY <1>2, <3>1 DEF Write, Tasks
    <3> QED BY <1>1, <1>3, <3>2, <3>3, <3>4, ListingKept DEF CatalogTaskInv, Writing, WritingIndex
  <2> QED BY <2>1, <2>2
<1> QED BY <1>1, <1>4, TaskCatalog

\* The new entry joins the catalog.
LEMMA UpdateCatalog == Inv /\ CatalogInv /\ UpdateIndex /\ BeforeInv' => CatalogInv'
<1> SUFFICES ASSUME Inv, CatalogInv, UpdateIndex, BeforeInv' PROVE CatalogInv'
  OBVIOUS
<1>1. /\ UNCHANGED <<disk, writer, replay, begun, created, result>> /\ task.stage = "loaded"
      /\ task # Idle /\ task.op = "create"
  BY IdleIsTask DEF UpdateIndex, NoRecordChange
<1>2. Subject = Current /\ task \in Tasks /\ replay = Current
  BY <1>1, SubjectCurrent DEF CatalogInv
<1>3. Snapshotted(task.position) /\ Listing(task.entries)
  BY <1>1 DEF CatalogInv, CatalogTaskInv
<1> DEFINE n == ReplaySnapshot(replay, task.position, task.version)
           E == AddEntry(task.entries)
           c == SnapshotCatalog(Current, E)
<1>4. n.record = Current /\ n.position = task.position
  BY <1>2 DEF ReplaySnapshot
<1>5. E = {e \in task.entries : e.position # task.position} \cup {n}
  BY DEF AddEntry
<1>6. c.record = Current /\ c.entries = E
  BY DEF SnapshotCatalog
<1>7. task' = Write(task, IndexFile, c, TRUE)
  BY <1>2 DEF UpdateIndex
<1> HIDE DEF n, E, c
<1>8. Listing(E)
  <2>1. \A e, f \in E : e.record = Current /\ (e.position = f.position => e = f)
    BY <1>3, <1>4, <1>5 DEF Listing
  <2>2. ASSUME NEW x \in created, x[1] = Current PROVE \E e \in E : e.position = x[2]
    <3>1. PICK e \in task.entries : e.position = x[2]
      BY <1>3, <2>2 DEF Listing
    <3> QED BY <1>4, <1>5, <3>1
  <2> QED BY <2>1, <2>2 DEF Listing
<1>9. \E e \in E : e.position = task.position
  BY <1>4, <1>5
<1>10. /\ task'.stage = "open" /\ task'.op = task.op /\ task'.position = task.position
       /\ task'.entries = task.entries /\ task'.file = IndexFile /\ task'.value = c
       /\ task'.last = TRUE
  BY <1>2, <1>7 DEF Write, Tasks
<1>11. CatalogTaskInv'
  BY <1>1, <1>3, <1>6, <1>8, <1>9, <1>10, ListingKept DEF CatalogTaskInv, Writing, WritingIndex
<1> QED BY <1>1, <1>11, TaskCatalog

\* A task that writes nothing more returns.
LEMMA EndCatalog == Inv /\ CatalogInv /\ (ListCatalog \/ InstallSnapshot) /\ BeforeInv' => CatalogInv'
<1> SUFFICES ASSUME Inv, CatalogInv, ListCatalog \/ InstallSnapshot, BeforeInv' PROVE CatalogInv'
  OBVIOUS
<1>1. /\ UNCHANGED <<disk, writer, begun>> /\ task.stage = "loaded" /\ task # Idle
      /\ task.op # "create"
  BY IdleIsTask DEF ListCatalog, InstallSnapshot, NoRecordChange
<1>2. Listing(task.entries)
  BY <1>1 DEF CatalogInv, CatalogTaskInv
<1>3. RecordIdentity = Current
  BY <1>1, SubjectCurrent, CurrentReadable DEF CatalogInv
<1>4. CASE ListCatalog
  <2>1. Return(TRUE, None) /\ replay' = replay /\ task.op = "catalog"
    BY <1>4 DEF ListCatalog, NoRecordChange
  <2> QED BY <1>1, <1>2, <2>1, ReturnCatalog
<1>5. CASE InstallSnapshot
  <2>1. PICK ok, cause :
          /\ Return(ok, cause) /\ (replay' = replay \/ replay' = Current)
          /\ ok => /\ disk[SnapshotFile(task.position)].value \in task.entries
                   /\ disk[SnapshotFile(task.position)].value.record = Current
                   /\ replay' = Current
    BY <1>3, <1>5 DEF InstallSnapshot
  <2> QED BY <1>1, <1>2, <2>1, ReturnCatalog
<1> QED BY <1>4, <1>5

\* A cache file takes its name.
LEMMA RenameCatalog == Inv /\ CatalogInv /\ RenamePartial /\ BeforeInv' => CatalogInv'
<1> SUFFICES ASSUME Inv, CatalogInv, RenamePartial, BeforeInv' PROVE CatalogInv'
  OBVIOUS
<1>1. /\ UNCHANGED <<writer, replay, begun>> /\ task.stage = "rename" /\ task # Idle
      /\ disk' = [disk EXCEPT ![task.file] = partial[task.file]]
      /\ Stored(disk) /\ AgeInv /\ CacheFilesInv /\ CatalogTaskInv
      /\ result = NoResult /\ begun \in Nat /\ Old(disk, begun + 1)
  BY IdleIsTask DEF RenamePartial, Rename, NoRecordChange, Inv, FilesInv, TypeOK, CatalogInv, AgeInv
<1>2. /\ task.file \in Names /\ task.file # RecordFile /\ task.value \in Value(task.file)
      /\ partial[task.file] = File(task.value, TRUE)
  BY <1>1 DEF Inv, FilesInv, TaskInv
<1>3. /\ disk'[task.file] # None /\ disk'[task.file].value = task.value
      /\ \A n \in Names \ {task.file} : disk'[n] = disk[n]
  <2>1. File(task.value, TRUE) # None /\ File(task.value, TRUE).value = task.value
    BY <1>2, FileIsFile
  <2> QED BY <1>1, <1>2, <2>1 DEF Stored, Files
<1>4. Current' = Current /\ disk'[RecordFile] = disk[RecordFile]
  BY <1>2, <1>3, NamesDistinct DEF Current
<1>5. /\ Subject = Current /\ Current \in Nat /\ disk[RecordFile] # None
      /\ writer = None /\ task \in Tasks /\ (task.op = "create" => replay = Current)
  BY <1>1, SubjectCurrent
<1>6. CASE task.file = IndexFile
  <2>1. /\ task.value.record = Current /\ Listing(task.value.entries) /\ Listing(task.entries)
        /\ task.last => /\ task.op = "create"
                        /\ \E e \in task.value.entries : e.position = task.position
        /\ task.op = "create" => Snapshotted(task.position)
    BY <1>1, <1>6 DEF CatalogTaskInv, Writing, WritingIndex
  <2>2. \A p \in Positions : Snapshotted(p)' <=> Snapshotted(p)
    <3>1. \A p \in Positions : disk'[SnapshotFile(p)] = disk[SnapshotFile(p)]
      BY <1>3, <1>6, NamesDistinct
    <3> QED BY <1>4, <3>1 DEF Snapshotted
  <2>a. disk[RecordFile].value.id = Current /\ Current <= begun
    BY <1>1, <1>5, CurrentReadable DEF Old, Current
  <2>b. Old(disk', begun + 1)
    BY <1>1, <1>3, <1>4, <1>5, <1>6, <2>1, <2>a DEF Old, Listing
  <2>3. CASE task.last
    <3>1. /\ task' = Idle /\ created' = created \cup {<<replay, task.position>>}
          /\ result'.op = "create"
      BY <1>1, <2>1, <2>3 DEF RenamePartial, Return
    <3>2. task.position \in Positions /\ replay = Current
      BY <1>5, <2>1, <2>3 DEF Inv, FilesInv, TaskInv
    <3>3. AgeInv'
      <4>1. \A c \in created' : c[1] \in Nat /\ c[1] <= begun /\ c[2] \in Positions
        BY <1>1, <1>5, <2>a, <3>1, <3>2 DEF AgeInv
      <4> QED BY <1>1, <1>4, <1>5, <2>b, <3>1, <4>1 DEF AgeInv
    <3>4. ASSUME NEW E, E = task.value.entries PROVE Listing(E)'
      <4>1. \A c \in created' : c[1] = Current => \E e \in E : e.position = c[2]
        <5>1. \A c \in created : c[1] = Current => \E e \in E : e.position = c[2]
          BY <2>1, <3>4 DEF Listing
        <5>2. \E e \in E : e.position = <<replay, task.position>>[2]
          BY <2>1, <2>3, <3>4
        <5> QED BY <3>1, <5>1, <5>2
      <4>2. \A e, f \in E : e.record = Current /\ (e.position = f.position => e = f)
        BY <2>1, <3>4 DEF Listing
      <4> QED BY <1>4, <4>1, <4>2 DEF Listing
    <3>5. CacheFilesInv'
      <4>1. \A c \in created' : c[1] = Current => Snapshotted(c[2])'
        BY <1>1, <2>1, <2>2, <2>3, <3>1, <3>2 DEF CacheFilesInv, AgeInv
      <4>2. Listing(disk[IndexFile].value.entries)'
        <5>1. disk'[IndexFile].value.entries = task.value.entries
          BY <1>3, <1>6
        <5> QED BY <3>4, <5>1
      <4> QED BY <1>4, <4>1, <4>2 DEF CacheFilesInv
    <3>6. CatalogTaskInv' /\ ResultListing'
      BY <3>1, IdleIsTask DEF CatalogTaskInv, Writing, WritingIndex, ResultListing, OpenedIsListed
    <3> QED BY <3>3, <3>5, <3>6 DEF CatalogInv
  <2>4. CASE ~task.last
    <3>1. task' = [task EXCEPT !.stage = "loaded"] /\ UNCHANGED <<created, result>>
      BY <1>1, <1>6, <2>4 DEF RenamePartial
    <3>2. /\ task'.stage = "loaded" /\ task'.op = task.op /\ task'.position = task.position
          /\ task'.entries = task.entries
      BY <1>5, <3>1 DEF Tasks
    <3>3. \A E : Listing(E)' <=> Listing(E)
      BY <1>4, <3>1 DEF Listing
    <3>4. AgeInv'
      BY <1>1, <1>4, <1>5, <2>b, <3>1 DEF AgeInv
    <3>5. CacheFilesInv'
      <4>1. \A c \in created' : c[1] = Current => Snapshotted(c[2])'
        BY <1>1, <2>2, <3>1 DEF CacheFilesInv, AgeInv
      <4>2. Listing(disk[IndexFile].value.entries)'
        <5>1. disk'[IndexFile].value.entries = task.value.entries
          BY <1>3, <1>6
        <5> QED BY <2>1, <3>3, <5>1
      <4> QED BY <1>4, <4>1, <4>2 DEF CacheFilesInv
    <3>6. CatalogTaskInv'
      <4>1. task.op = "create" => task.position \in Positions
        BY DEF Inv, FilesInv, TaskInv
      <4>2. Listing(task.entries)'
        BY <1>4, <2>1, <3>1, <3>2 DEF Listing
      <4>3. task'.op = "create" => Snapshotted(task.position)'
        <5>1. task.op = "create" => disk'[SnapshotFile(task.position)] = disk[SnapshotFile(task.position)]
          BY <1>3, <1>6, <4>1, NamesDistinct
        <5> QED BY <1>4, <2>1, <3>2, <5>1 DEF Snapshotted
      <4> QED BY <3>2, <4>2, <4>3 DEF CatalogTaskInv, Writing, WritingIndex
    <3>7. ResultListing'
      BY <1>1, <3>1 DEF ResultListing, OpenedIsListed, NoResult
    <3> QED BY <3>4, <3>5, <3>6, <3>7 DEF CatalogInv
  <2> QED BY <2>3, <2>4
<1>7. CASE task.file # IndexFile
  <2>1. /\ task.op = "create" /\ ~task.last /\ task.file = SnapshotFile(task.position)
        /\ task.value.record = Current /\ task.position \in Positions
    BY <1>1, <1>7 DEF CatalogTaskInv, Writing, Inv, FilesInv, TaskInv
  <2>2. task' = [task EXCEPT !.stage = "load"] /\ UNCHANGED <<created, result>>
    BY <1>1, <1>7, <2>1 DEF RenamePartial
  <2>3. /\ task'.stage = "load" /\ task'.op = task.op /\ task'.position = task.position
    BY <1>5, <2>2 DEF Tasks
  <2>4. \A p \in Positions : Snapshotted(p) => Snapshotted(p)'
    <3>1. \A p \in Positions : SnapshotFile(p) = task.file \/ disk'[SnapshotFile(p)] = disk[SnapshotFile(p)]
      BY <1>3, NamesDistinct
    <3> QED BY <1>3, <1>4, <2>1, <3>1 DEF Snapshotted
  <2>5. Snapshotted(task.position)'
    <3>1. /\ disk'[SnapshotFile(task.position)] # None
          /\ disk'[SnapshotFile(task.position)].value.record = Current
      BY <1>3, <2>1
    <3>2. disk'[SnapshotFile(task'.position)] = disk'[SnapshotFile(task.position)]
      BY <2>3
    <3> QED BY <1>4, <2>3, <3>1, <3>2 DEF Snapshotted
  <2>6. disk'[IndexFile] = disk[IndexFile]
    BY <1>3, <1>7, NamesDistinct
  <2>7. \A E : Listing(E)' <=> Listing(E)
    BY <1>4, <2>2 DEF Listing
  <2>8. AgeInv'
    <3>1. Old(disk', begun + 1)
      BY <1>1, <1>4, <2>6 DEF Old
    <3> QED BY <1>1, <1>4, <1>5, <2>2, <3>1 DEF AgeInv
  <2>9. CacheFilesInv'
    <3>1. \A c \in created' : c[1] = Current => Snapshotted(c[2])'
      BY <1>1, <2>2, <2>4 DEF CacheFilesInv, AgeInv
    <3> QED BY <1>1, <1>4, <2>6, <2>7, <3>1 DEF CacheFilesInv
  <2>10. CatalogTaskInv'
    BY <2>3, <2>5 DEF CatalogTaskInv, Writing, WritingIndex
  <2>11. ResultListing'
    BY <1>1, <2>2 DEF ResultListing, OpenedIsListed, NoResult
  <2> QED BY <2>8, <2>9, <2>10, <2>11 DEF CatalogInv
<1> QED BY <1>6, <1>7

\* Every step keeps what the catalog relies on.
LEMMA NextCatalog == Inv /\ CatalogInv /\ [Next]_vars => CatalogInv'
<1> SUFFICES ASSUME Inv, CatalogInv, [Next]_vars PROVE CatalogInv'
  OBVIOUS
<1>1. BeforeInv' /\ Inv'
  BY BeforeKept, NextInv
<1>2. CASE UNCHANGED vars
  <2>1. UNCHANGED <<disk, partial, writer, replay, task, result, begun, created>>
    BY <1>2 DEF vars
  <2>2. Current' = Current /\ Old(disk', begun' + 1) = Old(disk, begun + 1)
        /\ Old(disk', begun') = Old(disk, begun)
    BY <2>1 DEF Current
  <2>3. AgeInv'
    BY <2>1, <2>2 DEF CatalogInv, AgeInv
  <2> QED BY <1>1, <2>1, <2>3 DEF CatalogInv, CacheFilesInv, CatalogTaskInv, ResultListing,
              OpenedIsListed, Current, Listing, Snapshotted, Writing, WritingIndex
<1>3. CASE CacheStep
  BY <1>1, <1>3, BeginCatalogInv, WriteCatalog, RenameCatalog, LoadCatalogInv, UpdateCatalog,
     EndCatalog DEF CacheStep, Cache
<1> QED BY <1>1, <1>2, <1>3, RecordCatalog, CrashCatalog, PowerCatalog DEF Next, Fault, CacheStep

\* Whatever fails, wherever the process is killed and whichever renames a power loss
\* undoes, a catalog lists every snapshot that was reported as created for its
\* Record and that the power loss has left to be found, none of another Record, and
\* one for a position, and only a listed snapshot of the Record that is opened is
\* installed (snapshot_catalog, load_or_rebuild_catalog, create_snapshot,
\* install_snapshot).
THEOREM CatalogCorrect == Spec => []CatalogExact
<1>1. CatalogInv => CatalogExact
  BY DEF CatalogInv, ResultListing, Listing, CatalogExact, CreatedListed, ListedBelongs
<1> QED BY <1>1, InitCatalog, NextCatalog, InvAlways, PTL DEF Spec
==============================================================================
