------------------------------- MODULE Storage --------------------------------
(***************************************************************************)
(* The two SCSI targets of crates/se_device: the direct-access disk        *)
(* (scsi_disk.rs) and the read-only CD-ROM drive with a removable slot     *)
(* (scsi_cdrom.rs).                                                        *)
(*                                                                         *)
(* A target is a record and executing a CDB an operator that returns the   *)
(* changed target with the plan the bus carries out.  A CDB is a record:   *)
(* its opcode, whether all its bytes are there, an address, a count and    *)
(* one field for the flags its opcode knows.  Capacities and offsets are   *)
(* counted in the constants' units; the bytes of a reply are what they     *)
(* tell the initiator.                                                     *)
(***************************************************************************)
EXTENDS Integers, Sequences, FiniteSets

CONSTANTS
    SmallBlock,     \* BLOCK_BYTES and INITIAL_LOGICAL_BLOCK_BYTES (512)
    LargeBlock,     \* the other supported block size, STORAGE_ALIGNMENT (2048)
    LbaLimit,       \* blocks READ CAPACITY(10) can report (2^32)
    SixByteZero     \* blocks a zero count of READ(6) and WRITE(6) asks for (256)

ASSUME TargetConstants ==
    /\ SmallBlock \in Nat \ {0}
    /\ LargeBlock \in Nat \ {0}
    /\ LargeBlock % SmallBlock = 0
    /\ LbaLimit \in Nat \ {0}
    /\ SixByteZero \in Nat \ {0}

Divides(n, m) == m % n = 0


-----------------------------------------------------------------------------
\* SenseData: the sense keys and codes a target reports.

SenseCodes ==
    {"none", "unsupported opcode", "invalid field", "invalid parameters",
     "out of range", "write protected", "host error", "not ready",
     "no medium", "medium changed", "removal prevented"}

\* ScsiStatus, and the plans of ScsiCommandPlan.
Statuses == {"good", "check"}
Complete(status, data) == [plan |-> "complete", status |-> status, data |-> data]
CompleteGood(data) == Complete("good", data)
ReadStorage(offset, bytes) == [plan |-> "read", offset |-> offset, bytes |-> bytes]
WriteStorage(offset, bytes) == [plan |-> "write", offset |-> offset, bytes |-> bytes]
ReceiveDataOut(bytes) == [plan |-> "receive", bytes |-> bytes]
EjectPlan == [plan |-> "eject"]

Returns(target, plan) == [target |-> target, plan |-> plan]
Check(target, sense) == Returns([target EXCEPT !.sense = sense], Complete("check", <<>>))

\* A reply cut to the allocation length of its CDB: all of it, or nothing.
Truncated(reply, cdb) == IF cdb.count = 0 THEN <<>> ELSE <<reply>>

\* SenseData::fixed_response and request_sense: reporting clears the sense.
RequestSense(target, cdb) ==
    Returns([target EXCEPT !.sense = "none"],
            CompleteGood(Truncated(<<"sense", target.sense>>, cdb)))

\* complete_storage: a host failure becomes sense data.
CompleteStorage(target, succeeded) ==
    IF succeeded THEN [target |-> target, status |-> "good"]
    ELSE [target |-> [target EXCEPT !.sense = "host error"], status |-> "check"]

\* READ(6) and WRITE(6) name 256 blocks with a zero count, the ten-byte
\* commands none.
Blocks(cdb) ==
    IF cdb.op \in {"read6", "write6"} /\ cdb.count = 0 THEN SixByteZero ELSE cdb.count

-----------------------------------------------------------------------------
\* ScsiDisk.

\* try_new: the capacities the disk accepts, and the disk of one.
DiskSizeValid(bytes) ==
    /\ bytes # 0
    /\ Divides(SmallBlock, bytes)
    /\ bytes \div SmallBlock <= LbaLimit
NewDisk(bytes) == [blocks |-> bytes \div SmallBlock, ready |-> TRUE, sense |-> "none"]

DiskInquiry(disk, cdb) == Returns(disk, CompleteGood(Truncated(<<"disk">>, cdb)))
DiskModeSense(disk, cdb) ==
    Returns(disk, CompleteGood(Truncated(<<"block", SmallBlock>>, cdb)))

DiskTestUnitReady(disk) ==
    IF disk.ready THEN Returns(disk, CompleteGood(<<>>)) ELSE Check(disk, "not ready")

DiskReadCapacity(disk) ==
    IF ~disk.ready THEN Check(disk, "not ready")
    ELSE Returns(disk, CompleteGood(<<<<"capacity", disk.blocks - 1, SmallBlock>>>>))

\* read_defect_data: an empty list for the selectors the disk supports.
DiskReadDefectData(disk, cdb) ==
    IF ~disk.ready THEN Check(disk, "not ready")
    ELSE IF ~cdb.flag THEN Check(disk, "invalid field")
    ELSE Returns(disk, CompleteGood(Truncated(<<"no defects">>, cdb)))

\* read_blocks and write_blocks share their checks.
DiskTransfer(disk, cdb, plan) ==
    IF ~disk.ready THEN Check(disk, "not ready")
    ELSE IF Blocks(cdb) = 0 THEN Returns(disk, CompleteGood(<<>>))
    ELSE IF cdb.lba + Blocks(cdb) > disk.blocks THEN Check(disk, "out of range")
    ELSE Returns(disk, plan)

DiskReadBlocks(disk, cdb) ==
    DiskTransfer(disk, cdb, ReadStorage(cdb.lba * SmallBlock, Blocks(cdb) * SmallBlock))
DiskWriteBlocks(disk, cdb) ==
    DiskTransfer(disk, cdb, WriteStorage(cdb.lba * SmallBlock, Blocks(cdb) * SmallBlock))

DiskStartStop(disk, cdb) ==
    Returns([disk EXCEPT !.ready = cdb.flag], CompleteGood(<<>>))

DiskOpcodes ==
    {"test", "sense", "read6", "write6", "inquiry", "mode sense", "start",
     "capacity", "read", "write", "defects"}

\* execute.
DiskExecute(disk, cdb) ==
    CASE cdb.op \notin DiskOpcodes -> Check(disk, "unsupported opcode")
      [] cdb.op \in DiskOpcodes /\ ~cdb.whole -> Check(disk, "invalid field")
      [] cdb.op = "test" /\ cdb.whole -> DiskTestUnitReady(disk)
      [] cdb.op = "sense" /\ cdb.whole -> RequestSense(disk, cdb)
      [] cdb.op \in {"read6", "read"} /\ cdb.whole -> DiskReadBlocks(disk, cdb)
      [] cdb.op \in {"write6", "write"} /\ cdb.whole -> DiskWriteBlocks(disk, cdb)
      [] cdb.op = "inquiry" /\ cdb.whole -> DiskInquiry(disk, cdb)
      [] cdb.op = "mode sense" /\ cdb.whole -> DiskModeSense(disk, cdb)
      [] cdb.op = "start" /\ cdb.whole -> DiskStartStop(disk, cdb)
      [] cdb.op = "capacity" /\ cdb.whole -> DiskReadCapacity(disk)
      [] cdb.op = "defects" /\ cdb.whole -> DiskReadDefectData(disk, cdb)

\* accepts_snapshot.
DiskAccepts(disk, state) == state.blocks = disk.blocks

Disks ==
    [blocks : 1..LbaLimit, ready : BOOLEAN, sense : SenseCodes]

-----------------------------------------------------------------------------
\* ScsiCdrom.  medium is the capacity of the installed medium, 0 for none.

SupportedBlocks == {SmallBlock, LargeBlock}

\* validate_medium_size, validate_medium.
MediumSizeValid(bytes) ==
    /\ bytes # 0
    /\ Divides(LargeBlock, bytes)
    /\ bytes \div SmallBlock <= LbaLimit

\* new_empty and try_new.
EmptyDrive ==
    [medium |-> 0, block |-> SmallBlock, started |-> FALSE, prevented |-> FALSE,
     attention |-> FALSE, sense |-> "none"]
NewDrive(bytes) == [EmptyDrive EXCEPT !.medium = bytes, !.started = TRUE]

DriveInquiry(drive, cdb) == Returns(drive, CompleteGood(Truncated(<<"cdrom">>, cdb)))
DriveModeSense(drive, cdb) ==
    Returns(drive, CompleteGood(Truncated(<<"block", drive.block>>, cdb)))

\* mode_select waits for the parameter list its CDB announces.
DriveModeSelect(drive, cdb) ==
    IF ~cdb.flag THEN Check(drive, "invalid field")
    ELSE Returns(drive, ReceiveDataOut(cdb.count))

\* complete_mode_select, complete_data_out: parameters is the block size a
\* complete parameter list asks for, 0 for a list that is not well formed.
CompleteModeSelect(drive, parameters) ==
    IF \/ parameters \notin SupportedBlocks
       \/ drive.medium # 0 /\ ~Divides(parameters, drive.medium)
    THEN [target |-> [drive EXCEPT !.sense = "invalid parameters"], status |-> "check"]
    ELSE [target |-> [drive EXCEPT !.block = parameters], status |-> "good"]

\* ready_medium_bytes, for the commands that need a started medium.
Ready(drive, result) ==
    IF drive.medium = 0 THEN Check(drive, "no medium")
    ELSE IF ~drive.started THEN Check(drive, "not ready")
    ELSE result

\* request_ejection: START STOP UNIT with LOEJ and the vendor eject.
RequestEjection(drive) ==
    IF drive.medium = 0 THEN Returns(drive, CompleteGood(<<>>))
    ELSE IF drive.prevented THEN Check(drive, "removal prevented")
    ELSE Returns(drive, EjectPlan)

\* start_stop: the count of the CDB is its LOEJ bit, the flag its START bit.
DriveStartStop(drive, cdb) ==
    IF cdb.count # 0 /\ ~cdb.flag THEN RequestEjection(drive)
    ELSE Returns([drive EXCEPT !.started = cdb.flag], CompleteGood(<<>>))

\* read_toc: format 0 of the one data track.
DriveReadToc(drive, cdb) ==
    IF ~cdb.flag THEN Check(drive, "invalid field")
    ELSE Ready(drive, Returns(drive, CompleteGood(Truncated(<<"toc">>, cdb))))

DrivePreventAllow(drive, cdb) ==
    IF cdb.lba # 0 THEN Check(drive, "invalid field")
    ELSE Returns([drive EXCEPT !.prevented = cdb.flag], CompleteGood(<<>>))

DriveReadCapacity(drive) ==
    Ready(drive,
          IF drive.medium \div drive.block \notin 1..LbaLimit
          THEN Check(drive, "out of range")
          ELSE Returns(drive, CompleteGood(
                   <<<<"capacity", drive.medium \div drive.block - 1, drive.block>>>>)))

\* read_6, read_blocks.
DriveReadBlocks(drive, cdb) ==
    Ready(drive,
          IF Blocks(cdb) = 0 THEN Returns(drive, CompleteGood(<<>>))
          ELSE IF cdb.lba + Blocks(cdb) > drive.medium \div drive.block
               THEN Check(drive, "out of range")
          ELSE Returns(drive, ReadStorage(cdb.lba * drive.block, Blocks(cdb) * drive.block)))

DriveTestUnitReady(drive) == Ready(drive, Returns(drive, CompleteGood(<<>>)))

DriveOpcodes ==
    {"test", "sense", "read6", "inquiry", "mode select", "mode sense", "start",
     "prevent", "capacity", "read", "write", "toc", "eject", "to cdrom"}

\* execute, past a pending unit attention.
DriveCommand(drive, cdb) ==
    CASE cdb.op \notin DriveOpcodes -> Check(drive, "unsupported opcode")
      [] cdb.op \in DriveOpcodes /\ ~cdb.whole -> Check(drive, "invalid field")
      [] cdb.op = "test" /\ cdb.whole -> DriveTestUnitReady(drive)
      [] cdb.op = "sense" /\ cdb.whole -> RequestSense(drive, cdb)
      [] cdb.op \in {"read6", "read"} /\ cdb.whole -> DriveReadBlocks(drive, cdb)
      [] cdb.op = "inquiry" /\ cdb.whole -> DriveInquiry(drive, cdb)
      [] cdb.op = "mode select" /\ cdb.whole -> DriveModeSelect(drive, cdb)
      [] cdb.op = "mode sense" /\ cdb.whole -> DriveModeSense(drive, cdb)
      [] cdb.op = "start" /\ cdb.whole -> DriveStartStop(drive, cdb)
      [] cdb.op = "prevent" /\ cdb.whole -> DrivePreventAllow(drive, cdb)
      [] cdb.op = "capacity" /\ cdb.whole -> DriveReadCapacity(drive)
      [] cdb.op = "write" /\ cdb.whole -> Check(drive, "write protected")
      [] cdb.op = "toc" /\ cdb.whole -> DriveReadToc(drive, cdb)
      [] cdb.op = "eject" /\ cdb.whole -> RequestEjection(drive)
      [] cdb.op = "to cdrom" /\ cdb.whole -> Returns(drive, CompleteGood(<<>>))

\* execute: every command but INQUIRY and REQUEST SENSE reports a pending
\* unit attention instead of being carried out.
DriveExecute(drive, cdb) ==
    IF drive.attention /\ cdb.op \notin {"inquiry", "sense"}
    THEN Check([drive EXCEPT !.attention = FALSE], "medium changed")
    ELSE DriveCommand(drive, cdb)

\* medium_inserted and medium_removed: only a change the host made on its
\* own raises a unit attention.
MediumInserted(drive, bytes, origin) ==
    [drive EXCEPT !.medium = bytes, !.started = TRUE,
                  !.attention = @ \/ origin = "External"]
\* Mutant: the target keeps the capacity of a medium that is gone.
MediumRemovedHalfway(drive, origin) ==
    [drive EXCEPT !.started = FALSE, !.attention = @ \/ origin = "External"]
MediumRemoved(drive, origin) ==
    [drive EXCEPT !.medium = 0, !.started = FALSE,
                  !.attention = @ \/ origin = "External"]
ReleaseRemovalPrevention(drive) == [drive EXCEPT !.prevented = FALSE]

\* accepts_cdrom_snapshot.
DriveAccepts(drive, state) ==
    /\ state.block \in SupportedBlocks
    /\ \/ state.medium = 0
       \/ drive.medium = state.medium /\ Divides(state.block, state.medium)

Drives ==
    [medium : 0..(LbaLimit * SmallBlock), block : SupportedBlocks, started : BOOLEAN,
     prevented : BOOLEAN, attention : BOOLEAN, sense : SenseCodes]

-----------------------------------------------------------------------------
(***************************************************************************)
(* The storage objects behind a fixed disk: a host file (crates/se_session *)
(* file_storage.rs), and the page overlay that Recording and Replay put    *)
(* over a host file they only read (recording_storage.rs,                  *)
(* replay_storage.rs, and RecordStorage and ReplayStorage of               *)
(* crates/se_runtime record.rs).                                           *)
(*                                                                         *)
(* A host file is a function from its offsets; the overlay is a function   *)
(* from the indexes of the pages it holds, each a function from the        *)
(* offsets inside the page.  The last page of a file may be short.         *)
(***************************************************************************)

CONSTANT PageBytes      \* STORAGE_PAGE_BYTES

ASSUME PageAssumption == PageBytes \in Nat \ {0}

Least(a, b) == IF a < b THEN a ELSE b

SizeOf(base) == Cardinality(DOMAIN base)
NoPages == << >>

PageOf(offset) == offset \div PageBytes
PageOffset(page) == page * PageBytes
PageLength(page, size) == Least(size - PageOffset(page), PageBytes)

\* The pages first_page..=last_page of a range.
PagesOf(offset, length) == PageOf(offset) .. PageOf(offset + length - 1)

\* read_exact_at of the base: what the file holds in the range.
BaseRead(base, offset, length) == [i \in 0 .. length - 1 |-> base[offset + i]]

\* overlay_cow_pages over a completed base read.
OverlayRead(pages, base, offset, length) ==
    [i \in 0 .. length - 1 |->
        IF PageOf(offset + i) \in DOMAIN pages
        THEN pages[PageOf(offset + i)][(offset + i) % PageBytes]
        ELSE base[offset + i]]

\* One page after the bytes of the write that lie in it are copied.
Written(page, contents, offset, data) ==
    [i \in DOMAIN contents |->
        IF PageOffset(page) + i \in offset .. offset + Len(data) - 1
        THEN data[PageOffset(page) + i - offset + 1]
        ELSE contents[i]]

\* The contents a write starts from: the overlay's page, or the base's.
FirstContents(pages, base, page) ==
    IF page \in DOMAIN pages THEN pages[page]
    ELSE BaseRead(base, PageOffset(page), PageLength(page, SizeOf(base)))

\* write_all_at: pages in ascending order, until the base read of a page the
\* overlay does not hold yet fails.  bad is that page, or -1.
Reached(pages, touched, bad) ==
    {p \in touched : bad \in touched \ DOMAIN pages => p < bad}
OverlayWrite(pages, base, offset, data, bad) ==
    [p \in DOMAIN pages \cup Reached(pages, PagesOf(offset, Len(data)), bad) |->
        IF p \in PagesOf(offset, Len(data)) /\ (p \in Reached(pages, PagesOf(offset, Len(data)), bad))
        THEN Written(p, FirstContents(pages, base, p), offset, data)
        ELSE pages[p]]

\* write_all_at of HostFileStorage; a failing host may have written the
\* first n bytes of the data.
HostWrite(base, offset, data, n) ==
    [i \in DOMAIN base |->
        IF i \in offset .. offset + n - 1 THEN data[i - offset + 1] ELSE base[i]]

\* What the machine sees through the overlay.
View(pages, base) == OverlayRead(pages, base, 0, SizeOf(base))
=============================================================================
