-------------------------------- MODULE Media --------------------------------
(***************************************************************************)
(* Storage and removable media: a disk and a CD-ROM drive on the SCSI bus, *)
(* the guest that sends them commands, the host that changes the medium of *)
(* the drive through a catalog it sampled earlier, and the sessions        *)
(* (Normal, Recording, Replay and a Replay restored from a snapshot) that  *)
(* install machines over the same host files.                              *)
(*                                                                         *)
(* The targets and the storage objects are those of Storage.  The bus      *)
(* is kept to what decides about media: the connection, its command and    *)
(* the data transaction (the phases are in ScsiBus).                       *)
(***************************************************************************)
EXTENDS Storage

CONSTANTS
    Discs,              \* host files a user may insert as optical discs
    DiscBytes,          \* their capacities
    DiskImage,          \* the disk image before the first session
    GuestData,          \* the byte the guest writes
    DiskCdbs,           \* commands the guest sends to the disk
    DriveCdbs,          \* commands the guest sends to the drive
    Parameters,         \* block sizes of the guest's MODE SELECT lists
    Sessions,           \* modes the first machine may be installed in
    ColdDiscs,          \* discs (or NoDisc) a configuration may name
    ChunkBytes,         \* bytes one transfer step may move
    MaxGeneration,      \* bound: machines installed
    MaxFaults,          \* bound: failures of the host's storage
    MaxCommands,        \* bound: commands the guest sends
    MaxHostChanges      \* bound: insertions and ejections by the host

VARIABLES
    mode,       \* ActiveMode of the runtime
    generation, \* machine_generation
    disk,       \* ScsiDisk
    drive,      \* ScsiCdrom
    slot,       \* the medium the bus holds for the drive
    bus,        \* the connection and the transaction of ScsiBus
    base,       \* the host file of the disk
    overlay,    \* the pages over it, and whether the storage failed
    recorded,   \* what the Record of this history names: disc and image
    snapshot,   \* the last Replay snapshot
    menu,       \* the Media menu: what it offered when it was last shown, and of which machine
    faults, changes, commands,
    work,       \* which target the guest addresses in this behaviour
    aware,      \* history: the medium the guest has been told of
    flat        \* history: the disk as a plain array of bytes

vars == <<mode, generation, disk, drive, slot, bus, base, overlay, recorded,
          snapshot, menu, faults, changes, commands, work, aware,
          flat>>
machine == <<disk, drive, slot, bus>>

NoDisc == "no disc"
Bytes(disc) == IF disc = NoDisc THEN 0 ELSE DiscBytes[disc]

NoTarget == "none"
NoTransfer == [kind |-> "none", offset |-> 0, remaining |-> 0, list |-> 0]
FreeBus == [target |-> NoTarget, done |-> FALSE, txn |-> NoTransfer]
Busy == bus # FreeBus

NoOverlay == [pages |-> NoPages, failed |-> FALSE]
NoRecord == [exists |-> FALSE, disc |-> NoDisc, image |-> DiskImage]
NoSnapshot == [taken |-> FALSE]

\* ScsiDisk::try_new has accepted the image.
ASSUME DiskImageAccepted == DiskSizeValid(SizeOf(DiskImage))

\* A file has its bytes from offset 0 on; a CDB has its fields; a transfer step
\* moves something; a configuration names discs ScsiCdrom::try_new accepts.
ASSUME MediaAssumption ==
    /\ IsFiniteSet(DOMAIN DiskImage)
    /\ DOMAIN DiskImage = 0 .. SizeOf(DiskImage) - 1
    /\ DiskImage = [i \in DOMAIN DiskImage |-> DiskImage[i]]
    /\ NoDisc \notin Discs
    /\ \A disc \in Discs : DiscBytes[disc] \in Nat
    /\ ColdDiscs \subseteq {NoDisc} \cup {disc \in Discs : MediumSizeValid(DiscBytes[disc])}
    /\ \A cdb \in DiskCdbs \cup DriveCdbs :
          cdb.lba \in Nat /\ cdb.count \in Nat /\ cdb.whole \in BOOLEAN /\ cdb.flag \in BOOLEAN
    /\ ChunkBytes \subseteq Nat \ {0}
    /\ Parameters \subseteq Nat
    /\ MaxGeneration \in Nat \ {0}

Overlaid == mode # "Normal"

-----------------------------------------------------------------------------
\* Installing a machine.

\* new_with_memory, attach, attach_removable_empty, attach_backing: a cold
\* medium carries no unit attention.
ColdDisk == NewDisk(SizeOf(base))
ColdDrive(disc) ==
    IF disc = NoDisc THEN MediumRemoved(EmptyDrive, "ColdAttach")
    ELSE MediumInserted(NewDrive(Bytes(disc)), Bytes(disc), "ColdAttach")

ColdMachine(disc) ==
    /\ disk' = ColdDisk
    /\ drive' = ColdDrive(disc)
    /\ slot' = disc
    /\ bus' = FreeBus
    /\ aware' = disc

Installable == generation < MaxGeneration /\ mode # "Recording"

\* A Normal session opens the disk image for writing.
InstallNormal(disc) ==
    /\ Installable
    /\ mode' = "Normal"
    /\ generation' = generation + 1
    /\ ColdMachine(disc)
    /\ overlay' = NoOverlay
    /\ flat' = base
    /\ UNCHANGED <<base, recorded, snapshot, menu, faults, changes, commands,
                   work>>

\* A Recording names its files and only reads them.
InstallRecording(disc) ==
    /\ Installable
    /\ mode' = "Recording"
    /\ generation' = generation + 1
    /\ ColdMachine(disc)
    /\ overlay' = NoOverlay
    /\ recorded' = [exists |-> TRUE, disc |-> disc, image |-> base]
    /\ snapshot' = NoSnapshot
    /\ flat' = base
    /\ UNCHANGED <<base, menu, faults, changes, commands, work>>

\* A Replay opens the same files; their identities must match the Record.
ReplayInstallable == Installable /\ recorded.exists /\ base = recorded.image

InstallReplay ==
    /\ ReplayInstallable
    /\ mode' = "Replaying"
    /\ generation' = generation + 1
    /\ ColdMachine(recorded.disc)
    /\ overlay' = NoOverlay
    /\ flat' = base
    /\ UNCHANGED <<base, recorded, snapshot, menu, faults, changes, commands,
                   work>>

\* stop_recording, complete_replay: the machine stays, the mode does not.
FinishSession ==
    /\ mode \in {"Recording", "Replaying"}
    /\ mode' = IF mode = "Recording" THEN "RecordCompleted" ELSE "ReplayCompleted"
    /\ UNCHANGED <<generation, machine, base, overlay, recorded, snapshot, menu,
                   faults, changes, commands, aware, flat, work>>

\* check_record_failure, check_replay_storage_failure: the worker notices
\* that the storage failed.
NoticeFailure ==
    /\ overlay.failed
    /\ mode \in {"Recording", "Replaying"}
    /\ mode' = IF mode = "Recording" THEN "RecordFailed" ELSE "ReplayDiverged"
    /\ UNCHANGED <<generation, machine, base, overlay, recorded, snapshot, menu,
                   faults, changes, commands, aware, flat, work>>

-----------------------------------------------------------------------------
\* Snapshots of a Replay.

\* create_replay_snapshot, ScsiBus::snapshot: the protocol state and the
\* overlay, without the storage objects.  The last three fields are history.
TakeSnapshot ==
    /\ mode = "Replaying"
    /\ ~overlay.failed
    /\ snapshot' = [taken |-> TRUE, disk |-> disk, drive |-> drive, bus |-> bus,
                    pages |-> overlay.pages,
                    slot |-> slot, aware |-> aware, flat |-> flat]
    /\ UNCHANGED <<mode, generation, machine, base, overlay, recorded, menu,
                   faults, changes, commands, aware, flat, work>>

\* backing_accepts_snapshot.
BackingAccepts(disc, state) == state.medium = 0 \/ Bytes(disc) = state.medium

\* validate_snapshot_transaction: a storage transfer fits the medium the slot
\* holds once the snapshot is restored.
TransactionFits(s) ==
    s.bus.txn.kind \in {"read", "write"} =>
        s.bus.txn.offset + s.bus.txn.remaining <=
            IF s.bus.target = "drive" THEN s.drive.medium ELSE SizeOf(base)

\* ScsiBus::restore_snapshot on the cold machine of a configuration.
Accepts(disc, s) ==
    /\ DiskAccepts(ColdDisk, s.disk)
    /\ DriveAccepts(ColdDrive(disc), s.drive)
    /\ BackingAccepts(disc, s.drive)
    /\ TransactionFits(s)

\* Mutant: restoring keeps the medium of the cold machine.
RestoredSlotKept(disc, s) == disc
\* An empty slot of the snapshot clears the cold medium.
RestoredSlot(disc, s) == IF s.drive.medium = 0 THEN NoDisc ELSE disc

InstallSnapshot ==
    /\ ReplayInstallable
    /\ snapshot.taken
    /\ Accepts(recorded.disc, snapshot)
    /\ mode' = "Replaying"
    /\ generation' = generation + 1
    /\ disk' = snapshot.disk
    /\ drive' = snapshot.drive
    /\ slot' = RestoredSlot(recorded.disc, snapshot)
    /\ bus' = snapshot.bus
    /\ overlay' = [pages |-> snapshot.pages, failed |-> FALSE]
    /\ aware' = snapshot.aware
    /\ flat' = snapshot.flat
    /\ UNCHANGED <<base, recorded, snapshot, menu, faults, changes, commands,
                   work>>

-----------------------------------------------------------------------------
\* The host changes the medium of the drive.

\* media_slot_key: the identity of the drive's slot, which nobody parses.
CdromSlot == "scsi.4.0"

\* removable_media_slots: a behaviour about the disk configures no drive.
RemovableMediaSlots == IF work = "drive" THEN {CdromSlot} ELSE {}

\* MediaSlotState.
MediaSlotState == [size |-> drive.medium, prevented |-> drive.prevented]

MediaSlotDescriptor(key) == [key |-> key, state |-> MediaSlotState]

\* media_catalog of the machine: the state is the one of this moment.
MediaCatalog == {MediaSlotDescriptor(key) : key \in RemovableMediaSlots}
RuntimeMediaCatalog == [generation |-> generation, slots |-> MediaCatalog]

\* MediaCatalog::get: keys are unique.
Get(slots, key) == {descriptor \in slots : descriptor.key = key}

\* What the Media menu offers for a slot it sampled.
Offers(state) ==
    IF mode # "Normal" THEN {}
    ELSE IF state.size = 0 THEN {"insert"}
    ELSE IF state.prevented THEN {"force"} ELSE {"eject"}

NoMenu == [generation |-> 0, offers |-> {}]
MenuOf(catalog) ==
    LET offers == UNION {{d.key} \X Offers(d.state) : d \in catalog.slots}
    IN  IF offers = {} THEN NoMenu ELSE [generation |-> catalog.generation, offers |-> offers]

\* The menu is about to be shown: the sample stays until it is used.
RebuildMediaMenu ==
    /\ menu # MenuOf(RuntimeMediaCatalog)
    /\ menu' = MenuOf(RuntimeMediaCatalog)
    /\ UNCHANGED <<mode, generation, machine, base, overlay, recorded, snapshot,
                   faults, changes, commands, aware, flat, work>>

\* resolve_media_slot, in the thread of the window.
ResolveMediaSlot(key) ==
    IF menu.generation # RuntimeMediaCatalog.generation THEN "StaleHandle"
    ELSE IF Get(RuntimeMediaCatalog.slots, key) = {} THEN "UnknownSlot" ELSE "resolved"

\* require_media_change, in the worker.
RequireMediaChange(key) ==
    IF menu.generation # generation THEN "StaleHandle"
    ELSE IF Get(MediaCatalog, key) = {} THEN "UnknownSlot"
    ELSE IF mode # "Normal" THEN "MutationUnavailable" ELSE "allowed"

\* Mutant: the guest is not told of a medium the host inserted.
InsertedByHostSilently(disc) == MediumInserted(drive, Bytes(disc), "GuestCommand")
\* medium_inserted of a host's insertion.
InsertedByHost(disc) == MediumInserted(drive, Bytes(disc), "External")

\* What the bus, the machine, the runtime and the session report.
ScsiMediaErrors ==
    {"InvalidAddress", "NoTarget", "NotRemovable", "MediumAlreadyPresent",
     "MediumNotPresent", "MediumRemovalPrevented", "InvalidMedium", "BusBusy"}
MachineMediaErrors ==
    {"UnknownSlot", "MediumAlreadyPresent", "MediumNotPresent", "MediumRemovalPrevented",
     "InvalidMedium", "Busy"}
RuntimeMediaErrors == MachineMediaErrors \cup {"StaleHandle", "MutationUnavailable"}
SessionMediaErrors == RuntimeMediaErrors \cup {"OpenMedium"}

MachineMediaError(outcome) ==
    IF outcome = "BusBusy" THEN "Busy"
    ELSE IF outcome \in {"InvalidAddress", "NoTarget", "NotRemovable"} THEN "UnknownSlot"
    ELSE outcome

\* insert_medium and eject_medium of the bus, in the order of their checks.
InsertMedium(disc) ==
    IF slot # NoDisc THEN "MediumAlreadyPresent"
    ELSE IF Busy THEN "BusBusy"
    ELSE IF ~MediumSizeValid(Bytes(disc)) THEN "InvalidMedium" ELSE "changed"
EjectMedium(force) ==
    IF slot = NoDisc THEN "MediumNotPresent"
    ELSE IF Busy THEN "BusBusy"
    ELSE IF drive.prevented /\ ~force THEN "MediumRemovalPrevented" ELSE "changed"

\* removable_media_address.
RemovableMediaAddress(key) == {candidate \in RemovableMediaSlots : candidate = key}

\* insert_media and eject_media of the machine.
MachineInserts(key, disc) ==
    IF RemovableMediaAddress(key) = {} THEN "UnknownSlot" ELSE MachineMediaError(InsertMedium(disc))
MachineEjects(key, force) ==
    IF RemovableMediaAddress(key) = {} THEN "UnknownSlot" ELSE MachineMediaError(EjectMedium(force))

\* insert_media, insert_media_from_path: the file is opened between the two
\* checks of the handle, the second of which decides.
InsertOutcome(key, disc, opens) ==
    IF ResolveMediaSlot(key) # "resolved" THEN ResolveMediaSlot(key)
    ELSE IF ~opens THEN "OpenMedium"
    ELSE IF RequireMediaChange(key) # "allowed" THEN RequireMediaChange(key)
    ELSE MachineInserts(key, disc)
EjectOutcome(key, force) ==
    IF ResolveMediaSlot(key) # "resolved" THEN ResolveMediaSlot(key)
    ELSE IF RequireMediaChange(key) # "allowed" THEN RequireMediaChange(key)
    ELSE MachineEjects(key, force)

\* The user takes what the menu offered, which closes it.
Chosen(key, offer) ==
    /\ <<key, offer>> \in menu.offers
    /\ changes < MaxHostChanges
    /\ changes' = changes + 1
    /\ menu' = NoMenu
    /\ UNCHANGED <<mode, generation, disk, bus, base, overlay, recorded, snapshot,
                   faults, commands, aware, flat, work>>

HostInserts(key, disc, opens) ==
    /\ Chosen(key, "insert")
    /\ IF InsertOutcome(key, disc, opens) = "changed"
       THEN slot' = disc /\ drive' = InsertedByHost(disc)
       ELSE UNCHANGED <<slot, drive>>

\* A forced ejection overrides and clears the guest's lock.
HostEjects(key, offer) ==
    /\ Chosen(key, offer)
    /\ IF EjectOutcome(key, offer = "force") = "changed"
       THEN /\ slot' = NoDisc
            /\ drive' = MediumRemoved(IF offer = "force" THEN ReleaseRemovalPrevention(drive)
                                      ELSE drive, "External")
       ELSE UNCHANGED <<slot, drive>>

-----------------------------------------------------------------------------
\* The guest.

Select(target) ==
    /\ ~Busy
    /\ commands < MaxCommands
    /\ commands' = commands + 1
    /\ bus' = [FreeBus EXCEPT !.target = target]
    /\ UNCHANGED <<mode, generation, disk, drive, slot, base, overlay, recorded,
                   snapshot, menu, faults, changes, aware, flat, work>>

\* The initiator takes the status and the final message: the bus is free.
Release ==
    /\ bus.done
    /\ bus' = FreeBus
    /\ UNCHANGED <<mode, generation, disk, drive, slot, base, overlay, recorded,
                   snapshot, menu, faults, changes, commands, aware, flat, work>>

\* cancel_transaction, by a reset of the controller or of the machine.
Cancel ==
    /\ Busy
    /\ bus' = FreeBus
    /\ UNCHANGED <<mode, generation, disk, drive, slot, base, overlay, recorded,
                   snapshot, menu, faults, changes, commands, aware, flat, work>>

Begin(kind, offset, bytes) ==
    [bus EXCEPT !.txn = [kind |-> kind, offset |-> offset, remaining |-> bytes, list |-> 0]]
Done == [bus EXCEPT !.done = TRUE, !.txn = NoTransfer]

\* start_storage_transfer.
StartsIn(plan, size) == plan.offset + plan.bytes <= size

\* start_command for a plan that leaves the medium where it is.
Start(result, size) ==
    LET plan == result.plan IN
    CASE plan.plan = "complete" ->
            [target |-> result.target,
             bus |-> IF plan.data = <<>> THEN Done ELSE Begin("immediate", 0, 1)]
      [] plan.plan = "receive" ->
            IF plan.bytes = 0
            THEN [target |-> CompleteModeSelect(result.target, 0).target, bus |-> Done]
            ELSE [target |-> result.target, bus |-> Begin("select", 0, plan.bytes)]
      [] plan.plan \in {"read", "write"} ->
            IF StartsIn(plan, size)
            THEN [target |-> result.target, bus |-> Begin(plan.plan, plan.offset, plan.bytes)]
            ELSE [target |-> CompleteStorage(result.target, FALSE).target, bus |-> Done]

CommandDue(target) == bus.target = target /\ ~bus.done /\ bus.txn = NoTransfer

DiskCommand(cdb) ==
    /\ CommandDue("disk")
    /\ \E s \in {Start(DiskExecute(disk, cdb), SizeOf(base))} :
          disk' = s.target /\ bus' = s.bus
    /\ UNCHANGED <<mode, generation, drive, slot, base, overlay, recorded,
                   snapshot, menu, faults, changes, commands, aware, flat, work>>

DriveCommandStep(cdb) ==
    /\ CommandDue("drive")
    /\ \E r \in {DriveExecute(drive, cdb)} :
          /\ r.plan # EjectPlan
          /\ \E s \in {Start(r, Bytes(slot))} : drive' = s.target /\ bus' = s.bus
          \* MEDIUM CHANGED tells the guest to look again.
          /\ aware' = IF drive.attention /\ ~r.target.attention /\ r.plan.plan = "complete"
                         /\ r.plan.status = "check"
                      THEN slot ELSE aware
    /\ UNCHANGED <<mode, generation, disk, slot, base, overlay, recorded, snapshot,
                   menu, faults, changes, commands, flat, work>>

\* eject_guest_medium: the guest asked for it and gets no unit attention.
GuestEjects(cdb) ==
    /\ CommandDue("drive")
    /\ DriveExecute(drive, cdb).plan = EjectPlan
    /\ drive' = IF slot = NoDisc THEN drive ELSE MediumRemoved(drive, "GuestCommand")
    /\ slot' = NoDisc
    /\ bus' = Done
    /\ aware' = NoDisc
    /\ UNCHANGED <<mode, generation, disk, base, overlay, recorded, snapshot,
                   menu, faults, changes, commands, flat, work>>

\* The transaction after n of its bytes moved; status phase after the last.
Moved(n) ==
    IF n = bus.txn.remaining THEN Done
    ELSE [bus EXCEPT !.txn.offset = @ + n, !.txn.remaining = @ - n]

\* transfer_immediate_data_in, transfer_target_data_out and
\* complete_data_out.
MoveImmediate(n) ==
    /\ bus.txn.kind = "immediate"
    /\ bus' = Moved(n)
    /\ UNCHANGED <<mode, generation, disk, drive, slot, base, overlay, recorded,
                   snapshot, menu, faults, changes, commands, aware, flat, work>>

MoveParameters(n, parameters) ==
    /\ bus.txn.kind = "select"
    /\ bus' = Moved(n)
    /\ IF n = bus.txn.remaining
       THEN drive' = CompleteModeSelect(drive, parameters).target
       ELSE UNCHANGED drive
    /\ UNCHANGED <<mode, generation, disk, slot, base, overlay, recorded, snapshot,
                   menu, faults, changes, commands, aware, flat, work>>

\* A failure of the host's storage ends the transaction with sense data.
StorageFails(target) ==
    /\ bus' = Done
    /\ IF target = "disk"
       THEN disk' = CompleteStorage(disk, FALSE).target /\ UNCHANGED drive
       ELSE drive' = CompleteStorage(drive, FALSE).target /\ UNCHANGED disk

\* ensure_replay_storage_healthy: a failed Replay storage refuses.
Refuses(target) == mode \in {"Replaying", "ReplayCompleted", "ReplayDiverged"}
                   /\ overlay.failed /\ target = "disk"

\* transfer_storage_data_in.
MoveIn(n) ==
    /\ bus.txn.kind = "read"
    /\ ~Refuses(bus.target)
    /\ bus' = Moved(n)
    /\ UNCHANGED <<mode, generation, disk, drive, slot, base, overlay, recorded,
                   snapshot, menu, faults, changes, commands, aware, flat, work>>

\* transfer_storage_data_out.
MoveOut(n) ==
    /\ bus.txn.kind = "write"
    /\ ~Refuses("disk")
    /\ \E data \in {[i \in 1..n |-> GuestData]} :
          /\ IF Overlaid
             THEN /\ overlay' = [overlay EXCEPT !.pages =
                                    OverlayWrite(@, base, bus.txn.offset, data, -1)]
                  /\ UNCHANGED base
             ELSE /\ base' = HostWrite(base, bus.txn.offset, data, n)
                  /\ UNCHANGED overlay
          /\ flat' = HostWrite(flat, bus.txn.offset, data, n)
    /\ bus' = Moved(n)
    /\ UNCHANGED <<mode, generation, disk, drive, slot, recorded, snapshot,
                   menu, faults, changes, commands, aware, work>>

\* A read the host refuses.  The storage of a Recording's or a Replay's disk
\* retains the failure; a disc is a plain file, and nobody but the guest learns
\* of it.
ReadFails ==
    /\ bus.txn.kind = "read"
    /\ faults < MaxFaults \/ Refuses(bus.target)
    /\ faults' = IF Refuses(bus.target) THEN faults ELSE faults + 1
    /\ StorageFails(bus.target)
    /\ overlay' = [overlay EXCEPT !.failed = @ \/ (Overlaid /\ bus.target = "disk")]
    /\ UNCHANGED <<mode, generation, slot, base, recorded, snapshot, menu,
                   changes, commands, aware, flat, work>>

\* A write the host refuses: a host file may keep a prefix of the data, an
\* overlay the pages before the one whose base could not be read.
WriteFails(n, bad) ==
    /\ bus.txn.kind = "write"
    /\ faults < MaxFaults
    /\ ~Refuses("disk")
    /\ faults' = faults + 1
    /\ StorageFails("disk")
    /\ \E data \in {[i \in 1..n |-> GuestData]} :
          IF Overlaid
          THEN /\ bad \in PagesOf(bus.txn.offset, n) \ DOMAIN overlay.pages
               /\ overlay' = [pages |-> OverlayWrite(overlay.pages, base, bus.txn.offset,
                                                     data, bad),
                              failed |-> TRUE]
               /\ flat' = HostWrite(flat, bus.txn.offset, data,
                                    IF PageOffset(bad) > bus.txn.offset
                                    THEN PageOffset(bad) - bus.txn.offset ELSE 0)
               /\ UNCHANGED base
          ELSE /\ bad \in 0..n
               /\ base' = HostWrite(base, bus.txn.offset, data, bad)
               /\ flat' = HostWrite(flat, bus.txn.offset, data, bad)
               /\ UNCHANGED overlay
    /\ UNCHANGED <<mode, generation, slot, recorded, snapshot, menu, changes,
                   commands, aware, work>>

\* The write of a Replay whose storage failed before.
WriteRefused ==
    /\ bus.txn.kind = "write"
    /\ Refuses("disk")
    /\ StorageFails("disk")
    /\ UNCHANGED <<mode, generation, slot, base, overlay, recorded, snapshot,
                   menu, faults, changes, commands, aware, flat, work>>

-----------------------------------------------------------------------------
\* Without a drive there is no disc to configure.
ConfiguredDiscs == IF work = "drive" THEN ColdDiscs ELSE {NoDisc}

Init ==
    /\ work \in {"disk", "drive"}
    /\ mode \in Sessions
    /\ generation = 1
    /\ \E disc \in ConfiguredDiscs :
          /\ drive = ColdDrive(disc)
          /\ slot = disc
          /\ aware = disc
          /\ recorded = IF mode = "Normal" THEN NoRecord
                        ELSE [exists |-> TRUE, disc |-> disc, image |-> DiskImage]
    /\ base = DiskImage
    /\ disk = NewDisk(SizeOf(DiskImage))
    /\ bus = FreeBus
    /\ overlay = NoOverlay
    /\ snapshot = NoSnapshot
    /\ menu = NoMenu
    /\ faults = 0
    /\ changes = 0
    /\ commands = 0
    /\ flat = DiskImage

Chunks == {n \in ChunkBytes : n <= bus.txn.remaining} \cup
          {m \in {bus.txn.remaining} : \E n \in ChunkBytes : m > 0 /\ m <= n}

GuestTransfers ==
    \/ \E n \in Chunks :
          \/ MoveImmediate(n)
          \/ \E p \in Parameters : MoveParameters(n, p)
          \/ MoveIn(n)
          \/ MoveOut(n)
          \/ \E bad \in 0 .. SizeOf(base) : WriteFails(n, bad)
    \/ ReadFails
    \/ WriteRefused

Next ==
    \/ \E disc \in ConfiguredDiscs : InstallNormal(disc) \/ InstallRecording(disc)
    \/ InstallReplay \/ InstallSnapshot \/ TakeSnapshot
    \/ FinishSession \/ NoticeFailure
    \/ RebuildMediaMenu
    \/ \E key \in {CdromSlot} :
          \/ \E disc \in Discs, opens \in BOOLEAN : HostInserts(key, disc, opens)
          \/ \E offer \in {"eject", "force"} : HostEjects(key, offer)
    \/ Select(work)
    \/ \E cdb \in DiskCdbs : DiskCommand(cdb)
    \/ \E cdb \in DriveCdbs : DriveCommandStep(cdb) \/ GuestEjects(cdb)
    \/ GuestTransfers
    \/ Release \/ Cancel

Spec == Init /\ [][Next]_vars

-----------------------------------------------------------------------------
\* Every record the bus, the slot and the targets can be.
TypeOK ==
    /\ disk \in Disks
    /\ drive \in Drives
    /\ slot \in Discs \cup {NoDisc}
    /\ aware \in Discs \cup {NoDisc}
    /\ bus.target \in {NoTarget, "disk", "drive"}
    /\ generation \in 1..MaxGeneration
    /\ \A disc \in Discs : InsertMedium(disc) \in ScsiMediaErrors \cup {"changed"}
    /\ \A disc \in Discs, opens \in BOOLEAN :
          InsertOutcome(CdromSlot, disc, opens) \in SessionMediaErrors \cup {"changed"}

(***************************************************************************)
(* A medium the host exchanged never passes for the one the guest knows:   *)
(* while the guest has not been told of the change a unit attention is     *)
(* pending, and no data of the drive's medium is on its way to it.         *)
(***************************************************************************)
SwapAnnounced ==
    /\ drive.attention \/ aware = slot
    /\ bus.target = "drive" /\ bus.txn.kind = "read" => aware = slot

(***************************************************************************)
(* The bus and the target keep two records of one medium.  They agree on   *)
(* its capacity, its logical blocks cover it exactly, and a transfer under *)
(* way stays inside it.                                                    *)
(***************************************************************************)
SlotAndTargetAgree ==
    /\ TypeOK
    /\ drive.medium = Bytes(slot)
    /\ Divides(drive.block, drive.medium)
    /\ disk.blocks * SmallBlock = SizeOf(base)
    /\ bus.txn.kind \in {"read", "write"} =>
          bus.txn.offset + bus.txn.remaining <=
              IF bus.target = "drive" THEN Bytes(slot) ELSE SizeOf(base)

(***************************************************************************)
(* A Replay snapshot can be restored over the files of its Record, and the *)
(* restored machine holds the medium and sees the disk contents that the   *)
(* snapshotted machine held and saw, whatever was done to media between.   *)
(***************************************************************************)
SnapshotRestoresMedia ==
    snapshot.taken =>
        /\ Accepts(recorded.disc, snapshot)
        /\ RestoredSlot(recorded.disc, snapshot) = snapshot.slot
        /\ View(snapshot.pages, recorded.image) = snapshot.flat

(***************************************************************************)
(* Whatever a session is, the guest reads from its disk what it wrote, a   *)
(* failed write included; and only a Normal session changes the host file: *)
(* the image of a Record stays the image it names while the Record runs.   *)
(***************************************************************************)
DiskReadsBack ==
    /\ View(IF Overlaid THEN overlay.pages ELSE NoPages, base) = flat
    /\ Overlaid => base = recorded.image

(***************************************************************************)
(* Slot, target and host file agree on the bytes a medium holds.           *)
(***************************************************************************)
MediaAgree == SlotAndTargetAgree /\ DiskReadsBack
=============================================================================
