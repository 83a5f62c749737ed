# A TLA+ model of sgi-emu

sgi-emu emulates an SGI IRIS Indigo (IP12).  This directory models its control
logic in TLA+, checks small instances with TLC and proves, with TLAPS and for every
value of the constants, properties of the NAT session, of the runtime worker with
Record and Replay, of its clients, of the application's window and dialogs, of the files of
a Record, of the R3000, of the SCSI controller with its DMA, and of the storage media.

All paths below are relative to `src/crates/`.

## The system

| part | state it keeps | operations | interacts with |
|---|---|---|---|
| NAT session, `se_network` | two bounded frame queues, two readiness bits, a latched failure, a stop flag, a wake socket | send, receive, take failure, shut down; the loop of the NAT worker thread and its libslirp callbacks | called by the runtime worker; reports failures to it through a command |
| Runtime worker, `se_runtime/runtime.rs` | state, mode, the machine and its generation, position, clock, breakpoints, preserved nonvolatile state, NAT session, errors, revision, output queue and handler | the commands of the UI, batches of instructions, delivery of output | one thread that owns the machine; commands of the UI's threads and of the NAT worker arrive in one channel |
| Record and Replay, `se_runtime/record.rs` | an open Record with its latched failure; a parsed Record with a cursor; copy-on-write pages; snapshot files and their index | append, finalize, parse, snapshot, restore | called by the runtime worker, and by the storage of the machine |
| Session construction, `se_session` | none | build a machine and its session for each mode; load and save nonvolatile state; open host files | called by the application and by the UI |
| UI session and window, `se_ui` | drafts, the edit transaction, background tasks, endpoint widgets, the output sink | edit, check, apply, record, replay, eject, exit | sends commands to the runtime from two threads |
| Application, `se_app`, `se_config` | settings file, the definition of a machine | start, exit; resolve and compile a draft | all of the above |
| Machine, `se_machine` | CPU, memory, devices, timed events, interrupt wiring | execute an instruction, advance time, input, reset, snapshot | called by the runtime worker only |
| CPU, `se_cpu` | registers, delayed writes, CP0, TLB, cache modes, FPU control | execute one instruction or take one exception | memory bus of the machine |
| Devices, `se_device` | SCSI bus, controller and targets, HPC1 with its DMA, SEEQ 8003, INT2 and its timers, Z85230, keyboard, mouse, DP8573A, NMC93CS46, PIC1, LG1 graphics | register accesses, time, host input | the machine's bus and wiring |

What is hard in it:

* Two threads share the NAT session without a lock on the fast path
  (`session.rs:39-48`), and one of them sleeps in `poll()`.
* The runtime worker learns of a NAT failure twice, by polling and by a command,
  and either may be about a session that has been replaced.  The UI sends commands
  about machines that have been replaced since it looked.
* Every handler can fail half way: the disk under a Record, the storage under
  the guest, the NAT session that replaces the old one, the file that vanished
  since it was checked.
* A Replay must take exactly the steps of its Record, with inputs, resets and
  checkpoints at the same instruction, from the start or from a snapshot.
* Devices are advanced lazily: time reaches a device when the guest touches it or
  when a deadline it announced is due, in pieces of any size, and nobody may be
  able to tell.
* DMA involves a device, a channel, memory and an event; each keeps a count of its
  own, each may stop it, and the guest programs them in any order.
* The CPU delays the effect of loads, of Status and FCR31 writes, of TLB writes on
  fetches and of cache mode changes, and exceptions fall in between.
* A medium can be changed by the host, by the guest and by a restored snapshot.

`PROJECT.json` lists these hazards, each with its line and the properties that
are about it.

## Modules

**The NAT session.**  *NetworkSession* is `session.rs`, `worker.rs`, the bounded queue
of `queue.rs` and the parts of `slirp_bridge.c` they rely on; its steps are the steps of
the code between two accesses to shared memory: a mutex section, one access of an
atomic, one access to the wake socket.  *FrameChannel* is the abstract specification of
the receive path: a FIFO that accepts, delivers or reports empty; NetworkSession
implements it (`ReceiveIsFifo`).

**The runtime.**  *Record* has the machine as the runtime sees it, deterministic,
so the sequence of what has been done to it stands for its state and its fingerprint, and
positions, Timeline, footer and cursor and what `parse_record` and
`validate_replay_snapshot` accept.  *Runtime* is the worker of `runtime.rs`: a handler
runs to its end before the next command is received, so it is one action; a batch
is cut into one action per instruction.  Its operators take a *world* (worker,
files, host) and return the worlds they may leave behind, so that each function of
the Rust code is one operator and its failures are alternatives.  Runtime sees of the
NAT session what the worker can observe: frames in order, and a failure that is latched
once and reported twice, in either order.  A read of the host storage may fail under an
instruction in two ways: a disk's, which the session latches, and a CD-ROM's, whose
storage is the plain file in every mode, so that nobody but the guest learns of it.
*RecordFiles* is the part of `record.rs`
that touches the disk, one system call at a time, with failing writes, crashes and power
losses.  A crash keeps every rename; a power loss may undo the last rename of each name,
each for itself, as long as no later file of that name has been synchronized, because
`replace_file` does not synchronize the directory (the variable `before`).  It assumes
that a single rename is atomic.

**Its clients.** *RuntimeClients* is the frontend I/O of a machine and the worker with
the threads around it: channel and replies, handles, the output handler and the Qt
sink.  A machine has the picture it put out last and what its board drives now, which a
reset blanks without putting it out (9 below).  A batch or a step is the sequence of
what its instructions put out, with the Resets of a Replay's Timeline among it, each of
which discards what was collected before it.  A Reset of the user is refused before it
touches the machine, succeeds, or fails in its checkpoint after it.  *Settings* has the
network settings with their validation and the settings dialog, *SessionBuild* resolves
and compiles a draft and turns its plan into a machine in each mode, and *Frontend*
composes them into the application: the window's event handlers, a preparation task, a
preflight task, and the saved configuration.

**Storage.**  *Storage* has the disk and the CD-ROM drive with the host
files and page overlays under them, and *Media* composes them with the guest's commands, the
host's menu and the sessions that install machines over the same files.  *ScsiBus*,
*Wd33c93b* and *Scsi* are the other side of the same subsystem, phases, messages and DMA,
with payload counted and not stored.

**The board.**  *Int2*, *Serial* (the Z85230 with keyboard and mouse) and
*BatteryBacked* (the DP8573A clock and the NMC93CS46 EEPROM) are the timed devices.
*Hpc1Registers* is the address map with the byte lanes of an access and the registers of
HPC1 with its counter, and
*Peripherals* what answers the rest of the map: memory behind PIC1's windows, PIC1's
registers, PROM, Centronics, MDAC, DSP memory, empty slots.  *Board* composes them
behind the event queue of `events.rs` and `bus/timing.rs`, with the accesses of a guest,
host input, reset and the power cycle of `persistence.rs`.

**Ethernet.**  *Hpc1Ethernet* is the SEEQ 8003 and HPC1's two DMA engines, and
*Ethernet* composes them with memory, the network and the bus's event.

**Graphics.**  *Rex1* is the raster engine with its planes, *Lg1* the video timing and
tables, the palette, the board and its composed frame, *Pic1* the memory
controller with graphics DMA, and *Graphics* their composition with the GIO slot and the
two events.

**The CPU.** *Decode*, *Mmu* (with the caches) and *Coprocessors* (CP0 and CP1) are the
parts of the R3000 and *R3000* its step: one instruction or one exception.  A word is a
member of a small set that is at once an instruction, a register image and an address;
what arithmetic computes is any word.

*NetworkSessionProofs*, *RuntimeProofs*, *RecordFilesProofs*, *ClientsProofs*,
*FrontendProofs*, *MediaProofs*, *ScsiProofs* and *R3000Proofs* have the theorems; the
*MC* modules instantiate the specifications for TLC; *NetworkSession*, *Runtime* and
*RecordFiles* need none, their constants are given in the configurations.  Where a
device needs to be programmed before anything interesting happens, the MC module lists
*scenarios*: a script that is carried out first, and the operations that may then follow
in any order, up to a limit.  The map of `PROJECT.json` lists the actions and the
principal operators; a small helper is covered by the lines of the definitions that use
it.

## Runs

All runs pass.

| run | bounds | what it shows |
|---|---|---|
| `network` | 3 sends and 2 packets through queues of 2 frames, a wake socket of 1 byte, batches of 1 | every interleaving of the two threads keeps the readiness bits, the wakeups, the failure report and the order of frames exact; a queued frame reaches libslirp, `shutdown()` returns, a failure is reported |
| `replay` | 5 events while recorded or replayed, none in a Normal machine, 3 machines, 2 starts of the application, a faulting instruction, failing disks and CD-ROMs | Records parse and replay exactly unless a storage fails; snapshots are restorable; virtual time has no drift; the nonvolatile state stays isolated |
| `runtime` | counters of 0..2, a breakpoint, 2 events, 2 machines, 2 NAT sessions that may fail, 2 frames | failures stop the right session and lose no frame; exemptions are never stale; counters at their limit end the Record; every change has a revision; a Replay comes to rest and a failure is surfaced |
| `record_files` | 2 Records, 2 positions, 2 counters to be written into a snapshot, 3 snapshots, 2 faults of failing writes, crashes and power losses | what a name holds is complete, a started Record is kept short of a power loss, a catalog is what was created for its Record |
| `scsi` | a removable target and an absent one, transfers, CDBs and messages of 2 bytes, descriptors of 0 to 2 | four drivers (byte-wise, combined command with DMA, probing, long commands), which program the controller only while it is idle: controller, channel and bus agree, nothing is left waiting, no status is lost, no byte counted twice |
| `cpu` | fourteen instruction mixes, 3 TLB entries, 1 lookup line, 2 pages a segment | lookup caches and the delayed instruction view never go stale; interrupt enable, cache mode and floating-point line follow Status and FCR31; a load in flight never undoes a younger write |
| `board` | one group of devices per scenario, time units of a few ticks, calendars of 2 months | lazily advanced devices are never late; time may be cut anywhere, HPC1's counter and the time off power included; keys, motion and EEPROM words arrive whole; a wide access is what its bytes would be; dispatch ends |
| `ethernet` | two packets of up to three descriptors with faults, frames of 1 to 5 bytes, loopback, a receive timer written, stopped and declared expired | packets go out and come in whole; DMA comes to rest, and no interrupt is lost or left behind its delay |
| `graphics` | a screen of 3 by 2, a palette of two banks, chains of two descriptors with every failure | the picture handed out is current, but for a board reset and not given a signal since; the retrace level and DMA's time are exact; an upload is exact |
| `media` | a disk of 3 blocks under pages of 2, 3 discs, 3 guest commands, 2 host changes, 1 host failure (of a disk or a disc), 2 machines | a swap is announced before it is read; slot, target and file agree; snapshots restore media and contents |
| `clients` | 2 machines, in Normal, Recording and Replaying mode, 2 tokens of output, batches of up to two events with a guest's reboot or a Timeline's Reset, 1 input of the keyboard, a GUI thread and a task | the window shows what its machine put out; input reaches the machine it was meant for; everybody who waits is served |
| `frontend` | drafts and network texts that are valid or not, vanishing files, 1 restart | Apply offers what was checked; a check always comes; an interrupted machine resumes; what is shown, installed and saved belongs together |

Why the bounds are enough.  A queue of two frames is full, empty and in between, a frame
may be too long for it, and one byte fills the wake socket, the case in which a
wakeup is dropped.  A Record of five events has room for an instruction, an input, a reset,
an instruction after it and the fault, with a checkpoint after each; a second
start of the application reads back what Shutdown saved.  `FREQUENCY_HZ = 3` with
`ATTOSECONDS_PER_SECOND = 5`, and on the board `HpcClock = 7` with `HpcSecond = 4` and a
counter modulo 5, leave a remainder in each cycle and wrap; the counters of Runtime have
`U64_MAX` as a constant so that `runtime` reaches it.  In Scsi two bytes make a
first, a last and a single chunk, and descriptors of zero to two bytes end before, with
and after the transfer.  Two Records, with two versions of a snapshot at one
position, leave stale entries in an index, and the second fault may fall on what the
first left behind.  One line in the TLB lookup cache makes every lookup collide, and
its generation counter wraps after two invalidations.  The disk of Media has a short
last page, and one disc has a size no block size divides.  A calendar of two months with
three and two days, a leap year and a day of four hours reaches every carry.

Deadlock is not checked where the user or the guest may stop and the operations are bounded:
`record_files`, `cpu`, `board`, `ethernet`, `graphics`, `media`, `clients`.

Fairness.  `network` and `runtime` assume that both threads are scheduled (weak fairness of
their steps), that the channel delivers, and nothing of the user: nobody has to
press Run or call `take_failure`.  In Runtime weak fairness is written out with the guards
of the actions.  `ethernet` assumes that virtual time advances and that due events are
dispatched, which is what the loop of the machine does.  The clients' "is going to be
served" and the dialog's "is going to hear" are invariants: they name who is going to do it.

## What the code does that one would not expect

Met while modelling.  The first six are about the environment: 1 to 3 are modelled, and
the properties say what they leave; 4 to 6 are left out by a field of the guest or a
scenario, so that the properties are about the rest.

1. `runtime.rs:1053`: a Replay that is the first machine configured, which the menu allows
   (`se_ui/cpp/src/main_window.cpp:964`), has no nonvolatile state to preserve; `Shutdown`
   (980-984) then returns the state of the Replay machine, which `se_app/src/main.rs:77`
   saves.  Runtime takes this step and records it (`host.replay_first`);
   `NonvolatileIsolated` excepts that run of the application, and nothing else.
2. `record.rs:586` says that `snapshot_catalog` lists valid entries.  A crash between the
   rename of a rewritten snapshot and that of the index leaves an index that
   `validate_catalog` accepts, because it compares sizes only (1226), and an entry that
   `install_snapshot` refuses (644).
3. `record.rs:588` says that a missing or invalid index is rebuilt.  A crash while the
   index is written leaves its partial file, which `create_new` (1149) refuses in every
   later rebuild.
4. `scsi.rs:1070`: an attention during COMMAND COMPLETE sends the target to the phase an
   earlier attention has stored (948): a data phase without a transaction.  The drivers of
   `MCScsi` have `lateAttention = FALSE`.
5. `wiring.rs:404` asserts that the controller's counter holds the bytes a DMA chunk has
   moved, and `wd33c93b.rs:548` subtracts from it without a test.  The size is latched
   at the start of the command (387, 481) and handed to the DMA loop (527).  A guest
   that lowers the counter while it moves bytes itself underflows it, or, when it turns
   DMA on in the middle and gives one more byte, fails the assertion: the DMA loop then
   starts with the latched size.  The drivers of `MCScsi` have `careful = TRUE`; a guest
   that may write the two registers under a transfer has TLC find the panic.
6. Overlapping memory windows of different sizes make a word and its bytes reach different
   modules (`pic1.rs:625`): a guest's misconfiguration, left out of the scenarios.
7. `bus.rs:224-254`: reset drops the part of a millisecond the clock has not been
   advanced by, while the test `reset_preserves_the_rtc_prescaler_phase`
   (`timing.rs:1237`) synchronises first.
8. `bus.rs:260-268`: restoring the nonvolatile state does not reschedule the clock's
   event; the next access or dispatch does.
9. `lg1.rs:154-163`: reset clears `display_changed`, so the blank screen it leaves is
   announced by the next change only.  A guest that resets a lit board leaves its last
   picture on the user's screen until it sets the board up again (`ScreenFollows`).
10. A serial byte of a machine that has just been installed is dropped until the window
    rebuilds its consoles, up to 100 ms later; a network text that cannot be parsed makes
    exit return before the settings are saved (`main.rs:81-85`).
11. Neither the clock's interrupt output nor the interrupt sources of HPC1's parallel
    channel and DSP are raised by anything outside of tests.
12. A CD-ROM's medium is a plain file in a Recording and in a Replay, too
    (`recording.rs:171-172`, `replay.rs:220-221` of `se_session`), so a read of it that
    fails is latched in neither session: the Record completes, and its Replay, over a
    disc that can be read, diverges.  `ReplayFaithful` names this case
    (`StorageFailed`).
13. Outside Windows `replace_file` (`record.rs:1424-1427`) does not synchronize the
    directory after the rename: a power loss may take back a Record, a snapshot or an
    index that was reported as written, and each for itself.
14. `reset_machine` discards what has been collected for the frontend
    (`runtime.rs:1462`).  A Reset of a Replay's Timeline (1221-1227) falls into a batch, so
    that the serial output of the instructions before it in that batch, which the user
    saw while recording, is not shown.
15. A Reset of a Recording whose checkpoint fails returns (`runtime.rs:886`) before
    `deliver_output` (891): the blank picture stays with the worker until its next
    delivery.

## Proofs

All proofs have the same plan: an inductive invariant, that `Init` implies it, that every
action keeps it, and that it implies the property.  The properties themselves are not
inductive; what had to be added is told for each module.  The assumptions are those
written at the constants, which TLC evaluates too.

**NetworkSessionProofs** proves, for every queue limit, batch size, frame set and
capacity of the wake socket, that `Spec` implies type correctness (`TypeOK`),
`ReadinessAgrees`, `WakeupsKept` and `TxInOrder`, that a finished worker has called
`failure_notify` exactly once if it failed (`NotifiedOnce`), and that NetworkSession
implements FrameChannel (`ReceiveIsFifo`).  The invariant says for each program
counter of each thread what it has already done and not yet published: the
worker between pushing a frame and setting the RECEIVE bit, the runtime between
popping the last frame and clearing it, the sender between a push into an empty queue
and its wakeup, a failure between being stored, announced, and reported.  The
properties speak of the moments at which nobody is in between.

**RuntimeProofs** proves all safety properties of the two runs of Runtime, for every guest
program and frequency, every interval of checkpoints, every pattern of failures and every
number of machines, sessions, Records and restarts: `ReplayFaithful`, `RecordSound`,
`StopsJustified`, `FramesExact`, `NonvolatileIsolated` and the action property
`RevisionAdvances`.

* A Record and its Replay meet in one object, the *path* of guest states that a Timeline
  determines: an entry is consumed where its position is reached, and an instruction is
  executed everywhere else.  A Recording that has not failed is the end of the path of the
  entries it has written (`Recorded`).  A Replay that has not failed is where the path of its
  Record is, or past the failed instruction at its end (`Replayed`): in the very state of
  the path as long as no read of a CD-ROM has failed, in the Replay or in the Record, and
  from then on only at its positions, where a checkpoint may differ (`TracksRecord`,
  `Unharmed`).  The files hold Records
  and snapshots that such sessions wrote (`Filed`).  Two states of one path are ordered, so
  the log of an unharmed Replay is a prefix of its Record's and every checkpoint compares
  equal.
* `Framed` locates the frames: the queue ends with the last frame that arrived, the one
  before its first is pending or consumed, and the log of a live machine has no frame that
  has not arrived.  TLC has checked it, too, on the instance of `runtime`.
* `Typed`, `Linked`, `Stops`, `Exempt`, `Clocked` and `Isolated` are the types, the link to
  the NAT session, the run state, the breakpoint exemption, the clock and the nonvolatile
  state.  `Rested` holds between handlers only: a Recording that failed has been closed, a
  Replay stands where its next entry is not yet due.
* A handler is a chain of operators on a world; each has a lemma that says what it keeps.
  A step also announces what it changes (`Advances`), which is `RevisionAdvances`.
* `RuntimeIsolation` has no assumption: the one way in which the state of a session
  reaches the user's settings (1 above) is part of what it says.
  `RuntimeConstants` says that `None` is neither a session nor an event, as
  `Option::None` is not.

TLC cannot evaluate the part about paths, which quantifies over all of them; its
consequences are the properties TLC checks.

**RecordFilesProofs** proves, for every set of positions and counters and every number of
Records, snapshots and faults, that a file found under its own name is
complete and synchronized (`NamedFilesComplete`), that the partial file of a started
Record only goes by becoming the Record, short of a power loss (`StartedRecordKept`), and
that a catalog lists the snapshots created for its Record that a power loss has left to be
found (`CatalogExact`).  The invariant has what a
task has done at each stage (`TaskInv`: a partial file is durable once the stage is
"rename", and holds what the task writes), the same of the open Record
(`WriterInv`: the footer is written only to a durable partial file), and that what a power
loss may bring back is complete as well (`StorageInv`); without them
nothing would say that what a rename moves, or what its undoing leaves, is complete.  For
the catalog it adds
that nothing in the cache, nor what may come back, is of a Record younger than the
complete one, which a Record
under construction is (`AgeInv`, `BeforeInv`), that the index of the complete Record lists one
snapshot for a position, and every one that was reported (`CacheFilesInv`), and how far a
task is with the index it has in hand (`CatalogTaskInv`).

**R3000Proofs** proves `TranslationsAgree`, `ControlFollowed` and `LastWriteWins` for every
program, bus and schedule of interrupts and every size of the address space, the
translation buffer and its lookup caches.  The invariant is a predicate of a processor
state, because almost all of what a step calls takes a state and leaves one: a lookup cache
answers for the present entries and holds nothing of a later generation, so that a
wrapped counter must have cleared it (`CacheCurrent`); the entries are those
the fetch sees with the two writes in flight applied in order (`MmuOK`); interrupt enables in effect
and in flight are granted by Status (`EnablesGranted`); the cache mode ends at the control
Status has once the write in flight lands, and so in each suspended context
(`ModeFollows`); a register has its program-order value once the load in flight lands
(`Ordered`).  The assumptions are the layout of the address map (`LayoutAssumption`), that
decoding gives an instruction and merging a word (`ProgramAssumption`), and that a word
read as a register image has that register's fields (`ReadingAssumption`).

**MediaProofs** proves `SwapAnnounced`, `MediaAgree` and `SnapshotRestoresMedia` for every
disk image, page and block size, set of discs and commands, and number of sessions and
failures.  The invariant adds that the guest knows the medium in the drive or a unit
attention is pending, and that no read of a drive is in progress on a medium it does not
know (`Told`); that a transfer stays inside its medium (`BusFits`); that the pages of an
overlay over its base are the plain array of bytes the guest wrote (`Contents`); and the same of
the machine a snapshot retains.  `MediaAssumption` is what the constructors check
or the types give: a file has its bytes from offset 0 on, a CDB has its fields, and a
configuration names only discs `ScsiCdrom::try_new` accepts.

**ScsiProofs** proves `TransferSound`, `NothingStalled` and the action property
`StepsAccounted` for every target and CDB, every count a register or a descriptor can hold,
every pattern of refusals and of failures of storage and memory, in the runs of a
guest that is a driver (`Spec /\ Driver => ...`, where `Driver` is `careful` and not
`lateAttention`): it programs a register of the controller only while that is idle with its
status read, gives a command of the second level only then, and raises no attention
during COMMAND COMPLETE.  Beside it there may be other guests, of which the theorems say
nothing: for one that lowers the transfer count under a transfer the assertion of 5 may
fail, and one that raises a late attention meets the data phase of 4.

* `BusOK` says in which phase a target is *going* to be when its message is over
  (`Destined`), and that it has a transaction exactly if that is a data phase.  The phase
  it is in tells nothing of a transaction while a message interrupts the data.
* `Quiet` and `Counted` tie the controller's flags and counts to the phase of the bus.  A
  byte-wise transfer counts what is left with the transfer count; DMA has latched its size,
  which only bounds the count; a single byte has no count.
* `Pending` says that a request that is due finds the chip and the bus it was latched for,
  and that a request not yet due waits for a selection; `Heard` that a target has
  noticed ATN.  With them each service of a request leaves a byte for the host, a DMA
  transfer, a timeout, or nothing to do (`Served`, `Answered`).
* `Moving` says that a loop in progress has left what the controller has left, so that no
  chunk exceeds the descriptor, the count or the transaction.  `Waiting` names for a busy
  controller who wakes it.

`BoardConstants` restricts what a guest's program is made of, `WdConstants` says that the
controller sends no more of a CDB than the target takes, and `NoneIsNothing` that `None` is
no value of an `Option`.

**ClientsProofs** proves `OutputShown`, `InputRouted` and `ClientsServed` for all machines a
task may configure, all batches of output, and any number of machines, tokens and inputs.
The invariant says where each byte of a port is: in the console, or at the end of
what waits in the sink (`Consoles`, `Waits`, `Sunk`); that the picture that waits is the one
the machine put out last (`PictureWaits`, `PictureShown`); that between two commands the
worker has delivered everything but the picture of a Reset whose checkpoint failed
(`Resting`, `Held`); that a batch with Resets in it leaves for each port the end of what it
emitted and did not discard (`Batched`); that a catalog a client holds was that of the machine
of its generation (`Known`), so that a handle made from it is refused later; and that the
channel holds the commands somebody waits for, one of each (`Expected`).  `Opened` follows
the window from its opening to the release of its output handler: without it a late
delivery might find a sink that has gone.

**FrontendProofs** proves `ApplyChecked`, `CheckComes`, `InterruptedResumes` and
`SessionCoherent` for every draft, host, network text and edit.  A world is the window, the
dialog, its check, the preparation task, the worker and the configuration, because a
handler of the window touches all of them.

* What a task works on depends on its stage (`Preparing`, `Resuming`): which operations
  build, when the configuration is locked, when the new machine is there and the draft not
  yet committed (`Drafting`, `Consoles`).  `Applied` says what is then the last applied pair
  of draft and network.
* A paused machine is owed a run by the operation that has interrupted it (`Owing`),
  whose failure and whose end both look at `resume`.
* The dialog shows the view of the draft being edited (`Shows`); a result it holds is
  of a revision (`Found`, `Spared`), and a check in progress or queued names the generation
  of the dialog (`Checking`, `Hears`), so that a result of an earlier dialog offers nothing.
* The builders' assertions follow from `CanCompile` (`PlanAssembles`), and a network text a
  dialog accepts is one the session accepts (`ParsesIsUsable`).

`FrontendAssumption` says that the first start finds one of the network texts,
`AddressesAssumption` that addresses have at least two bits, DHCP at least one client, and
the special ranges are addresses.

Induction.  The induction theorems of the library take an operator; where a proof
needs induction (the first match of the translation buffer, the turns of the loop of
`process_replay_boundary`, positions along a path) it uses its set form, derived in the
module from a well-founded minimum.  What a recursive definition computes for every
input remains out of reach.

Only model-checked:

* liveness (`network`, `runtime`, `ethernet`), which needs fairness and ENABLED;
* Board (`NothingOverdue`, `TimeSplitsExactly`, `InputFaithful`, `StepsSound`), Ethernet
  (`FramesWhole`) and Graphics (`DisplayCurrent`, `DmaKeepsTime`, `UploadExact`).  Most of
  what they say is about recursive operators: a device advanced in pieces and at once, a
  packet along its chain of descriptors, a rectangle along its spans.  A proof
  would be an induction over data.

## Not modelled, and why

* `se_float`: bindings to a vendored library, arithmetic without state; the results of the
  ALU and FPU are any word.
* Formatting and parsing: TOML files, the framing and checksums of a Record, display
  strings, DTOs between Rust and C++, the terminal emulation.
* Qt widgets beyond the handlers Frontend and RuntimeClients name; libslirp, which is an
  environment that may deliver, fail or panic.
* Colour arithmetic (blending, dithering, conversion to host pixels) and reuse of frame
  allocations in LG1; the contents of inquiry and mode data of SCSI targets.
* Debugger views of CPU and devices, which change nothing.
* Registers without effect and the reserved registers of the SCSI controller.
