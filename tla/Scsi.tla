-------------------------------- MODULE Scsi --------------------------------
(***************************************************************************)
(* The SCSI subsystem of the IP12: the controller, the bus, the SCSI       *)
(* channel of HPC1 (crates/se_device hpc1.rs) and the wiring between them  *)
(* (crates/se_machine indigo/ip12/bus/wiring.rs), driven by the guest's    *)
(* register accesses.                                                      *)
(*                                                                         *)
(* A request of the controller is an event that is due at once and served  *)
(* before the guest's next instruction; a selection without an answer is   *)
(* an event that is due later.  The loop over DMA windows runs to its end  *)
(* before anything else happens; here each window is a step.               *)
(***************************************************************************)
EXTENDS Wd33c93b

CONSTANTS
    Guests,         \* the guests of an instance
    BYTE_COUNT_MAX, \* largest byte count of a descriptor (0x1fff)
    MayFail         \* storage and memory may fail, targets may refuse

\* A guest is a record: the commands it gives to the controller, the targets it
\* selects, the messages it sends, the opcodes it uses, the registers of the
\* controller and the DMA modes it programs, the values it gives to the SCSI
\* control register and the byte count of HPC1, whether a user changes media
\* meanwhile, whether it keeps to the discipline of a driver, and whether it
\* may raise ATN while COMMAND COMPLETE is on the bus.

ASSUME BoardConstants ==
    /\ BYTE_COUNT_MAX \in Nat
    /\ MayFail \in BOOLEAN
    /\ \A g \in Guests :
         /\ g.commands \subseteq Commands
         /\ g.opcodes \subseteq Opcodes
         /\ g.messages \subseteq OutMessages
         /\ g.destinations \subseteq Nat
         /\ g.dma \subseteq BOOLEAN
         /\ g.registers \subseteq {"dma", "timeout", "data", "opcode", "lun", "count", "dest"}
         /\ g.counts \subseteq 0..BYTE_COUNT_MAX

VARIABLES
    chip,           \* Wd33c93b
    bus,            \* ScsiBus
    hpc,            \* ScsiChannel of Hpc1
    pend,           \* pending_scsi
    event,          \* when EventKind::Scsi is due: "none", "now" or "later"
    loop,           \* transfer_scsi_data_in or _out in progress
    panicked,       \* an assertion of the code failed
    failed,         \* the bus refused the last request with an error
    guest           \* which of Guests runs

vars == <<chip, bus, hpc, pend, event, loop, panicked, failed, guest>>

Lucks == [refused : IF MayFail THEN BOOLEAN ELSE {FALSE},
          storage : IF MayFail THEN BOOLEAN ELSE {TRUE}]
Fortunes == IF MayFail THEN BOOLEAN ELSE {TRUE}

\* What a descriptor in memory may say; None is memory that does not answer.
Described == [count : 0..BYTE_COUNT_MAX, end : BOOLEAN]
Descriptors == Described \cup (IF MayFail THEN {None} ELSE {})

\* The requests of the controller, with the byte of an "Output", and the loops.
SentBytes == OutMessages \cup {<<"opcode", o>> : o \in Opcodes} \cup {Payload}
RequestKinds == {"Select", "Combined", "Transfer", "Pump", "Output", "Phase", "Acknowledge", "Attention",
                 "Abort", "Disconnect", "Timeout"}
Requests == [kind : RequestKinds, byte : SentBytes \cup {None}]
Loops == [in : BOOLEAN, left : Nat]

ASSUME NoneIsNothing ==
    /\ None \notin Connections /\ None \notin Transactions /\ None \notin Phases
    /\ None \notin InputBytes /\ None \notin KnownOpcodes /\ None \notin {Good, CheckCondition}
    /\ None \notin Described /\ None \notin RequestKinds /\ None \notin Requests /\ None \notin Loops

NewChannel == [count |-> 0, end |-> FALSE, loaded |-> FALSE, fetch |-> FALSE,
               start |-> FALSE, toMemory |-> FALSE, reset |-> FALSE]

Init ==
    /\ chip = NewChip
    /\ bus = FreeBus
    /\ hpc = NewChannel
    /\ pend = None
    /\ event = "none"
    /\ loop = None
    /\ panicked = FALSE
    /\ failed = FALSE
    /\ guest \in Guests

-----------------------------------------------------------------------------
(* The SCSI channel of HPC1.                                                *)

\* stop_scsi_dma and finish_scsi_dma.
StopDma(h) == [h EXCEPT !.start = FALSE, !.fetch = FALSE]

\* load_scsi_descriptor.
LoadDescriptor(h, d) == [h EXCEPT !.count = d.count, !.end = d.end, !.loaded = TRUE, !.fetch = FALSE]

\* scsi_dma_window.
HasWindow(h) == h.start /\ h.loaded /\ h.count # 0

\* consume_scsi_dma_bytes.
ConsumeDmaBytes(h, n) ==
    IF n < h.count THEN [h EXCEPT !.count = @ - n]
    ELSE [h EXCEPT !.count = 0, !.loaded = FALSE,
                   !.start = h.start /\ ~h.end, !.fetch = h.fetch \/ ~h.end]

\* A write of the control register.
WriteControl(h, bits) ==
    LET rising == "reset" \in bits /\ ~h.reset
        base == [(IF rising THEN NewChannel ELSE h) EXCEPT
                    !.reset = "reset" \in bits, !.toMemory = "to memory" \in bits,
                    !.start = "start" \in bits]
        armed == IF h.start THEN base ELSE [base EXCEPT !.fetch = ~base.loaded]
    IN IF "reset" \in bits \/ "start" \notin bits \/ "flush" \in bits THEN StopDma(base) ELSE armed

-----------------------------------------------------------------------------
(* The board.                                                               *)

\* A counter that is negative has underflowed, where a build with overflow
\* checks panics.
Alive == ~panicked /\ chip.count >= 0 /\ chip.remaining >= 0

\* The guest runs: no event is due and no DMA is in progress.
GuestRuns == event # "now" /\ loop = None /\ Alive

DmaLoop(in, left) == [in |-> in, left |-> left]

\* handle_scsi_register_write.
HandleScsiAccess(a, byte) ==
    /\ chip' = a.chip
    /\ bus' = IF a.reset THEN CancelTransaction(bus) ELSE bus
    /\ pend' = IF a.request # None THEN [kind |-> a.request, byte |-> byte]
               ELSE IF a.reset THEN None ELSE pend
    /\ event' = IF a.request # None THEN "now" ELSE IF a.reset THEN "none" ELSE event
    /\ failed' = (failed /\ a.chip.busy /\ ~a.chip.cip)
    /\ UNCHANGED <<hpc, loop, panicked, guest>>

\* Mutant: the outputs of HPC1 do not wake the transfer.
HandleHpc1Alone(h, reset) ==
    \E d \in IF h.fetch THEN Descriptors ELSE {None} :
      /\ chip' = IF reset THEN Reset(chip) ELSE chip
      /\ bus' = IF reset THEN CancelTransaction(bus) ELSE bus
      /\ pend' = IF reset THEN None ELSE pend
      /\ event' = IF reset THEN "none" ELSE event
      /\ hpc' = IF ~h.fetch THEN h ELSE IF d = None THEN StopDma(h) ELSE LoadDescriptor(h, d)
      /\ failed' = (failed /\ ~reset)
      /\ UNCHANGED <<loop, panicked, guest>>

\* handle_hpc1_outputs: a reset of the chip, a descriptor, and the transfer
\* that waits for it.
HandleHpc1Outputs(h, reset) ==
    \E d \in IF h.fetch THEN Descriptors ELSE {None} :
      LET c == IF reset THEN Reset(chip) ELSE chip
          b == IF reset THEN CancelTransaction(bus) ELSE bus
          fetched == IF ~h.fetch THEN h
                     ELSE IF d = None THEN StopDma(h) ELSE LoadDescriptor(h, d)
          waits == DmaPending(c)
      IN /\ chip' = c
         /\ bus' = b
         /\ pend' = IF reset THEN None ELSE pend
         /\ event' = IF reset THEN "none" ELSE event
         /\ hpc' = IF waits /\ b.txn = None THEN StopDma(fetched) ELSE fetched
         /\ loop' = IF waits /\ b.txn # None
                    THEN DmaLoop(b.txn.kind \in DataIn, RemainingTransferBytes(c)) ELSE None
         /\ failed' = (failed /\ ~reset)
         /\ UNCHANGED <<panicked, guest>>

\* process_scsi_event.
ProcessScsiEvent ==
    /\ event # "none" /\ loop = None /\ Alive
    /\ \E u \in {ServiceRequest(pend.kind, pend.byte, chip, bus, luck) : luck \in Lucks} :
         /\ chip' = u.chip
         /\ bus' = u.bus
         /\ hpc' = IF u.err THEN StopDma(hpc) ELSE hpc
         /\ failed' = (u.err \/ (failed /\ u.chip.busy))
         /\ loop' = IF u.work = "dma"
                    THEN DmaLoop(Input(u.chip.pioPhase), u.chip.remaining) ELSE None
         /\ pend' = IF u.work = "wait" THEN [kind |-> "Timeout", byte |-> None] ELSE None
         /\ event' = IF u.work = "wait" /\ u.chip.timeout THEN "later" ELSE "none"
    /\ UNCHANGED <<panicked, guest>>

-----------------------------------------------------------------------------
(* One window of transfer_scsi_data_in or transfer_scsi_data_out.           *)

EndLoop(h) ==
    /\ loop' = None
    /\ hpc' = h
    /\ UNCHANGED <<chip, bus, panicked, failed>>

\* finish_scsi_dma_window.
FinishWindow(c, b, status, luck) ==
    \E u \in {FinishDma(c, b, status, luck)} :
      /\ chip' = u.chip
      /\ bus' = u.bus
      /\ failed' = u.err
      /\ loop' = None

\* What to do with the result of the bus.
AfterChunk(r, c, h, luck) ==
    CASE r.result \in {"none", "rejected"} ->
            /\ hpc' = StopDma(h) /\ chip' = c /\ bus' = r.bus /\ loop' = None
            /\ UNCHANGED failed
      [] r.result = "more" /\ loop.left # r.transferred ->
            /\ hpc' = h /\ chip' = c /\ bus' = r.bus
            /\ loop' = [loop EXCEPT !.left = @ - r.transferred]
            /\ UNCHANGED failed
      [] r.result = "complete" \/ (r.result = "more" /\ loop.left = r.transferred) ->
            hpc' = StopDma(h) /\ FinishWindow(c, r.bus, r.status, luck)

\* Mutant: the descriptor gives its bytes before memory has taken them.
ChunkInEager(n, memory, luck) ==
    LET size == Chunk(bus, n)
        offered == bus.txn # None /\ bus.txn.kind \in DataIn
        accepted == offered /\ memory /\ CanConsume(chip, size)
    IN /\ AfterChunk(Transfer(bus, DataIn, n, accepted, luck),
                     IF accepted THEN ConsumeTransferBytes(chip, size) ELSE chip,
                     IF offered THEN ConsumeDmaBytes(hpc, size) ELSE hpc, luck)
       /\ UNCHANGED panicked

\* The callback writes memory, then takes the bytes off both counters.
ChunkIn(n, memory, luck) ==
    LET size == Chunk(bus, n)
        \* The bus calls back with a chunk it could read.
        offered == /\ bus.txn # None
                   /\ \/ bus.txn.kind = "immediate"
                      \/ bus.txn.kind = "read" /\ StorageWorks(bus, luck)
        taken == offered /\ memory /\ size <= hpc.count
        accepted == taken /\ CanConsume(chip, size)
    IN /\ AfterChunk(Transfer(bus, DataIn, n, accepted, luck),
                     IF accepted THEN ConsumeTransferBytes(chip, size) ELSE chip,
                     IF taken THEN ConsumeDmaBytes(hpc, size) ELSE hpc, luck)
       /\ UNCHANGED panicked

\* advance_scsi_data_out asserts that both counters hold the bytes.
ChunkOut(n, memory, luck) ==
    LET r == Transfer(bus, DataOut, n, memory, luck)
        moved == r.transferred
        sound == moved <= hpc.count /\ CanConsume(chip, moved) /\ moved <= loop.left
    IN IF moved = 0 THEN AfterChunk(r, chip, hpc, luck) /\ UNCHANGED panicked
       ELSE IF ~sound THEN panicked' = TRUE /\ UNCHANGED <<chip, bus, hpc, loop, failed>>
       ELSE /\ AfterChunk(r, ConsumeTransferBytes(chip, moved), ConsumeDmaBytes(hpc, moved), luck)
            /\ UNCHANGED panicked

Looping == loop # None /\ Alive /\ UNCHANGED <<pend, event, guest>>

\* next_scsi_dma_window: there is no window, a descriptor may have one.
FetchDescriptor ==
    /\ Looping /\ loop.left # 0 /\ ~HasWindow(hpc)
    /\ \E d \in IF hpc.fetch THEN Descriptors ELSE {None} :
         IF ~hpc.fetch THEN EndLoop(hpc)
         ELSE IF d = None THEN EndLoop(StopDma(hpc))
         ELSE LET h == LoadDescriptor(hpc, d)
              IN IF ~HasWindow(h) THEN EndLoop(StopDma(h))
                 ELSE hpc' = h /\ UNCHANGED <<chip, bus, loop, panicked, failed>>

\* The controller wants no more bytes.
NothingLeft ==
    /\ hpc' = StopDma(hpc)
    /\ \E luck \in Lucks : FinishWindow(chip, bus, None, luck)
    /\ UNCHANGED panicked

\* A chunk of at most n bytes in the direction of the window.
TransferChunk(n) ==
    IF hpc.toMemory # loop.in THEN EndLoop(StopDma(hpc))
    ELSE \E memory \in Fortunes, luck \in Lucks :
           IF loop.in THEN ChunkIn(n, memory, luck) ELSE ChunkOut(n, memory, luck)

\* The loop: nothing is left to begin with, or one chunk of the window.
TransferWindow ==
    /\ Looping /\ (loop.left # 0 => HasWindow(hpc))
    /\ IF loop.left = 0 THEN NothingLeft
       ELSE TransferChunk(IF hpc.count < loop.left THEN hpc.count ELSE loop.left)

-----------------------------------------------------------------------------
(* The guest.                                                               *)

\* A driver negates ACK only where it is held, selects on a free bus, and
\* gives no command of the second level before the last one is over and its
\* status read.
Selections == {"select", "select with attention", "combined with attention"}
SecondLevel == Selections \cup {"combined", "transfer", "transfer byte"}
Disciplined(command) ==
    /\ command = "negate ack" => chip.ack
    /\ command \in Selections => bus.conn = None
    /\ command \in SecondLevel => ~chip.busy /\ ~chip.irq /\ ~chip.ack

\* COMMAND COMPLETE has been sent or is about to be.
Completing(b) == b.conn # None /\ b.conn.in = <<CommandComplete>>

WriteCommand == \E command \in guest.commands :
    /\ GuestRuns
    /\ guest.careful => Disciplined(command)
    /\ command = "attention" /\ ~guest.lateAttention => ~Completing(bus)
    /\ HandleScsiAccess(ExecuteCommand(chip, command), None)

ReadStatusRegister == GuestRuns /\ chip.irq /\ HandleScsiAccess(ReadStatus(chip), None)
ReadDataRegister == GuestRuns /\ chip.input # None /\ HandleScsiAccess(ReadData(chip), None)

\* The bytes the target tells apart in its phase.
HostBytes ==
    CASE BusPhase(bus) = "MessageOut" -> guest.messages
      [] BusPhase(bus) = "Command" /\ bus.conn.cdb = 0 -> {<<"opcode", o>> : o \in guest.opcodes}
      [] OTHER -> {Payload}

WriteDataRegister == \E byte \in HostBytes :
    GuestRuns /\ chip.output /\ HandleScsiAccess(WriteData(chip), byte)

\* The values a register of the controller may be given.
Programmed(register) ==
    CASE register = "dma" -> guest.dma
      [] register \in {"timeout", "data"} -> BOOLEAN
      [] register = "opcode" -> guest.opcodes
      [] register = "lun" -> {0, 1}
      [] register = "count" -> 0..TRANSFER_COUNT_MAX
      [] register = "dest" -> guest.destinations

\* write_selected_register of a programming register.
WriteRegister == \E register \in guest.registers : \E v \in Programmed(register) :
    /\ GuestRuns
    /\ guest.careful => ~chip.busy /\ ~chip.irq
    /\ HandleScsiAccess(Access([chip EXCEPT ![register] = v], None), None)

WriteHpcControl == \E bits \in guest.controls :
    GuestRuns /\ HandleHpc1Outputs(WriteControl(hpc, bits), "reset" \in bits /\ ~hpc.reset)

WriteHpcCount == \E n \in guest.counts :
    GuestRuns /\ HandleHpc1Outputs([hpc EXCEPT !.count = n], FALSE)

WriteHpcBuffer == \E end \in BOOLEAN :
    GuestRuns /\ guest.counts # {} /\ HandleHpc1Outputs([hpc EXCEPT !.end = end], FALSE)

WriteHpcDescriptor ==
    GuestRuns /\ guest.controls # {} /\ HandleHpc1Outputs([hpc EXCEPT !.loaded = FALSE, !.fetch = hpc.start], FALSE)

\* reset of the whole board.
BoardReset ==
    /\ loop = None /\ Alive
    /\ chip' = Reset(chip)
    /\ bus' = CancelTransaction(bus)
    /\ hpc' = NewChannel
    /\ pend' = None
    /\ event' = "none"
    /\ failed' = FALSE
    /\ UNCHANGED <<loop, panicked, guest>>

\* insert_medium and eject_medium, from the user.
ChangeMedium == \E t \in Removable :
    /\ guest.swaps /\ GuestRuns /\ BusIdle(bus)
    /\ bus' = [bus EXCEPT !.loaded[t] = ~@]
    /\ UNCHANGED <<chip, hpc, pend, event, loop, panicked, failed, guest>>

Next ==
    \/ ProcessScsiEvent \/ FetchDescriptor \/ TransferWindow
    \/ WriteCommand \/ ReadStatusRegister \/ ReadDataRegister \/ WriteDataRegister
    \/ WriteRegister \/ WriteHpcControl \/ WriteHpcCount \/ WriteHpcBuffer \/ WriteHpcDescriptor
    \/ BoardReset \/ ChangeMedium

Spec == Init /\ [][Next]_vars

-----------------------------------------------------------------------------
\* The counters of the controller are u32 that never underflow, and an event
\* always has a request to serve.
TypeOK ==
    /\ chip \in Chips
    /\ bus \in Buses
    /\ hpc \in [count : 0..BYTE_COUNT_MAX, end : BOOLEAN, loaded : BOOLEAN, fetch : BOOLEAN,
                start : BOOLEAN, toMemory : BOOLEAN, reset : BOOLEAN]
    /\ pend \in Requests \cup {None}
    /\ loop \in Loops \cup {None}
    /\ failed \in BOOLEAN
    /\ event \in {"none", "now", "later"}
    /\ event # "none" => pend # None

\* The assertions of advance_scsi_data_out and of transfer_scsi_data_out
\* ("SCSI bus cannot exceed the WD transfer window") hold.
AssertionsHold == ~panicked

\* A controller that is busy while no event is due waits for something the
\* guest can give: a byte read or written, a DMA window, a command that ends a
\* selection without timeout.  Otherwise no interrupt would ever come.  The
\* exception is a request the bus has refused.
BusyIsWaiting ==
    chip.busy /\ event = "none" /\ loop = None /\ ~failed =>
        \/ chip.input # None \/ chip.output \/ DmaPending(chip)
        \/ pend # None /\ pend.kind = "Timeout" /\ ~chip.timeout

\* The target is in a data phase only while it has a transaction of that
\* direction, through attentions, messages and failures of the storage, and a
\* transaction never outlives its connection, so that a selection cannot fail.
PhaseHasTransaction ==
    /\ bus.txn # None => bus.conn # None
    /\ BusPhase(bus) = "DataIn" => bus.txn # None /\ bus.txn.kind \in DataIn
    /\ BusPhase(bus) = "DataOut" => bus.txn # None /\ bus.txn.kind \in DataOut

\* Whatever the bus is doing, restore_snapshot accepts a snapshot of it: a
\* transaction has bytes left and the medium it is about, buffers keep their limits.
SnapshotRestorable == Restorable(bus)

\* An unread SCSI Status is replaced only by a reset, by a command that ends the
\* transfer or the message (abort, negate ACK), or by an attention without a target,
\* never by the progress of a transfer nor by the phase an attention leads to.
StatusKept ==
    [][chip.irq /\ chip'.irq /\ chip'.status # chip.status =>
         \/ chip'.status = Code("reset")
         \/ pend # None /\ pend.kind \in {"Abort", "Acknowledge"}
         \/ pend # None /\ pend.kind = "Attention" /\ bus.conn = None]_vars

\* Each window takes the same number of bytes off the descriptor, the
\* controller's transfer count and the transaction, also when storage or memory
\* fails.  A transfer of a single byte has no count.
WindowAccounted ==
    [][loop # None /\ loop.left # 0 /\ HasWindow(hpc) =>
         LET taken == hpc.count - hpc'.count
         IN /\ IF chip.single THEN taken <= 1 ELSE chip.count - chip'.count = taken
            /\ bus'.txn # None => bus.txn.remaining - bus'.txn.remaining = taken
            /\ bus'.txn = None => taken \in {0, bus.txn.remaining}]_vars

\* A transfer that waits for DMA never waits while HPC1 has a window, whether
\* the guest starts the channel or the command first.
NoStalledDma ==
    event # "now" /\ loop = None /\ DmaPending(chip) => ~HasWindow(hpc) /\ ~hpc.fetch
\* Whoever waits for an interrupt or for DMA is going to be served.
NothingStalled == BusyIsWaiting /\ NoStalledDma

\* The controller, its channel and the bus agree on the transfer they are in.
TransferSound == TypeOK /\ AssertionsHold /\ PhaseHasTransaction /\ SnapshotRestorable

\* The steps of a transfer account for every byte, and announce nothing over an
\* unread status.
StepsAccounted == WindowAccounted /\ StatusKept
==============================================================================
