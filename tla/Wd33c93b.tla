------------------------------ MODULE Wd33c93b ------------------------------
(***************************************************************************)
(* The WD33C93B SCSI controller, crates/se_device wd33c93b.rs.             *)
(*                                                                         *)
(* The chip is a record and each method of Wd33c93b an operator.  An       *)
(* operator that uses the bus works on a unit: the chip, the bus, the      *)
(* board work that is left (WdWork) and whether the bus returned an error. *)
(*                                                                         *)
(* The selector of the indirect registers is left out: an access names its *)
(* register.  The latched copies of registers in a request are left out    *)
(* too, because a request is served before the host's next access.  Of     *)
(* Control only the DMA mode is kept, of Timeout Period whether it is set, *)
(* of Command Phase whether it says that data is transferred.              *)
(***************************************************************************)
EXTENDS ScsiBus

CONSTANTS
    WdCdbLength,        \* cdb_length of wd33c93b.rs, for each opcode
    TRANSFER_COUNT_MAX  \* largest transfer count (0xffffff)

ASSUME WdConstants ==
    /\ TRANSFER_COUNT_MAX \in Nat \ {0}
    /\ WdCdbLength \in [KnownOpcodes -> Nat \ {0}]
    \* The controller never sends more bytes than the target takes.
    /\ \A o \in KnownOpcodes : WdCdbLength[o] <= CdbLength[o]

Commands == {"reset", "abort", "attention", "negate ack", "disconnect",
             "select", "select with attention", "transfer", "transfer byte",
             "combined", "combined with attention"}

\* Status codes: a class, and the phase or the code.
Code(name) == <<name, "">>
Statuses == {Code(s) : s \in {"invalid", "selected", "paused", "disconnected", "abort free",
                              "reset", "timeout", "done"}}
              \cup ({"service", "unexpected", "complete", "aborted"} \X Phases)

\* clear_transfer_state.
ClearTransferState(c) ==
    [c EXCEPT !.busy = FALSE, !.combined = FALSE, !.attention = FALSE, !.ack = FALSE,
              !.phaseAfter = FALSE, !.pioPhase = None, !.remaining = 0, !.single = FALSE,
              !.input = None, !.output = FALSE, !.aborting = FALSE]

\* new, a hardware reset completed.
NewChip ==
    [dma |-> FALSE, timeout |-> FALSE, opcode |-> "test", lun |-> 0, data |-> FALSE,
     count |-> 0, dest |-> 0, status |-> Code("reset"), cip |-> FALSE, irq |-> TRUE,
     busy |-> FALSE, combined |-> FALSE, attention |-> FALSE, ack |-> FALSE,
     phaseAfter |-> FALSE, pioPhase |-> None, remaining |-> 0, single |-> FALSE,
     input |-> None, output |-> FALSE, aborting |-> FALSE]

\* reset keeps the programming registers.
Reset(c) == ClearTransferState([c EXCEPT !.status = Code("reset"), !.cip = FALSE, !.irq = TRUE])

SoftwareReset(c) == NewChip

\* raise_status.
RaiseStatus(c, status) ==
    [c EXCEPT !.status = status, !.cip = FALSE, !.busy = FALSE, !.output = FALSE, !.irq = TRUE]

\* report_phase.
ReportPhase(c, b, class) ==
    RaiseStatus(c, IF b.conn = None THEN Code("disconnected") ELSE <<class, b.conn.phase>>)

\* abort_transfer.
AbortTransfer(c, b) ==
    RaiseStatus([c EXCEPT !.pioPhase = None, !.aborting = FALSE],
                IF b.conn = None THEN Code("abort free") ELSE <<"aborted", b.conn.phase>>)

\* finish_select_and_transfer.
FinishSelectAndTransfer(c, status) ==
    [ClearTransferState(c) EXCEPT !.lun = status, !.data = FALSE, !.status = Code("done"),
                                  !.cip = FALSE, !.irq = TRUE]

\* finish_selection_timeout.
FinishSelectionTimeout(c) ==
    [ClearTransferState(c) EXCEPT !.data = FALSE, !.status = Code("timeout"), !.cip = FALSE, !.irq = TRUE]

\* advance_information_byte; both counters are u32.
AdvanceInformationByte(c) ==
    [c EXCEPT !.remaining = @ - 1, !.count = IF c.single THEN 0 ELSE @ - 1]

Unit(c, b) == [chip |-> c, bus |-> b, work |-> "idle", err |-> FALSE]
Failed(c, b) == [chip |-> c, bus |-> b, work |-> "idle", err |-> TRUE]

\* remaining_transfer_bytes.
RemainingTransferBytes(c) == IF c.single THEN c.remaining ELSE c.count

\* dma_pending.
DmaPending(c) == c.busy /\ c.dma /\ c.pioPhase \in {"DataIn", "DataOut"} /\ c.remaining # 0

-----------------------------------------------------------------------------
(* pump.                                                                    *)

\* The command is over, or waits for the host to take the byte.
PumpEnds(c, b) ==
    \/ c.input # None
    \/ c.aborting
    \/ c.combined /\ BusPhase(b) = "Status"
    \/ c.pioPhase = None
    \/ c.remaining = 0 \/ BusPhase(b) # c.pioPhase

PumpEnd(c, b) ==
    CASE c.input # None -> Unit(c, b)
      [] c.input = None /\ c.aborting -> Unit(AbortTransfer(c, b), b)
      [] c.input = None /\ ~c.aborting /\ c.combined /\ BusPhase(b) = "Status" ->
            \* The status, the message, and bus free.
            LET status == ReadInformation(b, None)
                message == ReadInformation(status.bus, None)
            IN IF message.value # CommandComplete THEN Failed(c, message.bus)
               ELSE Unit(FinishSelectAndTransfer(c, status.value[2]),
                         AcknowledgeMessage(message.bus, FALSE))
      [] c.input = None /\ ~c.aborting /\ ~(c.combined /\ BusPhase(b) = "Status") ->
            IF c.pioPhase = None THEN Unit(c, b)
            ELSE LET over == [c EXCEPT !.pioPhase = None]
                 IN Unit(IF ~c.combined /\ c.pioPhase = "MessageIn" /\ c.remaining = 0
                         THEN RaiseStatus([over EXCEPT !.ack = TRUE], Code("paused"))
                         ELSE IF c.combined
                         THEN ReportPhase([over EXCEPT !.data = TRUE], b, "unexpected")
                         ELSE ReportPhase(over, b, IF c.remaining = 0 THEN "complete" ELSE "unexpected"),
                         b)

\* Storage that fails moves the target to Status, where the pump ends.
Pump(c, b, luck) ==
    IF PumpEnds(c, b) THEN PumpEnd(c, b)
    ELSE IF c.dma /\ c.pioPhase \in {"DataIn", "DataOut"} THEN [Unit(c, b) EXCEPT !.work = "dma"]
    ELSE IF ~Input(c.pioPhase) THEN Unit([c EXCEPT !.output = TRUE], b)
    ELSE LET r == ReadInformation(b, luck)
         IN IF r.err THEN Failed(c, r.bus)
            ELSE IF r.value = None THEN PumpEnd(c, r.bus)
            ELSE Unit(AdvanceInformationByte([c EXCEPT !.input = r.value]), r.bus)

-----------------------------------------------------------------------------
(* service_request.                                                         *)

\* wait_for_selection.
WaitForSelection(c, b) == [Unit([c EXCEPT !.busy = TRUE], b) EXCEPT !.work = "wait"]

ServiceSelect(c, b) ==
    IF b.conn # None THEN Unit(RaiseStatus(c, Code("invalid")), b)
    ELSE LET r == Select(b, c.dest, c.attention)
         IN IF r.err THEN Failed(c, b)
            ELSE IF ~r.value THEN WaitForSelection(c, b)
            ELSE Unit([RaiseStatus(c, Code("selected")) EXCEPT !.phaseAfter = TRUE], r.bus)

\* The connection of a combined command: IDENTIFY and the CDB.
ConnectCombined(c, selected, luck) ==
    LET identified == IF c.attention
                      THEN WriteInformation(selected, Identify(c.lun), TRUE, luck).bus ELSE selected
    IN WriteCdb(identified, c.opcode, WdCdbLength[c.opcode], luck)

\* service_combined.
ServiceCombined(c, b, luck) ==
    LET go(chip, bus) ==
            Pump([chip EXCEPT !.pioPhase = BusPhase(bus), !.remaining = chip.count, !.single = FALSE],
                 bus, luck)
        r == Select(b, c.dest, c.attention)
        sent == ConnectCombined(c, r.bus, luck)
    IN IF b.conn # None
       THEN IF b.conn.target # c.dest \/ ~c.data THEN Unit(RaiseStatus(c, Code("invalid")), b)
            ELSE go(c, b)
       ELSE IF r.err THEN Failed(c, b)
       ELSE IF ~r.value THEN WaitForSelection(c, b)
       ELSE IF sent.err THEN Failed([c EXCEPT !.data = FALSE, !.attention = FALSE], sent.bus)
       ELSE go([c EXCEPT !.data = FALSE, !.attention = FALSE], sent.bus)

ServiceTransfer(c, b, luck) ==
    IF b.conn = None THEN Unit(RaiseStatus(c, Code("invalid")), b)
    ELSE Pump([c EXCEPT !.pioPhase = BusPhase(b), !.remaining = IF c.single THEN 1 ELSE c.count],
              b, luck)

\* A byte from the host; storage may fail before it is taken.
ServiceOutput(c, b, byte, luck) ==
    LET last == c.remaining = 1
        r == WriteInformation(b, byte, last, luck)
        released == IF c.pioPhase = "MessageOut" /\ last THEN [c EXCEPT !.attention = FALSE] ELSE c
    IN IF r.err THEN Failed(c, r.bus)
       ELSE Pump(IF r.value THEN AdvanceInformationByte(released) ELSE released, r.bus, luck)

ServiceAcknowledge(c, b) ==
    IF ~c.ack THEN Unit(c, b)
    ELSE LET acknowledged == AcknowledgeMessage(b, c.attention)
         IN Unit(ReportPhase([c EXCEPT !.ack = FALSE], acknowledged, "service"), acknowledged)

ServiceAttention(c, b, luck) ==
    IF b.conn = None THEN Unit(RaiseStatus(c, Code("invalid")), b)
    ELSE IF c.ack THEN Unit(c, b)
    ELSE LET attention == AssertAttention(b)
         IN IF c.irq THEN Unit([c EXCEPT !.phaseAfter = TRUE], attention)
            ELSE IF c.busy THEN Pump(c, attention, luck)
            ELSE Unit(ReportPhase(c, attention, "service"), attention)

ServiceRequest(kind, byte, chip, b, luck) ==
    LET c == [chip EXCEPT !.cip = FALSE]
    IN CASE kind = "Select" -> ServiceSelect(c, b)
         [] kind = "Combined" -> ServiceCombined(c, b, luck)
         [] kind = "Transfer" -> ServiceTransfer(c, b, luck)
         [] kind = "Pump" -> Pump(c, b, luck)
         [] kind = "Output" -> ServiceOutput(c, b, byte, luck)
         [] kind = "Phase" -> Unit(ReportPhase(c, b, "service"), b)
         [] kind = "Acknowledge" -> ServiceAcknowledge(c, b)
         [] kind = "Attention" -> ServiceAttention(c, b, luck)
         [] kind = "Abort" -> IF c.input # None THEN Unit([c EXCEPT !.aborting = TRUE], b)
                              ELSE Unit(AbortTransfer(c, b), b)
         [] kind = "Disconnect" -> Unit(ClearTransferState(c), CancelTransaction(b))
         [] kind = "Timeout" -> Unit(FinishSelectionTimeout(c), b)

\* finish_dma; work the pump asks for again is dropped.
FinishDma(c, b, status, luck) ==
    Pump([c EXCEPT !.remaining = c.count],
         IF status = None THEN b ELSE SetStatus(b, status), luck)

\* consume_transfer_bytes.
CanConsume(c, n) == IF c.single THEN n = 1 /\ c.remaining = 1 ELSE n <= c.count
ConsumeTransferBytes(c, n) ==
    IF c.single THEN [c EXCEPT !.count = 0, !.remaining = 0] ELSE [c EXCEPT !.count = @ - n]

-----------------------------------------------------------------------------
(* Host accesses: the chip they leave and the request they latch.           *)

Access(c, request) == [chip |-> c, request |-> request, reset |-> FALSE]

\* execute_command.
ExecuteCommand(chip, command) ==
    LET c == [chip EXCEPT !.phaseAfter = FALSE]
        started == [c EXCEPT !.cip = TRUE, !.busy = TRUE, !.irq = FALSE]
    IN CASE command = "reset" -> [Access(SoftwareReset(c), None) EXCEPT !.reset = TRUE]
         [] command \in {"combined", "combined with attention"} ->
                Access([started EXCEPT !.combined = TRUE,
                                       !.attention = command = "combined with attention"], "Combined")
         [] command \in {"select", "select with attention"} ->
                Access([ClearTransferState(c) EXCEPT !.cip = TRUE, !.busy = TRUE, !.irq = FALSE,
                            !.attention = command = "select with attention"], "Select")
         [] command \in {"transfer", "transfer byte"} ->
                Access([started EXCEPT !.combined = FALSE, !.input = None, !.output = FALSE,
                            !.single = command = "transfer byte" \/ c.count = 0], "Transfer")
         [] command = "abort" -> Access(c, "Abort")
         [] command = "attention" -> Access([c EXCEPT !.attention = TRUE], "Attention")
         [] command = "negate ack" -> Access(c, "Acknowledge")
         [] command = "disconnect" -> Access(c, "Disconnect")

\* read_port of SCSI Status and of Data.
ReadStatus(c) ==
    Access([c EXCEPT !.irq = FALSE, !.phaseAfter = FALSE], IF c.phaseAfter THEN "Phase" ELSE None)
ReadData(c) == Access([c EXCEPT !.input = None], IF c.input # None THEN "Pump" ELSE None)

\* write_selected_register of Data.
WriteData(c) == Access([c EXCEPT !.output = FALSE], IF c.output THEN "Output" ELSE None)

InputBytes == {Payload, StatusByte(Good), StatusByte(CheckCondition), CommandComplete, Sdtr, Reject}

Chips ==
    [dma : BOOLEAN, timeout : BOOLEAN, opcode : KnownOpcodes, lun : Luns, data : BOOLEAN,
     count : 0..TRANSFER_COUNT_MAX, dest : Nat, status : Statuses, cip : BOOLEAN, irq : BOOLEAN,
     busy : BOOLEAN, combined : BOOLEAN, attention : BOOLEAN, ack : BOOLEAN,
     phaseAfter : BOOLEAN, pioPhase : Phases \cup {None}, remaining : 0..TRANSFER_COUNT_MAX,
     single : BOOLEAN, input : InputBytes \cup {None}, output : BOOLEAN, aborting : BOOLEAN]
==============================================================================
