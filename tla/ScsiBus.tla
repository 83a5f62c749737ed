------------------------------- MODULE ScsiBus -------------------------------
(***************************************************************************)
(* The functional SCSI bus of crates/se_device scsi.rs: one initiator, a   *)
(* connection that goes through information phases, and one transaction    *)
(* between the target's storage and the initiator.                         *)
(*                                                                         *)
(* A bus is a record and each method of ScsiBus an operator on it.         *)
(* Payload bytes are counted, not stored.  Of a CDB the opcode and the     *)
(* number of bytes are kept (its LUN bits are zero), of a message what     *)
(* it asks for; an extended message counts as one byte.  What a target     *)
(* makes of a CDB is the plan of its opcode, or a refusal with CHECK       *)
(* CONDITION; storage may fail: luck says which.                           *)
(***************************************************************************)
EXTENDS Integers, Sequences, FiniteSets

CONSTANTS
    None,           \* Option::None
    Targets,        \* target identifiers with an attached logical unit 0
    Removable,      \* targets whose backing is a removable slot
    Opcodes,        \* opcodes of the commands
    CdbLength,      \* cdb_length of scsi.rs, for each opcode
    DataLength,     \* bytes the plan of an opcode moves
    CDB_LIMIT,      \* bytes of a CDB a connection stores (16)
    MESSAGE_LIMIT   \* bytes of a message a connection stores (257)

KnownOpcodes == {"test", "inquiry", "read", "write", "select", "eject", "long"}

ASSUME ScsiConstants ==
    /\ Removable \subseteq Targets
    /\ Opcodes \subseteq KnownOpcodes
    /\ CDB_LIMIT \in Nat \ {0}
    /\ MESSAGE_LIMIT \in Nat \ {0}
    /\ CdbLength \in [KnownOpcodes -> 1..CDB_LIMIT]
    /\ DataLength \in [KnownOpcodes -> Nat]

Phases == {"DataOut", "DataIn", "Command", "Status", "MessageOut", "MessageIn"}
Input(phase) == phase \in {"DataIn", "Status", "MessageIn"}

Good == 0
CheckCondition == 2

\* Messages of the initiator and of the target.  NoOperation is also the
\* initiator's MESSAGE REJECT, Unknown is any message the target does not know.
Identify(lun) == <<"identify", lun>>
Abort == <<"abort", 0>>
Sdtr == <<"sdtr", 0>>
NoOperation == <<"nop", 0>>
Unknown == <<"unknown", 0>>
Reject == <<"reject", 0>>
CommandComplete == <<"complete", 0>>

\* The other bytes of an information phase.
Payload == <<"payload", 0>>
StatusByte(status) == <<"status", status>>

\* The logical units an IDENTIFY may name; only unit 0 is attached.
Luns == 0..2
OutMessages == {Abort, Sdtr, NoOperation, Unknown} \cup {Identify(l) : l \in Luns}

\* What an operation returns.
Ok(bus, value) == [bus |-> bus, value |-> value, err |-> FALSE]
Err(bus) == [bus |-> bus, value |-> None, err |-> TRUE]

BusPhase(b) == IF b.conn = None THEN None ELSE b.conn.phase

\* select.
Select(b, target, attention) ==
    IF b.conn # None \/ b.txn # None THEN Err(b)
    ELSE IF target \notin Targets THEN Ok(b, FALSE)
    ELSE Ok([b EXCEPT !.conn =
                [target |-> target, lun |-> 0,
                 phase |-> IF attention THEN "MessageOut" ELSE "Command",
                 return |-> "Command", opcode |-> None, cdb |-> 0,
                 out |-> <<>>, in |-> <<>>, offset |-> 0, status |-> Good]], TRUE)

\* cancel_transaction.
CancelTransaction(b) == [b EXCEPT !.conn = None, !.txn = None]

\* set_status.
SetStatus(b, status) ==
    IF b.conn = None THEN b
    ELSE [b EXCEPT !.conn.status = status, !.conn.phase = "Status"]

\* finish_message_out: an unknown message ends the reading of the others; each
\* offer of a synchronous transfer is answered.
FinishMessageOut(b, out) ==
    LET unknown == {i \in DOMAIN out : out[i] \in {Abort, Unknown}}
        read == {i \in DOMAIN out : \A j \in unknown : i < j}
        named == {i \in read : out[i][1] = "identify"}
        offers == {i \in read : out[i] = Sdtr}
        response == [i \in 1..Cardinality(offers) |-> Sdtr]
                        \o IF unknown = {} THEN <<>> ELSE <<Reject>>
        lun == IF named = {} THEN b.conn.lun
               ELSE out[CHOOSE i \in named : \A j \in named : i >= j][2]
    IN IF out = <<Abort>> THEN CancelTransaction(b)
       ELSE [b EXCEPT !.conn.lun = lun, !.conn.out = <<>>,
                      !.conn.in = IF response = <<>> THEN @ ELSE response,
                      !.conn.offset = IF response = <<>> THEN @ ELSE 0,
                      !.conn.phase = IF response = <<>> THEN b.conn.return ELSE "MessageIn"]

\* Begins a transaction and its data phase.
Begin(b, kind, n, status) ==
    [b EXCEPT !.txn = [target |-> b.conn.target, kind |-> kind, remaining |-> n, status |-> status],
              !.conn.phase = IF kind \in {"immediate", "read"} THEN "DataIn" ELSE "DataOut"]

\* start_storage_transfer: without a medium the range is invalid.
MediumPresent(b, target) == target \notin Removable \/ b.loaded[target]

StartStorageTransfer(b, kind, n) ==
    IF n = 0 THEN SetStatus(b, Good)
    ELSE IF ~MediumPresent(b, b.conn.target) THEN SetStatus(b, CheckCondition)
    ELSE Begin(b, kind, n, Good)

\* eject_guest_medium, while the connection lasts.
EjectGuestMedium(b) ==
    IF b.conn.target \notin Removable THEN SetStatus(b, CheckCondition)
    ELSE SetStatus([b EXCEPT !.loaded[b.conn.target] = FALSE], Good)

\* start_missing_lun_response: INQUIRY is answered for a missing unit.
MissingLun(b, opcode, n) ==
    IF opcode # "inquiry" THEN SetStatus(b, CheckCondition)
    ELSE IF n = 0 THEN SetStatus(b, Good)
    ELSE Begin(b, "immediate", n, Good)

\* execute_connected_command and start_command.
ExecuteConnectedCommand(b, luck) ==
    LET opcode == b.conn.opcode
        n == DataLength[opcode]
    IN IF b.txn # None THEN Err(b)
       ELSE Ok(CASE b.conn.lun # 0 -> MissingLun(b, opcode, n)
                 [] b.conn.lun = 0 /\ luck.refused -> SetStatus(b, CheckCondition)
                 [] b.conn.lun = 0 /\ ~luck.refused /\ opcode \in {"test", "long"} -> SetStatus(b, Good)
                 [] b.conn.lun = 0 /\ ~luck.refused /\ opcode = "inquiry" ->
                        IF n = 0 THEN SetStatus(b, Good) ELSE Begin(b, "immediate", n, Good)
                 [] b.conn.lun = 0 /\ ~luck.refused /\ opcode \in {"read", "write"} ->
                        StartStorageTransfer(b, opcode, n)
                 [] b.conn.lun = 0 /\ ~luck.refused /\ opcode = "select" ->
                        IF n = 0 THEN SetStatus(b, Good) ELSE Begin(b, "select", n, Good)
                 [] b.conn.lun = 0 /\ ~luck.refused /\ opcode = "eject" -> EjectGuestMedium(b),
               TRUE)

\* The bytes of one chunk of the active transaction.
Chunk(b, maximum) == IF maximum < b.txn.remaining THEN maximum ELSE b.txn.remaining

\* ScsiTransferResult; "none" is an error of the bus.
Result(b, result, transferred, status) ==
    [bus |-> b, result |-> result, transferred |-> transferred, status |-> status]
Rejected(b) == Result(b, "rejected", 0, None)
StorageFailed(b) == Result([b EXCEPT !.txn = None], "complete", 0, CheckCondition)
StorageWorks(b, luck) == luck.storage /\ MediumPresent(b, b.txn.target)

\* A chunk of n bytes was moved.
Advance(b, n, status) ==
    IF n = b.txn.remaining THEN Result([b EXCEPT !.txn = None], "complete", n, status)
    ELSE Result([b EXCEPT !.txn.remaining = @ - n], "more", n, None)

\* transfer_storage_data_in, transfer_storage_data_out, transfer_immediate_data_in and
\* transfer_target_data_out.  accepted is what the callback returns: a read asks it
\* after the storage, a write before.
StorageDataIn(b, n, accepted, luck) ==
    IF ~StorageWorks(b, luck) THEN StorageFailed(b)
    ELSE IF ~accepted THEN Rejected(b) ELSE Advance(b, n, Good)
StorageDataOut(b, n, accepted, luck) ==
    IF ~accepted THEN Rejected(b)
    ELSE IF ~StorageWorks(b, luck) THEN StorageFailed(b) ELSE Advance(b, n, Good)
ImmediateDataIn(b, n, accepted) ==
    IF ~accepted THEN Rejected(b) ELSE Advance(b, n, b.txn.status)
TargetDataOut(b, n, accepted, luck) ==
    IF ~accepted THEN Rejected(b)
    ELSE Advance(b, n, IF luck.refused THEN CheckCondition ELSE Good)

\* transfer_data_in and transfer_data_out.
DataIn == {"immediate", "read"}
DataOut == {"write", "select"}
Transfer(b, kinds, maximum, accepted, luck) ==
    IF maximum = 0 \/ b.txn = None THEN Result(b, "none", 0, None)
    ELSE IF b.txn.kind \notin kinds THEN Result(b, "none", 0, None)
    ELSE CASE b.txn.kind = "read" -> StorageDataIn(b, Chunk(b, maximum), accepted, luck)
           [] b.txn.kind = "write" -> StorageDataOut(b, Chunk(b, maximum), accepted, luck)
           [] b.txn.kind = "immediate" -> ImmediateDataIn(b, Chunk(b, maximum), accepted)
           [] b.txn.kind = "select" -> TargetDataOut(b, Chunk(b, maximum), accepted, luck)

\* Mutant: the status of the last byte is forgotten.
ObserveNothing(r) == r.bus

\* observe_transfer_result.
Observe(r) == IF r.result = "complete" THEN SetStatus(r.bus, r.status) ELSE r.bus

\* write_information; the value is FALSE when storage failed.
WriteInformation(b, byte, last, luck) ==
    CASE BusPhase(b) = "MessageOut" ->
            IF Len(b.conn.out) = MESSAGE_LIMIT THEN Err(b)
            ELSE LET out == Append(b.conn.out, byte)
                 IN Ok(IF last THEN FinishMessageOut(b, out) ELSE [b EXCEPT !.conn.out = out], TRUE)
      [] BusPhase(b) = "Command" ->
            IF b.conn.cdb = CDB_LIMIT THEN Err(b)
            ELSE LET c == [b EXCEPT !.conn.cdb = @ + 1,
                                    !.conn.opcode = IF b.conn.cdb = 0 THEN byte[2] ELSE @]
                 IN IF c.conn.cdb = CdbLength[c.conn.opcode]
                    THEN ExecuteConnectedCommand(c, luck) ELSE Ok(c, TRUE)
      [] BusPhase(b) = "DataOut" ->
            LET r == Transfer(b, DataOut, 1, TRUE, luck)
            IN IF r.result = "none" THEN Err(b) ELSE Ok(Observe(r), r.transferred = 1)
      [] BusPhase(b) \notin {"MessageOut", "Command", "DataOut"} -> Err(b)

\* The first bytes of a CDB, one after the other; no more than it has.
WriteCdb(b, opcode, bytes, luck) ==
    LET c == [b EXCEPT !.conn.cdb = bytes, !.conn.opcode = opcode]
    IN IF bytes = CdbLength[opcode] THEN ExecuteConnectedCommand(c, luck) ELSE Ok(c, TRUE)

\* read_information; the value is None when storage failed.
ReadInformation(b, luck) ==
    CASE BusPhase(b) = "DataIn" ->
            LET r == Transfer(b, DataIn, 1, TRUE, luck)
            IN IF r.result = "none" THEN Err(b)
               ELSE Ok(Observe(r), IF r.transferred = 1 THEN Payload ELSE None)
      [] BusPhase(b) = "Status" ->
            Ok([b EXCEPT !.conn.phase = "MessageIn", !.conn.in = <<CommandComplete>>,
                         !.conn.offset = 0], StatusByte(b.conn.status))
      [] BusPhase(b) = "MessageIn" ->
            IF b.conn.offset = Len(b.conn.in) THEN Err(b)
            ELSE Ok([b EXCEPT !.conn.offset = @ + 1], b.conn.in[b.conn.offset + 1])
      [] BusPhase(b) \notin {"DataIn", "Status", "MessageIn"} -> Err(b)

\* acknowledge_message.
AcknowledgeMessage(b, attention) ==
    IF BusPhase(b) # "MessageIn" THEN b
    ELSE IF attention
         THEN [b EXCEPT !.conn.in = <<>>, !.conn.offset = 0, !.conn.phase = "MessageOut"]
    ELSE IF b.conn.offset # Len(b.conn.in) THEN b
    ELSE IF b.conn.in = <<CommandComplete>> THEN [b EXCEPT !.conn = None]
    ELSE [b EXCEPT !.conn.in = <<>>, !.conn.offset = 0, !.conn.phase = b.conn.return]

\* assert_attention.
AssertAttention(b) ==
    IF BusPhase(b) \in {None, "MessageIn", "MessageOut"} THEN b
    ELSE [b EXCEPT !.conn.return = b.conn.phase, !.conn.phase = "MessageOut", !.conn.out = <<>>]

\* insert_medium and eject_medium need a free bus.
BusIdle(b) == b.conn = None /\ b.txn = None

\* validate_snapshot_transaction.
RestorableTransaction(b) ==
    /\ b.txn.target \in Targets
    /\ b.txn.remaining # 0
    /\ b.txn.kind \in {"read", "write"} => MediumPresent(b, b.txn.target)

\* restore_snapshot accepts a snapshot of the bus on a machine with the same media.
Restorable(b) ==
    /\ b.txn # None => RestorableTransaction(b)
    /\ b.conn # None =>
         /\ b.conn.target \in Targets
         /\ b.conn.cdb <= CDB_LIMIT
         /\ Len(b.conn.out) <= MESSAGE_LIMIT
         /\ Len(b.conn.in) <= MESSAGE_LIMIT
         /\ b.conn.offset <= Len(b.conn.in)

FreeBus == [conn |-> None, txn |-> None, loaded |-> [t \in Removable |-> TRUE]]

Connections ==
    [target : Targets, lun : Luns, phase : Phases, return : {"Command", "DataIn", "DataOut", "Status"},
     opcode : KnownOpcodes \cup {None}, cdb : 0..CDB_LIMIT,
     out : Seq(OutMessages),
     in : Seq({Sdtr, Reject, CommandComplete}),
     offset : Nat, status : {Good, CheckCondition}]

Transactions ==
    [target : Targets, kind : DataIn \cup DataOut, remaining : Nat \ {0}, status : {Good}]

Buses == [conn : Connections \cup {None}, txn : Transactions \cup {None},
          loaded : [Removable -> BOOLEAN]]
==============================================================================
