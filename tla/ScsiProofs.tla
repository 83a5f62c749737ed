------------------------------ MODULE ScsiProofs ------------------------------
(***************************************************************************)
(* Proofs about Scsi, for every target, every program of a driver, and     *)
(* every limit.                                                            *)
(***************************************************************************)
EXTENDS Scsi, TLAPS, FiniteSetTheorems, SequenceTheorems, WellFoundedInduction

-----------------------------------------------------------------------------
(* The bus.                                                                 *)

DataPhases == {"DataIn", "DataOut"}
Completion == <<CommandComplete>>
Luck == [refused : BOOLEAN, storage : BOOLEAN]

\* Within a message the target is going to return to the phase it left.
InMessage(b) ==
    b.conn.phase = "MessageOut" \/ (b.conn.phase = "MessageIn" /\ b.conn.in # Completion)
Destined(b) == IF InMessage(b) THEN b.conn.return ELSE b.conn.phase

\* A transaction is there exactly while the target is in its data phase or going to
\* return to it.
Agreed(b) ==
    /\ b.conn = None => b.txn = None
    /\ b.conn # None =>
         /\ Destined(b) = "DataIn" => b.txn # None /\ b.txn.kind \in DataIn
         /\ Destined(b) = "DataOut" => b.txn # None /\ b.txn.kind \in DataOut
         /\ Destined(b) \notin DataPhases => b.txn = None

\* What also holds of a bus whose transaction has just ended.
BusBase(b) ==
    /\ b \in Buses /\ Restorable(b)
    /\ b.conn = None => b.txn = None
    /\ b.conn # None /\ b.conn.cdb # 0 => b.conn.opcode # None
BusOK(b) == BusBase(b) /\ Agreed(b)

LEMMA ConnTyped ==
    ASSUME NEW b \in Buses, b.conn # None
    PROVE  /\ b.conn \in Connections
           /\ b.conn.target \in Targets /\ b.conn.lun \in Luns /\ b.conn.phase \in Phases
           /\ b.conn.return \in {"Command", "DataIn", "DataOut", "Status"}
           /\ b.conn.opcode \in KnownOpcodes \cup {None} /\ b.conn.cdb \in 0..CDB_LIMIT
           /\ b.conn.out \in Seq(OutMessages) /\ b.conn.in \in Seq({Sdtr, Reject, CommandComplete})
           /\ b.conn.offset \in Nat /\ b.conn.status \in {Good, CheckCondition}
           /\ BusPhase(b) = b.conn.phase /\ BusPhase(b) # None
BY NoneIsNothing DEF Buses, Connections, BusPhase

LEMMA TxnTyped ==
    ASSUME NEW b \in Buses, b.txn # None
    PROVE  /\ b.txn \in Transactions
           /\ b.txn.target \in Targets /\ b.txn.kind \in DataIn \cup DataOut
           /\ b.txn.remaining \in Nat \ {0} /\ b.txn.status = Good
BY DEF Buses, Transactions

\* A bus with another connection, and with another transaction.
LEMMA WithConn ==
    ASSUME NEW b \in Buses, NEW d \in Connections
    PROVE  /\ [b EXCEPT !.conn = d] \in Buses
           /\ [b EXCEPT !.conn = d].conn = d /\ [b EXCEPT !.conn = d].txn = b.txn
           /\ [b EXCEPT !.conn = d].loaded = b.loaded
           /\ [b EXCEPT !.conn = d].conn # None /\ BusPhase([b EXCEPT !.conn = d]) = d.phase
BY NoneIsNothing DEF Buses, BusPhase

LEMMA StatusSet ==
    ASSUME NEW b, BusBase(b), b.conn # None, b.txn = None, NEW s \in {Good, CheckCondition}
    PROVE  /\ BusOK(SetStatus(b, s)) /\ SetStatus(b, s).conn # None /\ SetStatus(b, s).txn = None
           /\ BusPhase(SetStatus(b, s)) = "Status"
<1> DEFINE d == [b.conn EXCEPT !.status = s, !.phase = "Status"]
           e == [b EXCEPT !.conn = d]
<1>1. b \in Buses
  BY DEF BusBase
<1>2. b.conn \in Connections
  BY <1>1, ConnTyped
<1>3. d \in Connections
  BY <1>2 DEF Connections, Phases
<1>4. SetStatus(b, s) = e
  BY <1>1, <1>2 DEF SetStatus, Buses, Connections
<1>5. /\ d.phase = "Status" /\ d.cdb = b.conn.cdb /\ d.opcode = b.conn.opcode /\ d.target = b.conn.target
      /\ d.out = b.conn.out /\ d.in = b.conn.in /\ d.offset = b.conn.offset
  BY <1>2 DEF Connections
<1> HIDE DEF d
<1>6. e \in Buses /\ e.conn = d /\ e.txn = None /\ e.conn # None /\ BusPhase(e) = d.phase
  BY <1>1, <1>3, WithConn
<1> HIDE DEF e
<1>7. BusBase(e)
  BY <1>5, <1>6 DEF BusBase, Restorable
<1>8. Agreed(e)
  BY <1>5, <1>6 DEF Agreed, Destined, InMessage, DataPhases
<1> QED BY <1>4, <1>5, <1>6, <1>7, <1>8 DEF BusOK

LEMMA Begins ==
    ASSUME NEW b, BusBase(b), b.conn # None, NEW kind \in DataIn \cup DataOut, NEW n \in Nat \ {0},
           kind \in {"read", "write"} => MediumPresent(b, b.conn.target)
    PROVE  /\ BusOK(Begin(b, kind, n, Good)) /\ Begin(b, kind, n, Good).conn # None
           /\ BusPhase(Begin(b, kind, n, Good)) \in DataPhases
<1> DEFINE t == [target |-> b.conn.target, kind |-> kind, remaining |-> n, status |-> Good]
           p == IF kind \in {"immediate", "read"} THEN "DataIn" ELSE "DataOut"
           d == [b.conn EXCEPT !.phase = p]
           e == [b EXCEPT !.conn = d, !.txn = t]
<1>1. b \in Buses
  BY DEF BusBase
<1>2. b.conn \in Connections /\ b.conn.target \in Targets
  BY <1>1, ConnTyped
<1>3. d \in Connections
  BY <1>2 DEF Connections, Phases
<1>4. t \in Transactions /\ t # None
  BY <1>2, NoneIsNothing DEF Transactions
<1>5. Begin(b, kind, n, Good) = e
  BY <1>1, <1>2 DEF Begin, Buses, Connections
<1>6. /\ d.phase = p /\ d.cdb = b.conn.cdb /\ d.opcode = b.conn.opcode /\ d.target = b.conn.target
      /\ d.out = b.conn.out /\ d.in = b.conn.in /\ d.offset = b.conn.offset
  BY <1>2 DEF Connections
<1>7. t.target = b.conn.target /\ t.kind = kind /\ t.remaining = n
  OBVIOUS
<1>8. p \in DataPhases /\ p # None /\ (p = "DataIn" => kind \in DataIn) /\ (p = "DataOut" => kind \in DataOut)
  BY NoneIsNothing DEF DataPhases, DataIn, DataOut, Phases
<1> HIDE DEF d, t, p
<1>9. /\ e \in Buses /\ e.conn = d /\ e.txn = t /\ e.loaded = b.loaded
      /\ e.conn # None
  BY <1>1, <1>3, <1>4, NoneIsNothing DEF Buses
<1> HIDE DEF e
<1>10. BusPhase(e) = p
  BY <1>6, <1>9 DEF BusPhase
<1>11. MediumPresent(e, d.target) = MediumPresent(b, b.conn.target)
  BY <1>6, <1>9 DEF MediumPresent
<1>12. BusBase(e)
  BY <1>2, <1>4, <1>6, <1>7, <1>9, <1>11 DEF BusBase, Restorable, RestorableTransaction
<1>13. Agreed(e)
  BY <1>4, <1>6, <1>7, <1>8, <1>9 DEF Agreed, Destined, InMessage, DataPhases
<1> QED BY <1>5, <1>8, <1>9, <1>10, <1>12, <1>13 DEF BusOK

\* A command that was executed left the target in its status or in a data phase.
Executed(r) ==
    /\ BusOK(r) /\ r.conn # None /\ BusPhase(r) \in DataPhases \cup {"Status"}

LEMMA StorageStarts ==
    ASSUME NEW b, BusBase(b), b.conn # None, b.txn = None, NEW kind \in {"read", "write"}, NEW n \in Nat
    PROVE  Executed(StartStorageTransfer(b, kind, n))
<1>1. Good \in {Good, CheckCondition} /\ CheckCondition \in {Good, CheckCondition}
  OBVIOUS
<1>2. kind \in DataIn \cup DataOut
  BY DEF DataIn, DataOut
<1>3. CASE n = 0
  BY <1>1, <1>3, StatusSet DEF StartStorageTransfer, Executed
<1>4. CASE n # 0 /\ ~MediumPresent(b, b.conn.target)
  BY <1>1, <1>4, StatusSet DEF StartStorageTransfer, Executed
<1>5. CASE n # 0 /\ MediumPresent(b, b.conn.target)
  BY <1>2, <1>5, Begins DEF StartStorageTransfer, Executed
<1> QED BY <1>3, <1>4, <1>5

LEMMA Ejects ==
    ASSUME NEW b, BusBase(b), b.conn # None, b.txn = None
    PROVE  Executed(EjectGuestMedium(b))
<1> DEFINE e == [b EXCEPT !.loaded[b.conn.target] = FALSE]
<1>1. Good \in {Good, CheckCondition} /\ CheckCondition \in {Good, CheckCondition}
  OBVIOUS
<1>2. e \in Buses /\ e.conn = b.conn /\ e.txn = b.txn
  BY DEF BusBase, Buses
<1> HIDE DEF e
<1>3. BusBase(e)
  BY <1>2 DEF BusBase, Restorable
<1>4. CASE b.conn.target \notin Removable
  BY <1>1, <1>4, StatusSet DEF EjectGuestMedium, Executed
<1>5. CASE b.conn.target \in Removable
  BY <1>1, <1>2, <1>3, <1>5, StatusSet DEF EjectGuestMedium, Executed, e
<1> QED BY <1>4, <1>5

LEMMA LunMissing ==
    ASSUME NEW b, BusBase(b), b.conn # None, b.txn = None, NEW opcode, NEW n \in Nat
    PROVE  Executed(MissingLun(b, opcode, n))
<1>1. Good \in {Good, CheckCondition} /\ CheckCondition \in {Good, CheckCondition}
  OBVIOUS
<1>2. "immediate" \in DataIn \cup DataOut
  BY DEF DataIn
<1>3. CASE opcode # "inquiry" \/ n = 0
  BY <1>1, <1>3, StatusSet DEF MissingLun, Executed
<1>4. CASE opcode = "inquiry" /\ n # 0
  BY <1>2, <1>4, Begins DEF MissingLun, Executed
<1> QED BY <1>3, <1>4

LEMMA CommandExecutes ==
    ASSUME NEW b, BusBase(b), b.conn # None, b.txn = None, b.conn.opcode # None, NEW luck \in Luck
    PROVE  LET r == ExecuteConnectedCommand(b, luck)
           IN ~r.err /\ Executed(r.bus) /\ r.value = TRUE
<1> DEFINE opcode == b.conn.opcode
           n == DataLength[opcode]
           r == ExecuteConnectedCommand(b, luck)
<1>1. b.conn.opcode \in KnownOpcodes /\ n \in Nat
  BY ConnTyped, ScsiConstants DEF BusBase
<1>2. Good \in {Good, CheckCondition} /\ CheckCondition \in {Good, CheckCondition}
  OBVIOUS
<1>3. "immediate" \in DataIn \cup DataOut /\ "select" \in DataIn \cup DataOut
  BY DEF DataIn, DataOut
<1>4. Executed(SetStatus(b, Good)) /\ Executed(SetStatus(b, CheckCondition))
  BY <1>2, StatusSet DEF Executed
<1>5. n # 0 => Executed(Begin(b, "immediate", n, Good)) /\ Executed(Begin(b, "select", n, Good))
  BY <1>1, <1>3, Begins DEF Executed
<1>6. Executed(MissingLun(b, opcode, n)) /\ Executed(EjectGuestMedium(b))
  BY <1>1, LunMissing, Ejects
<1>7. Executed(StartStorageTransfer(b, "read", n)) /\ Executed(StartStorageTransfer(b, "write", n))
  BY <1>1, StorageStarts
<1>8. luck.refused \in BOOLEAN
  BY DEF Luck
<1>9. ~r.err /\ r.value = TRUE
  BY DEF ExecuteConnectedCommand, Ok
<1>10. CASE b.conn.lun # 0
  BY <1>6, <1>9, <1>10 DEF ExecuteConnectedCommand, Ok
<1>11. CASE b.conn.lun = 0 /\ luck.refused
  BY <1>4, <1>9, <1>11 DEF ExecuteConnectedCommand, Ok
<1>12. CASE b.conn.lun = 0 /\ ~luck.refused
  <2>1. CASE opcode \in {"test", "long"}
    BY <1>4, <1>9, <1>12, <2>1 DEF ExecuteConnectedCommand, Ok
  <2>2. CASE opcode = "inquiry"
    BY <1>4, <1>5, <1>9, <1>12, <2>2 DEF ExecuteConnectedCommand, Ok
  <2>3. CASE opcode \in {"read", "write"}
    BY <1>7, <1>9, <1>12, <2>3 DEF ExecuteConnectedCommand, Ok
  <2>4. CASE opcode = "select"
    BY <1>4, <1>5, <1>9, <1>12, <2>4 DEF ExecuteConnectedCommand, Ok
  <2>5. CASE opcode = "eject"
    BY <1>6, <1>9, <1>12, <2>5 DEF ExecuteConnectedCommand, Ok
  <2> QED BY <1>1, <2>1, <2>2, <2>3, <2>4, <2>5 DEF KnownOpcodes
<1> QED BY <1>8, <1>9, <1>10, <1>11, <1>12

-----------------------------------------------------------------------------
(* Messages.                                                                *)

LEMMA GreatestIndex ==
    ASSUME NEW n \in Nat, NEW T \in SUBSET (1..n), T # {}
    PROVE  \E x \in T : \A y \in T : x >= y
<1> DEFINE R == OpToRel(<, Nat)
           D == {n - x : x \in T}
<1>1. IsWellFoundedOn(R, Nat)
  BY NatLessThanWellFounded
<1>2. D \subseteq Nat /\ D # {}
  <2>1. PICK z \in T : TRUE
    OBVIOUS
  <2>2. n - z \in D
    OBVIOUS
  <2> QED BY <2>2
<1> HIDE DEF R, D
<1>3. PICK d \in D : \A e \in D : ~ (<<e, d>> \in R)
  BY <1>1, <1>2, WFMin
<1>4. PICK x \in T : d = n - x
  BY <1>3 DEF D
<1>5. ASSUME NEW y \in T PROVE x >= y
  <2>1. SUFFICES ASSUME y > x PROVE FALSE
    OBVIOUS
  <2>2. n - y \in D /\ n - y < n - x /\ n - y \in Nat /\ n - x \in Nat
    BY <2>1 DEF D
  <2>3. <<n - y, n - x>> \in R
    BY <2>2 DEF R, OpToRel
  <2> QED BY <1>3, <1>4, <2>2, <2>3
<1> QED BY <1>5

LEMMA Joined ==
    ASSUME NEW T, NEW s \in Seq(T), NEW t \in Seq(T), Len(t) = 1
    PROVE  /\ s \o t \in Seq(T) /\ Len(s \o t) = Len(s) + 1
           /\ (s \o t)[Len(s) + 1] = t[1]
BY ConcatProperties, LenProperties, SMTT(40)

\* Every offer has an answer, an unknown message ends the list, and there are never more
\* answers than messages.
LEMMA Answers ==
    ASSUME NEW out \in Seq(OutMessages), NEW U \in SUBSET DOMAIN out,
           NEW S \in SUBSET {i \in DOMAIN out : \A j \in U : i < j},
           NEW r, r = [i \in 1..Cardinality(S) |-> Sdtr] \o (IF U = {} THEN <<>> ELSE <<Reject>>)
    PROVE  r \in Seq({Sdtr, Reject, CommandComplete}) /\ Len(r) <= Len(out) /\ r # Completion
<1> DEFINE k == Cardinality(S)
           head == [i \in 1..k |-> Sdtr]
<1>1. Len(out) \in Nat /\ DOMAIN out = 1..Len(out) /\ IsFiniteSet(1..Len(out))
      /\ Cardinality(1..Len(out)) = Len(out)
  BY FS_Interval, SMTT(40)
<1>2. IsFiniteSet(S) /\ k \in Nat /\ k <= Len(out)
  BY <1>1, FS_Subset, FS_CardinalityType
<1>3. U # {} => k + 1 <= Len(out)
  <2>1. SUFFICES ASSUME U # {} PROVE k + 1 <= Len(out)
    OBVIOUS
  <2>2. PICK j \in U : j \in 1..Len(out)
    BY <1>1, <2>1
  <2>3. S \in SUBSET ((1..Len(out)) \ {j})
    BY <1>1, <2>2
  <2>4. IsFiniteSet((1..Len(out)) \ {j}) /\ Cardinality((1..Len(out)) \ {j}) = Len(out) - 1
    <3> DEFINE N == 1..Len(out)
    <3>1. IsFiniteSet(N) /\ Cardinality(N) = Len(out) /\ j \in N
      BY <1>1, <2>2
    <3> HIDE DEF N
    <3>2. IsFiniteSet(N \ {j}) /\ Cardinality(N \ {j}) = Len(out) - 1
      BY <3>1, FS_RemoveElement
    <3> QED BY <3>2 DEF N
  <2>5. k <= Len(out) - 1
    BY <2>3, <2>4, FS_Subset
  <2> QED BY <1>1, <1>2, <2>5
<1> HIDE DEF k
<1>4. head \in Seq({Sdtr, Reject, CommandComplete}) /\ Len(head) = k /\ \A i \in 1..k : head[i] = Sdtr
  BY <1>2
<1>5. Sdtr # CommandComplete /\ Reject # CommandComplete
  BY DEF Sdtr, Reject, CommandComplete
<1>6. r = head \o (IF U = {} THEN <<>> ELSE <<Reject>>)
  BY DEF k
<1> HIDE DEF head
<1>7. CASE U = {}
  <2>1. r = head
    BY <1>4, <1>6, <1>7
  <2>2. Completion[1] = CommandComplete /\ Len(Completion) = 1
    BY DEF Completion
  <2>3. ASSUME r = Completion PROVE FALSE
    <3>1. k = 1 /\ head[1] = CommandComplete
      BY <1>2, <1>4, <2>1, <2>2, <2>3
    <3> QED BY <1>4, <1>5, <3>1
  <2> QED BY <1>2, <1>4, <2>1, <2>3
<1>8. CASE U # {}
  <2>1. r = head \o <<Reject>>
    BY <1>6, <1>8
  <2>2. r \in Seq({Sdtr, Reject, CommandComplete}) /\ Len(r) = k + 1 /\ r[k + 1] = Reject
    <3>1. <<Reject>> \in Seq({Sdtr, Reject, CommandComplete}) /\ Len(<<Reject>>) = 1 /\ <<Reject>>[1] = Reject
      OBVIOUS
    <3> DEFINE R == {Sdtr, Reject, CommandComplete}
               tail == <<Reject>>
    <3> HIDE DEF R, tail
    <3>2. /\ head \in Seq(R) /\ tail \in Seq(R) /\ Len(tail) = 1 /\ Len(head) = k /\ r = head \o tail
          /\ tail[1] = Reject
      BY <1>4, <2>1, <3>1 DEF R, tail
    <3>3. r \in Seq(R) /\ Len(r) = k + 1 /\ r[k + 1] = tail[1]
      <4>1. /\ head \o tail \in Seq(R) /\ Len(head \o tail) = Len(head) + 1
            /\ (head \o tail)[Len(head) + 1] = tail[1]
        BY ONLY <3>2, Joined
      <4> QED BY ONLY <3>2, <4>1
    <3> QED BY <3>2, <3>3 DEF R
  <2>3. Completion[1] = CommandComplete /\ Len(Completion) = 1
    BY DEF Completion
  <2>4. r # Completion
    BY <1>2, <1>5, <2>2, <2>3
  <2> QED BY <1>3, <1>8, <2>2, <2>4
<1> QED BY <1>7, <1>8

LEMMA Cancels ==
    ASSUME NEW b \in Buses
    PROVE  /\ BusOK(CancelTransaction(b)) /\ CancelTransaction(b).conn = None
           /\ CancelTransaction(b).txn = None
BY DEF CancelTransaction, BusOK, BusBase, Agreed, Restorable, Buses

LEMMA MessagesFinish ==
    ASSUME NEW b, BusOK(b), b.conn # None, b.conn.phase = "MessageOut",
           NEW out \in Seq(OutMessages), Len(out) <= MESSAGE_LIMIT
    PROVE  /\ BusOK(FinishMessageOut(b, out))
           /\ \A l \in Luns : out = <<Identify(l)>> =>
                 /\ FinishMessageOut(b, out).conn # None
                 /\ FinishMessageOut(b, out).conn.phase = b.conn.return
<1> DEFINE unknown == {i \in DOMAIN out : out[i] \in {Abort, Unknown}}
           read == {i \in DOMAIN out : \A j \in unknown : i < j}
           named == {i \in read : out[i][1] = "identify"}
           offers == {i \in read : out[i] = Sdtr}
           response == [i \in 1..Cardinality(offers) |-> Sdtr]
                           \o (IF unknown = {} THEN <<>> ELSE <<Reject>>)
           lun == IF named = {} THEN b.conn.lun
                  ELSE out[CHOOSE i \in named : \A j \in named : i >= j][2]
           d == [b.conn EXCEPT !.lun = lun, !.out = <<>>,
                               !.in = IF response = <<>> THEN @ ELSE response,
                               !.offset = IF response = <<>> THEN @ ELSE 0,
                               !.phase = IF response = <<>> THEN b.conn.return ELSE "MessageIn"]
           e == [b EXCEPT !.conn = d]
<1>1. b \in Buses /\ b.conn \in Connections
  BY ConnTyped DEF BusOK, BusBase
<1>2. FinishMessageOut(b, out) = IF out = <<Abort>> THEN CancelTransaction(b) ELSE e
  <2>1. e = [b EXCEPT !.conn.lun = lun, !.conn.out = <<>>,
                      !.conn.in = IF response = <<>> THEN @ ELSE response,
                      !.conn.offset = IF response = <<>> THEN @ ELSE 0,
                      !.conn.phase = IF response = <<>> THEN b.conn.return ELSE "MessageIn"]
    <3> HIDE DEF response, lun
    <3> QED BY <1>1 DEF Buses, Connections
  <2> QED BY <2>1 DEF FinishMessageOut
<1>3. /\ response \in Seq({Sdtr, Reject, CommandComplete}) /\ Len(response) <= Len(out)
      /\ response # Completion
  <2> DEFINE r == response
  <2>1. r = [i \in 1..Cardinality(offers) |-> Sdtr] \o (IF unknown = {} THEN <<>> ELSE <<Reject>>)
    OBVIOUS
  <2>2. unknown \in SUBSET DOMAIN out /\ offers \in SUBSET {i \in DOMAIN out : \A j \in unknown : i < j}
    OBVIOUS
  <2> HIDE DEF r, unknown, offers
  <2>3. r \in Seq({Sdtr, Reject, CommandComplete}) /\ Len(r) <= Len(out) /\ r # Completion
    BY <2>1, <2>2, Answers
  <2> QED BY <2>3 DEF r
<1>4. lun \in Luns
  <2>1. CASE named = {}
    BY <1>1, <2>1, ConnTyped
  <2>2. CASE named # {}
    <3> DEFINE i == CHOOSE i \in named : \A j \in named : i >= j
    <3>1. Len(out) \in Nat /\ named \in SUBSET (1..Len(out)) /\ named # {}
      BY <2>2
    <3>2. \E x \in named : \A y \in named : x >= y
      <4> HIDE DEF named
      <4> QED BY <3>1, GreatestIndex
    <3>3. i \in named
      BY <3>2
    <3> HIDE DEF i
    <3>4. i \in 1..Len(out) /\ out[i][1] = "identify" /\ out[i] \in OutMessages
      BY <3>1, <3>3
    <3>5. PICK l \in Luns : out[i] = Identify(l)
      BY <3>4 DEF OutMessages, Abort, Sdtr, NoOperation, Unknown
    <3>6. lun = out[i][2]
      BY <2>2 DEF i
    <3> QED BY <3>5, <3>6 DEF Identify
  <2> QED BY <2>1, <2>2
<1>5. ASSUME NEW l \in Luns, out = <<Identify(l)>> PROVE out # <<Abort>> /\ response = <<>>
  <2>1. out[1] = Identify(l) /\ DOMAIN out = {1}
    BY <1>5
  <2>2. Identify(l) \notin {Abort, Unknown, Sdtr} /\ <<Identify(l)>> # <<Abort>>
    BY DEF Identify, Abort, Unknown, Sdtr
  <2>3. unknown = {} /\ offers = {}
    BY <2>1, <2>2
  <2>4. Cardinality(offers) = 0
    <3> HIDE DEF offers
    <3> QED BY <2>3, FS_EmptySet
  <2> HIDE DEF unknown, offers
  <2> QED BY <1>5, <2>2, <2>3, <2>4
<1> HIDE DEF response, lun, named, unknown, read, offers
<1>6. d \in Connections
  <2>1. b.conn.return \in Phases /\ "MessageIn" \in Phases
    BY <1>1 DEF Connections, Phases
  <2>2. <<>> \in Seq(OutMessages)
    OBVIOUS
  <2> QED BY <1>1, <1>3, <1>4, <2>1, <2>2 DEF Connections
<1>7. /\ d.out = <<>> /\ d.cdb = b.conn.cdb /\ d.opcode = b.conn.opcode /\ d.target = b.conn.target
      /\ d.return = b.conn.return
      /\ response = <<>> => d.in = b.conn.in /\ d.offset = b.conn.offset /\ d.phase = d.return
      /\ response # <<>> => d.in = response /\ d.offset = 0 /\ d.phase = "MessageIn"
  BY <1>1 DEF Connections
<1>8. d.return \in {"Command", "DataIn", "DataOut", "Status"}
  BY <1>1, <1>7, ConnTyped
<1> HIDE DEF d
<1>9. /\ e \in Buses /\ e.conn = d /\ e.txn = b.txn /\ e.loaded = b.loaded
      /\ e.conn # None
  BY <1>1, <1>6, WithConn
<1> HIDE DEF e
<1>10. Destined(b) = d.return
  BY <1>7 DEF Destined, InMessage
<1>11. Destined(e) = d.return
  BY <1>3, <1>7, <1>8, <1>9 DEF Destined, InMessage
<1>12. BusBase(e)
  <2>1. Len(d.out) = 0 /\ Len(out) \in Nat /\ MESSAGE_LIMIT \in Nat
    BY <1>7, ScsiConstants
  <2>2. Len(d.in) <= MESSAGE_LIMIT /\ d.offset <= Len(d.in)
    <3>1. CASE response = <<>>
      BY <1>7, <3>1 DEF BusOK, BusBase, Restorable
    <3>2. CASE response # <<>>
      <4>1. Len(response) \in Nat
        BY <1>3
      <4> QED BY <1>3, <1>7, <2>1, <3>2, <4>1
    <3> QED BY <3>1, <3>2
  <2>3. RestorableTransaction(e) = RestorableTransaction(b)
    BY <1>9 DEF RestorableTransaction, MediumPresent
  <2> QED BY <1>7, <1>9, <2>1, <2>2, <2>3 DEF BusOK, BusBase, Restorable
<1>13. Agreed(e)
  BY <1>9, <1>10, <1>11 DEF BusOK, Agreed
<1>14. BusOK(CancelTransaction(b))
  BY <1>1, Cancels
<1> QED BY <1>2, <1>5, <1>7, <1>9, <1>12, <1>13, <1>14 DEF BusOK

-----------------------------------------------------------------------------
(* Transactions.                                                            *)

\* A bus whose transaction has ended, and one that goes on.
Ended(b, e) == BusBase(e) /\ e.conn = b.conn /\ e.txn = None
Continued(b, e, n) ==
    /\ BusOK(e) /\ e.conn = b.conn /\ e.txn # None
    /\ e.txn.kind = b.txn.kind /\ e.txn.remaining = b.txn.remaining - n

LEMMA TransactionEnds ==
    ASSUME NEW b, BusOK(b), b.txn # None
    PROVE  Ended(b, [b EXCEPT !.txn = None])
<1> DEFINE e == [b EXCEPT !.txn = None]
<1>1. e \in Buses /\ e.conn = b.conn /\ e.txn = None
  BY DEF BusOK, BusBase, Buses
<1> QED BY <1>1 DEF Ended, BusOK, BusBase, Restorable

LEMMA TransactionContinues ==
    ASSUME NEW b, BusOK(b), b.txn # None, NEW n \in Nat, n < b.txn.remaining
    PROVE  Continued(b, [b EXCEPT !.txn.remaining = @ - n], n)
<1> DEFINE t == [b.txn EXCEPT !.remaining = @ - n]
           e == [b EXCEPT !.txn = t]
<1>1. b \in Buses /\ b.txn \in Transactions /\ b.txn.remaining \in Nat \ {0}
  BY TxnTyped DEF BusOK, BusBase
<1>2. t \in Transactions /\ t # None /\ t.kind = b.txn.kind /\ t.target = b.txn.target
      /\ t.remaining = b.txn.remaining - n /\ t.remaining # 0
  BY <1>1, NoneIsNothing DEF Transactions
<1>3. e = [b EXCEPT !.txn.remaining = @ - n]
  BY <1>1 DEF Buses, Transactions
<1> HIDE DEF t
<1>4. e \in Buses /\ e.conn = b.conn /\ e.txn = t /\ e.loaded = b.loaded
  BY <1>1, <1>2 DEF Buses
<1> HIDE DEF e
<1>5. MediumPresent(e, t.target) = MediumPresent(b, b.txn.target)
  BY <1>2, <1>4 DEF MediumPresent
<1>6. BusBase(e)
  BY <1>2, <1>4, <1>5 DEF BusOK, BusBase, Restorable, RestorableTransaction
<1>7. Agreed(e)
  BY <1>2, <1>4 DEF BusOK, Agreed, Destined, InMessage
<1> QED BY <1>2, <1>3, <1>4, <1>6, <1>7 DEF Continued, BusOK

\* A chunk of n bytes was moved.
Moved(b, n, r) ==
    /\ r.transferred = n
    /\ \/ /\ r.result = "complete" /\ n = b.txn.remaining /\ r.status \in {Good, CheckCondition}
          /\ Ended(b, r.bus)
       \/ r.result = "more" /\ n < b.txn.remaining /\ r.status = None /\ Continued(b, r.bus, n)

LEMMA ChunkAdvances ==
    ASSUME NEW b, BusOK(b), b.txn # None, NEW n \in Nat \ {0}, n <= b.txn.remaining,
           NEW s \in {Good, CheckCondition}
    PROVE  Moved(b, n, Advance(b, n, s))
<1>1. b.txn.remaining \in Nat
  BY TxnTyped DEF BusOK, BusBase
<1>2. CASE n = b.txn.remaining
  <2>1. Advance(b, n, s) = Result([b EXCEPT !.txn = None], "complete", n, s)
    BY <1>2 DEF Advance
  <2>2. Ended(b, [b EXCEPT !.txn = None])
    BY TransactionEnds
  <2> DEFINE e == [b EXCEPT !.txn = None]
  <2> HIDE DEF e
  <2> QED BY <1>2, <2>1, <2>2 DEF Moved, Result, e
<1>3. CASE n # b.txn.remaining
  <2>1. Advance(b, n, s) = Result([b EXCEPT !.txn.remaining = @ - n], "more", n, None)
    BY <1>3 DEF Advance
  <2>2. n < b.txn.remaining
    BY <1>1, <1>3
  <2>3. Continued(b, [b EXCEPT !.txn.remaining = @ - n], n)
    BY <2>2, TransactionContinues
  <2> DEFINE e == [b EXCEPT !.txn.remaining = @ - n]
             r == Result(e, "more", n, None)
  <2>4. r.bus = e /\ r.result = "more" /\ r.transferred = n /\ r.status = None
    BY DEF Result
  <2> HIDE DEF e, r
  <2> QED BY <2>1, <2>2, <2>3, <2>4 DEF Moved, e, r
<1> QED BY <1>2, <1>3

\* What a transfer of a transaction in its direction comes to: the callback rejects it,
\* the storage fails, or a chunk moves.
LEMMA ChunkTransfers ==
    ASSUME NEW b, BusOK(b), b.txn # None, NEW kinds \in {DataIn, DataOut}, b.txn.kind \in kinds,
           NEW maximum \in Nat \ {0}, NEW accepted \in BOOLEAN, NEW luck \in Luck
    PROVE  LET r == Transfer(b, kinds, maximum, accepted, luck)
               size == Chunk(b, maximum)
           IN /\ size \in Nat \ {0} /\ size <= maximum /\ size <= b.txn.remaining
              /\ \/ ~accepted /\ r.result = "rejected" /\ r.transferred = 0 /\ r.bus = b
                 \/ /\ b.txn.kind \in {"read", "write"} /\ ~StorageWorks(b, luck)
                    /\ r.result = "complete" /\ r.transferred = 0 /\ r.status = CheckCondition
                    /\ Ended(b, r.bus)
                 \/ accepted /\ Moved(b, size, r)
<1> DEFINE r == Transfer(b, kinds, maximum, accepted, luck)
           size == Chunk(b, maximum)
           failure == StorageFailed(b)
<1>1. b.txn.remaining \in Nat \ {0} /\ b.txn.status = Good
      /\ b.txn.kind \in {"immediate", "read", "write", "select"}
  BY TxnTyped DEF BusOK, BusBase, DataIn, DataOut
<1>2. size \in Nat \ {0} /\ size <= maximum /\ size <= b.txn.remaining
  BY <1>1 DEF Chunk
<1> HIDE DEF size
<1>3. Good \in {Good, CheckCondition} /\ CheckCondition \in {Good, CheckCondition}
  OBVIOUS
<1>4. Moved(b, size, Advance(b, size, Good)) /\ Moved(b, size, Advance(b, size, CheckCondition))
  BY <1>2, <1>3, ChunkAdvances
<1>5. failure.result = "complete" /\ failure.transferred = 0 /\ failure.status = CheckCondition
      /\ Ended(b, failure.bus)
  BY TransactionEnds DEF StorageFailed, Result
<1>6. Rejected(b).result = "rejected" /\ Rejected(b).transferred = 0 /\ Rejected(b).bus = b
  BY DEF Rejected, Result
<1>7. maximum # 0 /\ luck.refused \in BOOLEAN
  BY DEF Luck
<1> HIDE DEF failure
<1>8. CASE b.txn.kind = "read"
  <2>1. r = StorageDataIn(b, size, accepted, luck)
    BY <1>7, <1>8 DEF Transfer, size
  <2> QED BY <1>2, <1>4, <1>5, <1>6, <1>8, <2>1 DEF StorageDataIn, failure, size
<1>9. CASE b.txn.kind = "write"
  <2>1. r = StorageDataOut(b, size, accepted, luck)
    BY <1>7, <1>9 DEF Transfer, size
  <2> QED BY <1>2, <1>4, <1>5, <1>6, <1>9, <2>1 DEF StorageDataOut, failure, size
<1>10. CASE b.txn.kind = "immediate"
  <2>1. r = ImmediateDataIn(b, size, accepted)
    BY <1>7, <1>10 DEF Transfer, size
  <2> QED BY <1>1, <1>2, <1>4, <1>6, <1>10, <2>1 DEF ImmediateDataIn, size
<1>11. CASE b.txn.kind = "select"
  <2>1. r = TargetDataOut(b, size, accepted, luck)
    BY <1>7, <1>11 DEF Transfer, size
  <2> QED BY <1>2, <1>4, <1>6, <1>7, <1>11, <2>1 DEF TargetDataOut, size
<1> QED BY <1>1, <1>8, <1>9, <1>10, <1>11

\* A transfer of one byte by the host.
LEMMA ByteTransfers ==
    ASSUME NEW b, BusOK(b), b.txn # None, b.conn # None, NEW kinds \in {DataIn, DataOut},
           b.txn.kind \in kinds, Destined(b) = b.conn.phase, NEW luck \in Luck
    PROVE  LET r == Transfer(b, kinds, 1, TRUE, luck)
           IN /\ r.result # "none" /\ r.transferred \in {0, 1}
              /\ BusOK(Observe(r)) /\ Observe(r).conn # None
              /\ r.transferred # 1 => BusPhase(Observe(r)) = "Status"
              /\ BusPhase(Observe(r)) \in {"Status", b.conn.phase}
<1> DEFINE r == Transfer(b, kinds, 1, TRUE, luck)
           size == Chunk(b, 1)
<1>1. /\ size \in Nat \ {0} /\ size <= 1
      /\ \/ /\ r.result = "complete" /\ r.transferred = 0 /\ r.status = CheckCondition
            /\ Ended(b, r.bus)
         \/ Moved(b, size, r)
  <2>1. \A m \in Nat \ {0}, accepted \in BOOLEAN :
          LET q == Transfer(b, kinds, m, accepted, luck)
          IN /\ Chunk(b, m) \in Nat \ {0} /\ Chunk(b, m) <= m
             /\ \/ ~accepted
                \/ /\ q.result = "complete" /\ q.transferred = 0 /\ q.status = CheckCondition
                   /\ Ended(b, q.bus)
                \/ Moved(b, Chunk(b, m), q)
    BY ChunkTransfers
  <2>2. 1 \in Nat \ {0} /\ TRUE \in BOOLEAN
    OBVIOUS
  <2> QED BY <2>1, <2>2
<1> HIDE DEF r, size
<1>2. size = 1
  BY <1>1
<1>3. r.transferred \in {0, 1}
  BY <1>1, <1>2 DEF Moved
<1>4. CASE r.result = "complete" /\ r.status \in {Good, CheckCondition} /\ Ended(b, r.bus)
  <2>1. BusBase(r.bus) /\ r.bus.conn # None /\ r.bus.txn = None
    BY <1>4 DEF Ended
  <2>2. BusOK(SetStatus(r.bus, r.status)) /\ SetStatus(r.bus, r.status).conn # None
        /\ BusPhase(SetStatus(r.bus, r.status)) = "Status"
    BY <1>4, <2>1, StatusSet
  <2> QED BY <1>3, <1>4, <2>2 DEF Observe, r
<1>5. CASE r.result = "more" /\ r.transferred = 1 /\ Continued(b, r.bus, size)
  BY <1>5 DEF Observe, Continued, BusPhase, r
<1> QED BY <1>1, <1>2, <1>4, <1>5 DEF Moved

Written(b, last, r) ==
    /\ BusOK(r.bus)
    /\ r.err => r.bus = b
    /\ ~r.err => r.value \in BOOLEAN
    /\ b.conn.phase = "MessageOut" /\ ~r.err => r.value = TRUE
    /\ b.conn.phase = "MessageOut" /\ ~r.err /\ ~last => r.bus.conn # None /\ r.bus.conn.phase = "MessageOut"

LEMMA InformationWrites ==
    ASSUME NEW b, BusOK(b), b.conn # None, BusPhase(b) \in {"MessageOut", "Command", "DataOut"},
           NEW byte, BusPhase(b) = "MessageOut" => byte \in OutMessages,
           BusPhase(b) = "Command" /\ b.conn.cdb = 0 => byte[2] \in KnownOpcodes,
           NEW last \in BOOLEAN, NEW luck \in Luck
    PROVE  Written(b, last, WriteInformation(b, byte, last, luck))
<1> DEFINE r == WriteInformation(b, byte, last, luck)
<1>1. b \in Buses /\ b.conn \in Connections /\ BusPhase(b) = b.conn.phase /\ BusBase(b)
  BY ConnTyped DEF BusOK, BusBase
<1>2. /\ b.conn.cdb \in 0..CDB_LIMIT /\ b.conn.out \in Seq(OutMessages)
      /\ CDB_LIMIT \in Nat /\ MESSAGE_LIMIT \in Nat /\ Len(b.conn.out) <= MESSAGE_LIMIT
  BY <1>1, ConnTyped, ScsiConstants DEF BusBase, Restorable
<1>3. CASE BusPhase(b) = "MessageOut"
  <2>1. CASE Len(b.conn.out) = MESSAGE_LIMIT
    <3>1. r = Err(b)
      BY <1>3, <2>1 DEF WriteInformation
    <3> QED BY <3>1 DEF Written, Err
  <2>2. CASE Len(b.conn.out) # MESSAGE_LIMIT
    <3> DEFINE out == Append(b.conn.out, byte)
               d == [b.conn EXCEPT !.out = out]
               e == [b EXCEPT !.conn = d]
    <3>1. r = Ok(IF last THEN FinishMessageOut(b, out) ELSE [b EXCEPT !.conn.out = out], TRUE)
      BY <1>3, <2>2 DEF WriteInformation
    <3>2. out \in Seq(OutMessages) /\ Len(out) <= MESSAGE_LIMIT
      <4>1. byte \in OutMessages
        BY <1>3
      <4>2. Len(out) = Len(b.conn.out) + 1 /\ out \in Seq(OutMessages)
        BY <1>2, <4>1, AppendProperties
      <4> QED BY <1>2, <2>2, <4>2, LenProperties
    <3> HIDE DEF out
    <3>3. CASE last
      <4>1. BusOK(FinishMessageOut(b, out))
        BY <1>1, <1>3, <3>2, MessagesFinish
      <4> QED BY <3>1, <3>3, <4>1 DEF Written, Ok
    <3>4. CASE ~last
      <4>1. d \in Connections
        BY <1>1, <3>2 DEF Connections
      <4>2. e = [b EXCEPT !.conn.out = out]
        BY <1>1 DEF Buses, Connections
      <4>3. /\ d.phase = b.conn.phase /\ d.cdb = b.conn.cdb /\ d.opcode = b.conn.opcode
            /\ d.target = b.conn.target /\ d.in = b.conn.in /\ d.offset = b.conn.offset
            /\ d.return = b.conn.return /\ d.out = out
        BY <1>1 DEF Connections
      <4> HIDE DEF d
      <4>4. e \in Buses /\ e.conn = d /\ e.txn = b.txn /\ e.loaded = b.loaded /\ e.conn # None
        BY <1>1, <4>1, WithConn
      <4> HIDE DEF e
      <4>5. RestorableTransaction(e) = RestorableTransaction(b)
        BY <4>4 DEF RestorableTransaction, MediumPresent
      <4>6. BusBase(e)
        BY <1>1, <3>2, <4>3, <4>4, <4>5 DEF BusBase, Restorable
      <4>7. Agreed(e)
        BY <4>3, <4>4 DEF BusOK, Agreed, Destined, InMessage
      <4>8. r = Ok(e, TRUE)
        BY <3>1, <3>4, <4>2
      <4> QED BY <1>1, <1>3, <4>3, <4>4, <4>6, <4>7, <4>8 DEF Written, Ok, BusOK
    <3> QED BY <3>3, <3>4
  <2> QED BY <2>1, <2>2
<1>4. CASE BusPhase(b) = "Command"
  <2>1. b.txn = None
    BY <1>1, <1>4 DEF BusOK, Agreed, Destined, InMessage, DataPhases
  <2>2. CASE b.conn.cdb = CDB_LIMIT
    <3>1. r = Err(b)
      BY <1>4, <2>2 DEF WriteInformation
    <3> QED BY <3>1 DEF Written, Err
  <2>3. CASE b.conn.cdb # CDB_LIMIT
    <3> DEFINE o == IF b.conn.cdb = 0 THEN byte[2] ELSE b.conn.opcode
               d == [b.conn EXCEPT !.cdb = b.conn.cdb + 1, !.opcode = o]
               c == [b EXCEPT !.conn = d]
    <3>1. c = [b EXCEPT !.conn.cdb = @ + 1, !.conn.opcode = IF b.conn.cdb = 0 THEN byte[2] ELSE @]
      <4> HIDE DEF o
      <4>1. c = [b EXCEPT !.conn.cdb = @ + 1, !.conn.opcode = o]
        BY <1>1 DEF Buses, Connections
      <4> QED BY <4>1 DEF o
    <3>2. r = IF c.conn.cdb = CdbLength[c.conn.opcode] THEN ExecuteConnectedCommand(c, luck) ELSE Ok(c, TRUE)
      <4> HIDE DEF c
      <4> QED BY <1>4, <2>3, <3>1 DEF WriteInformation
    <3>3. o \in KnownOpcodes /\ o # None /\ b.conn.cdb + 1 \in 0..CDB_LIMIT
      <4>1. b.conn.opcode \in KnownOpcodes \cup {None}
        BY <1>1, ConnTyped
      <4> QED BY <1>2, <1>4, <2>3, <4>1, NoneIsNothing DEF BusOK, BusBase
    <3> HIDE DEF o
    <3>4. d \in Connections
      BY <1>1, <3>3 DEF Connections
    <3>5. /\ d.phase = b.conn.phase /\ d.cdb = b.conn.cdb + 1 /\ d.opcode = o
          /\ d.target = b.conn.target /\ d.in = b.conn.in /\ d.offset = b.conn.offset
          /\ d.out = b.conn.out
      BY <1>1 DEF Connections
    <3> HIDE DEF d
    <3>6. c \in Buses /\ c.conn = d /\ c.txn = b.txn /\ c.loaded = b.loaded /\ c.conn # None
      BY <1>1, <3>4, WithConn
    <3> HIDE DEF c
    <3>7. BusBase(c)
      BY <1>1, <2>1, <3>3, <3>5, <3>6 DEF BusBase, Restorable
    <3>8. Agreed(c)
      BY <1>1, <1>4, <2>1, <3>5, <3>6 DEF Agreed, Destined, InMessage, DataPhases
    <3>9. ~ExecuteConnectedCommand(c, luck).err /\ Executed(ExecuteConnectedCommand(c, luck).bus)
          /\ ExecuteConnectedCommand(c, luck).value = TRUE
      BY <2>1, <3>3, <3>5, <3>6, <3>7, CommandExecutes
    <3>10. CASE c.conn.cdb = CdbLength[c.conn.opcode]
      BY <1>1, <1>4, <3>2, <3>9, <3>10 DEF Written, Executed
    <3>11. CASE c.conn.cdb # CdbLength[c.conn.opcode]
      BY <1>1, <1>4, <3>2, <3>7, <3>8, <3>11 DEF Written, Ok, BusOK
    <3> QED BY <3>10, <3>11
  <2> QED BY <2>2, <2>3
<1>5. CASE BusPhase(b) = "DataOut"
  <2> DEFINE t == Transfer(b, DataOut, 1, TRUE, luck)
  <2>1. Destined(b) = "DataOut" /\ b.txn # None /\ b.txn.kind \in DataOut
    BY <1>1, <1>5 DEF BusOK, Agreed, Destined, InMessage
  <2>2. t.result # "none" /\ t.transferred \in {0, 1} /\ BusOK(Observe(t))
    BY <1>1, <1>5, <2>1, ByteTransfers
  <2> HIDE DEF t
  <2>3. r = Ok(Observe(t), t.transferred = 1)
    BY <1>5, <2>2 DEF WriteInformation, t
  <2> QED BY <1>1, <1>5, <2>2, <2>3 DEF Written, Ok
<1> QED BY <1>3, <1>4, <1>5

LEMMA CdbWrites ==
    ASSUME NEW b, BusOK(b), b.conn # None, b.conn.phase = "Command",
           NEW opcode \in KnownOpcodes, NEW luck \in Luck
    PROVE  LET r == WriteCdb(b, opcode, WdCdbLength[opcode], luck)
           IN ~r.err /\ BusOK(r.bus) /\ r.bus.conn # None
<1> DEFINE n == WdCdbLength[opcode]
           r == WriteCdb(b, opcode, n, luck)
           d == [b.conn EXCEPT !.cdb = n, !.opcode = opcode]
           c == [b EXCEPT !.conn = d]
<1>1. b \in Buses /\ b.conn \in Connections /\ BusBase(b) /\ b.txn = None
  BY ConnTyped DEF BusOK, BusBase, Agreed, Destined, InMessage, DataPhases
<1>2. n \in 0..CDB_LIMIT /\ opcode # None
  BY ScsiConstants, WdConstants, NoneIsNothing
<1> HIDE DEF n
<1>3. c = [b EXCEPT !.conn.cdb = n, !.conn.opcode = opcode]
  BY <1>1 DEF Buses, Connections
<1>4. d \in Connections
  BY <1>1, <1>2 DEF Connections
<1>5. /\ d.phase = b.conn.phase /\ d.cdb = n /\ d.opcode = opcode
      /\ d.target = b.conn.target /\ d.in = b.conn.in /\ d.offset = b.conn.offset
      /\ d.out = b.conn.out
  BY <1>1 DEF Connections
<1> HIDE DEF d
<1>6. c \in Buses /\ c.conn = d /\ c.txn = b.txn /\ c.loaded = b.loaded /\ c.conn # None
  BY <1>1, <1>4, WithConn
<1> HIDE DEF c
<1>7. r = IF n = CdbLength[opcode] THEN ExecuteConnectedCommand(c, luck) ELSE Ok(c, TRUE)
  BY <1>3 DEF WriteCdb
<1>8. BusBase(c)
  BY <1>1, <1>2, <1>5, <1>6 DEF BusBase, Restorable
<1>9. Agreed(c)
  BY <1>1, <1>5, <1>6 DEF Agreed, Destined, InMessage, DataPhases
<1>10. ~ExecuteConnectedCommand(c, luck).err /\ Executed(ExecuteConnectedCommand(c, luck).bus)
  BY <1>1, <1>2, <1>5, <1>6, <1>8, CommandExecutes
<1>11. CASE n = CdbLength[opcode]
  BY <1>7, <1>10, <1>11 DEF Executed, n
<1>12. CASE n # CdbLength[opcode]
  BY <1>6, <1>7, <1>8, <1>9, <1>12 DEF Ok, BusOK, n
<1> QED BY <1>11, <1>12

\* What a byte read by the initiator leaves: it is out of a message only if it was.
Taken(b, r) ==
    /\ BusOK(r.bus) /\ r.bus.conn # None
    /\ r.err => r.bus = b /\ b.conn.phase = "MessageIn"
    /\ ~r.err => r.value \in InputBytes \cup {None}
    /\ ~r.err /\ r.value = None => BusPhase(r.bus) = "Status"
    /\ InMessage(b) => InMessage(r.bus)
    /\ b.conn.phase = "MessageIn" => r.bus.conn.phase = "MessageIn"

LEMMA InformationReads ==
    ASSUME NEW b, BusOK(b), b.conn # None, BusPhase(b) \in {"DataIn", "Status", "MessageIn"},
           NEW luck, BusPhase(b) = "DataIn" => luck \in Luck
    PROVE  Taken(b, ReadInformation(b, luck))
<1> DEFINE r == ReadInformation(b, luck)
<1>1. b \in Buses /\ b.conn \in Connections /\ BusPhase(b) = b.conn.phase /\ BusBase(b)
  BY ConnTyped DEF BusOK, BusBase
<1>2. CASE BusPhase(b) = "DataIn"
  <2> DEFINE t == Transfer(b, DataIn, 1, TRUE, luck)
  <2>1. Destined(b) = "DataIn" /\ b.txn # None /\ b.txn.kind \in DataIn /\ ~InMessage(b)
    BY <1>1, <1>2 DEF BusOK, Agreed, Destined, InMessage
  <2>2. /\ t.result # "none" /\ t.transferred \in {0, 1} /\ BusOK(Observe(t)) /\ Observe(t).conn # None
        /\ t.transferred # 1 => BusPhase(Observe(t)) = "Status"
    BY <1>1, <1>2, <2>1, ByteTransfers
  <2> HIDE DEF t
  <2>3. r = Ok(Observe(t), IF t.transferred = 1 THEN Payload ELSE None)
    BY <1>2, <2>2 DEF ReadInformation, t
  <2>4. Payload \in InputBytes /\ Payload # None
    BY NoneIsNothing DEF InputBytes
  <2> QED BY <1>1, <1>2, <2>1, <2>2, <2>3, <2>4 DEF Taken, Ok
<1>3. CASE BusPhase(b) = "Status"
  <2> DEFINE d == [b.conn EXCEPT !.phase = "MessageIn", !.in = <<CommandComplete>>, !.offset = 0]
             e == [b EXCEPT !.conn = d]
  <2>1. e = [b EXCEPT !.conn.phase = "MessageIn", !.conn.in = <<CommandComplete>>, !.conn.offset = 0]
    BY <1>1 DEF Buses, Connections
  <2>2. r = Ok(e, StatusByte(b.conn.status))
    <3> HIDE DEF e
    <3> QED BY <1>3, <2>1 DEF ReadInformation
  <2>3. <<CommandComplete>> \in Seq({Sdtr, Reject, CommandComplete}) /\ Len(<<CommandComplete>>) = 1
    OBVIOUS
  <2>4. d \in Connections
    BY <1>1, <2>3 DEF Connections, Phases
  <2>5. /\ d.phase = "MessageIn" /\ d.in = Completion /\ d.offset = 0 /\ d.cdb = b.conn.cdb
        /\ d.opcode = b.conn.opcode /\ d.target = b.conn.target /\ d.out = b.conn.out
    BY <1>1 DEF Connections, Completion
  <2> HIDE DEF d
  <2>6. e \in Buses /\ e.conn = d /\ e.txn = b.txn /\ e.conn # None
    BY <1>1, <2>4, WithConn
  <2> HIDE DEF e
  <2>7. b.txn = None
    BY <1>1, <1>3 DEF BusOK, Agreed, Destined, InMessage, DataPhases
  <2>8. Len(d.in) <= MESSAGE_LIMIT /\ d.offset <= Len(d.in)
    BY <2>3, <2>5, ScsiConstants DEF Completion
  <2>9. BusBase(e)
    BY <1>1, <2>5, <2>6, <2>7, <2>8 DEF BusBase, Restorable
  <2>10. Agreed(e)
    BY <2>5, <2>6, <2>7 DEF Agreed, Destined, InMessage, DataPhases
  <2>11. StatusByte(b.conn.status) \in InputBytes /\ StatusByte(b.conn.status) # None
    <3>1. StatusByte(b.conn.status) \in InputBytes
      BY <1>1, ConnTyped DEF InputBytes
    <3> QED BY <3>1, NoneIsNothing
  <2>12. ~InMessage(b) /\ b.conn.phase # "MessageIn"
    BY <1>1, <1>3 DEF InMessage
  <2> QED BY <2>2, <2>6, <2>9, <2>10, <2>11, <2>12 DEF Taken, Ok, BusOK
<1>4. CASE BusPhase(b) = "MessageIn"
  <2>1. CASE b.conn.offset = Len(b.conn.in)
    <3>1. r = Err(b)
      BY <1>4, <2>1 DEF ReadInformation
    <3>2. r.bus = b /\ r.err = TRUE
      BY <3>1 DEF Err
    <3> HIDE DEF r
    <3>3. Taken(b, r)
      BY <1>1, <1>4, <3>2 DEF Taken
    <3> QED BY <3>3 DEF r
  <2>2. CASE b.conn.offset # Len(b.conn.in)
    <3> DEFINE d == [b.conn EXCEPT !.offset = b.conn.offset + 1]
               e == [b EXCEPT !.conn = d]
               m == b.conn.in[b.conn.offset + 1]
    <3>1. e = [b EXCEPT !.conn.offset = @ + 1]
      BY <1>1 DEF Buses, Connections
    <3>2. r = Ok(e, m)
      <4> HIDE DEF e, m
      <4> QED BY <1>4, <2>2, <3>1 DEF ReadInformation, m
    <3>3. b.conn.offset \in Nat /\ b.conn.in \in Seq({Sdtr, Reject, CommandComplete})
          /\ Len(b.conn.in) \in Nat /\ b.conn.offset + 1 <= Len(b.conn.in)
      <4>1. b.conn.offset <= Len(b.conn.in)
        BY <1>1 DEF BusBase, Restorable
      <4>2. b.conn.offset \in Nat /\ b.conn.in \in Seq({Sdtr, Reject, CommandComplete})
        BY <1>1, ConnTyped
      <4> QED BY <2>2, <4>1, <4>2
    <3>4. m \in {Sdtr, Reject, CommandComplete}
      <4> DEFINE T == {Sdtr, Reject, CommandComplete}
      <4> HIDE DEF T
      <4>1. b.conn.in \in Seq(T) /\ b.conn.offset + 1 \in 1..Len(b.conn.in)
        BY <3>3 DEF T
      <4>2. m \in T
        BY <4>1
      <4> QED BY <4>2 DEF T
    <3>5. m \in InputBytes /\ m # None
      BY <3>4, NoneIsNothing DEF InputBytes
    <3> HIDE DEF m
    <3>6. d \in Connections
      BY <1>1, <3>3 DEF Connections
    <3>7. /\ d.phase = b.conn.phase /\ d.in = b.conn.in /\ d.offset = b.conn.offset + 1
          /\ d.cdb = b.conn.cdb /\ d.opcode = b.conn.opcode /\ d.target = b.conn.target
          /\ d.out = b.conn.out /\ d.return = b.conn.return
      BY <1>1 DEF Connections
    <3> HIDE DEF d
    <3>8. e \in Buses /\ e.conn = d /\ e.txn = b.txn /\ e.loaded = b.loaded /\ e.conn # None
      BY <1>1, <3>6, WithConn
    <3> HIDE DEF e
    <3>9. RestorableTransaction(e) = RestorableTransaction(b)
      BY <3>8 DEF RestorableTransaction, MediumPresent
    <3>10. BusBase(e)
      BY <1>1, <3>3, <3>7, <3>8, <3>9 DEF BusBase, Restorable
    <3>11. Agreed(e) /\ (InMessage(b) => InMessage(e))
      BY <3>7, <3>8 DEF BusOK, Agreed, Destined, InMessage
    <3> QED BY <1>1, <1>4, <3>2, <3>5, <3>7, <3>8, <3>10, <3>11 DEF Taken, Ok, BusOK
  <2> QED BY <2>1, <2>2
<1> QED BY <1>2, <1>3, <1>4

LEMMA MessageAcknowledged ==
    ASSUME NEW b, BusOK(b), b.conn # None, b.conn.phase = "MessageIn", NEW attention \in BOOLEAN,
           attention => InMessage(b)
    PROVE  /\ BusOK(AcknowledgeMessage(b, attention))
           /\ attention /\ AcknowledgeMessage(b, attention).conn # None =>
                InMessage(AcknowledgeMessage(b, attention))
<1> DEFINE r == AcknowledgeMessage(b, attention)
           p == IF attention THEN "MessageOut" ELSE b.conn.return
           d == [b.conn EXCEPT !.in = <<>>, !.offset = 0, !.phase = p]
           e == [b EXCEPT !.conn = d]
           f == [b EXCEPT !.conn = None]
<1>1. b \in Buses /\ b.conn \in Connections /\ BusPhase(b) = "MessageIn" /\ BusBase(b)
  BY ConnTyped DEF BusOK, BusBase
<1>2. r = IF attention THEN e
          ELSE IF b.conn.offset # Len(b.conn.in) THEN b
          ELSE IF b.conn.in = <<CommandComplete>> THEN f ELSE e
  <2>1. attention => e = [b EXCEPT !.conn.in = <<>>, !.conn.offset = 0, !.conn.phase = "MessageOut"]
    BY <1>1 DEF Buses, Connections
  <2>2. ~attention => e = [b EXCEPT !.conn.in = <<>>, !.conn.offset = 0, !.conn.phase = b.conn.return]
    BY <1>1 DEF Buses, Connections
  <2> HIDE DEF e
  <2> QED BY <1>1, <2>1, <2>2 DEF AcknowledgeMessage
<1>3. ASSUME attention \/ b.conn.in # <<CommandComplete>>
      PROVE  BusOK(e) /\ (attention => InMessage(e))
  <2>1. b.conn.return \in {"Command", "DataIn", "DataOut", "Status"}
    BY <1>1, ConnTyped
  <2>2. p \in Phases /\ <<>> \in Seq({Sdtr, Reject, CommandComplete})
    BY <2>1 DEF Phases
  <2>3. d \in Connections
    <3> HIDE DEF p
    <3> QED BY <1>1, <2>2 DEF Connections
  <2>4. /\ d.phase = p /\ d.in = <<>> /\ d.offset = 0 /\ d.cdb = b.conn.cdb /\ d.opcode = b.conn.opcode
        /\ d.target = b.conn.target /\ d.out = b.conn.out /\ d.return = b.conn.return
    BY <1>1 DEF Connections
  <2>5. Len(d.in) <= MESSAGE_LIMIT /\ d.offset <= Len(d.in)
    BY <2>4, ScsiConstants
  <2> HIDE DEF d
  <2>6. e \in Buses /\ e.conn = d /\ e.txn = b.txn /\ e.loaded = b.loaded /\ e.conn # None
    BY <1>1, <2>3, WithConn
  <2> HIDE DEF e
  <2>7. RestorableTransaction(e) = RestorableTransaction(b)
    BY <2>6 DEF RestorableTransaction, MediumPresent
  <2>8. BusBase(e)
    BY <1>1, <2>4, <2>5, <2>6, <2>7 DEF BusBase, Restorable
  <2>9. Destined(b) = b.conn.return
    BY <1>3 DEF Destined, InMessage, Completion
  <2>10. Destined(e) = b.conn.return
    BY <2>1, <2>4, <2>6 DEF Destined, InMessage
  <2>11. Agreed(e)
    BY <2>6, <2>9, <2>10 DEF BusOK, Agreed
  <2> QED BY <2>4, <2>6, <2>8, <2>11 DEF BusOK, InMessage
<1>4. ASSUME b.conn.in = <<CommandComplete>> PROVE BusOK(f) /\ f.conn = None
  <2>1. b.txn = None
    BY <1>4 DEF BusOK, Agreed, Destined, InMessage, Completion, DataPhases
  <2>2. f \in Buses /\ f.conn = None /\ f.txn = None
    BY <1>1, <2>1 DEF Buses
  <2> QED BY <2>2 DEF BusOK, BusBase, Restorable, Agreed
<1>5. attention => b.conn.in # <<CommandComplete>>
  BY DEF InMessage, Completion
<1> HIDE DEF e, f
<1> QED BY <1>2, <1>3, <1>4, <1>5

LEMMA AttentionAsserted ==
    ASSUME NEW b, BusOK(b), b.conn # None, b.conn.in # Completion
    PROVE  LET r == AssertAttention(b)
           IN /\ BusOK(r) /\ r.conn # None /\ InMessage(r)
              /\ b.conn.phase = "MessageIn" => r.conn.phase = "MessageIn"
              /\ r.conn.phase \in {"MessageIn", "MessageOut"}
              /\ b.conn.phase \in {"MessageIn", "MessageOut"} => r = b
<1> DEFINE r == AssertAttention(b)
           d == [b.conn EXCEPT !.return = b.conn.phase, !.phase = "MessageOut", !.out = <<>>]
           e == [b EXCEPT !.conn = d]
<1>1. b \in Buses /\ b.conn \in Connections /\ BusPhase(b) = b.conn.phase /\ BusBase(b)
      /\ b.conn.phase \in Phases /\ b.conn.phase # None
  BY ConnTyped DEF BusOK, BusBase
<1>2. CASE b.conn.phase \in {"MessageIn", "MessageOut"}
  <2>1. r = b
    BY <1>1, <1>2 DEF AssertAttention
  <2> HIDE DEF r
  <2>2. InMessage(r)
    BY <1>2, <2>1 DEF InMessage
  <2> QED BY <1>2, <2>1, <2>2 DEF r
<1>3. CASE b.conn.phase \notin {"MessageIn", "MessageOut"}
  <2>1. e = [b EXCEPT !.conn.return = b.conn.phase, !.conn.phase = "MessageOut", !.conn.out = <<>>]
    BY <1>1 DEF Buses, Connections
  <2>2. r = e
    <3> HIDE DEF e
    <3> QED BY <1>1, <1>3, <2>1 DEF AssertAttention
  <2>3. b.conn.phase \in {"Command", "DataIn", "DataOut", "Status"} /\ "MessageOut" \in Phases
        /\ <<>> \in Seq(OutMessages)
    BY <1>1, <1>3 DEF Phases
  <2>4. d \in Connections
    BY <1>1, <2>3 DEF Connections
  <2>5. /\ d.phase = "MessageOut" /\ d.in = b.conn.in /\ d.offset = b.conn.offset /\ d.cdb = b.conn.cdb
        /\ d.opcode = b.conn.opcode /\ d.target = b.conn.target /\ d.out = <<>>
        /\ d.return = b.conn.phase
    BY <1>1 DEF Connections
  <2>6. Len(d.out) <= MESSAGE_LIMIT
    BY <2>5, ScsiConstants
  <2> HIDE DEF d
  <2>7. e \in Buses /\ e.conn = d /\ e.txn = b.txn /\ e.loaded = b.loaded /\ e.conn # None
    BY <1>1, <2>4, WithConn
  <2> HIDE DEF e
  <2>8. RestorableTransaction(e) = RestorableTransaction(b)
    BY <2>7 DEF RestorableTransaction, MediumPresent
  <2>9. BusBase(e)
    BY <1>1, <2>5, <2>6, <2>7, <2>8 DEF BusBase, Restorable
  <2>10. Destined(b) = b.conn.phase /\ Destined(e) = b.conn.phase /\ InMessage(e)
    BY <1>3, <2>5, <2>7 DEF Destined, InMessage
  <2>11. Agreed(e)
    BY <2>7, <2>10 DEF BusOK, Agreed
  <2> HIDE DEF r
  <2> QED BY <1>3, <2>2, <2>5, <2>7, <2>9, <2>10, <2>11 DEF BusOK, r
<1> QED BY <1>2, <1>3

LEMMA Selects ==
    ASSUME NEW b, BusOK(b), b.conn = None, NEW target, NEW attention \in BOOLEAN
    PROVE  LET r == Select(b, target, attention)
           IN /\ ~r.err /\ r.value \in BOOLEAN /\ BusOK(r.bus)
              /\ ~r.value => r.bus = b
              /\ r.value => /\ r.bus.conn # None /\ r.bus.conn.return = "Command"
                            /\ r.bus.conn.phase = IF attention THEN "MessageOut" ELSE "Command"
                            /\ r.bus.conn.out = <<>>
<1> DEFINE r == Select(b, target, attention)
           p == IF attention THEN "MessageOut" ELSE "Command"
           d == [target |-> target, lun |-> 0, phase |-> p, return |-> "Command", opcode |-> None, cdb |-> 0,
                 out |-> <<>>, in |-> <<>>, offset |-> 0, status |-> Good]
           e == [b EXCEPT !.conn = d]
<1>1. b \in Buses /\ b.txn = None
  BY DEF BusOK, BusBase
<1>2. CASE target \notin Targets
  <2>1. r = Ok(b, FALSE)
    BY <1>1, <1>2 DEF Select
  <2> QED BY <2>1 DEF Ok
<1>3. CASE target \in Targets
  <2>1. r = Ok(e, TRUE)
    BY <1>1, <1>3 DEF Select
  <2>2. p \in Phases /\ 0 \in Luns /\ 0 \in 0..CDB_LIMIT
    BY ScsiConstants DEF Phases, Luns
  <2>3. d \in Connections
    <3>1. <<>> \in Seq(OutMessages) /\ <<>> \in Seq({Sdtr, Reject, CommandComplete})
      OBVIOUS
    <3> HIDE DEF p
    <3> QED BY <1>3, <2>2, <3>1 DEF Connections
  <2>4. /\ d.target = target /\ d.phase = p /\ d.return = "Command" /\ d.cdb = 0 /\ d.out = <<>>
        /\ d.in = <<>> /\ d.offset = 0
    OBVIOUS
  <2>5. Len(d.out) = 0 /\ Len(d.in) = 0 /\ MESSAGE_LIMIT \in Nat /\ CDB_LIMIT \in Nat
    BY <2>4, ScsiConstants
  <2> HIDE DEF d
  <2>6. e \in Buses /\ e.conn = d /\ e.txn = None /\ e.conn # None
    BY <1>1, <2>3, WithConn
  <2> HIDE DEF e
  <2>7. BusBase(e)
    BY <1>3, <2>4, <2>5, <2>6 DEF BusBase, Restorable
  <2>8. Agreed(e)
    BY <2>4, <2>6 DEF Agreed, Destined, InMessage, DataPhases
  <2> HIDE DEF r
  <2> QED BY <2>1, <2>4, <2>6, <2>7, <2>8 DEF Ok, BusOK, r
<1> QED BY <1>2, <1>3

-----------------------------------------------------------------------------
(* The chip.                                                                *)

\* The chip moves data by DMA.
ByDma(c) == c.dma /\ c.pioPhase \in DataPhases

\* What the controller and the bus agree on between two steps: a chip that is not busy
\* transfers nothing, a byte is asked for in the phase it is meant for, ACK is held in a
\* message.
Quiet(c, b) ==
    /\ c.busy => ~c.irq /\ ~c.ack
    /\ ~c.busy => c.pioPhase = None
    /\ c.pioPhase # None => b.conn # None
    /\ c.pioPhase = None => c.input = None /\ ~c.output /\ ~c.aborting
    /\ c.output => c.input = None /\ c.pioPhase = BusPhase(b) /\ ~Input(c.pioPhase) /\ c.remaining # 0
    /\ c.ack \/ c.pioPhase = "MessageIn" => BusPhase(b) = "MessageIn"

\* What is left of the transfer.
Counted(c, b) ==
    /\ ByDma(c) =>
         /\ c.pioPhase = BusPhase(b) /\ c.input = None /\ ~c.output
         /\ c.single => c.remaining = 1
         /\ ~c.single => c.count # 0 /\ c.count <= c.remaining
    /\ c.pioPhase # None /\ ~ByDma(c) => IF c.single THEN c.remaining <= 1 ELSE c.remaining = c.count

\* The target has heard an attention.
Heard(c, b) == c.attention /\ b.conn # None => InMessage(b)

Settled(c, b) ==
    c \in Chips /\ BusOK(b) /\ Quiet(c, b) /\ Counted(c, b) /\ Heard(c, b) /\ ~c.cip

\* A chip that does nothing.
Idle(c, b) ==
    /\ c \in Chips /\ ~c.busy /\ ~c.cip /\ c.pioPhase = None /\ c.input = None /\ ~c.output /\ ~c.aborting
    /\ c.ack => BusPhase(b) = "MessageIn"
    /\ Heard(c, b)

LEMMA IdleSettles ==
    ASSUME NEW c, NEW b, BusOK(b), Idle(c, b)
    PROVE  Settled(c, b) /\ ~DmaPending(c)
<1>1. ~ByDma(c)
  BY NoneIsNothing DEF Idle, ByDma, DataPhases, Phases
<1>2. c.pioPhase # "MessageIn"
  BY NoneIsNothing DEF Idle, Phases
<1> QED BY <1>1, <1>2 DEF Idle, Settled, Quiet, Counted, DmaPending

LEMMA ChipTyped ==
    ASSUME NEW c \in Chips
    PROVE  /\ c.dma \in BOOLEAN /\ c.timeout \in BOOLEAN /\ c.opcode \in KnownOpcodes /\ c.lun \in Luns
           /\ c.data \in BOOLEAN /\ c.count \in 0..TRANSFER_COUNT_MAX /\ c.dest \in Nat
           /\ c.status \in Statuses /\ c.cip \in BOOLEAN /\ c.irq \in BOOLEAN /\ c.busy \in BOOLEAN
           /\ c.combined \in BOOLEAN /\ c.attention \in BOOLEAN /\ c.ack \in BOOLEAN
           /\ c.phaseAfter \in BOOLEAN /\ c.pioPhase \in Phases \cup {None}
           /\ c.remaining \in 0..TRANSFER_COUNT_MAX /\ c.single \in BOOLEAN
           /\ c.input \in InputBytes \cup {None} /\ c.output \in BOOLEAN /\ c.aborting \in BOOLEAN
           /\ c.count \in Nat /\ c.remaining \in Nat
BY WdConstants DEF Chips

LEMMA Cleared ==
    ASSUME NEW c \in Chips
    PROVE  LET x == ClearTransferState(c)
           IN /\ x \in Chips
              /\ ~x.busy /\ ~x.combined /\ ~x.attention /\ ~x.ack /\ ~x.phaseAfter /\ x.pioPhase = None
              /\ x.remaining = 0 /\ ~x.single /\ x.input = None /\ ~x.output /\ ~x.aborting
              /\ x.count = c.count /\ x.cip = c.cip /\ x.irq = c.irq /\ x.status = c.status
              /\ x.dma = c.dma /\ x.timeout = c.timeout /\ x.dest = c.dest
<1>1. 0 \in 0..TRANSFER_COUNT_MAX
  BY WdConstants
<1> DEFINE x == ClearTransferState(c)
<1>2. x \in Chips
  BY <1>1, ZenonT(60) DEF ClearTransferState, Chips
<1>3. /\ ~x.busy /\ ~x.combined /\ ~x.attention /\ ~x.ack /\ ~x.phaseAfter /\ x.pioPhase = None
      /\ x.remaining = 0 /\ ~x.single /\ x.input = None /\ ~x.output /\ ~x.aborting
  BY DEF ClearTransferState, Chips
<1>4. /\ x.count = c.count /\ x.cip = c.cip /\ x.irq = c.irq /\ x.status = c.status
      /\ x.dma = c.dma /\ x.timeout = c.timeout /\ x.dest = c.dest
  BY DEF ClearTransferState, Chips
<1> HIDE DEF x
<1> QED BY <1>2, <1>3, <1>4 DEF x

LEMMA StatusRaised ==
    ASSUME NEW c \in Chips, NEW s \in Statuses
    PROVE  LET x == RaiseStatus(c, s)
           IN /\ x \in Chips /\ x.status = s /\ ~x.cip /\ ~x.busy /\ ~x.output /\ x.irq
              /\ x.count = c.count /\ x.remaining = c.remaining /\ x.single = c.single
              /\ x.pioPhase = c.pioPhase /\ x.input = c.input /\ x.aborting = c.aborting
              /\ x.attention = c.attention /\ x.ack = c.ack /\ x.dma = c.dma
BY DEF RaiseStatus, Chips

LEMMA PhaseReported ==
    ASSUME NEW c \in Chips, NEW b, BusOK(b), NEW class \in {"service", "unexpected", "complete"},
           c.pioPhase = None, c.input = None, ~c.aborting, c.ack => BusPhase(b) = "MessageIn", Heard(c, b)
    PROVE  /\ Idle(ReportPhase(c, b, class), b) /\ ReportPhase(c, b, class).count = c.count
<1> DEFINE s == IF b.conn = None THEN Code("disconnected") ELSE <<class, b.conn.phase>>
<1>1. b \in Buses /\ (b.conn # None => b.conn.phase \in Phases)
  BY ConnTyped DEF BusOK, BusBase
<1>2. s \in Statuses
  BY <1>1 DEF Statuses, Code
<1> HIDE DEF s
<1>3. ReportPhase(c, b, class) = RaiseStatus(c, s)
  BY DEF ReportPhase, s
<1> QED BY <1>2, <1>3, StatusRaised DEF Idle, Heard

LEMMA TransferAborts ==
    ASSUME NEW c \in Chips, NEW b, BusOK(b), c.input = None, c.ack => BusPhase(b) = "MessageIn", Heard(c, b)
    PROVE  Idle(AbortTransfer(c, b), b) /\ AbortTransfer(c, b).count = c.count
<1> DEFINE s == IF b.conn = None THEN Code("abort free") ELSE <<"aborted", b.conn.phase>>
           x == [c EXCEPT !.pioPhase = None, !.aborting = FALSE]
<1>1. b \in Buses /\ (b.conn # None => b.conn.phase \in Phases)
  BY ConnTyped DEF BusOK, BusBase
<1>2. s \in Statuses
  BY <1>1 DEF Statuses, Code
<1>3. /\ x \in Chips /\ x.pioPhase = None /\ ~x.aborting /\ x.input = None /\ x.ack = c.ack
      /\ x.attention = c.attention /\ x.count = c.count
  BY ZenonT(60) DEF Chips
<1> HIDE DEF s, x
<1>4. AbortTransfer(c, b) = RaiseStatus(x, s)
  BY DEF AbortTransfer, s, x
<1> QED BY <1>2, <1>3, <1>4, StatusRaised DEF Idle, Heard

-----------------------------------------------------------------------------
(* The pump.                                                                *)

\* What the pump is given: a transfer that is in progress.
Pumped(c, b) ==
    /\ c \in Chips /\ BusOK(b) /\ c.busy /\ ~c.irq /\ ~c.ack /\ ~c.cip /\ c.pioPhase # None /\ Heard(c, b)
    /\ c.output => c.input = None /\ ~Input(c.pioPhase)
    /\ c.output \/ c.input # None => ~ByDma(c)
    /\ c.pioPhase = "MessageIn" => BusPhase(b) = "MessageIn"
    /\ c.input # None => b.conn # None
    /\ c.input # None \/ BusPhase(b) = c.pioPhase =>
         /\ c.single => c.remaining <= 1
         /\ ~c.single => IF ByDma(c) THEN c.count <= c.remaining /\ (c.remaining # 0 => c.count # 0)
                         ELSE c.remaining = c.count
    /\ c.output => c.pioPhase # BusPhase(b) \/ c.remaining # 0

\* Where it ends: in an idle chip, with a byte for the host, or with an error.
PumpEnded(c, b, u) ==
    /\ Settled(u.chip, u.bus) /\ ~DmaPending(u.chip) /\ u.work = "idle" /\ u.bus.txn = b.txn
    /\ u.chip.count = c.count
    /\ u.chip.busy => u.chip.input # None
    /\ u.err = FALSE

LEMMA EndOfPump ==
    ASSUME NEW c, NEW b, Pumped(c, b),
           \/ c.input # None \/ c.aborting \/ (c.combined /\ BusPhase(b) = "Status")
           \/ c.remaining = 0 \/ BusPhase(b) # c.pioPhase
    PROVE  PumpEnded(c, b, PumpEnd(c, b))
<1> DEFINE u == PumpEnd(c, b)
<1>1. c \in Chips /\ BusOK(b) /\ BusBase(b) /\ b \in Buses
  BY DEF Pumped, BusOK, BusBase
<1>2. c.input \in InputBytes \cup {None} /\ c.aborting \in BOOLEAN /\ c.combined \in BOOLEAN
      /\ c.remaining \in Nat
  BY <1>1, ChipTyped
<1>3. CASE c.input # None
  <2>1. u = Unit(c, b)
    BY <1>3 DEF PumpEnd
  <2>2. Settled(c, b) /\ ~DmaPending(c)
    BY <1>3 DEF Pumped, Settled, Quiet, Counted, DmaPending, ByDma, DataPhases
  <2> HIDE DEF u
  <2>3. PumpEnded(c, b, u)
    BY <1>3, <2>1, <2>2 DEF PumpEnded, Unit
  <2> QED BY <2>3 DEF u
<1>4. CASE c.input = None /\ c.aborting
  <2> DEFINE x == AbortTransfer(c, b)
  <2>1. u = Unit(x, b)
    BY <1>4 DEF PumpEnd
  <2>2. Idle(x, b) /\ x.count = c.count
    BY <1>1, <1>4, TransferAborts DEF Pumped
  <2> HIDE DEF u, x
  <2>3. Settled(x, b) /\ ~DmaPending(x) /\ ~x.busy
    BY <1>1, <2>2, IdleSettles DEF Idle
  <2>4. PumpEnded(c, b, u)
    BY <2>1, <2>2, <2>3 DEF PumpEnded, Unit
  <2> QED BY <2>4 DEF u
<1>5. CASE c.input = None /\ ~c.aborting /\ c.combined /\ BusPhase(b) = "Status"
  <2> DEFINE status == ReadInformation(b, None)
             message == ReadInformation(status.bus, None)
             x == FinishSelectAndTransfer(c, status.value[2])
             f == AcknowledgeMessage(message.bus, FALSE)
  <2>1. b.conn # None /\ b.conn \in Connections /\ b.conn.phase = "Status" /\ b.txn = None
    <3>1. b.conn # None
      BY <1>5, NoneIsNothing DEF BusPhase, Phases
    <3> QED BY <1>1, <1>5, <3>1, ConnTyped DEF BusOK, Agreed, Destined, InMessage, DataPhases
  <2> DEFINE d == [b.conn EXCEPT !.phase = "MessageIn", !.in = Completion, !.offset = 0]
             e == [b EXCEPT !.conn = d]
  <2>2. status.bus = e /\ status.value = StatusByte(b.conn.status)
    <3>1. e = [b EXCEPT !.conn.phase = "MessageIn", !.conn.in = <<CommandComplete>>, !.conn.offset = 0]
      BY <1>1, <2>1 DEF Buses, Connections, Completion
    <3> HIDE DEF e
    <3> QED BY <1>5, <3>1 DEF ReadInformation, Ok
  <2>3. d.phase = "MessageIn" /\ d.in = Completion /\ d.offset = 0
    BY <2>1 DEF Connections
  <2>4. e.conn = d /\ e.txn = b.txn
    BY <1>1 DEF Buses
  <2>5. BusOK(e) /\ e.conn # None /\ BusPhase(e) = "MessageIn"
    <3>1. Taken(b, status)
      BY <1>1, <1>5, <2>1, InformationReads
    <3>2. BusOK(e) /\ e.conn # None
      <4> HIDE DEF e, status
      <4> QED BY <2>2, <3>1 DEF Taken
    <3> HIDE DEF d, e
    <3> QED BY <2>3, <2>4, <3>2 DEF BusPhase
  <2> HIDE DEF d, e, status
  <2> DEFINE k == [d EXCEPT !.offset = 1]
             g == [e EXCEPT !.conn = k]
  <2>6. d \in Connections /\ e \in Buses
    BY <2>4, <2>5, ConnTyped DEF BusOK, BusBase
  <2>7. message.bus = g /\ message.value = CommandComplete
    <3>1. g = [e EXCEPT !.conn.offset = @ + 1]
      <4>1. k = [d EXCEPT !.offset = @ + 1]
        BY <2>3, <2>6 DEF Connections
      <4> HIDE DEF k
      <4> QED BY <2>4, <2>6, <4>1 DEF Buses
    <3>2. Len(e.conn.in) = 1 /\ e.conn.offset = 0 /\ e.conn.in[1] = CommandComplete
      BY <2>3, <2>4 DEF Completion
    <3> HIDE DEF g
    <3>3. message = Ok(g, e.conn.in[1])
      BY <2>2, <2>5, <3>1, <3>2 DEF ReadInformation
    <3> QED BY <3>2, <3>3 DEF Ok
  <2>8. k.phase = "MessageIn" /\ k.in = Completion /\ k.offset = 1 /\ k \in Connections
    BY <2>3, <2>6 DEF Connections
  <2> HIDE DEF k
  <2>9. g.conn = k /\ g.txn = b.txn /\ g \in Buses /\ BusPhase(g) = "MessageIn"
    BY <2>4, <2>6, <2>8, WithConn
  <2> HIDE DEF g
  <2>10. f.conn = None /\ f.txn = None /\ f \in Buses
    <3>1. k.offset = Len(k.in) /\ k.in = <<CommandComplete>>
      BY <2>8 DEF Completion
    <3>2. f = [g EXCEPT !.conn = None]
      BY <2>7, <2>9, <3>1 DEF AcknowledgeMessage
    <3> QED BY <2>1, <2>9, <3>2 DEF Buses
  <2>11. BusOK(f)
    BY <2>10 DEF BusOK, BusBase, Restorable, Agreed
  <2>12. status.value[2] \in Luns
    BY <1>1, <2>1, <2>2, ConnTyped DEF StatusByte, Luns, Good, CheckCondition
  <2>13. x \in Chips /\ ~x.busy /\ ~x.cip /\ x.pioPhase = None /\ x.input = None /\ ~x.output
         /\ ~x.aborting /\ ~x.ack /\ ~x.attention /\ x.count = c.count
    <3> DEFINE y == ClearTransferState(c)
               v == status.value[2]
    <3>1. /\ y \in Chips /\ ~y.busy /\ ~y.attention /\ ~y.ack /\ y.pioPhase = None /\ y.input = None
          /\ ~y.output /\ ~y.aborting /\ y.count = c.count
      BY <1>1, Cleared
    <3>2. x = [y EXCEPT !.lun = v, !.data = FALSE, !.status = Code("done"), !.cip = FALSE, !.irq = TRUE]
      BY DEF FinishSelectAndTransfer
    <3>3. v \in Luns /\ Code("done") \in Statuses
      BY <2>12 DEF Statuses
    <3> HIDE DEF x, y, v
    <3> QED BY <3>1, <3>2, <3>3 DEF Chips
  <2> HIDE DEF x, f
  <2>14. Idle(x, f)
    BY <2>10, <2>13 DEF Idle, Heard
  <2>15. Settled(x, f) /\ ~DmaPending(x)
    BY <2>11, <2>14, IdleSettles
  <2>16. u = Unit(x, f)
    <3> HIDE DEF message
    <3> QED BY <1>5, <2>7 DEF PumpEnd, x, f, status, message
  <2> HIDE DEF u
  <2>17. PumpEnded(c, b, u)
    BY <2>1, <2>10, <2>13, <2>15, <2>16 DEF PumpEnded, Unit
  <2> QED BY <2>17 DEF u
<1>6. CASE c.input = None /\ ~c.aborting /\ ~(c.combined /\ BusPhase(b) = "Status")
  <2> DEFINE over == [c EXCEPT !.pioPhase = None]
             paused == [over EXCEPT !.ack = TRUE]
             stopped == [over EXCEPT !.data = TRUE]
  <2>1. /\ over \in Chips /\ over.pioPhase = None /\ over.input = None /\ ~over.aborting /\ ~over.ack
        /\ over.attention = c.attention /\ over.count = c.count
    BY <1>1, <1>6 DEF Chips, Pumped
  <2>2. /\ stopped \in Chips /\ stopped.pioPhase = None /\ stopped.input = None /\ ~stopped.aborting
        /\ ~stopped.ack /\ stopped.attention = c.attention /\ stopped.count = c.count
    BY <1>1, <1>6 DEF Chips, Pumped
  <2>3. /\ paused \in Chips /\ paused.pioPhase = None /\ paused.input = None /\ ~paused.aborting
        /\ paused.attention = c.attention /\ paused.count = c.count
    BY <1>1, <1>6 DEF Chips
  <2> HIDE DEF over, paused, stopped
  <2> DEFINE x == IF ~c.combined /\ c.pioPhase = "MessageIn" /\ c.remaining = 0
                  THEN RaiseStatus(paused, Code("paused"))
                  ELSE IF c.combined
                  THEN ReportPhase(stopped, b, "unexpected")
                  ELSE ReportPhase(over, b, IF c.remaining = 0 THEN "complete" ELSE "unexpected")
  <2>4. u = Unit(x, b)
    BY <1>6 DEF PumpEnd, Pumped, over, paused, stopped
  <2>5. Heard(over, b) /\ Heard(stopped, b) /\ Heard(paused, b)
    BY <2>1, <2>2, <2>3 DEF Heard, Pumped
  <2>6. Idle(x, b) /\ x.count = c.count
    <3>1. CASE ~c.combined /\ c.pioPhase = "MessageIn" /\ c.remaining = 0
      <4>1. BusPhase(b) = "MessageIn" /\ Code("paused") \in Statuses
        BY <3>1 DEF Pumped, Statuses
      <4> QED BY <2>3, <2>5, <3>1, <4>1, StatusRaised DEF Idle, Heard
    <3>2. CASE ~(~c.combined /\ c.pioPhase = "MessageIn" /\ c.remaining = 0) /\ c.combined
      BY <1>1, <2>2, <2>5, <3>2, PhaseReported
    <3>3. CASE ~(~c.combined /\ c.pioPhase = "MessageIn" /\ c.remaining = 0) /\ ~c.combined
      <4>1. (IF c.remaining = 0 THEN "complete" ELSE "unexpected") \in {"service", "unexpected", "complete"}
        OBVIOUS
      <4> QED BY <1>1, <2>1, <2>5, <3>3, <4>1, PhaseReported
    <3> QED BY <1>2, <3>1, <3>2, <3>3
  <2> HIDE DEF x, u
  <2>7. Settled(x, b) /\ ~DmaPending(x) /\ ~x.busy
    BY <1>1, <2>6, IdleSettles DEF Idle
  <2>8. PumpEnded(c, b, u)
    BY <2>4, <2>6, <2>7 DEF PumpEnded, Unit
  <2> QED BY <2>8 DEF u
<1> QED BY <1>2, <1>3, <1>4, <1>5, <1>6

\* Otherwise it asks for DMA, for a byte of the host, or brings one; storage that fails
\* moves the target to its status, where the pump ends.
PumpRuns(c, b, u) ==
    /\ Settled(u.chip, u.bus) /\ u.work \in {"idle", "dma"} /\ u.err \in BOOLEAN
    /\ u.work = "dma" => u.chip = c /\ u.bus = b /\ ByDma(c) /\ DmaPending(c) /\ ~u.err
    /\ u.work = "idle" => ~DmaPending(u.chip)
    /\ u.chip.busy => u.chip.pioPhase # None
    /\ u.chip.busy /\ ~u.err /\ u.work = "idle" => u.chip.input # None \/ u.chip.output

\* A byte of status that was read is not missing.
LEMMA StatusReads ==
    ASSUME NEW b \in Buses, NEW luck, BusPhase(b) = "Status"
    PROVE  ReadInformation(b, luck).value # None
<1>1. ReadInformation(b, luck).value = StatusByte(b.conn.status)
  BY DEF ReadInformation, Ok
<1>2. b.conn # None
  BY NoneIsNothing DEF BusPhase, Phases
<1>3. StatusByte(b.conn.status) \in InputBytes
  BY <1>2, ConnTyped DEF InputBytes
<1> QED BY <1>1, <1>3, NoneIsNothing

LEMMA Pumps ==
    ASSUME NEW c, NEW b, Pumped(c, b), NEW luck \in Luck
    PROVE  PumpRuns(c, b, Pump(c, b, luck))
<1> DEFINE u == Pump(c, b, luck)
<1>1. c \in Chips /\ BusOK(b) /\ BusBase(b) /\ b \in Buses
  BY DEF Pumped, BusOK, BusBase
<1>2. ASSUME NEW e, PumpEnded(c, e, PumpEnd(c, e)), u = PumpEnd(c, e) PROVE PumpRuns(c, b, u)
  <2> HIDE DEF u
  <2>1. PumpEnded(c, e, u)
    BY <1>2
  <2>2. u.chip.busy => u.chip.pioPhase # None
    BY <2>1 DEF PumpEnded, Settled, Quiet
  <2> QED BY <2>1, <2>2 DEF PumpEnded, PumpRuns
<1>3. CASE PumpEnds(c, b)
  <2>1. u = PumpEnd(c, b)
    BY <1>3 DEF Pump
  <2>2. PumpEnded(c, b, PumpEnd(c, b))
    <3>1. \/ c.input # None \/ c.aborting \/ (c.combined /\ BusPhase(b) = "Status")
          \/ c.remaining = 0 \/ BusPhase(b) # c.pioPhase
      <4>1. c.pioPhase # None
        BY DEF Pumped
      <4> QED BY ONLY <1>3, <4>1 DEF PumpEnds
    <3> QED BY <3>1, EndOfPump
  <2> QED BY <1>2, <2>1, <2>2
<1>4. CASE ~PumpEnds(c, b)
  <2>1. c.input = None /\ ~c.aborting /\ c.remaining # 0 /\ BusPhase(b) = c.pioPhase /\ c.pioPhase # None
    BY <1>4 DEF PumpEnds, Pumped
  <2>2. b.conn # None /\ b.conn.phase = c.pioPhase
    BY <2>1 DEF BusPhase
  <2>3. /\ c.count \in 0..TRANSFER_COUNT_MAX /\ c.remaining \in 0..TRANSFER_COUNT_MAX
        /\ c.pioPhase \in Phases /\ c.remaining \in Nat /\ c.count \in Nat /\ c.dma \in BOOLEAN
        /\ c.single \in BOOLEAN /\ c.output \in BOOLEAN /\ TRANSFER_COUNT_MAX \in Nat
    BY <1>1, <2>1, ChipTyped, WdConstants
  <2>4. CASE c.dma /\ c.pioPhase \in {"DataIn", "DataOut"}
    <3>1. u = [Unit(c, b) EXCEPT !.work = "dma"]
      BY <1>4, <2>4 DEF Pump
    <3>2. u.chip = c /\ u.bus = b /\ u.work = "dma" /\ u.err = FALSE
      BY <3>1 DEF Unit
    <3>3. ByDma(c) /\ DmaPending(c) /\ ~c.output
      BY <2>1, <2>4 DEF ByDma, DmaPending, DataPhases, Pumped
    <3>4. Settled(c, b)
      <4>1. c.single => c.remaining = 1
        BY <2>1, <2>3 DEF Pumped
      <4>2. Counted(c, b)
        BY <2>1, <3>3, <4>1 DEF Pumped, Counted
      <4> QED BY <2>1, <2>2, <3>3, <4>2 DEF Pumped, Settled, Quiet
    <3> HIDE DEF u
    <3>5. PumpRuns(c, b, u)
      BY <2>1, <3>2, <3>3, <3>4 DEF PumpRuns
    <3> QED BY <3>5 DEF u
  <2>5. CASE ~(c.dma /\ c.pioPhase \in {"DataIn", "DataOut"}) /\ ~Input(c.pioPhase)
    <3> DEFINE x == [c EXCEPT !.output = TRUE]
    <3>1. u = Unit(x, b)
      BY <1>4, <2>5 DEF Pump
    <3>2. /\ x \in Chips /\ x.output /\ x.input = None /\ x.busy /\ ~x.irq /\ ~x.ack /\ ~x.cip
          /\ x.pioPhase = c.pioPhase /\ x.remaining = c.remaining /\ x.count = c.count
          /\ x.single = c.single /\ x.dma = c.dma /\ x.attention = c.attention
      BY <1>1, <2>1 DEF Chips, Pumped
    <3> HIDE DEF x
    <3>3. ~ByDma(x) /\ ~DmaPending(x) /\ ~ByDma(c)
      BY <2>5, <3>2 DEF ByDma, DmaPending, DataPhases
    <3>4. Settled(x, b)
      BY <1>1, <2>1, <2>2, <2>5, <3>2, <3>3 DEF Pumped, Settled, Quiet, Counted, Heard
    <3> HIDE DEF u
    <3>5. PumpRuns(c, b, u)
      BY <2>1, <3>1, <3>2, <3>3, <3>4 DEF PumpRuns, Unit
    <3> QED BY <3>5 DEF u
  <2>6. CASE ~(c.dma /\ c.pioPhase \in {"DataIn", "DataOut"}) /\ Input(c.pioPhase)
    <3> DEFINE r == ReadInformation(b, luck)
    <3>1. Taken(b, r)
      BY <1>1, <2>1, <2>2, <2>6, InformationReads DEF Input
    <3>2. ~ByDma(c) /\ ~DmaPending(c) /\ ~c.output
      BY <2>1, <2>6 DEF ByDma, DmaPending, DataPhases, Pumped
    <3>3. u = IF r.err THEN Failed(c, r.bus)
              ELSE IF r.value = None THEN PumpEnd(c, r.bus)
              ELSE Unit(AdvanceInformationByte([c EXCEPT !.input = r.value]), r.bus)
      <4> HIDE DEF r
      <4> QED BY <1>4, <2>6 DEF Pump, r
    <3> HIDE DEF r, u
    <3>4. c.pioPhase = "MessageIn" => BusPhase(r.bus) = "MessageIn"
      BY <2>2, <3>1 DEF Taken, BusPhase
    <3>5. Heard(c, r.bus) /\ BusOK(r.bus) /\ r.bus.conn # None
      BY <2>2, <3>1 DEF Taken, Heard, Pumped
    <3>6. CASE r.err
      <4>1. Settled(c, b)
        BY <1>1, <2>1, <2>2, <3>2 DEF Pumped, Settled, Quiet, Counted
      <4>2. r.bus = b /\ u = Failed(c, b)
        BY <3>1, <3>3, <3>6 DEF Taken
      <4>3. u.chip = c /\ u.bus = b /\ u.work = "idle" /\ u.err = TRUE
        BY <4>2 DEF Failed
      <4>4. PumpRuns(c, b, u)
        BY <2>1, <3>2, <4>1, <4>3 DEF PumpRuns
      <4> QED BY <4>4 DEF u
    <3>7. CASE ~r.err /\ r.value = None
      <4>1. BusPhase(r.bus) = "Status" /\ u = PumpEnd(c, r.bus)
        BY <3>1, <3>3, <3>7 DEF Taken
      <4>2. BusPhase(r.bus) # c.pioPhase
        <5>1. ASSUME BusPhase(b) = "Status" PROVE FALSE
          BY <1>1, <3>7, <5>1, StatusReads DEF r
        <5> QED BY <2>1, <4>1, <5>1
      <4>3. Pumped(c, r.bus)
        BY <2>1, <3>2, <3>4, <3>5, <4>2 DEF Pumped
      <4>4. PumpEnded(c, r.bus, PumpEnd(c, r.bus))
        BY <4>2, <4>3, EndOfPump
      <4> QED BY <1>2, <4>1, <4>4 DEF u
    <3>8. CASE ~r.err /\ r.value # None
      <4> DEFINE y == [c EXCEPT !.input = r.value]
                 x == [y EXCEPT !.remaining = c.remaining - 1, !.count = IF c.single THEN 0 ELSE c.count - 1]
      <4>1. r.value \in InputBytes
        BY <3>1, <3>8 DEF Taken
      <4>2. /\ y \in Chips /\ y.input = r.value /\ ~y.output /\ y.busy /\ ~y.irq /\ ~y.ack /\ ~y.cip
            /\ y.pioPhase = c.pioPhase /\ y.remaining = c.remaining /\ y.count = c.count
            /\ y.single = c.single /\ y.dma = c.dma /\ y.attention = c.attention
        BY <1>1, <3>2, <4>1 DEF Chips, Pumped
      <4> HIDE DEF y
      <4>3. AdvanceInformationByte(y) = x
        BY <4>2 DEF AdvanceInformationByte
      <4>4. /\ c.remaining - 1 \in 0..TRANSFER_COUNT_MAX
            /\ (IF c.single THEN 0 ELSE c.count - 1) \in 0..TRANSFER_COUNT_MAX
            /\ IF c.single THEN c.remaining - 1 = 0 ELSE c.remaining - 1 = c.count - 1
        BY <2>1, <2>3, <3>2 DEF Pumped
      <4>5. /\ x \in Chips /\ x.input = r.value /\ ~x.output /\ x.busy /\ ~x.irq /\ ~x.ack /\ ~x.cip
            /\ x.pioPhase = c.pioPhase /\ x.remaining = c.remaining - 1
            /\ x.count = (IF c.single THEN 0 ELSE c.count - 1)
            /\ x.single = c.single /\ x.dma = c.dma /\ x.attention = c.attention
        BY <4>2, <4>4 DEF Chips
      <4> HIDE DEF x
      <4>6. ~ByDma(x) /\ ~DmaPending(x)
        BY <3>2, <4>5 DEF ByDma, DmaPending, DataPhases
      <4>7. Heard(x, r.bus)
        BY <3>5, <4>5 DEF Heard
      <4>8. Settled(x, r.bus)
        BY <2>1, <3>4, <3>5, <4>4, <4>5, <4>6, <4>7 DEF Settled, Quiet, Counted
      <4>9. u = Unit(x, r.bus)
        BY <3>3, <3>8, <4>3 DEF y
      <4>10. u.chip = x /\ u.bus = r.bus /\ u.work = "idle" /\ u.err = FALSE
        BY <4>9 DEF Unit
      <4>11. x.pioPhase # None /\ x.input # None
        BY <2>1, <3>8, <4>5
      <4>12. PumpRuns(c, b, u)
        BY <4>6, <4>8, <4>10, <4>11 DEF PumpRuns
      <4> QED BY <4>12 DEF u
    <3> QED BY <3>3, <3>6, <3>7, <3>8
  <2> QED BY <2>4, <2>5, <2>6
<1> QED BY <1>3, <1>4

-----------------------------------------------------------------------------
(* The requests.                                                            *)

\* A request finds the chip as the host's access left it.
Requested(c, b, p) ==
    /\ p.kind \in {"Select", "Combined", "Transfer"} => c.busy /\ c.pioPhase = None
    /\ p.kind = "Pump" => c.busy /\ c.pioPhase # None /\ ~ByDma(c) /\ c.input = None /\ ~c.output
    /\ p.kind = "Output" =>
         /\ c.busy /\ c.pioPhase = BusPhase(b) /\ c.pioPhase \in {"MessageOut", "Command", "DataOut"}
         /\ ~ByDma(c) /\ c.input = None /\ ~c.output /\ c.remaining # 0
         /\ BusPhase(b) = "MessageOut" => p.byte \in OutMessages
         /\ BusPhase(b) = "Command" /\ b.conn.cdb = 0 => p.byte[2] \in Opcodes
    /\ p.kind = "Phase" => ~c.busy /\ ~c.irq
    /\ p.kind = "Acknowledge" => c.ack
    /\ p.kind = "Attention" => b.conn = None \/ b.conn.in # Completion
    /\ p.kind = "Timeout" => c.busy /\ c.pioPhase = None /\ b.conn = None

\* What the service of a request leaves.
Served(u) ==
    /\ Settled(u.chip, u.bus) /\ u.err \in BOOLEAN /\ u.work \in {"idle", "dma", "wait"}
    /\ u.work = "dma" =>
         /\ ByDma(u.chip) /\ DmaPending(u.chip) /\ u.err = FALSE
         /\ u.chip.remaining = RemainingTransferBytes(u.chip)
    /\ u.work # "dma" => ~DmaPending(u.chip)
    /\ u.work = "wait" => u.chip.busy /\ u.chip.pioPhase = None /\ u.bus.conn = None /\ u.err = FALSE

\* The host has something to do, or the bus has refused.
Answered(u) ==
    u.chip.busy /\ u.work = "idle" => u.err \/ u.chip.input # None \/ u.chip.output

LEMMA Serves ==
    ASSUME NEW u, NEW c, NEW b, u.chip = c, u.bus = b, u.work = "idle", u.err = FALSE, BusOK(b), Idle(c, b)
    PROVE  Served(u) /\ Answered(u)
<1>1. Settled(c, b) /\ ~DmaPending(c) /\ ~c.busy
  BY IdleSettles DEF Idle
<1> QED BY <1>1 DEF Served, Answered

\* The work that the pump leaves.
LEMMA PumpServes ==
    ASSUME NEW c, NEW b, Pumped(c, b), NEW luck \in Luck,
           ByDma(c) /\ BusPhase(b) = c.pioPhase => c.remaining = RemainingTransferBytes(c)
    PROVE  Served(Pump(c, b, luck)) /\ Answered(Pump(c, b, luck))
<1> DEFINE u == Pump(c, b, luck)
<1>1. PumpRuns(c, b, u)
  BY Pumps
<1> HIDE DEF u
<1>2. u.work = "dma" => BusPhase(b) = c.pioPhase
  BY <1>1 DEF PumpRuns, Settled, Counted
<1>3. Served(u) /\ Answered(u)
  BY <1>1, <1>2 DEF PumpRuns, Served, Answered
<1> QED BY <1>3 DEF u

\* A command that begins the transfer of the phase the target is in.
LEMMA TransferStarts ==
    ASSUME NEW c \in Chips, NEW b, BusOK(b), b.conn # None, c.busy, ~c.irq, ~c.ack, ~c.cip,
           c.input = None, ~c.output, c.pioPhase = BusPhase(b), Heard(c, b),
           c.remaining = IF c.single THEN 1 ELSE c.count, NEW luck \in Luck
    PROVE  Served(Pump(c, b, luck)) /\ Answered(Pump(c, b, luck))
<1>1. c.pioPhase # None /\ c.count \in Nat /\ c.single \in BOOLEAN
  BY ChipTyped, ConnTyped DEF BusOK, BusBase
<1>2. Pumped(c, b)
  BY <1>1 DEF Pumped
<1>3. c.remaining = RemainingTransferBytes(c)
  BY <1>1 DEF RemainingTransferBytes
<1> QED BY <1>2, <1>3, PumpServes

\* The chip and the bus before a request is served.
Ready(c, b) == c \in Chips /\ BusOK(b) /\ Quiet(c, b) /\ Counted(c, b) /\ ~c.cip

LEMMA SelectServes ==
    ASSUME NEW c, NEW b, Ready(c, b), Heard(c, b), c.busy, c.pioPhase = None
    PROVE  Served(ServiceSelect(c, b)) /\ Answered(ServiceSelect(c, b))
<1> DEFINE u == ServiceSelect(c, b)
           invalid == RaiseStatus(c, Code("invalid"))
           r == Select(b, c.dest, c.attention)
           waiting == [c EXCEPT !.busy = TRUE]
           selected == [RaiseStatus(c, Code("selected")) EXCEPT !.phaseAfter = TRUE]
<1>1. c \in Chips /\ BusOK(b) /\ c.input = None /\ ~c.output /\ ~c.aborting /\ ~c.ack /\ ~c.cip
  BY DEF Ready, Quiet
<1>2. Code("invalid") \in Statuses /\ Code("selected") \in Statuses
  BY DEF Statuses
<1>3. CASE b.conn # None
  <2>1. Idle(invalid, b)
    BY <1>1, <1>2, StatusRaised DEF Idle, Heard
  <2>2. u = Unit(invalid, b)
    BY <1>3 DEF ServiceSelect
  <2> HIDE DEF u, invalid
  <2>3. u.chip = invalid /\ u.bus = b /\ u.work = "idle" /\ u.err = FALSE
    BY <2>2 DEF Unit
  <2>4. Served(u) /\ Answered(u)
    BY <1>1, <2>1, <2>3, Serves
  <2> QED BY <2>4 DEF u
<1>4. CASE b.conn = None
  <2>1. /\ ~r.err /\ r.value \in BOOLEAN /\ BusOK(r.bus)
        /\ ~r.value => r.bus = b
        /\ r.value => /\ r.bus.conn # None
                      /\ r.bus.conn.phase = IF c.attention THEN "MessageOut" ELSE "Command"
    BY <1>1, <1>4, ChipTyped, Selects
  <2> HIDE DEF r
  <2>2. u = IF ~r.value THEN WaitForSelection(c, b) ELSE Unit(selected, r.bus)
    BY <1>4, <2>1 DEF ServiceSelect, r
  <2>3. CASE ~r.value
    <3>1. /\ waiting \in Chips /\ waiting.busy /\ ~waiting.irq /\ ~waiting.ack /\ waiting.pioPhase = None
          /\ waiting.input = None /\ ~waiting.output /\ ~waiting.aborting /\ ~waiting.cip
      BY <1>1 DEF Chips, Ready, Quiet
    <3> HIDE DEF waiting
    <3>2. ~ByDma(waiting) /\ ~DmaPending(waiting) /\ waiting.pioPhase # "MessageIn"
      BY <3>1, NoneIsNothing DEF ByDma, DmaPending, DataPhases, Phases
    <3>3. Settled(waiting, b)
      BY <1>1, <1>4, <3>1, <3>2 DEF Settled, Quiet, Counted, Heard
    <3>4. u.chip = waiting /\ u.bus = b /\ u.work = "wait" /\ u.err = FALSE
      BY <2>2, <2>3 DEF WaitForSelection, Unit, waiting
    <3> HIDE DEF u
    <3>5. Served(u) /\ Answered(u)
      BY <1>4, <3>1, <3>2, <3>3, <3>4 DEF Served, Answered
    <3> QED BY <3>5 DEF u
  <2>4. CASE r.value
    <3> DEFINE x == RaiseStatus(c, Code("selected"))
    <3>1. /\ x \in Chips /\ ~x.busy /\ ~x.cip /\ x.pioPhase = None /\ x.input = None /\ ~x.output
          /\ ~x.aborting /\ ~x.ack /\ x.attention = c.attention
      BY <1>1, <1>2, StatusRaised
    <3>2. selected = [x EXCEPT !.phaseAfter = TRUE]
      OBVIOUS
    <3> HIDE DEF x, selected
    <3>3. /\ selected \in Chips /\ ~selected.busy /\ ~selected.cip /\ selected.pioPhase = None
          /\ selected.input = None /\ ~selected.output /\ ~selected.aborting /\ ~selected.ack
          /\ selected.attention = c.attention
      BY <3>1, <3>2 DEF Chips
    <3>4. Idle(selected, r.bus)
      BY <2>1, <2>4, <3>3 DEF Idle, Heard, InMessage
    <3>5. u.chip = selected /\ u.bus = r.bus /\ u.work = "idle" /\ u.err = FALSE
      BY <2>2, <2>4 DEF Unit
    <3> HIDE DEF u
    <3>6. Served(u) /\ Answered(u)
      BY <2>1, <3>4, <3>5, Serves
    <3> QED BY <3>6 DEF u
  <2> QED BY <2>1, <2>3, <2>4
<1> QED BY <1>3, <1>4

LEMMA CombinedServes ==
    ASSUME NEW c, NEW b, Ready(c, b), Heard(c, b), c.busy, c.pioPhase = None, NEW luck \in Luck
    PROVE  Served(ServiceCombined(c, b, luck)) /\ Answered(ServiceCombined(c, b, luck))
<1> DEFINE u == ServiceCombined(c, b, luck)
           invalid == RaiseStatus(c, Code("invalid"))
           Gone(x, e) == [x EXCEPT !.pioPhase = BusPhase(e), !.remaining = x.count, !.single = FALSE]
           r == Select(b, c.dest, c.attention)
           sent == ConnectCombined(c, r.bus, luck)
           identified == IF c.attention
                         THEN WriteInformation(r.bus, Identify(c.lun), TRUE, luck).bus ELSE r.bus
           chosen == [c EXCEPT !.data = FALSE, !.attention = FALSE]
<1>1. /\ c \in Chips /\ BusOK(b) /\ c.input = None /\ ~c.output /\ ~c.aborting /\ ~c.irq /\ ~c.ack
      /\ ~c.cip
  BY DEF Ready, Quiet
<1>2. Code("invalid") \in Statuses
  BY DEF Statuses
<1>3. ASSUME NEW x \in Chips, NEW e, BusOK(e), e.conn # None, x.busy, ~x.irq, ~x.ack, ~x.cip,
             x.input = None, ~x.output, Heard(x, e)
      PROVE  Served(Pump(Gone(x, e), e, luck)) /\ Answered(Pump(Gone(x, e), e, luck))
  <2> DEFINE y == Gone(x, e)
  <2>1. BusPhase(e) \in Phases /\ x.count \in 0..TRANSFER_COUNT_MAX
    BY <1>3, ConnTyped, ChipTyped DEF BusOK, BusBase
  <2>2. /\ y \in Chips /\ y.busy /\ ~y.irq /\ ~y.ack /\ ~y.cip /\ y.input = None /\ ~y.output
        /\ y.pioPhase = BusPhase(e) /\ y.attention = x.attention
        /\ y.remaining = IF y.single THEN 1 ELSE y.count
    BY <1>3, <2>1 DEF Chips
  <2> HIDE DEF Gone
  <2>3. Heard(y, e)
    BY <1>3, <2>2 DEF Heard
  <2> QED BY <1>3, <2>2, <2>3, TransferStarts
<1> HIDE DEF Gone
<1>4. CASE b.conn # None
  <2>1. CASE b.conn.target # c.dest \/ ~c.data
    <3>1. Idle(invalid, b)
      BY <1>1, <1>2, StatusRaised DEF Idle, Heard
    <3>2. u = Unit(invalid, b)
      BY <1>4, <2>1 DEF ServiceCombined
    <3> HIDE DEF u, invalid
    <3>3. u.chip = invalid /\ u.bus = b /\ u.work = "idle" /\ u.err = FALSE
      BY <3>2 DEF Unit
    <3>4. Served(u) /\ Answered(u)
      BY <1>1, <3>1, <3>3, Serves
    <3> QED BY <3>4 DEF u
  <2>2. CASE ~(b.conn.target # c.dest \/ ~c.data)
    <3>1. u = Pump(Gone(c, b), b, luck)
      BY <1>4, <2>2 DEF ServiceCombined, Gone
    <3> QED BY <1>1, <1>3, <1>4, <3>1
  <2> QED BY <2>1, <2>2
<1>5. CASE b.conn = None
  <2>1. /\ ~r.err /\ r.value \in BOOLEAN /\ BusOK(r.bus)
        /\ ~r.value => r.bus = b
        /\ r.value => /\ r.bus.conn # None /\ r.bus.conn.return = "Command" /\ r.bus.conn.out = <<>>
                      /\ r.bus.conn.phase = IF c.attention THEN "MessageOut" ELSE "Command"
    BY <1>1, <1>5, ChipTyped, Selects
  <2>2. u = IF ~r.value THEN WaitForSelection(c, b)
            ELSE IF sent.err THEN Failed(chosen, sent.bus)
            ELSE Pump(Gone(chosen, sent.bus), sent.bus, luck)
    BY <1>5, <2>1 DEF ServiceCombined, Gone
  <2> HIDE DEF r
  <2>3. CASE ~r.value
    <3>1. u = ServiceSelect(c, b)
      BY <1>5, <2>1, <2>2, <2>3 DEF ServiceSelect, r
    <3> QED BY <3>1, SelectServes
  <2>4. CASE r.value
    <3>1. ASSUME c.attention
          PROVE  identified.conn # None /\ identified.conn.phase = "Command" /\ BusOK(identified)
      <4> DEFINE b2 == r.bus
                 id == Identify(c.lun)
                 out == Append(b2.conn.out, id)
      <4>1. b2.conn # None /\ b2.conn.phase = "MessageOut" /\ b2.conn.out = <<>> /\ BusOK(b2)
            /\ b2.conn.return = "Command" /\ BusPhase(b2) = "MessageOut"
        BY <2>1, <2>4, <3>1 DEF BusPhase
      <4>2. c.lun \in Luns /\ id \in OutMessages
        BY <1>1, ChipTyped DEF OutMessages
      <4> HIDE DEF b2, id
      <4>3. out = <<id>> /\ out \in Seq(OutMessages) /\ Len(out) <= MESSAGE_LIMIT
            /\ Len(b2.conn.out) # MESSAGE_LIMIT
        BY <4>1, <4>2, ScsiConstants
      <4>4. WriteInformation(b2, id, TRUE, luck) = Ok(FinishMessageOut(b2, out), TRUE)
        BY <4>1, <4>3 DEF WriteInformation
      <4>5. identified = FinishMessageOut(b2, out)
        <5> DEFINE w == WriteInformation(b2, id, TRUE, luck)
        <5>1. identified = w.bus
          BY <3>1 DEF b2, id
        <5> HIDE DEF w, out, identified
        <5>2. w = Ok(FinishMessageOut(b2, out), TRUE)
          BY <4>4 DEF w
        <5> QED BY <5>1, <5>2 DEF Ok
      <4> HIDE DEF out, identified
      <4>6. BusOK(FinishMessageOut(b2, out)) /\ FinishMessageOut(b2, out).conn # None
            /\ FinishMessageOut(b2, out).conn.phase = b2.conn.return
        BY <4>1, <4>2, <4>3, MessagesFinish DEF id
      <4> QED BY <4>1, <4>5, <4>6
    <3>2. identified.conn # None /\ identified.conn.phase = "Command" /\ BusOK(identified)
      BY <2>1, <2>4, <3>1
    <3> HIDE DEF identified
    <3>3. sent = WriteCdb(identified, c.opcode, WdCdbLength[c.opcode], luck)
      BY DEF ConnectCombined, identified
    <3> HIDE DEF sent
    <3>4. ~sent.err /\ BusOK(sent.bus) /\ sent.bus.conn # None
      BY <1>1, <3>2, <3>3, ChipTyped, CdbWrites
    <3>5. /\ chosen \in Chips /\ chosen.busy /\ ~chosen.irq /\ ~chosen.ack /\ ~chosen.cip
          /\ chosen.input = None /\ ~chosen.output /\ ~chosen.attention
      BY <1>1 DEF Chips
    <3> HIDE DEF chosen, u
    <3>6. Heard(chosen, sent.bus)
      BY <3>5 DEF Heard
    <3>7. u = Pump(Gone(chosen, sent.bus), sent.bus, luck)
      BY <2>2, <2>4, <3>4
    <3>8. Served(u) /\ Answered(u)
      BY <1>3, <3>4, <3>5, <3>6, <3>7
    <3> QED BY <3>8 DEF u
  <2> QED BY <2>1, <2>3, <2>4
<1> QED BY <1>4, <1>5

LEMMA TransferServes ==
    ASSUME NEW c, NEW b, Ready(c, b), Heard(c, b), c.busy, c.pioPhase = None, NEW luck \in Luck
    PROVE  Served(ServiceTransfer(c, b, luck)) /\ Answered(ServiceTransfer(c, b, luck))
<1> DEFINE u == ServiceTransfer(c, b, luck)
           invalid == RaiseStatus(c, Code("invalid"))
           n == IF c.single THEN 1 ELSE c.count
           x == [c EXCEPT !.pioPhase = BusPhase(b), !.remaining = n]
<1>1. /\ c \in Chips /\ BusOK(b) /\ c.input = None /\ ~c.output /\ ~c.aborting /\ ~c.irq /\ ~c.ack
      /\ ~c.cip
  BY DEF Ready, Quiet
<1>2. Code("invalid") \in Statuses
  BY DEF Statuses
<1>3. CASE b.conn = None
  <2>1. Idle(invalid, b)
    BY <1>1, <1>2, <1>3, StatusRaised DEF Idle, Heard
  <2>2. u = Unit(invalid, b)
    BY <1>3 DEF ServiceTransfer
  <2> HIDE DEF u, invalid
  <2>3. u.chip = invalid /\ u.bus = b /\ u.work = "idle" /\ u.err = FALSE
    BY <2>2 DEF Unit
  <2>4. Served(u) /\ Answered(u)
    BY <1>1, <2>1, <2>3, Serves
  <2> QED BY <2>4 DEF u
<1>4. CASE b.conn # None
  <2>1. BusPhase(b) \in Phases /\ c.count \in 0..TRANSFER_COUNT_MAX /\ c.count \in Nat
    BY <1>1, <1>4, ConnTyped, ChipTyped DEF BusOK, BusBase
  <2>2. n \in 0..TRANSFER_COUNT_MAX
    BY <2>1, WdConstants
  <2>3. u = Pump(x, b, luck)
    BY <1>4 DEF ServiceTransfer
  <2>4. /\ x \in Chips /\ x.busy /\ ~x.irq /\ ~x.ack /\ ~x.cip /\ x.input = None /\ ~x.output
        /\ x.pioPhase = BusPhase(b) /\ x.attention = c.attention
        /\ x.remaining = n /\ x.single = c.single /\ x.count = c.count
    <3> HIDE DEF n
    <3> QED BY <1>1, <2>1, <2>2 DEF Chips
  <2>5. x.remaining = IF x.single THEN 1 ELSE x.count
    BY ONLY <2>4 DEF n
  <2> HIDE DEF x, n
  <2>6. Heard(x, b)
    BY <2>4 DEF Heard
  <2> QED BY <1>1, <1>4, <2>3, <2>4, <2>5, <2>6, TransferStarts
<1> QED BY <1>3, <1>4

LEMMA OutputServes ==
    ASSUME NEW c, NEW b, Ready(c, b), Heard(c, b), NEW p, p.kind = "Output", Requested(c, b, p),
           NEW luck \in Luck
    PROVE  /\ Served(ServiceOutput(c, b, p.byte, luck)) /\ Answered(ServiceOutput(c, b, p.byte, luck))
<1> DEFINE u == ServiceOutput(c, b, p.byte, luck)
           last == c.remaining = 1
           r == WriteInformation(b, p.byte, last, luck)
           released == IF c.pioPhase = "MessageOut" /\ last THEN [c EXCEPT !.attention = FALSE] ELSE c
           advanced == [released EXCEPT !.remaining = @ - 1, !.count = IF released.single THEN 0 ELSE @ - 1]
           x == IF r.value THEN advanced ELSE released
<1>1. /\ c.busy /\ c.pioPhase = BusPhase(b) /\ BusPhase(b) \in {"MessageOut", "Command", "DataOut"}
      /\ ~ByDma(c) /\ c.input = None /\ ~c.output /\ c.remaining # 0
      /\ BusPhase(b) = "MessageOut" => p.byte \in OutMessages
      /\ BusPhase(b) = "Command" /\ b.conn.cdb = 0 => p.byte[2] \in KnownOpcodes
  BY ScsiConstants DEF Requested
<1>2. c \in Chips /\ BusOK(b) /\ b.conn # None /\ b.conn.phase = BusPhase(b) /\ ~c.irq /\ ~c.ack /\ ~c.cip
  BY <1>1, NoneIsNothing DEF Ready, Quiet, BusPhase, Phases
<1>3. /\ c.count \in 0..TRANSFER_COUNT_MAX /\ c.remaining \in 0..TRANSFER_COUNT_MAX
      /\ c.remaining \in Nat /\ c.count \in Nat /\ c.single \in BOOLEAN /\ TRANSFER_COUNT_MAX \in Nat
  BY <1>2, ChipTyped, WdConstants
<1>4. IF c.single THEN c.remaining <= 1 ELSE c.remaining = c.count
  <2>1. c.pioPhase # None
    BY <1>1, NoneIsNothing DEF Phases
  <2> QED BY <1>1, <2>1 DEF Ready, Counted
<1>5. last \in BOOLEAN
  OBVIOUS
<1>6. Written(b, last, r)
  <2> HIDE DEF last
  <2> QED BY <1>1, <1>2, <1>5, InformationWrites
<1>7. /\ released \in Chips /\ released.busy /\ released.pioPhase = c.pioPhase /\ ~released.irq
      /\ ~released.ack /\ ~released.cip /\ released.input = None /\ ~released.output
      /\ released.remaining = c.remaining /\ released.count = c.count /\ released.single = c.single
      /\ released.dma = c.dma
      /\ released.attention => c.attention /\ ~(c.pioPhase = "MessageOut" /\ last)
  <2> DEFINE over == c.pioPhase = "MessageOut" /\ last
             silent == [c EXCEPT !.attention = FALSE]
  <2>1. /\ silent \in Chips /\ silent.busy /\ silent.pioPhase = c.pioPhase /\ ~silent.irq
        /\ ~silent.ack /\ ~silent.cip /\ silent.input = None /\ ~silent.output
        /\ silent.remaining = c.remaining /\ silent.count = c.count /\ silent.single = c.single
        /\ silent.dma = c.dma /\ ~silent.attention
    BY <1>1, <1>2 DEF Chips
  <2>2. released = IF over THEN silent ELSE c
    OBVIOUS
  <2> HIDE DEF over, silent, released
  <2>3. CASE over
    BY <2>1, <2>2, <2>3 DEF over
  <2>4. CASE ~over
    BY <1>1, <1>2, <2>2, <2>4 DEF over
  <2> QED BY <2>3, <2>4
<1>8. u = IF r.err THEN Failed(c, r.bus)
          ELSE Pump(IF r.value THEN AdvanceInformationByte(released) ELSE released, r.bus, luck)
  <2> HIDE DEF r, released, last
  <2> QED BY DEF ServiceOutput, r, released, last
<1> HIDE DEF r, released
<1>9. advanced = AdvanceInformationByte(released)
  BY DEF AdvanceInformationByte
<1>10. /\ c.remaining - 1 \in 0..TRANSFER_COUNT_MAX
       /\ (IF c.single THEN 0 ELSE c.count - 1) \in 0..TRANSFER_COUNT_MAX
       /\ IF c.single THEN c.remaining - 1 = 0 ELSE c.remaining - 1 = c.count - 1
  BY <1>1, <1>3, <1>4
<1>11. /\ advanced \in Chips /\ advanced.busy /\ advanced.pioPhase = c.pioPhase /\ ~advanced.irq
       /\ ~advanced.ack /\ ~advanced.cip /\ advanced.input = None /\ ~advanced.output
       /\ advanced.remaining = c.remaining - 1
       /\ advanced.count = (IF c.single THEN 0 ELSE c.count - 1) /\ advanced.single = c.single
       /\ advanced.dma = c.dma /\ advanced.attention = released.attention
  BY <1>7, <1>10 DEF Chips
<1> HIDE DEF advanced
<1>12. /\ x \in Chips /\ x.busy /\ x.pioPhase = c.pioPhase /\ ~x.irq /\ ~x.ack /\ ~x.cip /\ x.input = None
       /\ ~x.output /\ x.dma = c.dma /\ x.single = c.single /\ x.remaining \in Nat /\ x.count \in Nat
       /\ IF x.single THEN x.remaining <= 1 ELSE x.remaining = x.count
       /\ x.attention => c.attention /\ ~(c.pioPhase = "MessageOut" /\ last)
  <2>1. CASE r.value
    BY <1>3, <1>7, <1>10, <1>11, <2>1
  <2>2. CASE ~r.value
    BY <1>3, <1>4, <1>7, <2>2
  <2> QED BY <2>1, <2>2
<1> HIDE DEF x
<1>13. ~ByDma(x) /\ x.pioPhase # None /\ x.pioPhase # "MessageIn"
  BY <1>1, <1>12, NoneIsNothing DEF ByDma, Phases
<1>14. CASE r.err
  <2>1. r.bus = b
    BY <1>6, <1>14 DEF Written
  <2>2. u.chip = c /\ u.bus = b /\ u.work = "idle" /\ u.err = TRUE
    BY <1>8, <1>14, <2>1 DEF Failed
  <2>3. Settled(c, b) /\ ~DmaPending(c)
    BY <1>1 DEF Ready, Settled, DmaPending, ByDma, DataPhases
  <2> HIDE DEF u
  <2>4. Served(u) /\ Answered(u)
    BY <2>2, <2>3 DEF Served, Answered
  <2> QED BY <2>4 DEF u
<1>15. CASE ~r.err
  <2>1. u = Pump(x, r.bus, luck)
    BY <1>8, <1>9, <1>15 DEF x
  <2>2. Heard(x, r.bus)
    <3>1. SUFFICES ASSUME x.attention PROVE InMessage(r.bus)
      BY DEF Heard
    <3>2. InMessage(b)
      BY <1>2, <1>12, <3>1 DEF Heard
    <3>3. b.conn.phase = "MessageOut" /\ ~last
      BY <1>1, <1>2, <1>12, <3>1, <3>2 DEF InMessage
    <3> QED BY <1>6, <1>15, <3>3 DEF Written, InMessage
  <2>3. Pumped(x, r.bus)
    BY <1>6, <1>12, <1>13, <2>2 DEF Pumped, Written
  <2> HIDE DEF u
  <2> QED BY <1>13, <2>1, <2>3, PumpServes DEF u
<1> QED BY <1>14, <1>15

LEMMA AcknowledgeServes ==
    ASSUME NEW c, NEW b, Ready(c, b), Heard(c, b), c.ack
    PROVE  Served(ServiceAcknowledge(c, b)) /\ Answered(ServiceAcknowledge(c, b))
<1> DEFINE u == ServiceAcknowledge(c, b)
           f == AcknowledgeMessage(b, c.attention)
           free == [c EXCEPT !.ack = FALSE]
           x == ReportPhase(free, f, "service")
<1>1. /\ c \in Chips /\ BusOK(b) /\ BusPhase(b) = "MessageIn" /\ ~c.busy /\ c.pioPhase = None
      /\ c.input = None /\ ~c.output /\ ~c.aborting
  BY DEF Ready, Quiet
<1>2. b.conn # None /\ b.conn.phase = "MessageIn"
  BY <1>1, NoneIsNothing DEF BusPhase, Phases
<1>3. c.attention \in BOOLEAN /\ (c.attention => InMessage(b))
  BY <1>1, <1>2, ChipTyped DEF Heard
<1>4. BusOK(f) /\ (c.attention /\ f.conn # None => InMessage(f))
  BY <1>1, <1>2, <1>3, MessageAcknowledged
<1>5. /\ free \in Chips /\ free.pioPhase = None /\ free.input = None /\ ~free.aborting /\ ~free.ack
      /\ free.attention = c.attention
  BY <1>1 DEF Chips
<1>6. u = Unit(x, f)
  BY DEF ServiceAcknowledge
<1> HIDE DEF f, free
<1>7. Heard(free, f)
  BY <1>4, <1>5 DEF Heard
<1>8. "service" \in {"service", "unexpected", "complete"}
  OBVIOUS
<1>9. Idle(x, f)
  BY <1>4, <1>5, <1>7, <1>8, PhaseReported
<1> HIDE DEF u, x
<1>10. u.chip = x /\ u.bus = f /\ u.work = "idle" /\ u.err = FALSE
  BY <1>6 DEF Unit
<1>11. Served(u) /\ Answered(u)
  BY <1>4, <1>9, <1>10, Serves
<1> QED BY <1>11 DEF u

LEMMA AttentionServes ==
    ASSUME NEW c, NEW b, Ready(c, b), b.conn = None \/ b.conn.in # Completion, NEW luck \in Luck
    PROVE  /\ Served(ServiceAttention(c, b, luck))
           /\ Answered(ServiceAttention(c, b, luck)) \/ (c.busy /\ c.pioPhase = None /\ b.conn # None)
<1> DEFINE u == ServiceAttention(c, b, luck)
           invalid == RaiseStatus(c, Code("invalid"))
           f == AssertAttention(b)
           after == [c EXCEPT !.phaseAfter = TRUE]
           x == ReportPhase(c, f, "service")
<1>1. c \in Chips /\ BusOK(b) /\ ~c.cip
  BY DEF Ready
<1>2. c.ack \in BOOLEAN /\ c.irq \in BOOLEAN /\ c.busy \in BOOLEAN
  BY <1>1, ChipTyped
<1>3. CASE b.conn = None
  <2>1. Code("invalid") \in Statuses
    BY DEF Statuses
  <2>2. c.pioPhase = None /\ c.input = None /\ ~c.output /\ ~c.aborting
    BY <1>3 DEF Ready, Quiet
  <2>3. c.ack => BusPhase(b) = "MessageIn"
    BY DEF Ready, Quiet
  <2>4. Idle(invalid, b)
    BY <1>1, <1>3, <2>1, <2>2, <2>3, StatusRaised DEF Idle, Heard
  <2>5. u = Unit(invalid, b)
    BY <1>3 DEF ServiceAttention
  <2> HIDE DEF u, invalid
  <2>6. u.chip = invalid /\ u.bus = b /\ u.work = "idle" /\ u.err = FALSE
    BY <2>5 DEF Unit
  <2>7. Served(u) /\ Answered(u)
    BY <1>1, <2>4, <2>6, Serves
  <2> QED BY <2>7 DEF u
<1>4. CASE b.conn # None /\ c.ack
  <2>1. /\ BusPhase(b) = "MessageIn" /\ ~c.busy /\ c.pioPhase = None
        /\ c.input = None /\ ~c.output /\ ~c.aborting
    BY <1>4 DEF Ready, Quiet
  <2>2. InMessage(b)
    BY <1>4, <2>1 DEF InMessage, BusPhase
  <2>3. Idle(c, b)
    BY <1>1, <2>1, <2>2 DEF Idle, Heard
  <2>4. u = Unit(c, b)
    BY <1>4 DEF ServiceAttention
  <2> HIDE DEF u
  <2>5. u.chip = c /\ u.bus = b /\ u.work = "idle" /\ u.err = FALSE
    BY <2>4 DEF Unit
  <2>6. Served(u) /\ Answered(u)
    BY <1>1, <2>3, <2>5, Serves
  <2> QED BY <2>6 DEF u
<1>5. CASE b.conn # None /\ ~c.ack
  <2>1. /\ BusOK(f) /\ f.conn # None /\ InMessage(f)
        /\ b.conn.phase = "MessageIn" => f.conn.phase = "MessageIn"
        /\ f.conn.phase \in {"MessageIn", "MessageOut"}
    BY <1>1, <1>5, AttentionAsserted
  <2>2. u = IF c.irq THEN Unit(after, f) ELSE IF c.busy THEN Pump(c, f, luck) ELSE Unit(x, f)
    BY <1>5 DEF ServiceAttention
  <2> HIDE DEF f
  <2>3. Heard(c, f) /\ BusPhase(f) \in {"MessageIn", "MessageOut"}
    BY <2>1 DEF Heard, BusPhase
  <2>4. CASE ~c.busy
    <3>1. c.pioPhase = None /\ c.input = None /\ ~c.output /\ ~c.aborting
      BY <2>4 DEF Ready, Quiet
    <3>2. CASE c.irq
      <4>1. u = Unit(after, f)
        BY <2>2, <3>2
      <4>2. /\ after \in Chips /\ ~after.busy /\ ~after.cip /\ after.pioPhase = None /\ after.input = None
            /\ ~after.output /\ ~after.aborting /\ ~after.ack /\ after.attention = c.attention
        BY <1>1, <1>5, <2>4, <3>1 DEF Chips
      <4> HIDE DEF u, after
      <4>3. Idle(after, f)
        BY <2>3, <4>2 DEF Idle, Heard
      <4>4. u.chip = after /\ u.bus = f /\ u.work = "idle" /\ u.err = FALSE
        BY <4>1 DEF Unit
      <4>5. Served(u) /\ Answered(u)
        BY <2>1, <4>3, <4>4, Serves
      <4> QED BY <4>5 DEF u
    <3>3. CASE ~c.irq
      <4>1. u = Unit(x, f)
        BY <2>2, <2>4, <3>3
      <4>2. "service" \in {"service", "unexpected", "complete"}
        OBVIOUS
      <4>3. Idle(x, f)
        BY <1>1, <1>5, <2>1, <2>3, <3>1, <4>2, PhaseReported
      <4> HIDE DEF u, x
      <4>4. u.chip = x /\ u.bus = f /\ u.work = "idle" /\ u.err = FALSE
        BY <4>1 DEF Unit
      <4>5. Served(u) /\ Answered(u)
        BY <2>1, <4>3, <4>4, Serves
      <4> QED BY <4>5 DEF u
    <3> QED BY <1>2, <3>2, <3>3
  <2>5. CASE c.busy
    <3>1. ~c.irq /\ ~c.ack
      BY <2>5 DEF Ready, Quiet
    <3>2. u = Pump(c, f, luck)
      BY <2>2, <2>5, <3>1
    <3>3. CASE c.pioPhase # None
      <4>1. Pumped(c, f)
        <5>1. c.pioPhase = "MessageIn" => BusPhase(f) = "MessageIn"
          <6>1. ASSUME c.pioPhase = "MessageIn" PROVE b.conn.phase = "MessageIn"
            BY <1>5, <6>1 DEF Ready, Quiet, BusPhase
          <6> QED BY <2>1, <6>1 DEF BusPhase
        <5>2. c.output => c.input = None /\ ~Input(c.pioPhase) /\ c.remaining # 0
          BY DEF Ready, Quiet
        <5>3. c.output \/ c.input # None => ~ByDma(c)
          BY DEF Ready, Counted
        <5>4. c.input # None \/ BusPhase(f) = c.pioPhase => ~ByDma(c)
          BY <2>3, <5>3 DEF ByDma, DataPhases
        <5>5. ~ByDma(c) => IF c.single THEN c.remaining <= 1 ELSE c.remaining = c.count
          BY <3>3 DEF Ready, Counted
        <5> QED BY <1>1, <2>1, <2>3, <2>5, <3>1, <3>3, <5>1, <5>2, <5>3, <5>4, <5>5 DEF Pumped
      <4>2. ~(ByDma(c) /\ BusPhase(f) = c.pioPhase)
        BY <2>3 DEF ByDma, DataPhases
      <4> HIDE DEF u
      <4> QED BY <3>2, <4>1, <4>2, PumpServes DEF u
    <3>4. CASE c.pioPhase = None
      <4>1. c.input = None /\ ~c.output /\ ~c.aborting
        BY <3>4 DEF Ready, Quiet
      <4>2. BusPhase(f) # "Status"
        BY <2>3
      <4>3. u = Unit(c, f)
        BY <3>2, <3>4, <4>1, <4>2 DEF Pump, PumpEnds, PumpEnd
      <4>4. ~ByDma(c) /\ ~DmaPending(c) /\ c.pioPhase # "MessageIn"
        BY <3>4, NoneIsNothing DEF ByDma, DmaPending, DataPhases, Phases
      <4>5. Settled(c, f)
        BY <1>1, <2>1, <2>3, <2>5, <3>1, <3>4, <4>1, <4>4 DEF Settled, Quiet, Counted
      <4> HIDE DEF u
      <4>6. u.chip = c /\ u.bus = f /\ u.work = "idle" /\ u.err = FALSE
        BY <4>3 DEF Unit
      <4>7. Served(u)
        BY <4>4, <4>5, <4>6 DEF Served
      <4> QED BY <1>5, <2>5, <3>4, <4>7 DEF u
    <3> QED BY <3>3, <3>4
  <2> QED BY <1>2, <2>4, <2>5
<1> QED BY <1>2, <1>3, <1>4, <1>5

LEMMA RequestServes ==
    ASSUME NEW c \in Chips, NEW b, BusOK(b), Quiet(c, b), Counted(c, b), NEW p \in Requests,
           Requested(c, b, p), p.kind = "Attention" \/ Heard(c, b), NEW luck \in Luck
    PROVE  LET u == ServiceRequest(p.kind, p.byte, c, b, luck)
           IN /\ Served(u)
              /\ Answered(u) \/ (p.kind = "Attention" /\ c.busy /\ c.pioPhase = None /\ b.conn # None)
              /\ c.irq /\ u.chip.status # c.status =>
                    p.kind \in {"Abort", "Acknowledge"} \/ (p.kind = "Attention" /\ b.conn = None)
<1> DEFINE u == ServiceRequest(p.kind, p.byte, c, b, luck)
           x == [c EXCEPT !.cip = FALSE]
<1>1. /\ x \in Chips /\ ~x.cip /\ x.busy = c.busy /\ x.irq = c.irq /\ x.ack = c.ack /\ x.dma = c.dma
      /\ x.pioPhase = c.pioPhase /\ x.input = c.input /\ x.output = c.output /\ x.aborting = c.aborting
      /\ x.remaining = c.remaining /\ x.count = c.count /\ x.single = c.single
      /\ x.attention = c.attention /\ x.status = c.status
  BY DEF Chips
<1>2. u = CASE p.kind = "Select" -> ServiceSelect(x, b)
            [] p.kind = "Combined" -> ServiceCombined(x, b, luck)
            [] p.kind = "Transfer" -> ServiceTransfer(x, b, luck)
            [] p.kind = "Pump" -> Pump(x, b, luck)
            [] p.kind = "Output" -> ServiceOutput(x, b, p.byte, luck)
            [] p.kind = "Phase" -> Unit(ReportPhase(x, b, "service"), b)
            [] p.kind = "Acknowledge" -> ServiceAcknowledge(x, b)
            [] p.kind = "Attention" -> ServiceAttention(x, b, luck)
            [] p.kind = "Abort" -> IF x.input # None THEN Unit([x EXCEPT !.aborting = TRUE], b)
                                   ELSE Unit(AbortTransfer(x, b), b)
            [] p.kind = "Disconnect" -> Unit(ClearTransferState(x), CancelTransaction(b))
            [] p.kind = "Timeout" -> Unit(FinishSelectionTimeout(x), b)
  BY DEF ServiceRequest
<1> HIDE DEF x, u
<1>3. Ready(x, b) /\ (p.kind = "Attention" \/ Heard(x, b)) /\ Requested(x, b, p)
  <2>1. ByDma(x) = ByDma(c)
    BY <1>1 DEF ByDma
  <2>2. Quiet(x, b)
    BY <1>1 DEF Quiet
  <2>3. Counted(x, b)
    BY <1>1, <2>1 DEF Counted
  <2>4. Requested(x, b, p)
    BY <1>1, <2>1 DEF Requested
  <2> QED BY <1>1, <2>2, <2>3, <2>4 DEF Ready, Heard
<1>4. x.busy => ~c.irq
  BY <1>1 DEF Quiet
<1>5. CASE p.kind = "Select"
  <2>1. Served(u) /\ Answered(u) /\ ~c.irq
    BY <1>2, <1>3, <1>4, <1>5, SelectServes DEF Requested
  <2> QED BY <2>1 DEF u
<1>6. CASE p.kind = "Combined"
  <2>1. Served(u) /\ Answered(u) /\ ~c.irq
    BY <1>2, <1>3, <1>4, <1>6, CombinedServes DEF Requested
  <2> QED BY <2>1 DEF u
<1>7. CASE p.kind = "Transfer"
  <2>1. Served(u) /\ Answered(u) /\ ~c.irq
    BY <1>2, <1>3, <1>4, <1>7, TransferServes DEF Requested
  <2> QED BY <2>1 DEF u
<1>8. CASE p.kind = "Pump"
  <2>1. x.busy /\ x.pioPhase # None /\ ~ByDma(x) /\ x.input = None /\ ~x.output
    BY <1>3, <1>8 DEF Requested
  <2>2. Pumped(x, b)
    <3>1. IF x.single THEN x.remaining <= 1 ELSE x.remaining = x.count
      BY <1>3, <2>1 DEF Ready, Counted
    <3>2. x.pioPhase = "MessageIn" => BusPhase(b) = "MessageIn"
      BY <1>3 DEF Ready, Quiet
    <3> QED BY <1>1, <1>3, <1>8, <2>1, <3>1, <3>2 DEF Pumped, Ready, Quiet
  <2>3. u = Pump(x, b, luck)
    BY <1>2, <1>8
  <2>4. Served(u) /\ Answered(u) /\ ~c.irq
    BY <1>4, <2>1, <2>2, <2>3, PumpServes
  <2> QED BY <2>4 DEF u
<1>9. CASE p.kind = "Output"
  <2>1. u = ServiceOutput(x, b, p.byte, luck)
    BY <1>2, <1>9
  <2>2. Served(u) /\ Answered(u)
    BY <1>3, <1>9, <2>1, OutputServes
  <2>3. ~c.irq
    BY <1>3, <1>4, <1>9 DEF Requested
  <2> QED BY <2>2, <2>3 DEF u
<1>10. CASE p.kind = "Phase"
  <2> DEFINE y == ReportPhase(x, b, "service")
  <2>1. u = Unit(y, b) /\ ~x.busy /\ ~x.irq
    BY <1>2, <1>3, <1>10 DEF Requested
  <2>2. Heard(x, b) /\ "service" \in {"service", "unexpected", "complete"}
    BY <1>3, <1>10
  <2>3. x.pioPhase = None /\ x.input = None /\ ~x.aborting /\ (x.ack => BusPhase(b) = "MessageIn")
    BY <1>3, <2>1 DEF Ready, Quiet
  <2>4. Idle(y, b)
    BY <1>1, <2>2, <2>3, PhaseReported
  <2> HIDE DEF y
  <2>5. u.chip = y /\ u.bus = b /\ u.work = "idle" /\ u.err = FALSE
    BY <2>1 DEF Unit
  <2>6. Served(u) /\ Answered(u) /\ ~c.irq
    BY <1>1, <2>1, <2>4, <2>5, Serves
  <2> QED BY <2>6 DEF u
<1>11. CASE p.kind = "Acknowledge"
  <2>1. Served(u) /\ Answered(u)
    BY <1>2, <1>3, <1>11, AcknowledgeServes DEF Requested
  <2> QED BY <1>11, <2>1 DEF u
<1>12. CASE p.kind = "Attention"
  <2>1. u = ServiceAttention(x, b, luck)
    BY <1>2, <1>12
  <2>2. b.conn = None \/ b.conn.in # Completion
    BY <1>3, <1>12 DEF Requested
  <2>3. Served(u) /\ (Answered(u) \/ (x.busy /\ x.pioPhase = None /\ b.conn # None))
    BY <1>3, <2>1, <2>2, AttentionServes
  <2>4. c.irq /\ b.conn # None => u.chip.status = c.status
    <3>1. SUFFICES ASSUME c.irq, b.conn # None PROVE u.chip.status = c.status
      OBVIOUS
    <3>2. CASE x.ack
      BY <1>1, <2>1, <3>1, <3>2 DEF ServiceAttention, Unit
    <3>3. CASE ~x.ack
      <4>1. u = Unit([x EXCEPT !.phaseAfter = TRUE], AssertAttention(b))
        BY <1>1, <2>1, <3>1, <3>3 DEF ServiceAttention
      <4>2. u.chip = [x EXCEPT !.phaseAfter = TRUE]
        BY <4>1 DEF Unit
      <4> QED BY <1>1, <4>2 DEF Chips
    <3> QED BY <3>2, <3>3
  <2> QED BY <1>1, <1>12, <2>3, <2>4 DEF u
<1>13. CASE p.kind = "Abort"
  <2>1. CASE x.input # None
    <3> DEFINE y == [x EXCEPT !.aborting = TRUE]
    <3>1. u = Unit(y, b)
      BY <1>2, <1>13, <2>1
    <3>2. /\ y \in Chips /\ ~y.cip /\ y.busy = x.busy /\ y.irq = x.irq /\ y.ack = x.ack /\ y.dma = x.dma
          /\ y.pioPhase = x.pioPhase /\ y.input = x.input /\ y.output = x.output
          /\ y.remaining = x.remaining /\ y.count = x.count /\ y.single = x.single
          /\ y.attention = x.attention /\ y.aborting
      BY <1>1 DEF Chips
    <3> HIDE DEF y
    <3>3. x.pioPhase # None /\ ~ByDma(x)
      BY <1>3, <2>1 DEF Ready, Quiet, Counted
    <3>4. ByDma(y) = ByDma(x) /\ ~DmaPending(y)
      BY <3>2, <3>3 DEF ByDma, DmaPending, DataPhases
    <3>5. Settled(y, b)
      <4>1. Quiet(y, b)
        BY <1>3, <3>2, <3>3 DEF Ready, Quiet
      <4>2. Counted(y, b)
        BY <1>3, <3>2, <3>3, <3>4 DEF Ready, Counted
      <4> QED BY <1>3, <1>13, <3>2, <4>1, <4>2 DEF Settled, Heard
    <3>6. u.chip = y /\ u.bus = b /\ u.work = "idle" /\ u.err = FALSE
      BY <3>1 DEF Unit
    <3>7. Served(u) /\ Answered(u)
      BY <2>1, <3>2, <3>4, <3>5, <3>6 DEF Served, Answered
    <3> QED BY <1>13, <3>7 DEF u
  <2>2. CASE x.input = None
    <3> DEFINE y == AbortTransfer(x, b)
    <3>1. u = Unit(y, b)
      BY <1>2, <1>13, <2>2
    <3>2. (x.ack => BusPhase(b) = "MessageIn") /\ Heard(x, b)
      BY <1>3, <1>13 DEF Ready, Quiet
    <3>3. Idle(y, b)
      BY <1>1, <2>2, <3>2, TransferAborts
    <3> HIDE DEF y
    <3>4. u.chip = y /\ u.bus = b /\ u.work = "idle" /\ u.err = FALSE
      BY <3>1 DEF Unit
    <3>5. Served(u) /\ Answered(u)
      BY <3>3, <3>4, Serves
    <3> QED BY <1>13, <3>5 DEF u
  <2> QED BY <2>1, <2>2
<1>14. CASE p.kind = "Disconnect"
  <2> DEFINE y == ClearTransferState(x)
             f == CancelTransaction(b)
  <2>1. u = Unit(y, f)
    BY <1>2, <1>14
  <2>2. BusOK(f) /\ f.conn = None
    BY Cancels DEF BusOK, BusBase
  <2>3. /\ y \in Chips /\ ~y.busy /\ ~y.cip /\ y.pioPhase = None /\ y.input = None /\ ~y.output
        /\ ~y.aborting /\ ~y.ack /\ ~y.attention /\ y.status = c.status
    BY <1>1, Cleared
  <2> HIDE DEF y, f
  <2>4. Idle(y, f)
    BY <2>3 DEF Idle, Heard
  <2>5. u.chip = y /\ u.bus = f /\ u.work = "idle" /\ u.err = FALSE
    BY <2>1 DEF Unit
  <2>6. Served(u) /\ Answered(u) /\ u.chip.status = c.status
    BY <2>2, <2>3, <2>4, <2>5, Serves
  <2> QED BY <2>6 DEF u
<1>15. CASE p.kind = "Timeout"
  <2> DEFINE y == ClearTransferState(x)
             z == FinishSelectionTimeout(x)
  <2>1. u = Unit(z, b)
    BY <1>2, <1>15
  <2>2. /\ y \in Chips /\ ~y.busy /\ ~y.cip /\ y.pioPhase = None /\ y.input = None /\ ~y.output
        /\ ~y.aborting /\ ~y.ack /\ ~y.attention
    BY <1>1, Cleared
  <2>3. z = [y EXCEPT !.data = FALSE, !.status = Code("timeout"), !.cip = FALSE, !.irq = TRUE]
    BY DEF FinishSelectionTimeout
  <2>4. Code("timeout") \in Statuses
    BY DEF Statuses
  <2> HIDE DEF y, z
  <2>5. /\ z \in Chips /\ ~z.busy /\ ~z.cip /\ z.pioPhase = None /\ z.input = None /\ ~z.output
        /\ ~z.aborting /\ ~z.ack /\ ~z.attention
    BY <2>2, <2>3, <2>4 DEF Chips
  <2>6. Idle(z, b)
    BY <2>5 DEF Idle, Heard
  <2>7. u.chip = z /\ u.bus = b /\ u.work = "idle" /\ u.err = FALSE
    BY <2>1 DEF Unit
  <2>8. Served(u) /\ Answered(u) /\ ~c.irq
    BY <1>3, <1>4, <1>15, <2>6, <2>7, Serves DEF Requested
  <2> QED BY <2>8 DEF u
<1>16. p.kind \in {"Select", "Combined", "Transfer", "Pump", "Output", "Phase", "Acknowledge", "Attention",
                   "Abort", "Disconnect", "Timeout"}
  BY DEF Requests, RequestKinds
<1> QED BY <1>5, <1>6, <1>7, <1>8, <1>9, <1>10, <1>11, <1>12, <1>13, <1>14, <1>15, <1>16

-----------------------------------------------------------------------------
(* The windows of a DMA transfer.                                           *)

Channels == [count : 0..BYTE_COUNT_MAX, end : BOOLEAN, loaded : BOOLEAN, fetch : BOOLEAN,
             start : BOOLEAN, toMemory : BOOLEAN, reset : BOOLEAN]

\* A loop goes on with what is left of the transfer; a transfer that waits for DMA found no
\* window.
Rests(c, b, h, l, f) ==
    /\ Settled(c, b) /\ h \in Channels /\ f \in BOOLEAN
    /\ l # None =>
         /\ DmaPending(c) /\ ByDma(c)
         /\ l = DmaLoop(c.pioPhase = "DataIn", RemainingTransferBytes(c))
    /\ l = None /\ DmaPending(c) => ~HasWindow(h) /\ ~h.fetch

\* The host has something to do, or the bus has refused, or the transfer waits for DMA.
Woken(c, l, f) == l = None /\ c.busy /\ ~f => c.input # None \/ c.output \/ DmaPending(c)

Accounted ==
    LET taken == hpc.count - hpc'.count
    IN /\ IF chip.single THEN taken <= 1 ELSE chip.count - chip'.count = taken
       /\ bus'.txn # None => bus.txn.remaining - bus'.txn.remaining = taken
       /\ bus'.txn = None => taken \in {0, bus.txn.remaining}

Windowing ==
    /\ Settled(chip, bus) /\ ByDma(chip) /\ DmaPending(chip) /\ hpc \in Channels /\ failed \in BOOLEAN
    /\ loop = DmaLoop(chip.pioPhase = "DataIn", RemainingTransferBytes(chip))

LEMMA ChannelStops ==
    ASSUME NEW h \in Channels
    PROVE  /\ StopDma(h) \in Channels /\ StopDma(h).count = h.count /\ ~HasWindow(StopDma(h))
           /\ ~StopDma(h).fetch
BY DEF StopDma, HasWindow, Channels

LEMMA ChannelConsumes ==
    ASSUME NEW h \in Channels, NEW n \in Nat, n <= h.count
    PROVE  ConsumeDmaBytes(h, n) \in Channels /\ ConsumeDmaBytes(h, n).count = h.count - n
<1>1. h.count \in 0..BYTE_COUNT_MAX /\ BYTE_COUNT_MAX \in Nat
  BY BoardConstants DEF Channels
<1>2. CASE n < h.count
  <2>1. ConsumeDmaBytes(h, n) = [h EXCEPT !.count = h.count - n] /\ h.count - n \in 0..BYTE_COUNT_MAX
    BY <1>1, <1>2 DEF ConsumeDmaBytes
  <2> QED BY <2>1 DEF Channels
<1>3. CASE ~(n < h.count)
  <2>1. ConsumeDmaBytes(h, n) = [h EXCEPT !.count = 0, !.loaded = FALSE, !.start = h.start /\ ~h.end,
                                          !.fetch = h.fetch \/ ~h.end]
    BY <1>3 DEF ConsumeDmaBytes
  <2>2. h.count - n = 0 /\ 0 \in 0..BYTE_COUNT_MAX
    BY <1>1, <1>3
  <2> QED BY <2>1, <2>2 DEF Channels
<1> QED BY <1>2, <1>3

LEMMA WindowFacts ==
    ASSUME Windowing
    PROVE  /\ chip \in Chips /\ BusOK(bus) /\ bus.conn # None /\ bus.txn # None
           /\ bus.txn.remaining \in Nat \ {0}
           /\ BusPhase(bus) = chip.pioPhase /\ bus.conn.phase = chip.pioPhase
           /\ Destined(bus) = chip.pioPhase
           /\ chip.pioPhase = "DataIn" => bus.txn.kind \in DataIn
           /\ chip.pioPhase = "DataOut" => bus.txn.kind \in DataOut
           /\ chip.pioPhase \in DataPhases
           /\ chip.busy /\ ~chip.irq /\ ~chip.ack /\ ~chip.cip /\ chip.input = None /\ ~chip.output
           /\ chip.attention = FALSE
           /\ chip.count \in 0..TRANSFER_COUNT_MAX /\ chip.remaining \in 0..TRANSFER_COUNT_MAX
           /\ chip.single \in BOOLEAN /\ TRANSFER_COUNT_MAX \in Nat
           /\ loop.left \in Nat \ {0} /\ loop.in = (chip.pioPhase = "DataIn")
           /\ loop.left = IF chip.single THEN 1 ELSE chip.count
           /\ chip.single => chip.remaining = 1
           /\ ~chip.single => chip.count # 0 /\ chip.count <= chip.remaining
<1>1. chip \in Chips /\ BusOK(bus) /\ Quiet(chip, bus) /\ Counted(chip, bus) /\ Heard(chip, bus) /\ ~chip.cip
  BY DEF Windowing, Settled
<1>2. chip.pioPhase \in DataPhases /\ chip.busy /\ chip.remaining # 0
  BY DEF Windowing, ByDma, DmaPending
<1>3. /\ chip.pioPhase = BusPhase(bus) /\ chip.input = None /\ ~chip.output
      /\ chip.single => chip.remaining = 1
      /\ ~chip.single => chip.count # 0 /\ chip.count <= chip.remaining
  BY <1>1 DEF Counted, Windowing
<1>4. bus.conn # None /\ bus.conn.phase = chip.pioPhase
  BY <1>2, <1>3, NoneIsNothing DEF BusPhase, DataPhases, Phases
<1>5. Destined(bus) = chip.pioPhase /\ ~InMessage(bus)
  BY <1>2, <1>4 DEF Destined, InMessage, DataPhases
<1>6. /\ bus.txn # None
      /\ chip.pioPhase = "DataIn" => bus.txn.kind \in DataIn
      /\ chip.pioPhase = "DataOut" => bus.txn.kind \in DataOut
  BY <1>1, <1>2, <1>4, <1>5 DEF BusOK, Agreed, DataPhases
<1>7. bus.txn.remaining \in Nat \ {0}
  BY <1>1, <1>6, TxnTyped DEF BusOK, BusBase
<1>8. ~chip.irq /\ ~chip.ack
  BY <1>1, <1>2 DEF Quiet
<1>9. chip.attention = FALSE
  BY <1>1, <1>4, <1>5, ChipTyped DEF Heard
<1>10. /\ chip.count \in 0..TRANSFER_COUNT_MAX /\ chip.remaining \in 0..TRANSFER_COUNT_MAX
       /\ chip.single \in BOOLEAN /\ TRANSFER_COUNT_MAX \in Nat
  BY <1>1, ChipTyped, WdConstants
<1>11. loop.in = (chip.pioPhase = "DataIn") /\ loop.left = IF chip.single THEN 1 ELSE chip.count
  BY <1>3, <1>10 DEF Windowing, DmaLoop, RemainingTransferBytes
<1>12. loop.left \in Nat \ {0}
  BY <1>3, <1>10, <1>11
<1> QED BY <1>1, <1>2, <1>3, <1>4, <1>5, <1>6, <1>7, <1>8, <1>9, <1>10, <1>11, <1>12

\* finish_dma ends the transfer: nothing is left of it, or the target has left its phase.
LEMMA DmaFinishes ==
    ASSUME NEW c \in Chips, NEW b, BusBase(b), b.conn # None, c.busy, ~c.irq, ~c.ack, ~c.cip,
           c.pioPhase \in DataPhases, c.input = None, ~c.output, c.attention = FALSE,
           NEW status, NEW luck \in Luck,
           \/ status = None /\ BusOK(b) /\ c.count = 0
           \/ status \in {Good, CheckCondition} /\ b.txn = None /\ status # None
    PROVE  LET u == FinishDma(c, b, status, luck)
           IN /\ Settled(u.chip, u.bus) /\ ~DmaPending(u.chip) /\ u.bus.txn = b.txn
              /\ u.chip.count = c.count /\ u.err = FALSE
              /\ u.chip.busy => u.chip.input # None
<1> DEFINE u == FinishDma(c, b, status, luck)
           x == [c EXCEPT !.remaining = c.count]
           e == IF status = None THEN b ELSE SetStatus(b, status)
<1>1. BusOK(e) /\ e.conn # None /\ e.txn = b.txn /\ (status # None => BusPhase(e) = "Status")
  BY StatusSet
<1>2. /\ x \in Chips /\ x.busy /\ ~x.irq /\ ~x.ack /\ ~x.cip /\ x.pioPhase = c.pioPhase /\ x.input = None
      /\ ~x.output /\ ~x.attention /\ x.remaining = c.count /\ x.count = c.count /\ x.dma = c.dma
      /\ x.single = c.single
  BY DEF Chips
<1>3. u = Pump(x, e, luck)
  BY DEF FinishDma
<1> HIDE DEF u, x, e
<1>4. x.pioPhase # None /\ x.pioPhase # "MessageIn" /\ x.pioPhase # "Status"
  BY <1>2, NoneIsNothing DEF DataPhases, Phases
<1>5. x.remaining = 0 \/ BusPhase(e) # x.pioPhase
  BY <1>1, <1>2, <1>4
<1>6. Pumped(x, e)
  <2>1. Heard(x, e)
    BY <1>2 DEF Heard
  <2>2. BusPhase(e) = x.pioPhase =>
          /\ x.single => x.remaining <= 1
          /\ ~x.single => IF ByDma(x) THEN x.count <= x.remaining /\ (x.remaining # 0 => x.count # 0)
                          ELSE x.remaining = x.count
    BY <1>2, <1>5, ChipTyped
  <2> QED BY <1>1, <1>2, <1>4, <2>1, <2>2 DEF Pumped
<1>7. PumpEnds(x, e) /\ u = PumpEnd(x, e)
  BY <1>3, <1>5 DEF Pump, PumpEnds
<1>8. PumpEnded(x, e, PumpEnd(x, e))
  BY <1>5, <1>6, EndOfPump
<1>9. PumpEnded(x, e, u)
  BY <1>7, <1>8
<1> QED BY <1>1, <1>2, <1>9 DEF PumpEnded, u

\* The bytes of a chunk leave the transfer count.
LEMMA CountConsumes ==
    ASSUME Windowing, NEW n \in Nat \ {0}, n <= loop.left
    PROVE  LET c == ConsumeTransferBytes(chip, n)
           IN /\ CanConsume(chip, n)
              /\ c \in Chips /\ c.busy /\ ~c.irq /\ ~c.ack /\ ~c.cip /\ c.pioPhase = chip.pioPhase
              /\ c.input = None /\ ~c.output /\ c.attention = FALSE /\ c.aborting = chip.aborting
              /\ c.dma = chip.dma /\ c.single = chip.single
              /\ c.count = IF chip.single THEN 0 ELSE chip.count - n
              /\ c.remaining = IF chip.single THEN 0 ELSE chip.remaining
<1> DEFINE c == ConsumeTransferBytes(chip, n)
           k == IF chip.single THEN 0 ELSE chip.count - n
           m == IF chip.single THEN 0 ELSE chip.remaining
<1>1. /\ chip \in Chips /\ chip.busy /\ ~chip.irq /\ ~chip.ack /\ ~chip.cip /\ chip.input = None
      /\ ~chip.output /\ chip.attention = FALSE
      /\ chip.count \in 0..TRANSFER_COUNT_MAX /\ chip.remaining \in 0..TRANSFER_COUNT_MAX
      /\ chip.single \in BOOLEAN /\ TRANSFER_COUNT_MAX \in Nat
      /\ loop.left = IF chip.single THEN 1 ELSE chip.count
      /\ chip.single => chip.remaining = 1
  BY WindowFacts
<1>2. CanConsume(chip, n)
  BY <1>1 DEF CanConsume
<1>3. k \in 0..TRANSFER_COUNT_MAX /\ m \in 0..TRANSFER_COUNT_MAX
  BY <1>1
<1>4. c = [chip EXCEPT !.count = k, !.remaining = m]
  <2>1. CASE chip.single
    BY <2>1 DEF ConsumeTransferBytes
  <2>2. CASE ~chip.single
    BY <1>1, <2>2 DEF ConsumeTransferBytes, Chips
  <2> QED BY <2>1, <2>2
<1> HIDE DEF c, k, m
<1>5. /\ c \in Chips /\ c.busy /\ ~c.irq /\ ~c.ack /\ ~c.cip /\ c.pioPhase = chip.pioPhase
      /\ c.input = None /\ ~c.output /\ c.attention = FALSE /\ c.aborting = chip.aborting
      /\ c.dma = chip.dma /\ c.single = chip.single /\ c.count = k /\ c.remaining = m
  BY <1>1, <1>3, <1>4 DEF Chips
<1> QED BY <1>2, <1>5 DEF c, k, m

\* What a chunk of the bus comes to.
Chunked(size, r, c, h) ==
    \/ r.result = "rejected" /\ r.bus = bus /\ c = chip /\ h = hpc
    \/ /\ r.result = "complete" /\ r.transferred = 0 /\ r.status = CheckCondition /\ Ended(bus, r.bus)
       /\ c = chip /\ h = hpc
    \/ Moved(bus, size, r) /\ c = ConsumeTransferBytes(chip, size) /\ h = ConsumeDmaBytes(hpc, size)

LEMMA ChunkEnds ==
    ASSUME Windowing, HasWindow(hpc), NEW size \in Nat \ {0}, size <= hpc.count, size <= loop.left,
           size <= bus.txn.remaining, NEW r, NEW c, NEW h, Chunked(size, r, c, h), NEW luck \in Luck,
           AfterChunk(r, c, h, luck)
    PROVE  Rests(chip', bus', hpc', loop', failed') /\ Woken(chip', loop', failed') /\ Accounted
<1>1. /\ chip \in Chips /\ BusOK(bus) /\ bus.conn # None /\ bus.txn # None
      /\ bus.txn.remaining \in Nat \ {0} /\ bus.conn.phase = chip.pioPhase
      /\ chip.pioPhase \in DataPhases /\ chip.single \in BOOLEAN
      /\ chip.busy /\ ~chip.irq /\ ~chip.ack /\ ~chip.cip /\ chip.input = None /\ ~chip.output
      /\ chip.attention = FALSE
      /\ chip.count \in 0..TRANSFER_COUNT_MAX /\ chip.remaining \in 0..TRANSFER_COUNT_MAX
      /\ loop.left \in Nat \ {0} /\ loop.left = IF chip.single THEN 1 ELSE chip.count
      /\ loop.in = (chip.pioPhase = "DataIn")
      /\ chip.single => chip.remaining = 1
      /\ ~chip.single => chip.count # 0 /\ chip.count <= chip.remaining
  BY WindowFacts
<1>2. hpc \in Channels /\ hpc.count \in Nat /\ failed \in BOOLEAN /\ Settled(chip, bus)
  BY BoardConstants DEF Windowing, Channels
<1> DEFINE c1 == ConsumeTransferBytes(chip, size)
           h1 == ConsumeDmaBytes(hpc, size)
<1>3. /\ c1 \in Chips /\ c1.busy /\ ~c1.irq /\ ~c1.ack /\ ~c1.cip /\ c1.pioPhase = chip.pioPhase
      /\ c1.input = None /\ ~c1.output /\ c1.attention = FALSE /\ c1.aborting = chip.aborting
      /\ c1.dma = chip.dma /\ c1.single = chip.single
      /\ c1.count = IF chip.single THEN 0 ELSE chip.count - size
      /\ c1.remaining = IF chip.single THEN 0 ELSE chip.remaining
  BY CountConsumes
<1>4. h1 \in Channels /\ h1.count = hpc.count - size
  BY <1>2, ChannelConsumes
<1> HIDE DEF c1, h1
<1>5. ASSUME r.result = "rejected", r.bus = bus, c = chip, h = hpc
      PROVE  Rests(chip', bus', hpc', loop', failed') /\ Woken(chip', loop', failed') /\ Accounted
  <2>1. hpc' = StopDma(hpc) /\ chip' = chip /\ bus' = bus /\ loop' = None /\ failed' = failed
    BY <1>5 DEF AfterChunk
  <2>2. /\ StopDma(hpc) \in Channels /\ StopDma(hpc).count = hpc.count /\ ~HasWindow(StopDma(hpc))
        /\ ~StopDma(hpc).fetch
    BY <1>2, ChannelStops
  <2>3. DmaPending(chip)
    BY DEF Windowing
  <2>4. Accounted
    BY <1>1, <1>2, <2>1, <2>2 DEF Accounted
  <2> QED BY <1>2, <2>1, <2>2, <2>3, <2>4 DEF Rests, Woken
\* The chunk that ends the transfer.
<1>6. ASSUME NEW status, c \in Chips, c.busy, ~c.irq, ~c.ack, ~c.cip, c.pioPhase = chip.pioPhase,
             c.input = None, ~c.output, c.attention = FALSE, BusBase(r.bus), r.bus.conn # None,
             \/ status = None /\ BusOK(r.bus) /\ c.count = 0
             \/ status \in {Good, CheckCondition} /\ r.bus.txn = None /\ status # None,
             h \in Channels, hpc' = StopDma(h), FinishWindow(c, r.bus, status, luck)
      PROVE  /\ Rests(chip', bus', hpc', loop', failed') /\ Woken(chip', loop', failed')
             /\ hpc'.count = h.count /\ chip'.count = c.count /\ bus'.txn = r.bus.txn
  <2> DEFINE u == FinishDma(c, r.bus, status, luck)
  <2>1. /\ Settled(u.chip, u.bus) /\ ~DmaPending(u.chip) /\ u.bus.txn = r.bus.txn
        /\ u.chip.count = c.count /\ u.err = FALSE
        /\ u.chip.busy => u.chip.input # None
    <3>1. c.pioPhase \in DataPhases
      BY <1>1, <1>6
    <3> QED BY <1>6, <3>1, DmaFinishes
  <2>2. chip' = u.chip /\ bus' = u.bus /\ failed' = u.err /\ loop' = None
    BY <1>6 DEF FinishWindow
  <2>3. StopDma(h) \in Channels /\ StopDma(h).count = h.count
    BY <1>6, ChannelStops
  <2> HIDE DEF u
  <2> QED BY <1>6, <2>1, <2>2, <2>3 DEF Rests, Woken
<1>7. ASSUME r.result = "complete", r.transferred = 0, r.status = CheckCondition, Ended(bus, r.bus),
             c = chip, h = hpc
      PROVE  Rests(chip', bus', hpc', loop', failed') /\ Woken(chip', loop', failed') /\ Accounted
  <2>1. hpc' = StopDma(h) /\ FinishWindow(c, r.bus, r.status, luck)
    BY <1>7 DEF AfterChunk
  <2>2. BusBase(r.bus) /\ r.bus.conn # None /\ r.bus.txn = None
    BY <1>1, <1>7 DEF Ended
  <2>3. r.status \in {Good, CheckCondition} /\ r.status # None
    BY <1>7, NoneIsNothing
  <2>4. /\ Rests(chip', bus', hpc', loop', failed') /\ Woken(chip', loop', failed')
        /\ hpc'.count = h.count /\ chip'.count = c.count /\ bus'.txn = r.bus.txn
    BY <1>1, <1>2, <1>6, <1>7, <2>1, <2>2, <2>3
  <2>5. Accounted
    BY <1>1, <1>2, <1>7, <2>2, <2>4 DEF Accounted
  <2> QED BY <2>4, <2>5
<1>8. ASSUME Moved(bus, size, r), c = c1, h = h1
      PROVE  Rests(chip', bus', hpc', loop', failed') /\ Woken(chip', loop', failed') /\ Accounted
  <2>1. CASE r.result = "complete" /\ size = bus.txn.remaining /\ r.status \in {Good, CheckCondition}
             /\ Ended(bus, r.bus)
    <3>1. hpc' = StopDma(h) /\ FinishWindow(c, r.bus, r.status, luck)
      BY <2>1 DEF AfterChunk
    <3>2. BusBase(r.bus) /\ r.bus.conn # None /\ r.bus.txn = None
      BY <1>1, <2>1 DEF Ended
    <3>3. r.status \in {Good, CheckCondition} /\ r.status # None
      BY <2>1, NoneIsNothing
    <3>4. /\ Rests(chip', bus', hpc', loop', failed') /\ Woken(chip', loop', failed')
          /\ hpc'.count = h.count /\ chip'.count = c.count /\ bus'.txn = r.bus.txn
      BY <1>1, <1>3, <1>4, <1>6, <1>8, <3>1, <3>2, <3>3
    <3>5. Accounted
      BY <1>1, <1>2, <1>3, <1>4, <1>8, <2>1, <3>2, <3>4 DEF Accounted
    <3> QED BY <3>4, <3>5
  <2>2. CASE r.result = "more" /\ size < bus.txn.remaining /\ r.status = None /\ Continued(bus, r.bus, size)
    <3>1. /\ BusOK(r.bus) /\ BusBase(r.bus) /\ r.bus.conn = bus.conn /\ r.bus.txn # None
          /\ r.bus.txn.remaining = bus.txn.remaining - size /\ r.transferred = size
      BY <1>8, <2>2 DEF Continued, BusOK, Moved
    <3>2. CASE loop.left = size
      <4>1. hpc' = StopDma(h) /\ FinishWindow(c, r.bus, r.status, luck) /\ r.status = None
        BY <2>2, <3>1, <3>2 DEF AfterChunk
      <4>2. c.count = 0
        BY <1>1, <1>3, <1>8, <3>2
      <4>3. /\ Rests(chip', bus', hpc', loop', failed') /\ Woken(chip', loop', failed')
            /\ hpc'.count = h.count /\ chip'.count = c.count /\ bus'.txn = r.bus.txn
        BY <1>1, <1>3, <1>4, <1>6, <1>8, <3>1, <4>1, <4>2
      <4>4. Accounted
        BY <1>1, <1>2, <1>3, <1>4, <1>8, <3>1, <4>3 DEF Accounted
      <4> QED BY <4>3, <4>4
    <3>3. CASE loop.left # size
      <4>1. hpc' = h /\ chip' = c /\ bus' = r.bus /\ failed' = failed
            /\ loop' = [loop EXCEPT !.left = @ - size]
        BY <2>2, <3>1, <3>3 DEF AfterChunk
      <4>2. ~chip.single /\ loop.left = chip.count
        BY <1>1, <3>3
      <4>3. loop' = DmaLoop(c1.pioPhase = "DataIn", RemainingTransferBytes(c1)) /\ loop'.left # 0
        BY <1>1, <1>3, <3>3, <4>1, <4>2 DEF DmaLoop, RemainingTransferBytes, Windowing
      <4>4. ByDma(c1) /\ DmaPending(c1)
        BY <1>3, <4>2 DEF Windowing, ByDma, DmaPending
      <4>5. BusPhase(r.bus) = chip.pioPhase
        BY <1>1, <3>1 DEF BusPhase
      <4>6. Settled(c1, r.bus)
        <5>1. c1.pioPhase # None /\ c1.pioPhase # "MessageIn"
          BY <1>1, <1>3, NoneIsNothing DEF DataPhases, Phases
        <5>2. Quiet(c1, r.bus)
          BY <1>1, <1>3, <3>1, <5>1 DEF Quiet
        <5>3. Counted(c1, r.bus)
          BY <1>1, <1>3, <3>3, <4>2, <4>4, <4>5 DEF Counted
        <5> QED BY <1>3, <3>1, <5>2, <5>3 DEF Settled, Heard
      <4>7. Rests(chip', bus', hpc', loop', failed')
        <5>1. loop' # None
          <6>1. RemainingTransferBytes(c1) \in Nat
            BY <1>1, <1>3, <4>2 DEF RemainingTransferBytes
          <6>2. loop' \in Loops
            BY <4>3, <6>1 DEF DmaLoop, Loops
          <6> QED BY <6>2, NoneIsNothing
        <5> QED BY <1>2, <1>4, <1>8, <4>1, <4>3, <4>4, <4>6, <5>1 DEF Rests
      <4>8. Woken(chip', loop', failed')
        BY <1>8, <4>1, <4>4 DEF Woken
      <4>9. Accounted
        BY <1>1, <1>2, <1>3, <1>4, <1>8, <3>1, <4>1, <4>2 DEF Accounted
      <4> QED BY <4>7, <4>8, <4>9
    <3> QED BY <3>2, <3>3
  <2> QED BY <1>8, <2>1, <2>2 DEF Moved
<1> QED BY <1>5, <1>7, <1>8 DEF Chunked, c1, h1

LEMMA WindowMoves ==
    ASSUME Windowing, HasWindow(hpc),
           TransferChunk(IF hpc.count < loop.left THEN hpc.count ELSE loop.left)
    PROVE  /\ Rests(chip', bus', hpc', loop', failed') /\ Woken(chip', loop', failed') /\ Accounted
           /\ panicked' = panicked
<1> DEFINE n == IF hpc.count < loop.left THEN hpc.count ELSE loop.left
           size == Chunk(bus, n)
<1>1. /\ chip \in Chips /\ BusOK(bus) /\ bus.conn # None /\ bus.txn # None
      /\ bus.txn.remaining \in Nat \ {0} /\ chip.pioPhase \in DataPhases
      /\ chip.pioPhase = "DataIn" => bus.txn.kind \in DataIn
      /\ chip.pioPhase = "DataOut" => bus.txn.kind \in DataOut
      /\ loop.left \in Nat \ {0} /\ loop.in = (chip.pioPhase = "DataIn")
      /\ chip.single \in BOOLEAN /\ chip.count \in Nat
  BY WindowFacts, WdConstants
<1>2. hpc \in Channels /\ hpc.count \in Nat \ {0} /\ failed \in BOOLEAN /\ Settled(chip, bus)
  BY BoardConstants DEF Windowing, Channels, HasWindow
<1>3. n \in Nat \ {0} /\ n <= hpc.count /\ n <= loop.left
  BY <1>1, <1>2
<1> HIDE DEF n
<1>4. size \in Nat \ {0} /\ size <= n /\ size <= bus.txn.remaining
  BY <1>1, <1>3 DEF Chunk
<1>5. size <= hpc.count /\ size <= loop.left
  BY <1>1, <1>2, <1>3, <1>4
<1>6. CanConsume(chip, size)
  <2> HIDE DEF size
  <2> QED BY <1>4, <1>5, CountConsumes
<1>7. CASE hpc.toMemory # loop.in
  <2>1. hpc' = StopDma(hpc) /\ chip' = chip /\ bus' = bus /\ loop' = None /\ failed' = failed
        /\ panicked' = panicked
    BY <1>7 DEF TransferChunk, EndLoop
  <2>2. /\ StopDma(hpc) \in Channels /\ StopDma(hpc).count = hpc.count /\ ~HasWindow(StopDma(hpc))
        /\ ~StopDma(hpc).fetch
    BY <1>2, ChannelStops
  <2>3. DmaPending(chip)
    BY DEF Windowing
  <2>4. Accounted
    BY <1>1, <1>2, <2>1, <2>2 DEF Accounted
  <2> QED BY <1>2, <2>1, <2>2, <2>3, <2>4 DEF Rests, Woken
<1>8. CASE hpc.toMemory = loop.in
  <2>1. PICK memory \in Fortunes, luck \in Lucks : IF loop.in THEN ChunkIn(n, memory, luck) ELSE ChunkOut(n, memory, luck)
    BY <1>8 DEF TransferChunk, n
  <2>2. memory \in BOOLEAN /\ luck \in Luck
    BY DEF Fortunes, Lucks, Luck
  <2>3. CASE loop.in
    <3>1. chip.pioPhase = "DataIn" /\ bus.txn.kind \in DataIn
      BY <1>1, <2>3
    <3> DEFINE offered == /\ bus.txn # None
                          /\ \/ bus.txn.kind = "immediate"
                             \/ bus.txn.kind = "read" /\ StorageWorks(bus, luck)
               taken == offered /\ memory /\ size <= hpc.count
               accepted == taken /\ CanConsume(chip, size)
               r == Transfer(bus, DataIn, n, accepted, luck)
               c == IF accepted THEN ConsumeTransferBytes(chip, size) ELSE chip
               h == IF taken THEN ConsumeDmaBytes(hpc, size) ELSE hpc
    <3>2. AfterChunk(r, c, h, luck) /\ panicked' = panicked
      BY <2>1, <2>3 DEF ChunkIn
    <3>3. accepted \in BOOLEAN /\ accepted = taken /\ (taken => offered)
      BY <1>5, <1>6
    <3>4. DataIn \in {DataIn, DataOut}
      OBVIOUS
    <3> HIDE DEF accepted, taken
    <3>5. \/ ~accepted /\ r.result = "rejected" /\ r.transferred = 0 /\ r.bus = bus
          \/ /\ bus.txn.kind \in {"read", "write"} /\ ~StorageWorks(bus, luck)
             /\ r.result = "complete" /\ r.transferred = 0 /\ r.status = CheckCondition
             /\ Ended(bus, r.bus)
          \/ accepted /\ Moved(bus, size, r)
      BY <1>1, <1>3, <2>2, <3>1, <3>3, <3>4, ChunkTransfers
    <3>6. bus.txn.kind \in {"read", "write"} /\ ~StorageWorks(bus, luck) => ~offered
      OBVIOUS
    <3> HIDE DEF r, offered, size
    <3>7. Chunked(size, r, c, h)
      BY <3>3, <3>5, <3>6 DEF Chunked
    <3> HIDE DEF c, h
    <3> QED BY <1>4, <1>5, <2>2, <3>2, <3>7, ChunkEnds
  <2>4. CASE ~loop.in
    <3>1. chip.pioPhase = "DataOut" /\ bus.txn.kind \in DataOut
      BY <1>1, <2>4 DEF DataPhases
    <3> DEFINE r == Transfer(bus, DataOut, n, memory, luck)
               moved == r.transferred
               c1 == ConsumeTransferBytes(chip, moved)
               h1 == ConsumeDmaBytes(hpc, moved)
    <3>2. DataOut \in {DataIn, DataOut}
      OBVIOUS
    <3>3. \/ r.result = "rejected" /\ r.transferred = 0 /\ r.bus = bus
          \/ /\ r.result = "complete" /\ r.transferred = 0 /\ r.status = CheckCondition
             /\ Ended(bus, r.bus)
          \/ Moved(bus, size, r) /\ r.transferred = size
      BY <1>1, <1>3, <2>2, <3>1, <3>2, ChunkTransfers DEF Moved
    <3>4. IF moved = 0 THEN AfterChunk(r, chip, hpc, luck) /\ panicked' = panicked
          ELSE IF ~(moved <= hpc.count /\ CanConsume(chip, moved) /\ moved <= loop.left)
          THEN panicked' = TRUE /\ UNCHANGED <<chip, bus, hpc, loop, failed>>
          ELSE AfterChunk(r, c1, h1, luck) /\ panicked' = panicked
      BY <2>1, <2>4 DEF ChunkOut
    <3> HIDE DEF r, size
    <3>5. CASE moved = 0
      <4>1. Chunked(size, r, chip, hpc) /\ AfterChunk(r, chip, hpc, luck)
        BY <1>4, <3>3, <3>4, <3>5 DEF Chunked
      <4> QED BY <1>4, <1>5, <2>2, <3>4, <3>5, <4>1, ChunkEnds
    <3>6. CASE moved # 0
      <4>1. moved = size /\ Moved(bus, size, r)
        BY <3>3, <3>6
      <4>2. AfterChunk(r, c1, h1, luck) /\ panicked' = panicked
        BY <1>5, <1>6, <3>4, <3>6, <4>1
      <4>3. Chunked(size, r, c1, h1)
        BY <4>1 DEF Chunked
      <4> HIDE DEF c1, h1
      <4> QED BY <1>4, <1>5, <2>2, <4>2, <4>3, ChunkEnds
    <3> QED BY <3>5, <3>6
  <2> QED BY <1>1, <2>3, <2>4
<1> QED BY <1>7, <1>8

-----------------------------------------------------------------------------
(* The invariant.                                                           *)

\* The guest that runs keeps to the discipline of a driver: it programs a register of the
\* controller only while that is idle with its status read, gives a command of the second
\* level only then, and asks for attention before COMMAND COMPLETE.  A guest that lowers
\* the transfer count under a transfer and then turns DMA on fails the assertion of
\* wiring.rs:404, and one that asks for attention later finds a data phase without its
\* transaction (scsi.rs:1070).
Driver == guest.careful /\ ~guest.lateAttention

Typed == TypeOK /\ guest \in Guests /\ ~panicked
Agreement == BusOK(bus) /\ Quiet(chip, bus) /\ Counted(chip, bus)

\* A request that is due finds the chip it was made for; a request that is not due waits
\* for a selection.
Pending ==
    /\ event = "now" => pend.kind # "Timeout"
    /\ event # "now" /\ pend # None => pend.kind = "Timeout"
    /\ pend # None => Requested(chip, bus, pend)
    /\ chip.cip => event = "now"
    /\ (event = "now" /\ pend.kind = "Attention") \/ Heard(chip, bus)

\* The windows of a transfer run alone, with what is left of it.
Moving ==
    loop # None =>
        /\ event = "none" /\ pend = None
        /\ DmaPending(chip) /\ ByDma(chip)
        /\ loop = DmaLoop(chip.pioPhase = "DataIn", RemainingTransferBytes(chip))

\* Somebody wakes a busy controller, or the bus has refused its last request.
Waiting ==
    chip.busy /\ loop = None /\ ~failed =>
        IF event = "now"
        THEN chip.pioPhase # None \/ pend.kind \in {"Select", "Combined", "Transfer"} \/ bus.conn = None
        ELSE \/ chip.input # None \/ chip.output \/ DmaPending(chip)
             \/ pend # None /\ (event = "none" => ~chip.timeout)

Standing == Typed /\ Agreement /\ Pending /\ Moving /\ Waiting /\ NoStalledDma

LEMMA StandingSound ==
    ASSUME Standing
    PROVE  TransferSound /\ NothingStalled
<1>1. PhaseHasTransaction
  <2>1. BusOK(bus)
    BY DEF Standing, Agreement
  <2>2. bus.txn # None => bus.conn # None
    BY <2>1 DEF BusOK, Agreed
  <2>3. ASSUME BusPhase(bus) \in DataPhases PROVE bus.conn # None /\ Destined(bus) = BusPhase(bus)
    BY <2>3, NoneIsNothing DEF BusPhase, Destined, InMessage, DataPhases, Phases
  <2> QED BY <2>1, <2>2, <2>3 DEF PhaseHasTransaction, BusOK, Agreed, DataPhases
<1>2. TypeOK /\ AssertionsHold /\ SnapshotRestorable
  BY DEF Standing, Typed, Agreement, BusOK, BusBase, AssertionsHold, SnapshotRestorable
<1>3. BusyIsWaiting
  BY DEF Standing, Waiting, Pending, BusyIsWaiting
<1> QED BY <1>1, <1>2, <1>3 DEF Standing, TransferSound, NothingStalled

\* A chip at rest is at rest with any bus it has no part in.
LEMMA RestingChip ==
    ASSUME NEW c \in Chips, ~c.busy, ~c.cip, c.pioPhase = None, c.input = None, ~c.output, ~c.aborting, ~c.ack,
           ~c.attention
    PROVE  \A b : Quiet(c, b) /\ Counted(c, b) /\ Heard(c, b) /\ ~DmaPending(c)
<1>1. ~ByDma(c) /\ c.pioPhase # "MessageIn" /\ ~DmaPending(c)
  BY NoneIsNothing DEF ByDma, DmaPending, DataPhases, Phases
<1> QED BY <1>1 DEF Quiet, Counted, Heard

LEMMA NewChips ==
    /\ NewChip \in Chips /\ ~NewChip.busy /\ ~NewChip.cip /\ NewChip.pioPhase = None /\ NewChip.input = None
    /\ ~NewChip.output /\ ~NewChip.aborting /\ ~NewChip.ack /\ ~NewChip.attention
<1>1. 0 \in 0..TRANSFER_COUNT_MAX /\ 0 \in Luns /\ "test" \in KnownOpcodes /\ Code("reset") \in Statuses
  BY WdConstants DEF Luns, KnownOpcodes, Statuses
<1> QED BY <1>1 DEF NewChip, Chips

LEMMA Resets ==
    ASSUME NEW c \in Chips
    PROVE  LET x == Reset(c)
           IN /\ x \in Chips /\ ~x.busy /\ ~x.cip /\ x.pioPhase = None /\ x.input = None
              /\ ~x.output /\ ~x.aborting /\ ~x.ack /\ ~x.attention /\ x.status = Code("reset")
<1> DEFINE y == [c EXCEPT !.status = Code("reset"), !.cip = FALSE, !.irq = TRUE]
<1>1. y \in Chips /\ y.cip = FALSE /\ y.status = Code("reset")
  BY DEF Chips, Statuses
<1> HIDE DEF y
<1>2. Reset(c) = ClearTransferState(y)
  BY DEF Reset, y
<1> QED BY <1>1, <1>2, Cleared

\* Reset machines, and the one that begins.
LEMMA FreshStands ==
    ASSUME NEW c \in Chips, ~c.busy, ~c.cip, c.pioPhase = None, c.input = None, ~c.output, ~c.aborting, ~c.ack,
           ~c.attention, NEW b, BusOK(b), chip = c, bus = b, hpc \in Channels, pend = None, event = "none",
           loop = None, ~panicked, failed \in BOOLEAN, guest \in Guests
    PROVE  Standing
<1>1. Quiet(c, b) /\ Counted(c, b) /\ Heard(c, b) /\ ~DmaPending(c)
  BY RestingChip
<1>2. Typed
  BY DEF Typed, TypeOK, Channels, BusOK, BusBase
<1>3. Agreement /\ Pending /\ Moving /\ Waiting /\ NoStalledDma
  BY <1>1 DEF Agreement, Pending, Moving, Waiting, NoStalledDma
<1> QED BY <1>2, <1>3 DEF Standing

LEMMA InitStands == Init => Standing
<1> SUFFICES ASSUME Init PROVE Standing
  OBVIOUS
<1>1. NewChannel \in Channels
  BY BoardConstants DEF NewChannel, Channels
<1>2. BusOK(FreeBus)
  BY DEF FreeBus, BusOK, BusBase, Buses, Restorable, Agreed
<1> QED BY <1>1, <1>2, NewChips, FreshStands DEF Init

-----------------------------------------------------------------------------
(* Every step.                                                              *)

LEMMA ResetStands ==
    ASSUME Standing, BoardReset
    PROVE  Standing'
<1>1. chip \in Chips /\ bus \in Buses /\ guest \in Guests /\ ~panicked
  BY DEF Standing, Typed, TypeOK
<1>2. /\ chip' \in Chips /\ ~chip'.busy /\ ~chip'.cip /\ chip'.pioPhase = None /\ chip'.input = None
      /\ ~chip'.output /\ ~chip'.aborting /\ ~chip'.ack /\ ~chip'.attention
  BY <1>1, Resets DEF BoardReset
<1>3. BusOK(bus') /\ bus' \in Buses
  BY <1>1, Cancels DEF BoardReset, BusOK, BusBase
<1>4. hpc' \in Channels
  BY BoardConstants DEF BoardReset, NewChannel, Channels
<1>5. pend' = None /\ event' = "none" /\ loop' = None /\ ~panicked' /\ failed' = FALSE /\ guest' \in Guests
  BY <1>1 DEF BoardReset
<1>6. Quiet(chip', bus') /\ Counted(chip', bus') /\ Heard(chip', bus') /\ ~DmaPending(chip')
  BY <1>2, RestingChip
<1>7. Typed'
  BY <1>2, <1>3, <1>4, <1>5 DEF Typed, TypeOK, Channels
<1>8. Agreement' /\ Pending' /\ Moving' /\ Waiting' /\ NoStalledDma'
  BY <1>2, <1>3, <1>5, <1>6 DEF Agreement, Pending, Moving, Waiting, NoStalledDma
<1> QED BY <1>7, <1>8 DEF Standing

LEMMA MediumStands ==
    ASSUME Standing, ChangeMedium
    PROVE  Standing'
<1>1. PICK t \in Removable : bus' = [bus EXCEPT !.loaded[t] = ~@]
  BY DEF ChangeMedium
<1>2. bus.conn = None /\ bus.txn = None
      /\ UNCHANGED <<chip, hpc, pend, event, loop, panicked, failed, guest>>
  BY DEF ChangeMedium, BusIdle
<1>3. bus' \in Buses /\ bus'.conn = None /\ bus'.txn = None
  BY <1>1, <1>2 DEF Standing, Typed, TypeOK, Buses
<1>4. BusOK(bus')
  BY <1>3 DEF BusOK, BusBase, Restorable, Agreed
<1>5. BusPhase(bus') = BusPhase(bus)
  BY <1>2, <1>3 DEF BusPhase
<1>6. Agreement'
  BY <1>2, <1>3, <1>4, <1>5 DEF Standing, Agreement, Quiet, Counted, ByDma
<1>7. Typed'
  BY <1>2, <1>3 DEF Standing, Typed, TypeOK
<1>8. Pending'
  <2>1. pend # None => Requested(chip, bus', pend)
    BY <1>2, <1>3, <1>5 DEF Standing, Pending, Requested
  <2> QED BY <1>2, <1>3, <2>1 DEF Standing, Pending, Heard
<1>9. Moving' /\ Waiting' /\ NoStalledDma'
  BY <1>2, <1>3 DEF Standing, Moving, Waiting, NoStalledDma, ByDma
<1> QED BY <1>6, <1>7, <1>8, <1>9 DEF Standing

\* An event: the work it leaves is a loop over windows, a wait for a selection, or nothing.
LEMMA EventStands ==
    ASSUME Standing, ProcessScsiEvent
    PROVE  /\ Standing'
           /\ chip.irq /\ chip'.status # chip.status =>
                pend.kind \in {"Abort", "Acknowledge"} \/ (pend.kind = "Attention" /\ bus.conn = None)
<1>1. /\ chip \in Chips /\ BusOK(bus) /\ Quiet(chip, bus) /\ Counted(chip, bus) /\ hpc \in Channels
      /\ failed \in BOOLEAN
  BY DEF Standing, Typed, TypeOK, Agreement, Channels
<1>2. event # "none" /\ loop = None /\ pend \in Requests /\ pend # None
  BY DEF ProcessScsiEvent, Standing, Typed, TypeOK
<1>3. Requested(chip, bus, pend) /\ (pend.kind = "Attention" \/ Heard(chip, bus))
  BY <1>2 DEF Standing, Pending
<1>4. PICK luck \in Lucks :
        LET u == ServiceRequest(pend.kind, pend.byte, chip, bus, luck)
        IN /\ chip' = u.chip
           /\ bus' = u.bus
           /\ hpc' = IF u.err THEN StopDma(hpc) ELSE hpc
           /\ failed' = (u.err \/ (failed /\ u.chip.busy))
           /\ loop' = IF u.work = "dma"
                      THEN DmaLoop(Input(u.chip.pioPhase), u.chip.remaining) ELSE None
           /\ pend' = IF u.work = "wait" THEN [kind |-> "Timeout", byte |-> None] ELSE None
           /\ event' = IF u.work = "wait" /\ u.chip.timeout THEN "later" ELSE "none"
  BY DEF ProcessScsiEvent
<1> DEFINE u == ServiceRequest(pend.kind, pend.byte, chip, bus, luck)
<1>5. luck \in Luck
  BY DEF Lucks, Luck
<1>6. /\ Served(u)
      /\ Answered(u) \/ (pend.kind = "Attention" /\ chip.busy /\ chip.pioPhase = None /\ bus.conn # None)
      /\ chip.irq /\ u.chip.status # chip.status =>
            pend.kind \in {"Abort", "Acknowledge"} \/ (pend.kind = "Attention" /\ bus.conn = None)
  BY <1>1, <1>2, <1>3, <1>5, RequestServes
<1>7. /\ chip' = u.chip
      /\ bus' = u.bus
      /\ hpc' = IF u.err THEN StopDma(hpc) ELSE hpc
      /\ failed' = (u.err \/ (failed /\ u.chip.busy))
      /\ loop' = IF u.work = "dma" THEN DmaLoop(Input(u.chip.pioPhase), u.chip.remaining) ELSE None
      /\ pend' = IF u.work = "wait" THEN [kind |-> "Timeout", byte |-> None] ELSE None
      /\ event' = IF u.work = "wait" /\ u.chip.timeout THEN "later" ELSE "none"
      /\ UNCHANGED <<panicked, guest>>
  BY <1>4 DEF ProcessScsiEvent
<1> HIDE DEF u
<1>8. Settled(u.chip, u.bus) /\ u.err \in BOOLEAN /\ u.work \in {"idle", "dma", "wait"}
  BY <1>6 DEF Served
<1>9. /\ u.chip \in Chips /\ u.bus \in Buses /\ BusOK(u.bus) /\ Quiet(u.chip, u.bus)
      /\ Counted(u.chip, u.bus) /\ Heard(u.chip, u.bus) /\ ~u.chip.cip
  BY <1>8 DEF Settled, BusOK, BusBase
<1> DEFINE wait == [kind |-> "Timeout", byte |-> None]
<1>10. wait \in Requests /\ wait # None /\ wait.kind = "Timeout"
  BY NoneIsNothing DEF Requests, RequestKinds
<1> HIDE DEF wait
<1>11. u.work = "dma" =>
         /\ DmaLoop(Input(u.chip.pioPhase), u.chip.remaining) \in Loops
         /\ DmaLoop(Input(u.chip.pioPhase), u.chip.remaining) =
               DmaLoop(u.chip.pioPhase = "DataIn", RemainingTransferBytes(u.chip))
  <2>1. SUFFICES ASSUME u.work = "dma"
                 PROVE  /\ DmaLoop(Input(u.chip.pioPhase), u.chip.remaining) \in Loops
                        /\ DmaLoop(Input(u.chip.pioPhase), u.chip.remaining) =
                              DmaLoop(u.chip.pioPhase = "DataIn", RemainingTransferBytes(u.chip))
    OBVIOUS
  <2>2. u.chip.pioPhase \in DataPhases /\ u.chip.remaining = RemainingTransferBytes(u.chip)
    BY <1>6, <2>1 DEF Served, ByDma
  <2>3. Input(u.chip.pioPhase) = (u.chip.pioPhase = "DataIn")
    BY <2>2 DEF Input, DataPhases
  <2>4. u.chip.remaining \in Nat
    BY <1>9, ChipTyped
  <2> QED BY <2>2, <2>3, <2>4 DEF DmaLoop, Loops
<1>12. hpc' \in Channels
  BY <1>1, <1>7, <1>8, ChannelStops
<1>13. Typed'
  <2>1. guest' \in Guests /\ ~panicked'
    BY <1>7 DEF Standing, Typed
  <2>2. pend' \in Requests \cup {None} /\ loop' \in Loops \cup {None} /\ failed' \in BOOLEAN
    BY <1>1, <1>7, <1>8, <1>9, <1>10, <1>11, ChipTyped DEF wait
  <2>3. event' \in {"none", "now", "later"} /\ (event' # "none" => pend' # None)
    BY <1>7, <1>10 DEF wait
  <2> QED BY <1>7, <1>9, <1>12, <2>1, <2>2, <2>3 DEF Typed, TypeOK, Channels
<1>14. Agreement'
  BY <1>7, <1>9 DEF Agreement
<1>15. Pending'
  <2>1. u.work = "wait" => Requested(u.chip, u.bus, wait)
    BY <1>6, <1>10 DEF Served, Requested
  <2> QED BY <1>7, <1>9, <1>10, <2>1 DEF Pending, wait
<1>16. loop' # None => u.work = "dma"
  BY <1>7
<1>17. Moving'
  <2>1. u.work = "dma" => DmaPending(u.chip) /\ ByDma(u.chip)
    BY <1>6 DEF Served
  <2> QED BY <1>7, <1>11, <1>16, <2>1 DEF Moving
<1>18. u.work = "dma" => loop' # None
  BY <1>7, <1>11, NoneIsNothing
<1>19. NoStalledDma'
  BY <1>6, <1>7, <1>18 DEF Served, NoStalledDma
<1>20. Waiting'
  <2>1. SUFFICES ASSUME u.chip.busy, u.work # "dma", ~u.err, ~(failed /\ u.chip.busy)
                 PROVE  \/ u.chip.input # None \/ u.chip.output
                        \/ pend' # None /\ (event' = "none" => ~u.chip.timeout)
    BY <1>7, <1>16, <1>18 DEF Waiting
  <2>2. CASE u.work = "wait"
    BY <1>7, <1>10, <2>2 DEF wait
  <2>3. CASE u.work = "idle"
    <3>1. ~failed
      BY <2>1
    <3>2. ~(pend.kind = "Attention" /\ chip.busy /\ chip.pioPhase = None /\ bus.conn # None)
      <4>1. SUFFICES ASSUME pend.kind = "Attention", chip.busy, chip.pioPhase = None, bus.conn # None PROVE FALSE
        OBVIOUS
      <4>2. event = "now"
        BY <1>2, <4>1 DEF Standing, Pending
      <4> QED BY <1>2, <3>1, <4>1, <4>2 DEF Standing, Waiting
    <3> QED BY <1>6, <2>1, <2>3, <3>2 DEF Answered
  <2> QED BY <1>8, <2>1, <2>2, <2>3
<1> QED BY <1>6, <1>7, <1>13, <1>14, <1>15, <1>17, <1>19, <1>20 DEF Standing

\* The loop over windows.
LEMMA LoopWindowing ==
    ASSUME Standing, loop # None
    PROVE  Windowing
BY DEF Standing, Typed, TypeOK, Agreement, Pending, Moving, Windowing, Settled, Channels

LEMMA RestingStands ==
    ASSUME Standing, loop # None, UNCHANGED <<pend, event, guest>>, panicked' = panicked,
           Rests(chip', bus', hpc', loop', failed'), Woken(chip', loop', failed')
    PROVE  Standing'
<1>1. event = "none" /\ pend = None /\ guest \in Guests /\ ~panicked
  BY DEF Standing, Moving, Typed
<1>2. /\ Settled(chip', bus') /\ hpc' \in Channels /\ failed' \in BOOLEAN
      /\ loop' # None =>
           /\ DmaPending(chip') /\ ByDma(chip')
           /\ loop' = DmaLoop(chip'.pioPhase = "DataIn", RemainingTransferBytes(chip'))
      /\ loop' = None /\ DmaPending(chip') => ~HasWindow(hpc') /\ ~hpc'.fetch
  BY DEF Rests
<1>3. /\ chip' \in Chips /\ bus' \in Buses /\ BusOK(bus') /\ Quiet(chip', bus') /\ Counted(chip', bus')
      /\ Heard(chip', bus') /\ ~chip'.cip
  BY <1>2 DEF Settled, BusOK, BusBase
<1>4. loop' \in Loops \cup {None}
  <2>1. RemainingTransferBytes(chip') \in Nat
    BY <1>3, ChipTyped DEF RemainingTransferBytes
  <2> DEFINE l == DmaLoop(chip'.pioPhase = "DataIn", RemainingTransferBytes(chip'))
  <2>2. l \in Loops
    BY <2>1 DEF DmaLoop, Loops
  <2> HIDE DEF l
  <2>3. loop' # None => loop' = l
    BY <1>2 DEF l
  <2> QED BY <2>2, <2>3
<1>5. Typed'
  BY <1>1, <1>2, <1>3, <1>4 DEF Typed, TypeOK, Channels
<1>6. Agreement' /\ Pending' /\ Moving' /\ NoStalledDma'
  BY <1>1, <1>2, <1>3 DEF Agreement, Pending, Moving, NoStalledDma
<1>7. Waiting'
  BY <1>1 DEF Waiting, Woken
<1> QED BY <1>5, <1>6, <1>7 DEF Standing

LEMMA FetchStands ==
    ASSUME Standing, FetchDescriptor
    PROVE  Standing'
<1>1. loop # None /\ UNCHANGED <<pend, event, guest>> /\ ~HasWindow(hpc)
  BY DEF FetchDescriptor, Looping
<1>2. Windowing
  BY <1>1, LoopWindowing
<1>3. hpc \in Channels /\ failed \in BOOLEAN /\ Settled(chip, bus) /\ DmaPending(chip) /\ ByDma(chip)
      /\ loop = DmaLoop(chip.pioPhase = "DataIn", RemainingTransferBytes(chip))
  BY <1>2 DEF Windowing
<1>4. PICK d \in IF hpc.fetch THEN Descriptors ELSE {None} :
         IF ~hpc.fetch THEN EndLoop(hpc)
         ELSE IF d = None THEN EndLoop(StopDma(hpc))
         ELSE LET h == LoadDescriptor(hpc, d)
              IN IF ~HasWindow(h) THEN EndLoop(StopDma(h))
                 ELSE hpc' = h /\ UNCHANGED <<chip, bus, loop, panicked, failed>>
  BY DEF FetchDescriptor
<1> DEFINE h == LoadDescriptor(hpc, d)
<1>5. hpc.fetch /\ d # None => h \in Channels
  BY <1>3, <1>4 DEF Descriptors, Described, LoadDescriptor, Channels
<1>6. UNCHANGED <<chip, bus, panicked, failed>>
  BY <1>4 DEF EndLoop
<1>7. \/ loop' = None /\ hpc' \in Channels /\ ~HasWindow(hpc') /\ ~hpc'.fetch
      \/ loop' = loop /\ hpc' \in Channels
  <2>1. CASE ~hpc.fetch
    BY <1>1, <1>3, <1>4, <2>1 DEF EndLoop
  <2>2. CASE hpc.fetch /\ d = None
    BY <1>3, <1>4, <2>2, ChannelStops DEF EndLoop
  <2>3. CASE hpc.fetch /\ d # None /\ ~HasWindow(h)
    BY <1>4, <1>5, <2>3, ChannelStops DEF EndLoop
  <2>4. CASE hpc.fetch /\ d # None /\ HasWindow(h)
    BY <1>4, <1>5, <2>4
  <2>5. hpc.fetch \in BOOLEAN
    BY <1>3 DEF Channels
  <2> HIDE DEF h
  <2> QED BY <2>1, <2>2, <2>3, <2>4, <2>5
<1>8. Rests(chip', bus', hpc', loop', failed')
  <2>1. chip' = chip /\ bus' = bus /\ failed' = failed
    BY <1>6
  <2>2. CASE loop' = None /\ hpc' \in Channels /\ ~HasWindow(hpc') /\ ~hpc'.fetch
    BY <1>3, <2>1, <2>2 DEF Rests
  <2>3. CASE loop' = loop /\ hpc' \in Channels
    BY <1>1, <1>3, <2>1, <2>3 DEF Rests
  <2> QED BY <1>7, <2>2, <2>3
<1>9. Woken(chip', loop', failed')
  BY <1>3, <1>6 DEF Woken
<1> QED BY <1>1, <1>6, <1>8, <1>9, RestingStands

LEMMA WindowStands ==
    ASSUME Standing, TransferWindow
    PROVE  Standing' /\ (HasWindow(hpc) => Accounted)
<1>1. loop # None /\ UNCHANGED <<pend, event, guest>>
  BY DEF TransferWindow, Looping
<1>2. Windowing
  BY <1>1, LoopWindowing
<1>3. loop.left \in Nat \ {0}
  BY <1>2, WindowFacts
<1>4. HasWindow(hpc) /\ TransferChunk(IF hpc.count < loop.left THEN hpc.count ELSE loop.left)
  BY <1>3 DEF TransferWindow
<1>5. /\ Rests(chip', bus', hpc', loop', failed') /\ Woken(chip', loop', failed') /\ Accounted
      /\ panicked' = panicked
  BY <1>2, <1>4, WindowMoves
<1> QED BY <1>1, <1>5, RestingStands

\* The registers of HPC1.
LEMMA OutputsStand ==
    ASSUME Standing, GuestRuns, NEW h \in Channels, NEW reset \in BOOLEAN, HandleHpc1Outputs(h, reset)
    PROVE  Standing'
<1>1. /\ chip \in Chips /\ bus \in Buses /\ BusOK(bus) /\ Quiet(chip, bus) /\ Counted(chip, bus)
      /\ hpc \in Channels /\ failed \in BOOLEAN /\ guest \in Guests /\ ~panicked
      /\ event # "now" /\ loop = None
  BY DEF Standing, Typed, TypeOK, Agreement, Channels, GuestRuns
<1>2. ~chip.cip /\ Heard(chip, bus)
  BY <1>1 DEF Standing, Pending
<1> DEFINE c == IF reset THEN Reset(chip) ELSE chip
           b == IF reset THEN CancelTransaction(bus) ELSE bus
<1>3. PICK d \in IF h.fetch THEN Descriptors ELSE {None} :
        LET fetched == IF ~h.fetch THEN h
                       ELSE IF d = None THEN StopDma(h) ELSE LoadDescriptor(h, d)
            waits == DmaPending(c)
        IN /\ chip' = c
           /\ bus' = b
           /\ pend' = IF reset THEN None ELSE pend
           /\ event' = IF reset THEN "none" ELSE event
           /\ hpc' = IF waits /\ b.txn = None THEN StopDma(fetched) ELSE fetched
           /\ loop' = IF waits /\ b.txn # None
                      THEN DmaLoop(b.txn.kind \in DataIn, RemainingTransferBytes(c)) ELSE None
           /\ failed' = (failed /\ ~reset)
           /\ UNCHANGED <<panicked, guest>>
  BY DEF HandleHpc1Outputs
<1>4. reset => /\ c \in Chips /\ ~c.busy /\ ~c.cip /\ c.pioPhase = None /\ c.input = None
               /\ ~c.output /\ ~c.aborting /\ ~c.ack /\ ~c.attention
  BY <1>1, Resets
<1>5. BusOK(b) /\ b \in Buses
  BY <1>1, Cancels DEF BusOK, BusBase
<1>6. c \in Chips /\ Quiet(c, b) /\ Counted(c, b) /\ Heard(c, b) /\ ~c.cip
  <2>1. CASE reset
    BY <1>4, <2>1, RestingChip
  <2>2. CASE ~reset
    BY <1>1, <1>2, <2>2
  <2> QED BY <2>1, <2>2
<1>7. reset => ~c.busy /\ ~DmaPending(c)
  BY <1>4, RestingChip
<1> DEFINE fetched == IF ~h.fetch THEN h ELSE IF d = None THEN StopDma(h) ELSE LoadDescriptor(h, d)
<1>8. fetched \in Channels
  <2>1. CASE ~h.fetch
    BY <2>1
  <2>2. CASE h.fetch /\ d = None
    BY <2>2, ChannelStops
  <2>3. CASE h.fetch /\ d # None
    <3>1. d \in Described
      BY <1>3, <2>3 DEF Descriptors
    <3>2. LoadDescriptor(h, d) \in Channels
      BY <3>1 DEF Described, LoadDescriptor, Channels
    <3> QED BY <2>3, <3>2
  <2> QED BY <2>1, <2>2, <2>3
<1>9. /\ chip' = c /\ bus' = b /\ pend' = (IF reset THEN None ELSE pend)
      /\ event' = (IF reset THEN "none" ELSE event)
      /\ hpc' = IF DmaPending(c) /\ b.txn = None THEN StopDma(fetched) ELSE fetched
      /\ loop' = IF DmaPending(c) /\ b.txn # None
                 THEN DmaLoop(b.txn.kind \in DataIn, RemainingTransferBytes(c)) ELSE None
      /\ failed' = (failed /\ ~reset)
      /\ UNCHANGED <<panicked, guest>>
  BY <1>3
<1> HIDE DEF fetched
<1>10. hpc' \in Channels
  BY <1>8, <1>9, ChannelStops
<1>11. ASSUME DmaPending(c)
       PROVE  /\ ByDma(c) /\ b.txn # None /\ pend = None /\ event = "none" /\ ~reset
              /\ DmaLoop(b.txn.kind \in DataIn, RemainingTransferBytes(c)) =
                    DmaLoop(c.pioPhase = "DataIn", RemainingTransferBytes(c))
              /\ DmaLoop(b.txn.kind \in DataIn, RemainingTransferBytes(c)) \in Loops
  <2>1. ~reset /\ c = chip /\ b = bus
    BY <1>7, <1>11
  <2>2. ByDma(c) /\ c.pioPhase \in DataPhases
    BY <1>11 DEF DmaPending, ByDma, DataPhases
  <2>3. c.pioPhase = BusPhase(b)
    BY <1>6, <2>2 DEF Counted
  <2>4. b.conn # None /\ b.conn.phase = c.pioPhase
    BY <2>2, <2>3, NoneIsNothing DEF BusPhase, DataPhases, Phases
  <2>5. Destined(b) = c.pioPhase
    BY <2>2, <2>4 DEF Destined, InMessage, DataPhases
  <2>6. /\ b.txn # None
        /\ c.pioPhase = "DataIn" => b.txn.kind \in DataIn
        /\ c.pioPhase = "DataOut" => b.txn.kind \in DataOut
    BY <1>5, <2>2, <2>4, <2>5 DEF BusOK, Agreed, DataPhases
  <2>7. (b.txn.kind \in DataIn) = (c.pioPhase = "DataIn")
    BY <2>2, <2>6 DEF DataIn, DataOut, DataPhases
  <2>8. pend = None
    <3>1. c.pioPhase # None
      BY <2>2, NoneIsNothing DEF DataPhases, Phases
    <3> QED BY <1>1, <2>1, <3>1 DEF Standing, Pending, Requested
  <2>9. event = "none"
    BY <1>1, <2>8 DEF Standing, Typed, TypeOK
  <2>10. RemainingTransferBytes(c) \in Nat
    BY <1>6, ChipTyped DEF RemainingTransferBytes
  <2> QED BY <2>1, <2>2, <2>6, <2>7, <2>8, <2>9, <2>10 DEF DmaLoop, Loops
<1> HIDE DEF c, b
<1>12. loop' # None => DmaPending(c)
  BY <1>9
<1>13. Typed'
  <2>1. pend' \in Requests \cup {None} /\ event' \in {"none", "now", "later"} /\ (event' # "none" => pend' # None)
    BY <1>9 DEF Standing, Typed, TypeOK
  <2>2. loop' \in Loops \cup {None} /\ failed' \in BOOLEAN
    BY <1>1, <1>9, <1>11, <1>12
  <2> QED BY <1>1, <1>5, <1>6, <1>9, <1>10, <2>1, <2>2 DEF Typed, TypeOK, Channels
<1>14. Agreement'
  BY <1>5, <1>6, <1>9 DEF Agreement
<1>15. Pending'
  BY <1>1, <1>6, <1>9 DEF Standing, Pending, c, b
<1>16. Moving'
  BY <1>9, <1>11, <1>12 DEF Moving
<1>17. NoStalledDma'
  <2>1. SUFFICES ASSUME DmaPending(c), loop' = None PROVE FALSE
    BY <1>9 DEF NoStalledDma
  <2> QED BY <1>9, <1>11, <2>1, NoneIsNothing
<1>18. Waiting'
  <2>1. CASE reset
    BY <1>7, <1>9, <2>1 DEF Waiting
  <2>2. CASE ~reset
    BY <1>1, <1>9, <2>2 DEF Standing, Waiting, c, b
  <2> QED BY <2>1, <2>2
<1> QED BY <1>13, <1>14, <1>15, <1>16, <1>17, <1>18 DEF Standing

\* The registers of the controller.
LEMMA AccessStands ==
    ASSUME Standing, GuestRuns, NEW a, NEW byte \in SentBytes \cup {None}, HandleScsiAccess(a, byte),
           NEW x, x = a.chip, x \in Chips, NEW request, request = a.request,
           request \in (RequestKinds \ {"Timeout"}) \cup {None},
           a.reset \in BOOLEAN, request # None => ~a.reset,
           NEW b, b = IF a.reset THEN CancelTransaction(bus) ELSE bus,
           Quiet(x, b), Counted(x, b), request = "Attention" \/ Heard(x, b),
           request # None => Requested(x, bus, [kind |-> request, byte |-> byte]),
           request = None => ~x.cip /\ ~x.busy /\ (a.reset \/ ~chip.busy),
           request # None /\ x.busy =>
              \/ request \in {"Select", "Combined", "Transfer"}
              \/ ~x.cip /\ chip.busy /\ x.pioPhase = chip.pioPhase
    PROVE  Standing'
<1>1. /\ chip \in Chips /\ bus \in Buses /\ BusOK(bus) /\ Quiet(chip, bus) /\ Counted(chip, bus)
      /\ hpc \in Channels /\ failed \in BOOLEAN /\ guest \in Guests /\ ~panicked
      /\ event \in {"none", "later"} /\ loop = None
      /\ pend \in Requests \cup {None} /\ (event # "none" => pend # None)
  BY DEF Standing, Typed, TypeOK, Agreement, Channels, GuestRuns
<1>2. pend # None => pend.kind = "Timeout" /\ chip.busy /\ chip.pioPhase = None /\ bus.conn = None
  BY <1>1 DEF Standing, Pending, Requested
<1> DEFINE p == [kind |-> request, byte |-> byte]
<1>3. /\ chip' = x /\ bus' = b
      /\ pend' = IF request # None THEN p ELSE IF a.reset THEN None ELSE pend
      /\ event' = IF request # None THEN "now" ELSE IF a.reset THEN "none" ELSE event
      /\ failed' = (failed /\ x.busy /\ ~x.cip)
      /\ UNCHANGED <<hpc, loop, panicked, guest>>
  BY DEF HandleScsiAccess
<1>4. request # None => p \in Requests /\ p # None
  BY NoneIsNothing DEF Requests
<1>5. p.kind = request
  OBVIOUS
<1> HIDE DEF p
<1>6. BusOK(b) /\ b \in Buses /\ (request # None => b = bus)
  BY <1>1, Cancels DEF BusOK, BusBase
<1>7. x.busy \in BOOLEAN /\ x.cip \in BOOLEAN /\ ~(chip.busy /\ chip.pioPhase = None /\ DmaPending(chip))
  BY ChipTyped, NoneIsNothing DEF DmaPending, Phases
<1>8. request = None => pend' = None /\ event' = "none"
  BY <1>1, <1>2, <1>3
<1>9. request # None => pend' = p /\ event' = "now" /\ p # None
  BY <1>3, <1>4
<1>10. Typed'
  <2>1. pend' \in Requests \cup {None} /\ event' \in {"none", "now", "later"} /\ (event' # "none" => pend' # None)
    BY <1>4, <1>8, <1>9
  <2>2. failed' \in BOOLEAN
    BY <1>1, <1>3, <1>7
  <2> QED BY <1>1, <1>3, <1>6, <2>1, <2>2 DEF Typed, TypeOK, Channels
<1>11. Agreement'
  BY <1>3, <1>6 DEF Agreement
<1>12. Pending'
  <2>1. CASE request = None
    BY <1>3, <1>8, <2>1, NoneIsNothing DEF Pending, RequestKinds
  <2>2. CASE request # None
    BY <1>3, <1>5, <1>6, <1>9, <2>2 DEF Pending, p
  <2> QED BY <2>1, <2>2
<1>13. Moving'
  BY <1>1, <1>3 DEF Moving
<1>14. NoStalledDma'
  BY <1>3, <1>8, <1>9 DEF NoStalledDma, DmaPending
<1>15. Waiting'
  <2>1. CASE request = None
    BY <1>3, <2>1 DEF Waiting
  <2>2. CASE request # None
    <3>1. SUFFICES ASSUME x.busy, ~failed', request \notin {"Select", "Combined", "Transfer"}
                   PROVE  x.pioPhase # None \/ bus.conn = None
      BY <1>3, <1>5, <1>6, <1>9, <2>2 DEF Waiting
    <3>2. ~x.cip /\ chip.busy /\ x.pioPhase = chip.pioPhase /\ ~failed
      BY <1>3, <2>2, <3>1
    <3>3. \/ chip.input # None \/ chip.output \/ DmaPending(chip)
          \/ pend # None
      BY <1>1, <3>2 DEF Standing, Waiting
    <3>4. chip.pioPhase = None => chip.input = None /\ ~chip.output /\ ~DmaPending(chip)
      BY <1>1, <1>7, <3>2 DEF Quiet
    <3> QED BY <1>2, <3>2, <3>3, <3>4
  <2> QED BY <2>1, <2>2
<1> QED BY <1>10, <1>11, <1>12, <1>13, <1>14, <1>15 DEF Standing

\* Two chips that are in the same transfer.
LEMMA SameTransfer ==
    ASSUME NEW c \in Chips, NEW x \in Chips, NEW b, Quiet(c, b), Counted(c, b),
           x.busy = c.busy, x.irq => c.irq, x.ack = c.ack, x.dma = c.dma, x.pioPhase = c.pioPhase,
           x.input = c.input, x.output = c.output, x.aborting = c.aborting, x.remaining = c.remaining,
           x.count = c.count, x.single = c.single
    PROVE  Quiet(x, b) /\ Counted(x, b) /\ ByDma(x) = ByDma(c)
<1>1. ByDma(x) = ByDma(c)
  BY DEF ByDma
<1>2. Quiet(x, b)
  BY DEF Quiet
<1>3. Counted(x, b)
  BY <1>1 DEF Counted
<1> QED BY <1>1, <1>2, <1>3

\* What the guest finds when it runs.
LEMMA GuestFinds ==
    ASSUME Standing, GuestRuns, Driver
    PROVE  /\ chip \in Chips /\ bus \in Buses /\ BusOK(bus) /\ Quiet(chip, bus) /\ Counted(chip, bus)
           /\ hpc \in Channels /\ guest \in Guests /\ guest.careful /\ ~guest.lateAttention
           /\ ~chip.cip /\ Heard(chip, bus) /\ event # "now" /\ loop = None
           /\ pend # None => chip.busy
           /\ chip.irq => ~chip.busy
BY DEF Standing, Typed, TypeOK, Agreement, Channels, GuestRuns, Pending, Requested, Driver, Quiet

LEMMA AccessFields ==
    ASSUME NEW c, NEW request
    PROVE  Access(c, request).chip = c /\ Access(c, request).request = request /\ Access(c, request).reset = FALSE
BY DEF Access

LEMMA CommandStands ==
    ASSUME Standing, Driver, WriteCommand
    PROVE  Standing'
<1>1. PICK command \in guest.commands :
        /\ GuestRuns
        /\ guest.careful => Disciplined(command)
        /\ command = "attention" /\ ~guest.lateAttention => ~Completing(bus)
        /\ HandleScsiAccess(ExecuteCommand(chip, command), None)
  BY DEF WriteCommand
<1>2. /\ chip \in Chips /\ bus \in Buses /\ BusOK(bus) /\ Quiet(chip, bus) /\ Counted(chip, bus)
      /\ guest \in Guests /\ ~chip.cip /\ Heard(chip, bus)
  BY <1>1, GuestFinds
<1>3. Disciplined(command) /\ (command = "attention" => ~Completing(bus)) /\ command \in Commands
  BY <1>1, GuestFinds, BoardConstants
<1> DEFINE a == ExecuteCommand(chip, command)
           c == [chip EXCEPT !.phaseAfter = FALSE]
           started == [c EXCEPT !.cip = TRUE, !.busy = TRUE, !.irq = FALSE]
<1>4. /\ c \in Chips /\ c.busy = chip.busy /\ c.irq = chip.irq /\ c.ack = chip.ack /\ c.dma = chip.dma
      /\ c.pioPhase = chip.pioPhase /\ c.input = chip.input /\ c.output = chip.output
      /\ c.aborting = chip.aborting /\ c.remaining = chip.remaining /\ c.count = chip.count
      /\ c.single = chip.single /\ c.attention = chip.attention /\ ~c.cip
  BY <1>2 DEF Chips
<1>5. Quiet(c, bus) /\ Counted(c, bus) /\ Heard(c, bus)
  BY <1>2, <1>4, SameTransfer DEF Heard
<1> HIDE DEF c
<1>6. /\ started \in Chips /\ started.busy /\ ~started.irq /\ started.ack = chip.ack
      /\ started.pioPhase = chip.pioPhase /\ started.input = chip.input /\ started.output = chip.output
      /\ started.aborting = chip.aborting /\ started.attention = chip.attention
  BY <1>4 DEF Chips
<1>7. None \in SentBytes \cup {None} /\ None \notin RequestKinds
  BY NoneIsNothing
<1> HIDE DEF started
\* A command that leaves the transfer as it is.
<1>8. ASSUME NEW x \in Chips, NEW request \in {"Abort", "Attention", "Acknowledge", "Disconnect"},
             HandleScsiAccess(Access(x, request), None),
             x.busy = chip.busy, x.irq = chip.irq, x.ack = chip.ack, x.dma = chip.dma,
             x.pioPhase = chip.pioPhase, x.input = chip.input, x.output = chip.output,
             x.aborting = chip.aborting, x.remaining = chip.remaining, x.count = chip.count,
             x.single = chip.single, ~x.cip, request = "Attention" \/ x.attention = chip.attention,
             request = "Acknowledge" => chip.ack,
             request = "Attention" => bus.conn = None \/ bus.conn.in # Completion
      PROVE  Standing'
  <2>1. Quiet(x, bus) /\ Counted(x, bus)
    BY <1>2, <1>8, SameTransfer
  <2>2. request = "Attention" \/ Heard(x, bus)
    BY <1>2, <1>8 DEF Heard
  <2>3. request \in (RequestKinds \ {"Timeout"}) \cup {None} /\ request # None
    BY <1>7 DEF RequestKinds
  <2>4. Requested(x, bus, [kind |-> request, byte |-> None])
    BY <1>8 DEF Requested
  <2> DEFINE a1 == Access(x, request)
  <2>5. a1.chip = x /\ a1.request = request /\ a1.reset = FALSE
    BY AccessFields
  <2> HIDE DEF a1
  <2>6. x.busy \in BOOLEAN /\ chip.busy = x.busy
    BY <1>8, ChipTyped
  <2>7. HandleScsiAccess(a1, None)
    BY <1>8 DEF a1
  <2>8. bus = (IF a1.reset THEN CancelTransaction(bus) ELSE bus) /\ a1.reset \in BOOLEAN
    BY <2>5
  <2>9. x = a1.chip /\ request = a1.request /\ (request # None => ~a1.reset)
    BY <2>5
  <2>10. /\ request = None => ~x.cip /\ ~x.busy /\ (a1.reset \/ ~chip.busy)
         /\ request # None /\ x.busy =>
              \/ request \in {"Select", "Combined", "Transfer"}
              \/ ~x.cip /\ chip.busy /\ x.pioPhase = chip.pioPhase
    BY <1>8, <2>3, <2>6
  <2> QED BY <1>1, <1>7, <1>8, <2>1, <2>2, <2>3, <2>4, <2>7, <2>8, <2>9, <2>10, AccessStands
\* A command that begins.
<1>9. ASSUME NEW x \in Chips, NEW request \in {"Select", "Combined", "Transfer"},
             HandleScsiAccess(Access(x, request), None),
             x.busy, ~x.irq, ~x.ack, x.pioPhase = None, x.input = None, ~x.output, ~x.aborting,
             Heard(x, bus)
      PROVE  Standing'
  <2>1. ~ByDma(x) /\ x.pioPhase # "MessageIn"
    BY <1>9, NoneIsNothing DEF ByDma, DataPhases, Phases
  <2>2. Quiet(x, bus) /\ Counted(x, bus)
    BY <1>9, <2>1 DEF Quiet, Counted
  <2>3. request \in (RequestKinds \ {"Timeout"}) \cup {None} /\ request # None
    BY <1>7 DEF RequestKinds
  <2>4. Requested(x, bus, [kind |-> request, byte |-> None])
    BY <1>9 DEF Requested
  <2> DEFINE a1 == Access(x, request)
  <2>5. a1.chip = x /\ a1.request = request /\ a1.reset = FALSE
    BY AccessFields
  <2> HIDE DEF a1
  <2>6. HandleScsiAccess(a1, None)
    BY <1>9 DEF a1
  <2> QED BY <1>1, <1>7, <1>9, <2>2, <2>3, <2>4, <2>5, <2>6, AccessStands
<1>10. CASE command = "reset"
  <2> DEFINE a1 == [Access(SoftwareReset(c), None) EXCEPT !.reset = TRUE]
             b == CancelTransaction(bus)
  <2>1. a = a1
    BY <1>10 DEF ExecuteCommand, c
  <2>2. a1.chip = NewChip /\ a1.request = None /\ a1.reset = TRUE
    BY DEF Access, SoftwareReset
  <2>3. /\ NewChip \in Chips /\ ~NewChip.busy /\ ~NewChip.cip
        /\ Quiet(NewChip, b) /\ Counted(NewChip, b) /\ Heard(NewChip, b)
    BY NewChips, RestingChip
  <2> HIDE DEF a, a1, b
  <2>4. HandleScsiAccess(a1, None)
    BY <1>1, <2>1 DEF a
  <2>5. b = IF a1.reset THEN CancelTransaction(bus) ELSE bus
    BY <2>2 DEF b
  <2>6. None \in (RequestKinds \ {"Timeout"}) \cup {None} /\ a1.reset \in BOOLEAN
    BY <2>2
  <2> QED BY <1>1, <1>7, <2>2, <2>3, <2>4, <2>5, <2>6, AccessStands
<1>11. CASE command \in {"combined", "combined with attention"}
  <2> DEFINE x == [started EXCEPT !.combined = TRUE, !.attention = command = "combined with attention"]
  <2>1. ~chip.busy /\ ~chip.ack /\ (command = "combined with attention" => bus.conn = None)
    BY <1>3, <1>11 DEF Disciplined, SecondLevel, Selections
  <2>2. chip.pioPhase = None /\ chip.input = None /\ ~chip.output /\ ~chip.aborting
    BY <1>2, <2>1 DEF Quiet
  <2>3. /\ x \in Chips /\ x.busy /\ ~x.irq /\ ~x.ack /\ x.pioPhase = None /\ x.input = None
        /\ ~x.output /\ ~x.aborting /\ x.attention = (command = "combined with attention")
    BY <1>6, <2>1, <2>2, ZenonT(60) DEF Chips
  <2>4. a = Access(x, "Combined")
    BY <1>11 DEF ExecuteCommand, c, started
  <2> HIDE DEF a, x
  <2>5. Heard(x, bus)
    BY <2>1, <2>3 DEF Heard
  <2>6. HandleScsiAccess(Access(x, "Combined"), None)
    BY <1>1, <2>4 DEF a
  <2> QED BY <1>9, <2>3, <2>5, <2>6
<1>12. CASE command \in {"select", "select with attention"}
  <2> DEFINE y == ClearTransferState(c)
             x == [y EXCEPT !.cip = TRUE, !.busy = TRUE, !.irq = FALSE,
                            !.attention = command = "select with attention"]
  <2>1. bus.conn = None
    BY <1>3, <1>12 DEF Disciplined, SecondLevel, Selections
  <2>2. /\ y \in Chips /\ ~y.ack /\ y.pioPhase = None /\ y.input = None /\ ~y.output /\ ~y.aborting
    BY <1>4, Cleared
  <2> HIDE DEF y
  <2>3. /\ x \in Chips /\ x.busy /\ ~x.irq /\ ~x.ack /\ x.pioPhase = None /\ x.input = None
        /\ ~x.output /\ ~x.aborting
    BY <2>2, ZenonT(60) DEF Chips
  <2>4. a = Access(x, "Select")
    BY <1>12 DEF ExecuteCommand, c, y
  <2> HIDE DEF a, x
  <2>5. Heard(x, bus)
    BY <2>1 DEF Heard
  <2>6. HandleScsiAccess(Access(x, "Select"), None)
    BY <1>1, <2>4 DEF a
  <2> QED BY <1>9, <2>3, <2>5, <2>6
<1>13. CASE command \in {"transfer", "transfer byte"}
  <2> DEFINE s == command = "transfer byte" \/ c.count = 0
             x == [started EXCEPT !.combined = FALSE, !.input = None, !.output = FALSE, !.single = s]
  <2>1. ~chip.busy /\ ~chip.ack
    BY <1>3, <1>13 DEF Disciplined, SecondLevel
  <2>2. chip.pioPhase = None /\ ~chip.aborting
    BY <1>2, <2>1 DEF Quiet
  <2>3. s \in BOOLEAN
    OBVIOUS
  <2> HIDE DEF s
  <2>4. /\ x \in Chips /\ x.busy /\ ~x.irq /\ ~x.ack /\ x.pioPhase = None /\ x.input = None
        /\ ~x.output /\ ~x.aborting /\ x.attention = chip.attention
    <3>1. x \in Chips
      BY <1>6, <2>3 DEF Chips
    <3>2. /\ x.busy = started.busy /\ x.irq = started.irq /\ x.ack = started.ack
          /\ x.pioPhase = started.pioPhase /\ x.aborting = started.aborting
          /\ x.attention = started.attention
      BY <1>6 DEF Chips
    <3>3. x.input = None /\ ~x.output
      BY <1>6 DEF Chips
    <3> HIDE DEF x
    <3> QED BY <1>6, <2>1, <2>2, <3>1, <3>2, <3>3
  <2>5. a = Access(x, "Transfer")
    BY <1>13 DEF ExecuteCommand, c, started, s
  <2> HIDE DEF a, x
  <2>6. Heard(x, bus)
    BY <1>2, <2>4 DEF Heard
  <2>7. HandleScsiAccess(Access(x, "Transfer"), None)
    BY <1>1, <2>5 DEF a
  <2> QED BY <1>9, <2>4, <2>6, <2>7
<1>14. CASE command = "abort"
  <2>1. a = Access(c, "Abort")
    BY <1>14 DEF ExecuteCommand, c
  <2> QED BY <1>1, <1>4, <1>8, <2>1
<1>15. CASE command = "attention"
  <2> DEFINE x == [c EXCEPT !.attention = TRUE]
  <2>1. a = Access(x, "Attention")
    BY <1>15 DEF ExecuteCommand, c
  <2>2. /\ x \in Chips /\ x.busy = chip.busy /\ x.irq = chip.irq /\ x.ack = chip.ack /\ x.dma = chip.dma
        /\ x.pioPhase = chip.pioPhase /\ x.input = chip.input /\ x.output = chip.output
        /\ x.aborting = chip.aborting /\ x.remaining = chip.remaining /\ x.count = chip.count
        /\ x.single = chip.single /\ ~x.cip
    BY <1>4 DEF Chips
  <2>3. bus.conn = None \/ bus.conn.in # Completion
    BY <1>3, <1>15 DEF Completing, Completion
  <2> HIDE DEF x
  <2> QED BY <1>1, <1>8, <2>1, <2>2, <2>3
<1>16. CASE command = "negate ack"
  <2>1. a = Access(c, "Acknowledge") /\ chip.ack
    BY <1>3, <1>16 DEF ExecuteCommand, c, Disciplined
  <2> QED BY <1>1, <1>4, <1>8, <2>1
<1>17. CASE command = "disconnect"
  <2>1. a = Access(c, "Disconnect")
    BY <1>17 DEF ExecuteCommand, c
  <2> QED BY <1>1, <1>4, <1>8, <2>1
<1> QED BY <1>3, <1>10, <1>11, <1>12, <1>13, <1>14, <1>15, <1>16, <1>17 DEF Commands

\* The host reads the status of the controller, which may have a phase to report then.
LEMMA StatusReadStands ==
    ASSUME Standing, Driver, ReadStatusRegister
    PROVE  Standing'
<1> DEFINE a == ReadStatus(chip)
           x == [chip EXCEPT !.irq = FALSE, !.phaseAfter = FALSE]
           request == IF chip.phaseAfter THEN "Phase" ELSE None
<1>1. GuestRuns /\ chip.irq /\ HandleScsiAccess(a, None)
  BY DEF ReadStatusRegister
<1>2. /\ chip \in Chips /\ Quiet(chip, bus) /\ Counted(chip, bus) /\ ~chip.cip /\ Heard(chip, bus)
      /\ ~chip.busy
  BY <1>1, GuestFinds
<1>3. a.chip = x /\ a.request = request /\ a.reset = FALSE
  BY DEF ReadStatus, Access
<1>4. /\ x \in Chips /\ x.busy = chip.busy /\ ~x.irq /\ x.ack = chip.ack /\ x.dma = chip.dma
      /\ x.pioPhase = chip.pioPhase /\ x.input = chip.input /\ x.output = chip.output
      /\ x.aborting = chip.aborting /\ x.remaining = chip.remaining /\ x.count = chip.count
      /\ x.single = chip.single /\ x.attention = chip.attention /\ ~x.cip
  BY <1>2 DEF Chips
<1> HIDE DEF a, x
<1>5. Quiet(x, bus) /\ Counted(x, bus) /\ Heard(x, bus)
  BY <1>2, <1>4, SameTransfer DEF Heard
<1>6. /\ None \in SentBytes \cup {None} /\ None \notin RequestKinds
      /\ request \in (RequestKinds \ {"Timeout"}) \cup {None} /\ request \in {"Phase", None}
  BY NoneIsNothing DEF RequestKinds
<1>7. request # None => Requested(x, bus, [kind |-> request, byte |-> None])
  BY <1>2, <1>4, <1>6, NoneIsNothing DEF Requested, RequestKinds
<1> HIDE DEF request
<1>8. /\ a.reset \in BOOLEAN /\ (request # None => ~a.reset)
      /\ bus = (IF a.reset THEN CancelTransaction(bus) ELSE bus)
      /\ x = a.chip /\ request = a.request
      /\ request = None => ~x.cip /\ ~x.busy /\ (a.reset \/ ~chip.busy)
      /\ request # None /\ x.busy =>
           \/ request \in {"Select", "Combined", "Transfer"}
           \/ ~x.cip /\ chip.busy /\ x.pioPhase = chip.pioPhase
  BY <1>2, <1>3, <1>4
<1> QED BY <1>1, <1>4, <1>5, <1>6, <1>7, <1>8, AccessStands

\* The host takes the byte of an input transfer.
LEMMA DataReadStands ==
    ASSUME Standing, Driver, ReadDataRegister
    PROVE  Standing'
<1> DEFINE a == ReadData(chip)
           x == [chip EXCEPT !.input = None]
<1>1. GuestRuns /\ chip.input # None /\ HandleScsiAccess(a, None)
  BY DEF ReadDataRegister
<1>2. /\ chip \in Chips /\ Quiet(chip, bus) /\ Counted(chip, bus) /\ ~chip.cip /\ Heard(chip, bus)
  BY <1>1, GuestFinds
<1>3. a.chip = x /\ a.request = "Pump" /\ a.reset = FALSE
  BY <1>1 DEF ReadData, Access
<1>4. chip.pioPhase # None /\ chip.busy /\ ~ByDma(chip) /\ ~chip.output
  BY <1>1, <1>2, ChipTyped DEF Quiet, Counted
<1>5. /\ x \in Chips /\ x.busy = chip.busy /\ x.irq = chip.irq /\ x.ack = chip.ack /\ x.dma = chip.dma
      /\ x.pioPhase = chip.pioPhase /\ x.input = None /\ x.output = chip.output
      /\ x.aborting = chip.aborting /\ x.remaining = chip.remaining /\ x.count = chip.count
      /\ x.single = chip.single /\ x.attention = chip.attention /\ ~x.cip
  BY <1>2 DEF Chips
<1> HIDE DEF a, x
<1>6. Quiet(x, bus) /\ Counted(x, bus) /\ Heard(x, bus) /\ ~ByDma(x)
  BY <1>2, <1>4, <1>5 DEF Quiet, Counted, Heard, ByDma
<1>7. /\ None \in SentBytes \cup {None} /\ "Pump" # None
      /\ "Pump" \in (RequestKinds \ {"Timeout"}) \cup {None}
  BY NoneIsNothing DEF RequestKinds
<1>8. Requested(x, bus, [kind |-> "Pump", byte |-> None])
  BY <1>4, <1>5, <1>6 DEF Requested
<1>9. /\ a.reset \in BOOLEAN /\ ~a.reset
      /\ bus = (IF a.reset THEN CancelTransaction(bus) ELSE bus)
      /\ x = a.chip /\ "Pump" = a.request
      /\ ~x.cip /\ chip.busy /\ x.pioPhase = chip.pioPhase
  BY <1>3, <1>4, <1>5
<1> QED BY <1>1, <1>5, <1>6, <1>7, <1>8, <1>9, AccessStands

\* The host gives the byte of an output transfer.
LEMMA DataWriteStands ==
    ASSUME Standing, Driver, WriteDataRegister
    PROVE  Standing'
<1>1. PICK byte \in HostBytes : GuestRuns /\ chip.output /\ HandleScsiAccess(WriteData(chip), byte)
  BY DEF WriteDataRegister
<1> DEFINE a == WriteData(chip)
           x == [chip EXCEPT !.output = FALSE]
<1>2. /\ chip \in Chips /\ bus \in Buses /\ Quiet(chip, bus) /\ Counted(chip, bus) /\ ~chip.cip
      /\ Heard(chip, bus) /\ guest \in Guests
  BY <1>1, GuestFinds
<1>3. a.chip = x /\ a.request = "Output" /\ a.reset = FALSE
  BY <1>1 DEF WriteData, Access
<1>4. /\ chip.pioPhase # None /\ chip.busy /\ chip.input = None /\ chip.pioPhase = BusPhase(bus)
      /\ ~Input(chip.pioPhase) /\ chip.remaining # 0 /\ ~ByDma(chip)
  BY <1>1, <1>2, ChipTyped DEF Quiet, Counted
<1>5. /\ x \in Chips /\ x.busy = chip.busy /\ x.irq = chip.irq /\ x.ack = chip.ack /\ x.dma = chip.dma
      /\ x.pioPhase = chip.pioPhase /\ x.input = None /\ ~x.output
      /\ x.aborting = chip.aborting /\ x.remaining = chip.remaining /\ x.count = chip.count
      /\ x.single = chip.single /\ x.attention = chip.attention /\ ~x.cip
  BY <1>2, <1>4 DEF Chips
<1> HIDE DEF a, x
<1>6. Quiet(x, bus) /\ Counted(x, bus) /\ Heard(x, bus) /\ ~ByDma(x)
  BY <1>2, <1>4, <1>5 DEF Quiet, Counted, Heard, ByDma
<1>7. chip.pioPhase \in {"MessageOut", "Command", "DataOut"}
  BY <1>2, <1>4, ChipTyped DEF Input, Phases
<1>8. guest.messages \subseteq OutMessages /\ guest.opcodes \subseteq Opcodes
  BY <1>2, BoardConstants
<1>9. /\ byte \in SentBytes \cup {None}
      /\ BusPhase(bus) = "MessageOut" => byte \in OutMessages
      /\ BusPhase(bus) = "Command" /\ bus.conn.cdb = 0 => byte[2] \in Opcodes
  <2>1. CASE BusPhase(bus) = "MessageOut"
    BY <1>1, <1>8, <2>1 DEF HostBytes, SentBytes
  <2>2. CASE BusPhase(bus) = "Command" /\ bus.conn.cdb = 0
    <3>1. PICK o \in guest.opcodes : byte = <<"opcode", o>>
      BY <1>1, <2>2 DEF HostBytes
    <3>2. byte[2] = o /\ o \in Opcodes
      BY <1>8, <3>1
    <3> QED BY <2>2, <3>1, <3>2 DEF SentBytes
  <2>3. CASE BusPhase(bus) # "MessageOut" /\ ~(BusPhase(bus) = "Command" /\ bus.conn.cdb = 0)
    BY <1>1, <2>3 DEF HostBytes, SentBytes
  <2> QED BY <2>1, <2>2, <2>3
<1>10. "Output" # None /\ "Output" \in (RequestKinds \ {"Timeout"}) \cup {None}
  BY NoneIsNothing DEF RequestKinds
<1>11. Requested(x, bus, [kind |-> "Output", byte |-> byte])
  BY <1>4, <1>5, <1>6, <1>7, <1>9 DEF Requested
<1>12. /\ a.reset \in BOOLEAN /\ ~a.reset
       /\ bus = (IF a.reset THEN CancelTransaction(bus) ELSE bus)
       /\ x = a.chip /\ "Output" = a.request
       /\ ~x.cip /\ chip.busy /\ x.pioPhase = chip.pioPhase /\ HandleScsiAccess(a, byte)
  BY <1>1, <1>3, <1>4, <1>5 DEF a
<1> QED BY <1>1, <1>5, <1>6, <1>9, <1>10, <1>11, <1>12, AccessStands

\* The programming registers.
LEMMA RegisterStands ==
    ASSUME Standing, Driver, WriteRegister
    PROVE  Standing'
<1>0. PICK register \in guest.registers : \E v \in Programmed(register) :
        /\ GuestRuns
        /\ guest.careful => ~chip.busy /\ ~chip.irq
        /\ HandleScsiAccess(Access([chip EXCEPT ![register] = v], None), None)
  BY DEF WriteRegister
<1>1. PICK v \in Programmed(register) :
        /\ GuestRuns
        /\ guest.careful => ~chip.busy /\ ~chip.irq
        /\ HandleScsiAccess(Access([chip EXCEPT ![register] = v], None), None)
  BY <1>0
<1> DEFINE x == [chip EXCEPT ![register] = v]
           a == Access(x, None)
<1>2. /\ chip \in Chips /\ Quiet(chip, bus) /\ Counted(chip, bus) /\ ~chip.cip /\ Heard(chip, bus)
      /\ guest \in Guests /\ ~chip.busy
  BY <1>1, GuestFinds
<1>3. a.chip = x /\ a.request = None /\ a.reset = FALSE
  BY DEF Access
<1>4. /\ register \in {"dma", "timeout", "data", "opcode", "lun", "count", "dest"}
      /\ guest.dma \subseteq BOOLEAN /\ guest.opcodes \subseteq Opcodes /\ guest.destinations \subseteq Nat
  BY <1>1, <1>2, BoardConstants
<1>5. /\ x \in Chips /\ x.busy = chip.busy /\ x.irq = chip.irq /\ x.ack = chip.ack
      /\ x.pioPhase = chip.pioPhase /\ x.input = chip.input /\ x.output = chip.output
      /\ x.aborting = chip.aborting /\ x.attention = chip.attention /\ ~x.cip
  <2>1. CASE register = "dma"
    <3>1. v \in BOOLEAN
      BY <1>1, <1>4, <2>1 DEF Programmed
    <3> QED BY <1>2, <2>1, <3>1 DEF Chips
  <2>2. CASE register = "timeout"
    <3>1. v \in BOOLEAN
      BY <1>1, <2>2 DEF Programmed
    <3> QED BY <1>2, <2>2, <3>1 DEF Chips
  <2>3. CASE register = "data"
    <3>1. v \in BOOLEAN
      BY <1>1, <2>3 DEF Programmed
    <3> QED BY <1>2, <2>3, <3>1 DEF Chips
  <2>4. CASE register = "opcode"
    <3>1. v \in KnownOpcodes
      BY <1>1, <1>4, <2>4, ScsiConstants DEF Programmed
    <3> QED BY <1>2, <2>4, <3>1 DEF Chips
  <2>5. CASE register = "lun"
    <3>1. v \in Luns
      BY <1>1, <2>5 DEF Programmed, Luns
    <3> QED BY <1>2, <2>5, <3>1 DEF Chips
  <2>6. CASE register = "count"
    <3>1. v \in 0..TRANSFER_COUNT_MAX
      BY <1>1, <2>6 DEF Programmed
    <3> QED BY <1>2, <2>6, <3>1 DEF Chips
  <2>7. CASE register = "dest"
    <3>1. v \in Nat
      BY <1>1, <1>4, <2>7 DEF Programmed
    <3> QED BY <1>2, <2>7, <3>1 DEF Chips
  <2> QED BY <1>4, <2>1, <2>2, <2>3, <2>4, <2>5, <2>6, <2>7
<1> HIDE DEF x, a
<1>6. chip.pioPhase = None /\ chip.input = None /\ ~chip.output /\ ~chip.aborting
  BY <1>2 DEF Quiet
<1>7. ~ByDma(x) /\ x.pioPhase # "MessageIn"
  BY <1>5, <1>6, NoneIsNothing DEF ByDma, DataPhases, Phases
<1>8. Quiet(x, bus) /\ Counted(x, bus) /\ Heard(x, bus)
  BY <1>2, <1>5, <1>6, <1>7 DEF Quiet, Counted, Heard
<1>9. None \in SentBytes \cup {None} /\ None \in (RequestKinds \ {"Timeout"}) \cup {None}
  OBVIOUS
<1>10. /\ a.reset \in BOOLEAN /\ bus = (IF a.reset THEN CancelTransaction(bus) ELSE bus)
       /\ x = a.chip /\ None = a.request /\ HandleScsiAccess(a, None)
       /\ ~x.cip /\ ~x.busy /\ ~chip.busy
  BY <1>1, <1>2, <1>3, <1>5 DEF a, x
<1> QED BY <1>1, <1>5, <1>8, <1>9, <1>10, AccessStands

\* The registers of HPC1.
LEMMA ChannelRegistersStand ==
    ASSUME Standing, Driver, WriteHpcControl \/ WriteHpcCount \/ WriteHpcBuffer \/ WriteHpcDescriptor
    PROVE  Standing'
<1>1. GuestRuns
  BY DEF WriteHpcControl, WriteHpcCount, WriteHpcBuffer, WriteHpcDescriptor
<1>2. hpc \in Channels /\ guest \in Guests
  BY <1>1, GuestFinds
<1>3. NewChannel \in Channels /\ 0 \in 0..BYTE_COUNT_MAX
  BY BoardConstants DEF NewChannel, Channels
<1>4. ASSUME NEW h \in Channels, NEW reset \in BOOLEAN, HandleHpc1Outputs(h, reset)
      PROVE  Standing'
  BY <1>1, <1>4, OutputsStand
<1>5. CASE WriteHpcControl
  <2>1. PICK bits \in guest.controls :
          HandleHpc1Outputs(WriteControl(hpc, bits), "reset" \in bits /\ ~hpc.reset)
    BY <1>5 DEF WriteHpcControl
  <2> DEFINE rising == "reset" \in bits /\ ~hpc.reset
             old == IF rising THEN NewChannel ELSE hpc
             base == [old EXCEPT !.reset = "reset" \in bits, !.toMemory = "to memory" \in bits,
                                 !.start = "start" \in bits]
             armed == IF hpc.start THEN base ELSE [base EXCEPT !.fetch = ~base.loaded]
  <2>2. old \in Channels
    BY <1>2, <1>3
  <2> HIDE DEF old
  <2>3. base \in Channels
    <3>1. \A p, q, s \in BOOLEAN : [old EXCEPT !.reset = p, !.toMemory = q, !.start = s] \in Channels
      BY <2>2 DEF Channels
    <3>2. ("reset" \in bits) \in BOOLEAN /\ ("to memory" \in bits) \in BOOLEAN /\ ("start" \in bits) \in BOOLEAN
      OBVIOUS
    <3> QED BY <3>1, <3>2
  <2> HIDE DEF base
  <2>4. armed \in Channels
    BY <2>3 DEF Channels
  <2>5. WriteControl(hpc, bits) =
          IF "reset" \in bits \/ "start" \notin bits \/ "flush" \in bits THEN StopDma(base) ELSE armed
    BY DEF WriteControl, base, old
  <2> HIDE DEF armed
  <2>6. WriteControl(hpc, bits) \in Channels /\ rising \in BOOLEAN
    BY <2>3, <2>4, <2>5, ChannelStops
  <2> QED BY <1>4, <2>1, <2>6
<1>6. CASE WriteHpcCount
  <2>1. PICK n \in guest.counts : HandleHpc1Outputs([hpc EXCEPT !.count = n], FALSE)
    BY <1>6 DEF WriteHpcCount
  <2>2. n \in 0..BYTE_COUNT_MAX
    BY <1>2, <2>1, BoardConstants
  <2>3. [hpc EXCEPT !.count = n] \in Channels
    BY <1>2, <2>2 DEF Channels
  <2> QED BY <1>4, <2>1, <2>3
<1>7. CASE WriteHpcBuffer
  <2>1. PICK end \in BOOLEAN : HandleHpc1Outputs([hpc EXCEPT !.end = end], FALSE)
    BY <1>7 DEF WriteHpcBuffer
  <2>2. [hpc EXCEPT !.end = end] \in Channels
    BY <1>2 DEF Channels
  <2> QED BY <1>4, <2>1, <2>2
<1>8. CASE WriteHpcDescriptor
  <2>1. HandleHpc1Outputs([hpc EXCEPT !.loaded = FALSE, !.fetch = hpc.start], FALSE)
    BY <1>8 DEF WriteHpcDescriptor
  <2>2. [hpc EXCEPT !.loaded = FALSE, !.fetch = hpc.start] \in Channels
    BY <1>2 DEF Channels
  <2> QED BY <1>4, <2>1, <2>2
<1> QED BY <1>5, <1>6, <1>7, <1>8

\* Every step of the system keeps the invariant.
LEMMA NextStands ==
    ASSUME Standing, Driver, [Next]_vars
    PROVE  Standing'
<1>1. CASE UNCHANGED vars
  BY <1>1 DEF vars, Standing, Typed, TypeOK, Agreement, Pending, Moving, Waiting, NoStalledDma
<1>2. CASE ProcessScsiEvent
  BY <1>2, EventStands
<1>3. CASE FetchDescriptor
  BY <1>3, FetchStands
<1>4. CASE TransferWindow
  BY <1>4, WindowStands
<1>5. CASE WriteCommand
  BY <1>5, CommandStands
<1>6. CASE ReadStatusRegister
  BY <1>6, StatusReadStands
<1>7. CASE ReadDataRegister
  BY <1>7, DataReadStands
<1>8. CASE WriteDataRegister
  BY <1>8, DataWriteStands
<1>9. CASE WriteRegister
  BY <1>9, RegisterStands
<1>10. CASE WriteHpcControl \/ WriteHpcCount \/ WriteHpcBuffer \/ WriteHpcDescriptor
  BY <1>10, ChannelRegistersStand
<1>11. CASE BoardReset
  BY <1>11, ResetStands
<1>12. CASE ChangeMedium
  BY <1>12, MediumStands
<1> QED BY <1>1, <1>2, <1>3, <1>4, <1>5, <1>6, <1>7, <1>8, <1>9, <1>10, <1>11, <1>12 DEF Next

-----------------------------------------------------------------------------
(* What a step may do.                                                      *)

\* A window is moved by nothing but the loop, one chunk at a time.
LEMMA WindowAccounts ==
    ASSUME Standing, [Next]_vars
    PROVE  \/ loop # None /\ loop.left # 0 /\ HasWindow(hpc) => Accounted
           \/ UNCHANGED vars
<1> SUFFICES ASSUME Next, loop # None, HasWindow(hpc) PROVE Accounted
  OBVIOUS
<1>1. ~GuestRuns
  BY DEF GuestRuns
<1>2. /\ ~ProcessScsiEvent /\ ~FetchDescriptor /\ ~BoardReset
      /\ ~WriteCommand /\ ~ReadStatusRegister /\ ~ReadDataRegister /\ ~WriteDataRegister /\ ~WriteRegister
      /\ ~WriteHpcControl /\ ~WriteHpcCount /\ ~WriteHpcBuffer /\ ~WriteHpcDescriptor /\ ~ChangeMedium
  BY <1>1 DEF ProcessScsiEvent, FetchDescriptor, BoardReset, WriteCommand, ReadStatusRegister,
              ReadDataRegister, WriteDataRegister, WriteRegister, WriteHpcControl, WriteHpcCount,
              WriteHpcBuffer, WriteHpcDescriptor, ChangeMedium
<1>3. TransferWindow
  BY <1>2 DEF Next
<1> QED BY <1>3, WindowStands

\* A command replaces the status by that of a reset, or clears the interrupt, or keeps both.
LEMMA CommandKeepsStatus ==
    ASSUME NEW c \in Chips, NEW command \in Commands
    PROVE  LET x == ExecuteCommand(c, command).chip
           IN x.irq => x.status \in {c.status, Code("reset")}
<1> DEFINE a == ExecuteCommand(c, command)
           d == [c EXCEPT !.phaseAfter = FALSE]
           started == [d EXCEPT !.cip = TRUE, !.busy = TRUE, !.irq = FALSE]
           x == a.chip
<1>1. d \in Chips /\ d.status = c.status
  BY DEF Chips
<1> HIDE DEF d
<1>2. started \in Chips /\ ~started.irq
  BY <1>1, ZenonT(60) DEF Chips
<1> HIDE DEF started
<1>3. CASE command = "reset"
  <2>1. a = [Access(SoftwareReset(d), None) EXCEPT !.reset = TRUE]
    BY <1>3 DEF ExecuteCommand, d
  <2>2. x = NewChip
    BY <2>1 DEF Access, SoftwareReset
  <2> QED BY <2>2 DEF NewChip
<1>4. CASE command \in {"combined", "combined with attention"}
  <2> DEFINE y == [started EXCEPT !.combined = TRUE, !.attention = command = "combined with attention"]
  <2>1. a = Access(y, "Combined")
    BY <1>4 DEF ExecuteCommand, d, started
  <2>2. ~y.irq
    BY <1>2 DEF Chips
  <2> HIDE DEF y, a
  <2>3. a.chip = y
    BY <2>1, AccessFields
  <2> QED BY <2>2, <2>3 DEF a
<1>5. CASE command \in {"select", "select with attention"}
  <2> DEFINE z == ClearTransferState(d)
             y == [z EXCEPT !.cip = TRUE, !.busy = TRUE, !.irq = FALSE,
                            !.attention = command = "select with attention"]
  <2>1. a = Access(y, "Select")
    BY <1>5 DEF ExecuteCommand, d
  <2>2. z \in Chips
    BY <1>1, Cleared
  <2> HIDE DEF z
  <2>3. ~y.irq
    BY <2>2 DEF Chips
  <2> HIDE DEF y, a
  <2>4. a.chip = y
    BY <2>1, AccessFields
  <2> QED BY <2>3, <2>4 DEF a
<1>6. CASE command \in {"transfer", "transfer byte"}
  <2> DEFINE s == command = "transfer byte" \/ d.count = 0
             y == [started EXCEPT !.combined = FALSE, !.input = None, !.output = FALSE, !.single = s]
  <2>1. a = Access(y, "Transfer")
    BY <1>6 DEF ExecuteCommand, d, started
  <2> HIDE DEF s
  <2>2. ~y.irq
    BY <1>2 DEF Chips
  <2> HIDE DEF y, a
  <2>3. a.chip = y
    BY <2>1, AccessFields
  <2> QED BY <2>2, <2>3 DEF a
<1>7. CASE command = "attention"
  <2> DEFINE y == [d EXCEPT !.attention = TRUE]
  <2>1. a = Access(y, "Attention")
    BY <1>7 DEF ExecuteCommand, d
  <2>2. y.status = c.status
    BY <1>1 DEF Chips
  <2> HIDE DEF y, a
  <2>3. a.chip = y
    BY <2>1, AccessFields
  <2> QED BY <2>2, <2>3 DEF a
<1>8. CASE command \in {"abort", "negate ack", "disconnect"}
  <2>1. PICK request : a = Access(d, request)
    BY <1>8 DEF ExecuteCommand, d
  <2> HIDE DEF a
  <2>2. a.chip = d
    BY <2>1, AccessFields
  <2> QED BY <1>1, <2>2 DEF a
<1> QED BY <1>3, <1>4, <1>5, <1>6, <1>7, <1>8 DEF Commands

\* An access of the guest, too.
LEMMA StatusStands ==
    ASSUME Standing, Driver, [Next]_vars, chip.irq, chip'.irq, chip'.status # chip.status
    PROVE  \/ chip'.status = Code("reset")
           \/ pend # None /\ pend.kind \in {"Abort", "Acknowledge"}
           \/ pend # None /\ pend.kind = "Attention" /\ bus.conn = None
<1>1. chip \in Chips /\ guest \in Guests
  BY DEF Standing, Typed, TypeOK
<1>2. loop = None
  <2>1. SUFFICES ASSUME loop # None PROVE FALSE
    OBVIOUS
  <2>2. Quiet(chip, bus) /\ chip.pioPhase \in DataPhases
    BY <2>1, LoopWindowing DEF Windowing, Settled, ByDma
  <2>3. chip.pioPhase # None
    BY <2>2, NoneIsNothing DEF DataPhases, Phases
  <2> QED BY <2>2, <2>3 DEF Quiet
<1>3. ~FetchDescriptor /\ ~TransferWindow
  BY <1>2 DEF FetchDescriptor, TransferWindow, Looping
<1>4. Next
  BY DEF vars
<1>5. CASE ProcessScsiEvent
  BY <1>5, EventStands DEF ProcessScsiEvent, Standing, Typed, TypeOK
<1>6. CASE WriteCommand
  <2>1. PICK command \in guest.commands : HandleScsiAccess(ExecuteCommand(chip, command), None)
    BY <1>6 DEF WriteCommand
  <2>2. command \in Commands
    BY <1>1, <2>1, BoardConstants
  <2>3. chip' = ExecuteCommand(chip, command).chip
    BY <2>1 DEF HandleScsiAccess
  <2> QED BY <1>1, <2>2, <2>3, CommandKeepsStatus
<1>7. ~ReadStatusRegister
  <2>1. SUFFICES ASSUME ReadStatusRegister PROVE FALSE
    OBVIOUS
  <2>2. chip' = [chip EXCEPT !.irq = FALSE, !.phaseAfter = FALSE]
    BY <2>1 DEF ReadStatusRegister, HandleScsiAccess, ReadStatus, Access
  <2> QED BY <1>1, <2>2 DEF Chips
<1>8. ~ReadDataRegister
  <2>1. SUFFICES ASSUME ReadDataRegister PROVE FALSE
    OBVIOUS
  <2>2. chip' = [chip EXCEPT !.input = None]
    BY <2>1 DEF ReadDataRegister, HandleScsiAccess, ReadData, Access
  <2> QED BY <1>1, <2>2 DEF Chips
<1>9. ~WriteDataRegister
  <2>1. SUFFICES ASSUME WriteDataRegister PROVE FALSE
    OBVIOUS
  <2>2. chip' = [chip EXCEPT !.output = FALSE]
    BY <2>1 DEF WriteDataRegister, HandleScsiAccess, WriteData, Access
  <2> QED BY <1>1, <2>2 DEF Chips
<1>10. ~WriteRegister
  <2>1. SUFFICES ASSUME WriteRegister PROVE FALSE
    OBVIOUS
  <2>2. PICK register \in guest.registers : \E v \in Programmed(register) :
          HandleScsiAccess(Access([chip EXCEPT ![register] = v], None), None)
    BY <2>1 DEF WriteRegister
  <2>3. PICK v : chip' = [chip EXCEPT ![register] = v]
    BY <2>2 DEF HandleScsiAccess, Access
  <2>4. register \in {"dma", "timeout", "data", "opcode", "lun", "count", "dest"}
    BY <1>1, <2>2, BoardConstants
  <2> QED BY <1>1, <2>3, <2>4 DEF Chips
<1>11. CASE WriteHpcControl \/ WriteHpcCount \/ WriteHpcBuffer \/ WriteHpcDescriptor
  <2>1. PICK h, reset : HandleHpc1Outputs(h, reset)
    BY <1>11 DEF WriteHpcControl, WriteHpcCount, WriteHpcBuffer, WriteHpcDescriptor
  <2>2. chip' = IF reset THEN Reset(chip) ELSE chip
    BY <2>1 DEF HandleHpc1Outputs
  <2> QED BY <1>1, <2>2, Resets
<1>12. CASE BoardReset
  BY <1>1, <1>12, Resets DEF BoardReset
<1>13. ~ChangeMedium
  BY DEF ChangeMedium
<1> QED BY <1>3, <1>4, <1>5, <1>6, <1>7, <1>8, <1>9, <1>10, <1>11, <1>12, <1>13 DEF Next

-----------------------------------------------------------------------------
(* The theorems.                                                            *)

\* No step exchanges the guest.
LEMMA GuestStays ==
    ASSUME [Next]_vars
    PROVE  guest' = guest
<1>1. CASE UNCHANGED vars
  BY <1>1 DEF vars
<1>2. CASE ProcessScsiEvent
  BY <1>2 DEF ProcessScsiEvent
<1>3. CASE FetchDescriptor
  BY <1>3 DEF FetchDescriptor, Looping
<1>4. CASE TransferWindow
  BY <1>4 DEF TransferWindow, Looping
<1>5. CASE WriteCommand
  BY <1>5 DEF WriteCommand, HandleScsiAccess
<1>6. CASE ReadStatusRegister
  BY <1>6 DEF ReadStatusRegister, HandleScsiAccess
<1>7. CASE ReadDataRegister
  BY <1>7 DEF ReadDataRegister, HandleScsiAccess
<1>8. CASE WriteDataRegister
  BY <1>8 DEF WriteDataRegister, HandleScsiAccess
<1>9. CASE WriteRegister
  BY <1>9 DEF WriteRegister, HandleScsiAccess
<1>10. CASE WriteHpcControl
  BY <1>10 DEF WriteHpcControl, HandleHpc1Outputs
<1>11. CASE WriteHpcCount
  BY <1>11 DEF WriteHpcCount, HandleHpc1Outputs
<1>12. CASE WriteHpcBuffer
  BY <1>12 DEF WriteHpcBuffer, HandleHpc1Outputs
<1>13. CASE WriteHpcDescriptor
  BY <1>13 DEF WriteHpcDescriptor, HandleHpc1Outputs
<1>14. CASE BoardReset
  BY <1>14 DEF BoardReset
<1>15. CASE ChangeMedium
  BY <1>15 DEF ChangeMedium
<1> QED BY <1>1, <1>2, <1>3, <1>4, <1>5, <1>6, <1>7, <1>8, <1>9, <1>10, <1>11, <1>12, <1>13,
           <1>14, <1>15 DEF Next

\* While a driver runs, the controller, the channel, the bus and the request that is due
\* always agree, between any of its accesses, events, windows, resets and exchanges of
\* media (wd33c93b.rs, wiring.rs:228-430).
THEOREM TransferStands == Spec /\ Driver => [](Standing /\ Driver)
<1>1. Init => Standing
  BY InitStands
<1>2. Standing /\ Driver /\ [Next]_vars => Standing' /\ Driver'
  BY NextStands, GuestStays DEF Driver
<1> QED BY <1>1, <1>2, PTL DEF Spec

\* While a driver runs, the counters of the controller never underflow, the assertions of
\* the DMA loop hold, the target is in a data phase only with its transaction, and a
\* snapshot of the bus can be restored (wd33c93b.rs:606-642, wiring.rs:400-405,
\* scsi.rs:770-880).  It says nothing of other guests, for which the assertion may fail.
THEOREM TransfersAreSound == Spec /\ Driver => []TransferSound
<1>1. Standing => TransferSound
  BY StandingSound
<1> QED BY <1>1, TransferStands, PTL

\* A busy controller of a driver waits for something the guest can give, and a transfer that
\* waits for DMA never waits while HPC1 has a window (wd33c93b.rs:606-611, wiring.rs:76).
THEOREM NobodyStalls == Spec /\ Driver => []NothingStalled
<1>1. Standing => NothingStalled
  BY StandingSound
<1> QED BY <1>1, TransferStands, PTL

\* While a driver runs, each window takes the same bytes off the descriptor, the controller
\* and the transaction, and a status the guest has not read is replaced only by what may
\* replace it (wiring.rs:258-398, wd33c93b.rs:556-562).
THEOREM StepsAreAccounted == Spec /\ Driver => StepsAccounted
<1>1. Standing /\ [Next]_vars =>
        [loop # None /\ loop.left # 0 /\ HasWindow(hpc) =>
           LET taken == hpc.count - hpc'.count
           IN /\ IF chip.single THEN taken <= 1 ELSE chip.count - chip'.count = taken
              /\ bus'.txn # None => bus.txn.remaining - bus'.txn.remaining = taken
              /\ bus'.txn = None => taken \in {0, bus.txn.remaining}]_vars
  BY WindowAccounts DEF Accounted
<1>2. Standing /\ Driver /\ [Next]_vars =>
        [chip.irq /\ chip'.irq /\ chip'.status # chip.status =>
           \/ chip'.status = Code("reset")
           \/ pend # None /\ pend.kind \in {"Abort", "Acknowledge"}
           \/ pend # None /\ pend.kind = "Attention" /\ bus.conn = None]_vars
  BY StatusStands
<1> QED BY <1>1, <1>2, TransferStands, PTL DEF Spec, StepsAccounted, WindowAccounted, StatusKept

==============================================================================
