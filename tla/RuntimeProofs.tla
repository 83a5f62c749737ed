--------------------------- MODULE RuntimeProofs ---------------------------
(***************************************************************************)
(* Proofs about Runtime, for every guest program, interval of checkpoints, *)
(* set of failures and number of machines, sessions and Records.           *)
(*                                                                         *)
(* A Record and its Replay meet in one object: the path of guest states    *)
(* that a Timeline determines, an entry consumed where its position is     *)
(* reached and an instruction executed everywhere else.  A Recording is    *)
(* the end of the path of the entries it has written, a Replay is          *)
(* somewhere on the path of its Record.                                    *)
(***************************************************************************)
EXTENDS Runtime, TLAPS, WellFoundedInduction

-----------------------------------------------------------------------------
(* Induction on natural numbers, for sets.                                 *)

LEMMA LeastNat ==
    ASSUME NEW T, T \subseteq Nat, T # {}
    PROVE  \E x \in T : \A y \in T : x <= y
<1> DEFINE R == OpToRel(<, Nat)
<1>1. IsWellFoundedOn(R, Nat)
  BY NatLessThanWellFounded
<1> HIDE DEF R
<1>2. PICK x \in T : \A y \in T : ~ (<<y, x>> \in R)
  BY <1>1, WFMin
<1>3. \A y \in T : x <= y
  <2>1. SUFFICES ASSUME NEW y \in T, ~ (x <= y) PROVE FALSE
    OBVIOUS
  <2>2. x \in Nat /\ y \in Nat /\ y < x
    BY <2>1
  <2>3. <<y, x>> \in R
    BY <2>2 DEF R, OpToRel
  <2> QED BY <1>2, <2>3
<1> QED BY <1>3

LEMMA SetInduction ==
    ASSUME NEW T, 0 \in T, \A n \in Nat : n \in T => n + 1 \in T
    PROVE  \A n \in Nat : n \in T
<1>1. SUFFICES ASSUME NEW m \in Nat, m \notin T PROVE FALSE
  OBVIOUS
<1> DEFINE U == Nat \ T
<1>2. U \subseteq Nat /\ U # {}
  BY <1>1
<1>3. PICK x \in U : \A y \in U : x <= y
  BY <1>2, LeastNat
<1>4. x \in Nat /\ x # 0
  OBVIOUS
<1>5. x - 1 \in Nat /\ ~ (x <= x - 1) /\ (x - 1) + 1 = x
  BY <1>4
<1>6. x - 1 \in U
  BY <1>5
<1> QED BY <1>3, <1>5, <1>6

-----------------------------------------------------------------------------
(* Paths.                                                                  *)

Positions == [epoch : Nat, completed : Nat]
EntryKinds == {"input", "reset", "checkpoint"}
Entries == [position : Positions, kind : EntryKinds, data : Seq(Events)]

Recorders == [timeline : Seq(Entries), failed : BOOLEAN]

\* What a Timeline determines of a machine, and the entries passed so far.
PathStates == [pos : Positions, cur : Nat, log : Seq(Events), cyc : Nat, rem : Nat]
First == [pos |-> Origin, cur |-> 0, log |-> <<>>, cyc |-> 0, rem |-> 0]

\* The next entry of Timeline t is due in state s, and u is the state after it.
Consumes(t, s, u) ==
    LET e == t[s.cur + 1] IN
    /\ s.cur < Len(t) /\ e.position = s.pos
    /\ \/ /\ e.kind = "input" /\ e.data[1] \in Events
          /\ ~ (e.data[1][1] = "frame" /\ s.cyc % 2 = 1)
          /\ u = [pos |-> s.pos, cur |-> s.cur + 1, log |-> Append(s.log, e.data[1]),
                  cyc |-> s.cyc, rem |-> s.rem]
       \/ /\ e.kind = "reset" /\ s.pos.epoch # U64_MAX
          /\ u = [pos |-> [epoch |-> s.pos.epoch + 1, completed |-> 0], cur |-> s.cur + 1,
                  log |-> Append(s.log, <<"reset", 0>>), cyc |-> 0, rem |-> 0]
       \/ /\ e.kind = "checkpoint" /\ e.data = s.log
          /\ u = [pos |-> s.pos, cur |-> s.cur + 1, log |-> s.log, cyc |-> s.cyc, rem |-> s.rem]

\* The log of an instruction, under which a read may fail unnoted.
Disturbed(log) == {log, Append(log, <<"read_error", 0>>)}

\* No entry is due, and u is the state after one instruction.
Executes(t, s, u) ==
    /\ s.cur < Len(t) => t[s.cur + 1].position # s.pos
    /\ s.cyc # FAULT_AT /\ s.pos.completed # U64_MAX
    /\ \E log \in Disturbed(s.log) :
         u = [pos |-> [epoch |-> s.pos.epoch, completed |-> s.pos.completed + 1], cur |-> s.cur,
              log |-> Append(log, <<"cycle", AdvanceCycle(s.rem).elapsed>>),
              cyc |-> s.cyc + 1, rem |-> AdvanceCycle(s.rem).remainder]

Path(t, p, n) ==
    /\ n \in Nat /\ t \in Seq(Entries) /\ p[0] = First
    /\ \A i \in 0 .. n : p[i] \in PathStates
    /\ \A i \in 0 .. n - 1 : Consumes(t, p[i], p[i + 1]) \/ Executes(t, p[i], p[i + 1])

\* s is the end of a path of t.
OnPath(t, s) == \E n \in Nat : \E p : Path(t, p, n) /\ p[n] = s

Prefix(a, b) == Len(a) <= Len(b) /\ \A i \in 1 .. Len(a) : a[i] = b[i]

\* u is later on a path than s.
Later(s, u) ==
    /\ s.cur <= u.cur /\ ~Before(u.pos, s.pos) /\ Prefix(s.log, u.log)
    /\ Before(s.pos, u.pos) \/ s.cur < u.cur

LEMMA TickType ==
    ASSUME NEW rem \in Nat
    PROVE  AdvanceCycle(rem).elapsed \in Nat /\ AdvanceCycle(rem).remainder \in Nat
<1>1. /\ WholeAttosecondsPerCycle \in Nat /\ RemainderPerCycle \in 0 .. FREQUENCY_HZ - 1
      /\ FREQUENCY_HZ \in Nat \ {0}
  BY MachineConstants DEF WholeAttosecondsPerCycle, RemainderPerCycle
<1>2. CASE rem + RemainderPerCycle >= FREQUENCY_HZ
  <2>1. AdvanceCycle(rem) = [remainder |-> rem + RemainderPerCycle - 1 * FREQUENCY_HZ,
                             elapsed |-> WholeAttosecondsPerCycle + 1]
    BY <1>1, <1>2 DEF AdvanceCycle
  <2> QED BY <1>1, <1>2, <2>1
<1>3. CASE ~ (rem + RemainderPerCycle >= FREQUENCY_HZ)
  <2>1. AdvanceCycle(rem) = [remainder |-> rem + RemainderPerCycle - 0 * FREQUENCY_HZ,
                             elapsed |-> WholeAttosecondsPerCycle + 0]
    BY <1>1, <1>3 DEF AdvanceCycle
  <2> QED BY <1>1, <1>3, <2>1
<1> QED BY <1>2, <1>3
LEMMA PositionOrder ==
    \A a, b, c \in Positions :
        /\ ~Before(a, a)
        /\ Before(a, b) \/ Before(b, a) \/ a = b
        /\ Before(a, b) => ~Before(b, a)
        /\ Before(a, b) /\ Before(b, c) => Before(a, c)
        /\ Before(a, b) /\ ~Before(c, b) => Before(a, c)
        /\ ~Before(b, a) /\ Before(b, c) => Before(a, c)
        /\ ~Before(b, a) /\ ~Before(c, b) => ~Before(c, a)
<1>1. SUFFICES ASSUME NEW a \in Positions, NEW b \in Positions, NEW c \in Positions
               PROVE  /\ ~Before(a, a)
                      /\ Before(a, b) \/ Before(b, a) \/ a = b
                      /\ Before(a, b) => ~Before(b, a)
                      /\ Before(a, b) /\ Before(b, c) => Before(a, c)
                      /\ Before(a, b) /\ ~Before(c, b) => Before(a, c)
                      /\ ~Before(b, a) /\ Before(b, c) => Before(a, c)
                      /\ ~Before(b, a) /\ ~Before(c, b) => ~Before(c, a)
  OBVIOUS
<1>2. /\ a.epoch \in Nat /\ a.completed \in Nat /\ b.epoch \in Nat /\ b.completed \in Nat
      /\ c.epoch \in Nat /\ c.completed \in Nat
  BY DEF Positions
<1>3. a.epoch = b.epoch /\ a.completed = b.completed => a = b
  BY DEF Positions
<1> QED BY <1>2, <1>3 DEF Before

LEMMA PrefixOrder ==
    ASSUME NEW a \in Seq(Events), NEW b \in Seq(Events), NEW c \in Seq(Events), NEW e \in Events
    PROVE  Prefix(a, a) /\ Prefix(a, Append(a, e)) /\ (Prefix(a, b) /\ Prefix(b, c) => Prefix(a, c))
<1>1. Prefix(a, a) /\ Prefix(a, Append(a, e))
  BY DEF Prefix
<1>2. ASSUME Prefix(a, b), Prefix(b, c) PROVE Prefix(a, c)
  BY <1>2 DEF Prefix
<1> QED BY <1>1, <1>2

\* A log without a failed read has none in any part of it.
LEMMA CleanAppend ==
    ASSUME NEW log \in Seq(Events), NEW e \in Events
    PROVE  NoReadFailed(Append(log, e)) <=> NoReadFailed(log) /\ e[1] # "read_error"
<1> DEFINE a == Append(log, e)
<1>1. /\ Len(log) \in Nat /\ Len(a) = Len(log) + 1 /\ a[Len(log) + 1] = e
      /\ DOMAIN a = 1 .. Len(log) + 1 /\ DOMAIN log = 1 .. Len(log)
      /\ \A i \in 1 .. Len(log) : a[i] = log[i]
  OBVIOUS
<1> HIDE DEF a
<1>2. ASSUME NoReadFailed(a) PROVE NoReadFailed(log) /\ e[1] # "read_error"
  <2>1. \A i \in 1 .. Len(log) + 1 : a[i][1] # "read_error"
    BY <1>1, <1>2 DEF NoReadFailed
  <2>2. e[1] # "read_error"
    BY <1>1, <2>1
  <2>3. \A i \in 1 .. Len(log) : log[i][1] # "read_error"
    BY <1>1, <2>1
  <2> QED BY <1>1, <2>2, <2>3 DEF NoReadFailed
<1>3. ASSUME NoReadFailed(log), e[1] # "read_error" PROVE NoReadFailed(a)
  <2>1. SUFFICES ASSUME NEW i \in 1 .. Len(log) + 1 PROVE a[i][1] # "read_error"
    BY <1>1 DEF NoReadFailed
  <2>2. CASE i = Len(log) + 1
    BY <1>1, <1>3, <2>2
  <2>3. CASE i \in 1 .. Len(log)
    BY <1>1, <1>3, <2>3 DEF NoReadFailed
  <2> QED BY <1>1, <2>2, <2>3
<1> QED BY <1>2, <1>3 DEF a

LEMMA CleanPrefix ==
    ASSUME NEW a \in Seq(Events), NEW b \in Seq(Events), Prefix(a, b), NoReadFailed(b)
    PROVE  NoReadFailed(a)
<1>1. \A i \in 1 .. Len(b) : b[i][1] # "read_error"
  BY DEF NoReadFailed
<1>2. \A i \in 1 .. Len(a) : a[i] = b[i] /\ i \in 1 .. Len(b)
  BY DEF Prefix
<1>3. \A i \in 1 .. Len(a) : a[i][1] # "read_error"
  BY <1>1, <1>2
<1> QED BY <1>3 DEF NoReadFailed

LEMMA DisturbedLog ==
    ASSUME NEW log \in Seq(Events), NEW l \in Disturbed(log)
    PROVE  l \in Seq(Events) /\ Prefix(log, l) /\ (NoReadFailed(l) => l = log)
<1> DEFINE e == <<"read_error", 0>>
<1>1. e \in Events /\ e[1] = "read_error"
  BY DEF Events, StorageFailures
<1>2. l = log \/ l = Append(log, e)
  BY DEF Disturbed
<1> HIDE DEF e
<1>3. CASE l = log
  BY <1>1, <1>3, PrefixOrder
<1>4. CASE l = Append(log, e)
  BY <1>1, <1>4, PrefixOrder, CleanAppend
<1> QED BY <1>2, <1>3, <1>4

LEMMA LaterTransitive ==
    ASSUME NEW s \in PathStates, NEW u \in PathStates, NEW v \in PathStates,
           Later(s, u), Later(u, v)
    PROVE  Later(s, v)
<1>1. /\ s.pos \in Positions /\ u.pos \in Positions /\ v.pos \in Positions
      /\ s.cur \in Nat /\ u.cur \in Nat /\ v.cur \in Nat
      /\ s.log \in Seq(Events) /\ u.log \in Seq(Events) /\ v.log \in Seq(Events)
  BY DEF PathStates
<1>2. <<"reset", 0>> \in Events
  BY DEF Events
<1>3. Prefix(s.log, v.log)
  BY <1>1, <1>2, PrefixOrder DEF Later
<1>4. ~Before(v.pos, s.pos) /\ (Before(s.pos, u.pos) \/ Before(u.pos, v.pos) => Before(s.pos, v.pos))
  BY <1>1, PositionOrder DEF Later
<1> QED BY <1>1, <1>3, <1>4 DEF Later

LEMMA ConsumesLater ==
    ASSUME NEW t, NEW s \in PathStates, NEW u \in PathStates, Consumes(t, s, u)
    PROVE  Later(s, u) /\ u.cur = s.cur + 1
<1>1. s.pos \in Positions /\ s.cur \in Nat /\ s.log \in Seq(Events) /\ u.pos \in Positions
  BY DEF PathStates
<1>2. u.cur = s.cur + 1
  BY DEF Consumes
<1>3. Prefix(s.log, u.log)
  <2>1. <<"reset", 0>> \in Events
    BY DEF Events
  <2>2. \/ \E e \in Events : u.log = Append(s.log, e)
        \/ u.log = s.log
    BY <2>1, SMTT(30) DEF Consumes
  <2>3. \A e \in Events : Prefix(s.log, s.log) /\ Prefix(s.log, Append(s.log, e))
    BY <1>1, PrefixOrder
  <2> QED BY <2>1, <2>2, <2>3
<1>4. ~Before(u.pos, s.pos)
  <2>1. u.pos = s.pos \/ u.pos = [epoch |-> s.pos.epoch + 1, completed |-> 0]
    BY DEF Consumes
  <2>2. s.pos.epoch \in Nat /\ s.pos.completed \in Nat
    BY <1>1 DEF Positions
  <2> QED BY <2>1, <2>2 DEF Before
<1> QED BY <1>1, <1>2, <1>3, <1>4 DEF Later

LEMMA ExecutesLater ==
    ASSUME NEW t, NEW s \in PathStates, NEW u \in PathStates, Executes(t, s, u)
    PROVE  Later(s, u) /\ Before(s.pos, u.pos) /\ u.cur = s.cur
<1>1. /\ s.pos \in Positions /\ s.cur \in Nat /\ s.log \in Seq(Events) /\ s.rem \in Nat
      /\ s.pos.epoch \in Nat /\ s.pos.completed \in Nat
  BY DEF PathStates, Positions
<1> DEFINE e == <<"cycle", AdvanceCycle(s.rem).elapsed>>
<1>6. PICK log \in Disturbed(s.log) :
        u = [pos |-> [epoch |-> s.pos.epoch, completed |-> s.pos.completed + 1], cur |-> s.cur,
             log |-> Append(log, e), cyc |-> s.cyc + 1, rem |-> AdvanceCycle(s.rem).remainder]
  BY DEF Executes
<1>2. /\ u.cur = s.cur /\ u.pos = [epoch |-> s.pos.epoch, completed |-> s.pos.completed + 1]
      /\ u.log = Append(log, e)
  BY <1>6
<1>3. e \in Events
  BY <1>1, TickType DEF Events
<1> HIDE DEF e
<1>4. Prefix(s.log, u.log)
  <2>1. log \in Seq(Events) /\ Prefix(s.log, log)
    BY <1>1, DisturbedLog
  <2>2. Prefix(log, u.log) /\ u.log \in Seq(Events)
    BY <1>2, <1>3, <2>1, PrefixOrder
  <2> QED BY <1>1, <1>3, <2>1, <2>2, PrefixOrder
<1>5. Before(s.pos, u.pos) /\ ~Before(u.pos, s.pos)
  BY <1>1, <1>2 DEF Before
<1> QED BY <1>1, <1>2, <1>4, <1>5 DEF Later

\* A path only goes forward.
LEMMA PathLater ==
    ASSUME NEW t, NEW p, NEW n, Path(t, p, n)
    PROVE  \A j \in 0 .. n : \A i \in 0 .. j - 1 : Later(p[i], p[j])
<1> DEFINE T == {j \in Nat : j <= n => \A i \in 0 .. j - 1 : Later(p[i], p[j])}
<1>1. n \in Nat /\ (\A i \in 0 .. n : p[i] \in PathStates)
  BY DEF Path
<1>2. 0 \in T
  OBVIOUS
<1>3. ASSUME NEW j \in Nat, j \in T PROVE j + 1 \in T
  <2>1. SUFFICES ASSUME j + 1 <= n, NEW i \in 0 .. j PROVE Later(p[i], p[j + 1])
    OBVIOUS
  <2>2. p[j] \in PathStates /\ p[j + 1] \in PathStates /\ p[i] \in PathStates /\ j \in 0 .. n - 1
    BY <1>1, <2>1
  <2>3. Later(p[j], p[j + 1])
    BY <2>2, ConsumesLater, ExecutesLater DEF Path
  <2>4. CASE i = j
    BY <2>3, <2>4
  <2>5. CASE i # j
    <3>1. Later(p[i], p[j])
      BY <1>1, <1>3, <2>1, <2>5
    <3> QED BY <2>2, <2>3, <3>1, LaterTransitive
  <2> QED BY <2>4, <2>5
<1>4. \A j \in Nat : j \in T
  <2> HIDE DEF T
  <2> QED BY <1>2, <1>3, SetInduction
<1> QED BY <1>1, <1>4
\* A path goes on with an instruction where no entry is due.
LEMMA PathExecutes ==
    ASSUME NEW t, NEW s, OnPath(t, s), NEW u \in PathStates, Executes(t, s, u)
    PROVE  OnPath(t, u)
<1>1. PICK n \in Nat : \E p : Path(t, p, n) /\ p[n] = s
  BY DEF OnPath
<1>2. PICK p : Path(t, p, n) /\ p[n] = s
  BY <1>1
<1> DEFINE q == [i \in 0 .. n + 1 |-> IF i <= n THEN p[i] ELSE u]
<1>3. q[n + 1] = u /\ \A i \in 0 .. n : q[i] = p[i]
  OBVIOUS
<1> HIDE DEF q
<1>4. q[0] = First /\ n + 1 \in Nat /\ t \in Seq(Entries)
  BY <1>2, <1>3 DEF Path
<1>5. \A i \in 0 .. n + 1 : q[i] \in PathStates
  BY <1>2, <1>3 DEF Path
<1>6. ASSUME NEW i \in 0 .. (n + 1) - 1
      PROVE  Consumes(t, q[i], q[i + 1]) \/ Executes(t, q[i], q[i + 1])
  <2>1. CASE i = n
    BY <1>2, <1>3, <2>1
  <2>2. CASE i # n
    <3>1. i \in 0 .. n - 1 /\ q[i] = p[i] /\ q[i + 1] = p[i + 1]
      BY <1>3, <2>2
    <3> QED BY <1>2, <3>1 DEF Path
  <2> QED BY <2>1, <2>2
<1>7. Path(t, q, n + 1)
  BY <1>4, <1>5, <1>6 DEF Path
<1> QED BY <1>3, <1>4, <1>7 DEF OnPath

\* An entry written at the end of a path is consumed there and nowhere before.
LEMMA PathRecords ==
    ASSUME NEW t, NEW s, OnPath(t, s), s.cur = Len(t), NEW e \in Entries, e.position = s.pos,
           NEW u \in PathStates, Consumes(Append(t, e), s, u)
    PROVE  OnPath(Append(t, e), u)
<1>1. PICK n \in Nat : \E p : Path(t, p, n) /\ p[n] = s
  BY DEF OnPath
<1>2. PICK p : Path(t, p, n) /\ p[n] = s
  BY <1>1
<1> DEFINE q == [i \in 0 .. n + 1 |-> IF i <= n THEN p[i] ELSE u]
           x == Append(t, e)
<1>3. q[n + 1] = u /\ \A i \in 0 .. n : q[i] = p[i]
  OBVIOUS
<1> HIDE DEF q
<1>4. /\ x \in Seq(Entries) /\ Len(x) = Len(t) + 1 /\ Len(t) \in Nat /\ t \in Seq(Entries)
      /\ x[Len(t) + 1] = e /\ \A i \in 1 .. Len(t) : x[i] = t[i]
  BY <1>2 DEF Path
<1> HIDE DEF x
<1>5. q[0] = First /\ n + 1 \in Nat
  BY <1>2, <1>3 DEF Path
<1>6. \A i \in 0 .. n + 1 : q[i] \in PathStates
  BY <1>2, <1>3 DEF Path
<1>7. ASSUME NEW i \in 0 .. n - 1
      PROVE  Consumes(x, p[i], p[i + 1]) \/ Executes(x, p[i], p[i + 1])
  <2>1. /\ p[i] \in PathStates /\ p[i + 1] \in PathStates /\ p[n] \in PathStates
        /\ Consumes(t, p[i], p[i + 1]) \/ Executes(t, p[i], p[i + 1])
    BY <1>2 DEF Path
  <2>2. p[i].cur \in Nat /\ p[i].pos \in Positions /\ p[i + 1].pos \in Positions /\ p[n].pos \in Positions
    BY <2>1 DEF PathStates
  <2>3. CASE Consumes(t, p[i], p[i + 1])
    <3>1. p[i].cur < Len(t) /\ p[i].cur < Len(x) /\ x[p[i].cur + 1] = t[p[i].cur + 1]
      <4>1. p[i].cur < Len(t)
        BY <2>3 DEF Consumes
      <4>2. p[i].cur + 1 \in 1 .. Len(t) /\ p[i].cur < Len(x)
        BY <1>4, <2>2, <4>1
      <4> QED BY <1>4, <4>1, <4>2
    <3> QED BY <2>3, <3>1 DEF Consumes
  <2>4. CASE Executes(t, p[i], p[i + 1])
    <3>1. Before(p[i].pos, p[i + 1].pos)
      BY <2>1, <2>4, ExecutesLater
    <3>2. i + 1 = n \/ Later(p[i + 1], p[n])
      BY <1>2, PathLater
    <3>3. Before(p[i].pos, p[n].pos)
      BY <2>2, <3>1, <3>2, PositionOrder DEF Later
    <3>4. e.position # p[i].pos
      BY <1>2, <2>2, <3>3, PositionOrder
    <3>5. p[i].cur < Len(x) => x[p[i].cur + 1].position # p[i].pos
      <4>1. CASE p[i].cur < Len(t)
        <5>1. p[i].cur + 1 \in 1 .. Len(t)
          BY <1>4, <2>2, <4>1
        <5>2. x[p[i].cur + 1] = t[p[i].cur + 1]
          BY <1>4, <5>1
        <5> QED BY <2>4, <4>1, <5>2 DEF Executes
      <4>2. CASE ~ (p[i].cur < Len(t))
        BY <1>4, <2>2, <3>4, <4>2
      <4> QED BY <4>1, <4>2
    <3> QED BY <2>4, <3>5 DEF Executes
  <2> QED BY <2>1, <2>3, <2>4
<1>8. ASSUME NEW i \in 0 .. (n + 1) - 1
      PROVE  Consumes(x, q[i], q[i + 1]) \/ Executes(x, q[i], q[i + 1])
  <2>1. CASE i = n
    BY <1>2, <1>3, <2>1 DEF x
  <2>2. CASE i # n
    <3>1. i \in 0 .. n - 1 /\ q[i] = p[i] /\ q[i + 1] = p[i + 1]
      BY <1>3, <2>2
    <3> QED BY <1>7, <3>1
  <2> QED BY <2>1, <2>2
<1>9. Path(x, q, n + 1)
  BY <1>4, <1>5, <1>6, <1>8 DEF Path
<1> QED BY <1>3, <1>5, <1>9 DEF OnPath, x

LEMMA PathStateOK ==
    ASSUME NEW t, NEW s, OnPath(t, s)
    PROVE  s \in PathStates /\ t \in Seq(Entries)
BY DEF OnPath, Path

LEMMA PathStarts == OnPath(<<>>, First)
<1> DEFINE p == [i \in 0 .. 0 |-> First]
<1>1. First \in PathStates
  BY DEF First, PathStates, Positions, Origin
<1>2. Path(<<>>, p, 0)
  BY <1>1 DEF Path
<1> QED BY <1>2 DEF OnPath

-----------------------------------------------------------------------------
(* Records and what follows them.                                          *)

\* How the last state of its path ends a Record.
EndsRecord(r, s) ==
    /\ s.cur = Len(r.timeline) /\ s.pos = r.position /\ r.digest \in Seq(Events)
    /\ IF r.outcome.kind = "ExecutionError"
       THEN /\ r.digest \in Disturbed(Append(s.log, <<"fault", 0>>))
            /\ s.cyc = FAULT_AT /\ r.outcome.address = FAULT_AT % ADDRESSES
       ELSE r.digest = s.log

RecordPath(r, p, n) == Path(r.timeline, p, n) /\ EndsRecord(r, p[n])

\* A Record this program wrote, and a state on its path.
RecordGood(r) == \E n \in Nat : \E p : RecordPath(r, p, n)
FollowsRecord(r, s) == \E n \in Nat : \E p : \E k \in 0 .. n : RecordPath(r, p, n) /\ p[k] = s

\* No read failed that nobody noted, neither in a log nor in the Record.
Unharmed(log, r) == NoReadFailed(log) /\ NoReadFailed(r.digest)

\* State s is as far as x, and has the history of x where it is unharmed.
Beside(x, s, r) ==
    /\ x.pos = s.pos /\ x.cur = s.cur /\ x.cyc = s.cyc /\ x.rem = s.rem
    /\ Unharmed(s.log, r) => x.log = s.log

TracksRecord(r, s) == \E x \in PathStates : FollowsRecord(r, x) /\ Beside(x, s, r)

LEMMA ClosedRecord ==
    ASSUME NEW r, NEW s, OnPath(r.timeline, s), EndsRecord(r, s)
    PROVE  RecordGood(r)
BY DEF OnPath, RecordGood, RecordPath

LEMMA FollowsFirst ==
    ASSUME NEW r, RecordGood(r)
    PROVE  FollowsRecord(r, First)
<1>1. PICK n \in Nat : \E p : RecordPath(r, p, n)
  BY DEF RecordGood
<1>2. PICK p : RecordPath(r, p, n)
  BY <1>1
<1>3. p[0] = First /\ 0 \in 0 .. n
  BY <1>2 DEF RecordPath, Path
<1> QED BY <1>2, <1>3 DEF FollowsRecord

\* The state that consumed entry i of a path.
LEMMA ConsumedAt ==
    ASSUME NEW t, NEW p, NEW n, Path(t, p, n), NEW i \in 1 .. p[n].cur
    PROVE  \E k \in 0 .. n - 1 : Consumes(t, p[k], p[k + 1]) /\ p[k].cur = i - 1
<1>1. n \in Nat /\ (\A j \in 0 .. n : p[j] \in PathStates /\ p[j].cur \in Nat) /\ p[0].cur = 0
  BY DEF Path, PathStates, First
<1> DEFINE T == {j \in 0 .. n : i <= p[j].cur}
<1>2. T \subseteq Nat /\ n \in T
  BY <1>1
<1>3. PICK x \in T : \A y \in T : x <= y
  BY <1>2, LeastNat
<1>4. x \in 0 .. n /\ i <= p[x].cur /\ x # 0
  BY <1>1
<1>5. x - 1 \in 0 .. n - 1 /\ x - 1 \in 0 .. n /\ (x - 1) + 1 = x
  BY <1>1, <1>4
<1>6. x - 1 \notin T
  BY <1>1, <1>3, <1>4
<1>7. p[x - 1].cur < i
  BY <1>1, <1>5, <1>6
<1>8. Consumes(t, p[x - 1], p[x]) \/ Executes(t, p[x - 1], p[x])
  BY <1>5 DEF Path
<1>9. p[x - 1] \in PathStates /\ p[x] \in PathStates
  BY <1>1, <1>4, <1>5
<1>10. Consumes(t, p[x - 1], p[x]) /\ p[x].cur = p[x - 1].cur + 1
  BY <1>1, <1>4, <1>5, <1>7, <1>8, <1>9, ConsumesLater, ExecutesLater
<1>11. p[x - 1].cur = i - 1
  BY <1>1, <1>4, <1>5, <1>7, <1>10
<1> QED BY <1>5, <1>10, <1>11

LEMMA PathCursor ==
    ASSUME NEW r, NEW p, NEW n \in Nat, RecordPath(r, p, n), NEW k \in 0 .. n
    PROVE  /\ p[k] \in PathStates /\ p[n] \in PathStates /\ (k = n \/ Later(p[k], p[n]))
           /\ p[k].cur <= Len(r.timeline) /\ ~Before(r.position, p[k].pos)
           /\ r.position \in Positions /\ r.timeline \in Seq(Entries)
<1>1. p[k] \in PathStates /\ p[n] \in PathStates /\ r.timeline \in Seq(Entries)
  BY DEF RecordPath, Path
<1>2. k = n \/ Later(p[k], p[n])
  BY PathLater DEF RecordPath
<1>3. p[n].cur = Len(r.timeline) /\ p[n].pos = r.position
  BY DEF RecordPath, EndsRecord
<1>4. p[k].cur \in Nat /\ p[n].cur \in Nat /\ p[k].pos \in Positions /\ p[n].pos \in Positions
  BY <1>1 DEF PathStates
<1>5. ~Before(p[n].pos, p[k].pos) /\ p[k].cur <= p[n].cur
  BY <1>2, <1>4, PositionOrder DEF Later
<1> QED BY <1>1, <1>2, <1>3, <1>4, <1>5
\* What is known of a state on the path of a Record.
LEMMA FollowsOrder ==
    ASSUME NEW r, NEW s, FollowsRecord(r, s)
    PROVE  LET t == r.timeline IN
           /\ s \in PathStates /\ t \in Seq(Entries) /\ r.position \in Positions
           /\ s.cur <= Len(t) /\ ~Before(r.position, s.pos)
           /\ s.cur > 0 => ~Before(s.pos, t[s.cur].position)
           /\ s.cur < Len(t) => /\ ~Before(t[s.cur + 1].position, s.pos)
                                /\ ~Before(r.position, t[s.cur + 1].position)
           /\ r.digest \in Seq(Events) /\ Prefix(s.log, r.digest)
<1>1. PICK n \in Nat : \E p : \E k \in 0 .. n : RecordPath(r, p, n) /\ p[k] = s
  BY DEF FollowsRecord
<1>2. PICK p : \E k \in 0 .. n : RecordPath(r, p, n) /\ p[k] = s
  BY <1>1
<1>3. PICK k \in 0 .. n : RecordPath(r, p, n) /\ p[k] = s
  BY <1>2
<1> DEFINE t == r.timeline
<1>4. /\ s \in PathStates /\ p[n] \in PathStates /\ (k = n \/ Later(s, p[n]))
      /\ s.cur <= Len(t) /\ ~Before(r.position, s.pos) /\ r.position \in Positions
      /\ t \in Seq(Entries) /\ Len(t) \in Nat
  BY <1>3, PathCursor
<1>5. /\ Path(t, p, n) /\ p[n].cur = Len(t) /\ p[n].pos = r.position
  BY <1>3 DEF RecordPath, EndsRecord
<1> HIDE DEF t
<1>6. s.cur \in Nat /\ s.pos \in Positions /\ s.log \in Seq(Events) /\ p[n].log \in Seq(Events)
  BY <1>4 DEF PathStates
<1>7. ASSUME s.cur > 0 PROVE ~Before(s.pos, t[s.cur].position)
  <2>1. s.cur \in 1 .. p[n].cur
    BY <1>4, <1>5, <1>6, <1>7
  <2>2. PICK i \in 0 .. n - 1 : Consumes(t, p[i], p[i + 1]) /\ p[i].cur = s.cur - 1
    BY <1>5, <2>1, ConsumedAt
  <2>3. p[i] \in PathStates /\ p[i + 1] \in PathStates /\ p[i].pos \in Positions /\ p[i].cur \in Nat
    BY <1>5 DEF Path, PathStates
  <2>4. t[s.cur].position = p[i].pos
    BY <1>6, <2>2, <2>3 DEF Consumes
  <2>5. i < k
    <3>1. CASE k < i
      <4>1. Later(p[k], p[i])
        BY <1>5, <3>1, PathLater
      <4> QED BY <1>3, <1>6, <2>2, <2>3, <4>1 DEF Later
    <3>2. CASE k = i
      BY <1>3, <1>6, <2>2, <3>2
    <3> QED BY <3>1, <3>2
  <2>6. Later(p[i], p[k])
    BY <1>5, <2>5, PathLater
  <2> QED BY <1>3, <2>4, <2>6 DEF Later
<1>8. ASSUME s.cur < Len(t)
      PROVE  ~Before(t[s.cur + 1].position, s.pos) /\ ~Before(r.position, t[s.cur + 1].position)
  <2>1. s.cur + 1 \in 1 .. p[n].cur
    BY <1>4, <1>5, <1>6, <1>8
  <2>2. PICK i \in 0 .. n - 1 : Consumes(t, p[i], p[i + 1]) /\ p[i].cur = (s.cur + 1) - 1
    BY <1>5, <2>1, ConsumedAt
  <2>3. /\ p[i] \in PathStates /\ p[i + 1] \in PathStates /\ p[i].pos \in Positions
        /\ p[i].cur \in Nat /\ p[i + 1].cur = s.cur + 1 /\ p[i + 1].cur \in Nat
    <3>1. p[i] \in PathStates /\ p[i + 1] \in PathStates
      BY <1>5 DEF Path
    <3>2. p[i + 1].cur = p[i].cur + 1
      BY <2>2, <3>1, ConsumesLater
    <3> QED BY <1>6, <2>2, <3>1, <3>2, SMTT(30) DEF PathStates
  <2>4. t[s.cur + 1].position = p[i].pos
    BY <1>6, <2>2, <2>3 DEF Consumes
  <2>5. k <= i
    <3>1. CASE i + 1 < k
      <4>1. Later(p[i + 1], p[k])
        BY <1>5, <3>1, PathLater
      <4> QED BY <1>3, <1>6, <2>3, <4>1 DEF Later
    <3>2. CASE i + 1 = k
      BY <1>3, <1>6, <2>3, <3>2
    <3> QED BY <3>1, <3>2
  <2>6. k = i \/ Later(p[k], p[i])
    BY <1>5, <2>5, PathLater
  <2>7. ~Before(p[i].pos, s.pos)
    BY <1>3, <1>6, <2>6, PositionOrder DEF Later
  <2>8. Later(p[i], p[n])
    BY <1>5, PathLater
  <2> QED BY <1>5, <2>4, <2>7, <2>8 DEF Later
<1>9. r.digest \in Seq(Events) /\ Prefix(s.log, r.digest)
  <2>1. <<"fault", 0>> \in Events
    BY DEF Events
  <2> DEFINE l == Append(p[n].log, <<"fault", 0>>)
  <2>2. r.digest \in Seq(Events) /\ (r.digest \in Disturbed(l) \/ r.digest = p[n].log)
    BY <1>3 DEF RecordPath, EndsRecord
  <2>3. Prefix(s.log, p[n].log)
    BY <1>3, <1>4, <1>6, <2>1, PrefixOrder DEF Later
  <2>4. l \in Seq(Events) /\ Prefix(p[n].log, p[n].log) /\ Prefix(p[n].log, l)
    BY <1>6, <2>1, PrefixOrder
  <2> HIDE DEF l
  <2>5. Prefix(p[n].log, r.digest)
    <3>1. CASE r.digest = p[n].log
      BY <2>4, <3>1
    <3>2. CASE r.digest \in Disturbed(l)
      <4>1. Prefix(l, r.digest)
        BY <2>4, <3>2, DisturbedLog
      <4> QED BY <1>6, <2>1, <2>2, <2>4, <4>1, PrefixOrder
    <3> QED BY <2>2, <3>1, <3>2
  <2>6. r.digest \in Seq(Events)
    BY <2>2
  <2> QED BY <1>6, <2>1, <2>3, <2>5, <2>6, PrefixOrder
<1> QED BY <1>4, <1>7, <1>8, <1>9 DEF t

LEMMA FollowsTracked ==
    ASSUME NEW r, NEW s, FollowsRecord(r, s)
    PROVE  TracksRecord(r, s)
BY FollowsOrder DEF TracksRecord, Beside

\* A due entry is consumed next on the path.
LEMMA FollowsEntry ==
    ASSUME NEW r, NEW s, FollowsRecord(r, s), s.cur < Len(r.timeline),
           r.timeline[s.cur + 1].position = s.pos
    PROVE  \E u \in PathStates : Consumes(r.timeline, s, u) /\ FollowsRecord(r, u)
<1>1. PICK n \in Nat : \E p : \E k \in 0 .. n : RecordPath(r, p, n) /\ p[k] = s
  BY DEF FollowsRecord
<1>2. PICK p : \E k \in 0 .. n : RecordPath(r, p, n) /\ p[k] = s
  BY <1>1
<1>3. PICK k \in 0 .. n : RecordPath(r, p, n) /\ p[k] = s
  BY <1>2
<1>4. k # n
  BY <1>3, FollowsOrder DEF RecordPath, EndsRecord
<1>5. k \in 0 .. n - 1 /\ k + 1 \in 0 .. n
  BY <1>4
<1>6. Consumes(r.timeline, p[k], p[k + 1]) \/ Executes(r.timeline, p[k], p[k + 1])
  BY <1>3, <1>5 DEF RecordPath, Path
<1>7. Consumes(r.timeline, s, p[k + 1])
  BY <1>3, <1>6 DEF Executes
<1>8. p[k + 1] \in PathStates
  BY <1>3, <1>5 DEF RecordPath, Path
<1>9. FollowsRecord(r, p[k + 1])
  BY <1>3, <1>5 DEF FollowsRecord
<1> QED BY <1>7, <1>8, <1>9

\* Where no entry is due and the Record has not ended, an instruction is next.
LEMMA FollowsInstruction ==
    ASSUME NEW r, NEW s, FollowsRecord(r, s),
           s.cur < Len(r.timeline) => r.timeline[s.cur + 1].position # s.pos,
           ~ (s.cur = Len(r.timeline) /\ s.pos = r.position)
    PROVE  \E u \in PathStates : Executes(r.timeline, s, u) /\ FollowsRecord(r, u)
<1>1. PICK n \in Nat : \E p : \E k \in 0 .. n : RecordPath(r, p, n) /\ p[k] = s
  BY DEF FollowsRecord
<1>2. PICK p : \E k \in 0 .. n : RecordPath(r, p, n) /\ p[k] = s
  BY <1>1
<1>3. PICK k \in 0 .. n : RecordPath(r, p, n) /\ p[k] = s
  BY <1>2
<1>4. k # n
  BY <1>3 DEF RecordPath, EndsRecord
<1>5. k \in 0 .. n - 1 /\ k + 1 \in 0 .. n
  BY <1>4
<1>6. Consumes(r.timeline, p[k], p[k + 1]) \/ Executes(r.timeline, p[k], p[k + 1])
  BY <1>3, <1>5 DEF RecordPath, Path
<1>7. Executes(r.timeline, s, p[k + 1])
  BY <1>3, <1>6 DEF Consumes
<1>8. p[k + 1] \in PathStates
  BY <1>3, <1>5 DEF RecordPath, Path
<1>9. FollowsRecord(r, p[k + 1])
  BY <1>3, <1>5 DEF FollowsRecord
<1> QED BY <1>7, <1>8, <1>9

\* The end of the Record is reached in its last state only.
LEMMA FollowsEnd ==
    ASSUME NEW r, NEW s, FollowsRecord(r, s), s.cur = Len(r.timeline), s.pos = r.position
    PROVE  EndsRecord(r, s)
<1>1. PICK n \in Nat : \E p : \E k \in 0 .. n : RecordPath(r, p, n) /\ p[k] = s
  BY DEF FollowsRecord
<1>2. PICK p : \E k \in 0 .. n : RecordPath(r, p, n) /\ p[k] = s
  BY <1>1
<1>3. PICK k \in 0 .. n : RecordPath(r, p, n) /\ p[k] = s
  BY <1>2
<1>4. p[k] \in PathStates /\ p[n] \in PathStates /\ (k = n \/ Later(p[k], p[n]))
  BY <1>3, PathCursor
<1>5. p[n].cur = p[k].cur /\ p[n].pos = p[k].pos
  BY <1>3 DEF RecordPath, EndsRecord
<1>6. ~Later(p[k], p[n])
  BY <1>4, <1>5, PositionOrder DEF Later, PathStates
<1> QED BY <1>3, <1>4, <1>6 DEF RecordPath

\* parse_record accepts such a Record.
LEMMA GoodParses ==
    ASSUME NEW r, RecordGood(r)
    PROVE  Parses(r)
<1>1. PICK n \in Nat : \E p : RecordPath(r, p, n)
  BY DEF RecordGood
<1>2. PICK p : RecordPath(r, p, n)
  BY <1>1
<1> DEFINE t == r.timeline
<1>3. Path(t, p, n) /\ p[n].cur = Len(t) /\ p[n].pos = r.position /\ t \in Seq(Entries) /\ Len(t) \in Nat
  BY <1>2 DEF RecordPath, EndsRecord, Path
<1> HIDE DEF t
<1>4. ASSUME NEW i \in 1 .. Len(t)
      PROVE  \E k \in 0 .. n - 1 : p[k].cur = i - 1 /\ p[k].pos = t[i].position
  <2>0. i \in 1 .. p[n].cur
    BY <1>3
  <2>5. Path(t, p, n)
    BY <1>3
  <2>6. \E k \in 0 .. n - 1 : Consumes(t, p[k], p[k + 1]) /\ p[k].cur = i - 1
    BY ONLY <2>0, <2>5, ConsumedAt
  <2>1. PICK k \in 0 .. n - 1 : Consumes(t, p[k], p[k + 1]) /\ p[k].cur = i - 1
    BY <2>6
  <2>2. (i - 1) + 1 = i
    OBVIOUS
  <2>3. p[k].pos = t[i].position
    BY <2>1, <2>2 DEF Consumes
  <2> QED BY <2>1, <2>3
<1>5. ASSUME NEW i \in 1 .. Len(t) - 1
      PROVE  ~Before(t[i + 1].position, t[i].position)
  <2>1. i \in 1 .. Len(t) /\ i + 1 \in 1 .. Len(t)
    BY <1>3
  <2>2. PICK k \in 0 .. n - 1 : p[k].cur = i - 1 /\ p[k].pos = t[i].position
    BY <1>4, <2>1
  <2>3. PICK m \in 0 .. n - 1 : p[m].cur = (i + 1) - 1 /\ p[m].pos = t[i + 1].position
    BY <1>4, <2>1
  <2>4. k < m
    <3>1. CASE m < k
      <4>1. Later(p[m], p[k])
        BY <1>3, <3>1, PathLater
      <4> QED BY <2>2, <2>3, <4>1 DEF Later
    <3>2. CASE m = k
      BY <2>2, <2>3, <3>2
    <3> QED BY <3>1, <3>2
  <2>5. Later(p[k], p[m])
    BY <1>3, <2>4, PathLater
  <2> QED BY <2>2, <2>3, <2>5 DEF Later
<1>6. t # <<>> => ~Before(r.position, Last(t).position)
  <2>1. SUFFICES ASSUME t # <<>> PROVE ~Before(r.position, t[Len(t)].position)
    BY DEF Last
  <2>2. Len(t) \in 1 .. Len(t)
    BY <1>3, <2>1
  <2>3. PICK k \in 0 .. n - 1 : p[k].cur = Len(t) - 1 /\ p[k].pos = t[Len(t)].position
    BY <1>4, <2>2
  <2>4. Later(p[k], p[n])
    BY <1>3, PathLater
  <2> QED BY <1>3, <2>3, <2>4 DEF Later
<1> QED BY <1>5, <1>6 DEF Parses, t
-----------------------------------------------------------------------------
(* Worlds.  What is said of one is said of its fields, so that an operator *)
(* disturbs only the parts that name a field it changes.                   *)

CoreFields ==
    {"state", "mode", "machine", "remainder", "instant", "position", "preserved", "ignore",
     "recorder", "replay", "network", "network_config", "network_generation", "network_error",
     "pending"}
PlainFields ==
    {"generation", "completed", "session_error", "last_error", "breakpoints", "output",
     "revised", "deadline"}

Shape(w) ==
    /\ DOMAIN w = {"rt", "files", "host"}
    /\ DOMAIN w.rt = CoreFields \cup PlainFields
    /\ DOMAIN w.files = {"record", "snapshot"}
    /\ DOMAIN w.host = {"inbox", "frames", "recordings", "runs", "replay_first", "result"}

\* v differs from w in the fields S and in fields that no invariant is about.
Keeps(v, w, S) ==
    /\ Shape(v) /\ v.files = w.files /\ v.host = w.host
    /\ \A f \in CoreFields \ S : v.rt[f] = w.rt[f]

\* The state of a path that a machine is in.
StateOf(pos, cur, machine, rem) ==
    [pos |-> pos, cur |-> cur, log |-> machine.log, cyc |-> machine.cycles, rem |-> rem]

Typed(machine, position, remainder, instant, pending) ==
    /\ machine # None => machine \in Machines
    /\ position \in Positions /\ remainder \in Nat /\ instant \in Nat
    /\ pending # None => pending \in Events

\* A session is known by the generation it was started with, which is in the
\* inbox only after it failed.
Linked(network, generation, error, inbox, frames) ==
    /\ generation \in Nat /\ frames \in Nat /\ inbox \subseteq 0 .. generation /\ error \in BOOLEAN
    /\ network # None =>
         /\ DOMAIN network = {"generation", "first", "rx", "failure", "notified"}
         /\ network.generation = generation /\ network.rx \in Seq(Events)
         /\ generation \in inbox => network.failure # "none"
    /\ error => network = None \/ network.failure # "none"

Stops(state, mode, machine, error) ==
    /\ state = "Running" =>
         machine # None /\ ~error /\ mode \notin {"ReplayCompleted", "ReplayDiverged"}
    /\ state # "Running" => state = IF machine = None THEN "Unconfigured" ELSE "Paused"

Exempt(state, ignore, machine) ==
    state = "Running" /\ ignore # None => ignore = ExecutionAddress(machine)

Clocked(machine, instant, remainder) ==
    machine # None =>
        instant * FREQUENCY_HZ + remainder = machine.cycles * ATTOSECONDS_PER_SECOND

\* What the user's machines hold, and what is kept of it beside a session's, in
\* a run of the application whose first machine is not a Replay's.
Isolated(mode, machine, preserved, result, first) ==
    /\ preserved \in {None, "user", "session"} /\ first \in BOOLEAN
    /\ ~first =>
        /\ result # "session"
        /\ machine = None => mode = "Normal" /\ preserved = None
        /\ machine # None /\ mode = "Normal" =>
             machine.owner = "user" /\ machine.nv = "user" /\ preserved \in {None, "user"}
        /\ machine # None /\ mode # "Normal" => preserved = "user"

\* A Recording that has not failed is the end of the path of its entries.
Recorded(mode, recorder, error, position, machine, remainder) ==
    mode = "Recording" =>
        /\ ~error /\ machine # None
        /\ recorder \in Recorders
        /\ ~recorder.failed =>
             OnPath(recorder.timeline,
                    StateOf(position, Len(recorder.timeline), machine, remainder))

\* A Replay that has not failed keeps beside the path of its Record, or is past
\* the error at its end; only a failed read can have led it away.
Replayed(mode, replay, position, machine, remainder) ==
    IsReplay(mode) =>
        /\ machine # None /\ DOMAIN replay = {"record", "cursor", "failed"}
        /\ replay.failed \in BOOLEAN /\ replay.cursor \in Nat /\ RecordGood(replay.record)
        /\ ~replay.failed =>
             \/ /\ mode # "ReplayDiverged"
                /\ TracksRecord(replay.record,
                                StateOf(position, replay.cursor, machine, remainder))
             \/ mode = "ReplayCompleted" /\ machine.log = replay.record.digest
             \/ mode = "ReplayDiverged" /\ ~Unharmed(machine.log, replay.record)

SnapshotGood(s) ==
    /\ s.machine \in Machines /\ s.position \in Positions /\ s.cursor \in Nat
    /\ s.instant \in Nat /\ s.remainder \in Nat /\ Clocked(s.machine, s.instant, s.remainder)
    /\ TracksRecord(s.record, StateOf(s.position, s.cursor, s.machine, s.remainder))
    /\ s.cursor < Len(s.record.timeline) => s.record.timeline[s.cursor + 1].position # s.position
    /\ s.checkpoint = LastCheckpoint(SubSeq(s.record.timeline, 1, s.cursor))

Filed(files_) ==
    /\ files_.record # None => RecordGood(files_.record)
    /\ files_.snapshot # None => SnapshotGood(files_.snapshot)

\* Where the frames from number first to last - 1 are, in the order of the log.
Consumed(log, first, last) ==
    LET mine == FramePlaces(log, first)
    IN /\ {log[i][2] : i \in mine} = first .. last - 1
       /\ \A i, j \in mine : i < j => log[i][2] < log[j][2]

IsFrom(e, first) == e[1] = "frame" /\ e[2] >= first

\* The queue ends with the last frame that arrived; the one before its first is
\* pending or consumed, and so are those before it.
Queued(log, pending, session, frames) ==
    LET next == frames - Len(session.rx)
    IN /\ session.first \in Nat /\ session.first <= next
       /\ \A i \in 1 .. Len(session.rx) : session.rx[i] = <<"frame", next + i - 1>>
       /\ IF pending # None /\ IsFrom(pending, session.first)
          THEN pending[2] = next - 1 /\ Consumed(log, session.first, next - 1)
          ELSE Consumed(log, session.first, next)

\* A live machine has no frame that has not arrived; only a live one has a
\* session, whose frames are each in one place.
Framed(mode, machine, pending, network, config, frames) ==
    /\ config \in BOOLEAN
    /\ ~IsReplay(mode) =>
         /\ pending # None => ~IsFrom(pending, frames)
         /\ machine # None => Consumed(machine.log, frames, frames)
    /\ network # None =>
         /\ ~IsReplay(mode) /\ config = TRUE /\ machine # None
         /\ Queued(machine.log, pending, network, frames)

\* What holds of every world a handler passes through, but for its session.
Outer(w) ==
    LET s == w.rt IN
    /\ Shape(w)
    /\ Typed(s.machine, s.position, s.remainder, s.instant, s.pending)
    /\ Linked(s.network, s.network_generation, s.network_error, w.host.inbox, w.host.frames)
    /\ Stops(s.state, s.mode, s.machine, s.network_error)
    /\ Exempt(s.state, s.ignore, s.machine)
    /\ Clocked(s.machine, s.instant, s.remainder)
    /\ Isolated(s.mode, s.machine, s.preserved, w.host.result, w.host.replay_first)
    /\ Filed(w.files)
    /\ Framed(s.mode, s.machine, s.pending, s.network, s.network_config, w.host.frames)

InRecord(w) ==
    Recorded(w.rt.mode, w.rt.recorder, w.rt.network_error, w.rt.position, w.rt.machine, w.rt.remainder)
InReplay(w) ==
    Replayed(w.rt.mode, w.rt.replay, w.rt.position, w.rt.machine, w.rt.remainder)

Base(w) == Outer(w) /\ InRecord(w) /\ InReplay(w)

\* A Replay has done all that is due at its position.
Settled(replay, position) ==
    LET t == replay.record.timeline IN
    /\ replay.cursor < Len(t) => t[replay.cursor + 1].position # position
    /\ replay.cursor = Len(t) /\ position = replay.record.position
         => replay.record.outcome.kind = "ExecutionError"

\* What holds between two handlers besides.
Rested(w) ==
    /\ w.rt.mode = "Recording" => ~w.rt.recorder.failed
    /\ w.rt.mode = "Replaying" => ~w.rt.replay.failed /\ Settled(w.rt.replay, w.rt.position)

Inv == Base(World) /\ Rested(World)

\* v shows a debugger what w shows, or announces a revision.
Revised(v) == v.rt.revised = TRUE
Announces(v, w) == Revised(v) \/ Visible(v.rt) = Visible(w.rt)

\* What RevisionAdvances says of a step.
Advances == Visible(rt') # Visible(rt) => rt'.revised \/ rt' = InitWorker

LEMMA KeepsBase ==
    ASSUME NEW w, NEW v, Base(w), Keeps(v, w, {})
    PROVE  Base(v) /\ (Rested(w) => Rested(v))
<1>1. /\ Shape(v) /\ v.files = w.files /\ v.host = w.host
      /\ v.rt.state = w.rt.state /\ v.rt.mode = w.rt.mode /\ v.rt.machine = w.rt.machine
      /\ v.rt.remainder = w.rt.remainder /\ v.rt.instant = w.rt.instant
      /\ v.rt.position = w.rt.position /\ v.rt.preserved = w.rt.preserved
      /\ v.rt.ignore = w.rt.ignore /\ v.rt.recorder = w.rt.recorder /\ v.rt.replay = w.rt.replay
      /\ v.rt.network = w.rt.network /\ v.rt.network_generation = w.rt.network_generation
      /\ v.rt.network_error = w.rt.network_error /\ v.rt.pending = w.rt.pending
      /\ v.rt.network_config = w.rt.network_config
  BY DEF Keeps, CoreFields
<1>2. Base(v)
  BY <1>1 DEF Base, Outer, InRecord, InReplay
<1>3. Rested(w) => Rested(v)
  BY <1>1 DEF Rested
<1> QED BY <1>2, <1>3

LEMMA ReviseKeeps ==
    ASSUME NEW w, Shape(w)
    PROVE  Keeps(Revise(w), w, {})
BY DEF Shape, Keeps, Revise, CoreFields, PlainFields

LEMMA ReviseAnnounces ==
    ASSUME NEW w, Shape(w)
    PROVE  Revised(Revise(w))
BY DEF Revised, Shape, Revise, CoreFields, PlainFields

LEMMA FlushedKeeps ==
    ASSUME NEW w, Shape(w)
    PROVE  Keeps(Flushed(w), w, {})
BY DEF Shape, Keeps, Flushed, CoreFields, PlainFields

LEMMA KeepsTransitive ==
    ASSUME NEW u, NEW v, NEW w, NEW S, NEW T, Keeps(v, w, S), Keeps(u, v, T), S \subseteq T
    PROVE  Keeps(u, w, T)
BY DEF Keeps

-----------------------------------------------------------------------------
(* Where the frames are.                                                   *)

LEMMA AppendPlaces ==
    ASSUME NEW log \in Seq(Events), NEW e \in Events, NEW first \in Nat
    PROVE  /\ IsFrom(e, first) =>
                FramePlaces(Append(log, e), first) = FramePlaces(log, first) \cup {Len(log) + 1}
           /\ ~IsFrom(e, first) => FramePlaces(Append(log, e), first) = FramePlaces(log, first)
           /\ \A i \in FramePlaces(log, first) : i \in 1 .. Len(log) /\ Append(log, e)[i] = log[i]
           /\ Append(log, e)[Len(log) + 1] = e
<1> DEFINE l == Append(log, e)
<1>1. /\ Len(l) = Len(log) + 1 /\ l[Len(log) + 1] = e /\ DOMAIN l = 1 .. Len(log) + 1
      /\ DOMAIN log = 1 .. Len(log) /\ Len(log) \in Nat
      /\ \A i \in 1 .. Len(log) : l[i] = log[i]
  OBVIOUS
<1> HIDE DEF l
<1>2. \A i \in FramePlaces(log, first) : i \in 1 .. Len(log) /\ l[i] = log[i]
  BY <1>1 DEF FramePlaces
<1>3. \A i : i \in 1 .. Len(log) + 1 <=> (i \in 1 .. Len(log) \/ i = Len(log) + 1)
  BY <1>1
<1>4. \A i : i \in FramePlaces(l, first) <=>
               i \in FramePlaces(log, first) \/ (i = Len(log) + 1 /\ IsFrom(e, first))
  BY <1>1, <1>3 DEF FramePlaces, IsFrom
<1>5. IsFrom(e, first) => FramePlaces(l, first) = FramePlaces(log, first) \cup {Len(log) + 1}
  BY <1>4
<1>6. ~IsFrom(e, first) => FramePlaces(l, first) = FramePlaces(log, first)
  BY <1>4
<1> QED BY <1>1, <1>2, <1>5, <1>6 DEF l

LEMMA ConsumedOther ==
    ASSUME NEW log \in Seq(Events), NEW e \in Events, NEW first \in Nat, NEW last,
           Consumed(log, first, last), ~IsFrom(e, first)
    PROVE  Consumed(Append(log, e), first, last)
<1> DEFINE l == Append(log, e)
           M == FramePlaces(log, first)
<1>1. FramePlaces(l, first) = M /\ \A i \in M : i \in 1 .. Len(log) /\ l[i] = log[i]
  BY AppendPlaces
<1> HIDE DEF l
<1>2. {l[i][2] : i \in M} = {log[i][2] : i \in M}
  BY <1>1
<1> QED BY <1>1, <1>2 DEF Consumed, l

LEMMA ConsumedNext ==
    ASSUME NEW log \in Seq(Events), NEW first \in Nat, NEW last \in Nat, first <= last,
           Consumed(log, first, last), NEW e \in Events, IsFrom(e, first), e[2] = last
    PROVE  Consumed(Append(log, e), first, last + 1)
<1> DEFINE l == Append(log, e)
           M == FramePlaces(log, first)
           k == Len(log) + 1
<1>1. /\ FramePlaces(l, first) = M \cup {k} /\ l[k] = e
      /\ \A i \in M : i \in 1 .. Len(log) /\ l[i] = log[i]
  BY AppendPlaces
<1>2. {log[i][2] : i \in M} = first .. last - 1 /\ \A i, j \in M : i < j => log[i][2] < log[j][2]
  BY DEF Consumed
<1>3. k \in Nat /\ Len(log) \in Nat
  OBVIOUS
<1> HIDE DEF l, M, k
<1>4. \A i \in M : log[i][2] \in first .. last - 1
  BY <1>2
<1>5. {l[i][2] : i \in M \cup {k}} = {log[i][2] : i \in M} \cup {last}
  BY <1>1
<1>6. first .. (last + 1) - 1 = (first .. last - 1) \cup {last}
  OBVIOUS
<1>7. {l[i][2] : i \in M \cup {k}} = first .. (last + 1) - 1
  BY <1>2, <1>5, <1>6
<1>8. ASSUME NEW i \in M \cup {k}, NEW j \in M \cup {k}, i < j PROVE l[i][2] < l[j][2]
  <2>1. CASE j = k
    <3>1. i \in M
      BY <1>3, <1>8, <2>1
    <3> QED BY <1>1, <1>4, <2>1, <3>1
  <2>2. CASE j \in M
    <3>1. i \in M
      BY <1>1, <1>3, <1>8, <2>2 DEF k
    <3> QED BY <1>1, <1>2, <1>8, <2>2, <3>1
  <2> QED BY <2>1, <2>2
<1> QED BY <1>1, <1>7, <1>8 DEF Consumed, l

LEMMA ConsumedLater ==
    ASSUME NEW log \in Seq(Events), NEW n \in Nat, Consumed(log, n, n)
    PROVE  Consumed(log, n + 1, n + 1)
<1>1. n .. n - 1 = {} /\ (n + 1) .. (n + 1) - 1 = {}
  OBVIOUS
<1>2. FramePlaces(log, n) = {}
  BY <1>1 DEF Consumed
<1>3. \A i \in DOMAIN log : log[i] \in Events /\ log[i][2] \in Nat
  BY DEF Events
<1>4. FramePlaces(log, n + 1) = {}
  BY <1>2, <1>3 DEF FramePlaces
<1> QED BY <1>1, <1>4 DEF Consumed

LEMMA ConsumedNothing ==
    ASSUME NEW n \in Nat
    PROVE  Consumed(<<>>, n, n)
<1>1. n .. n - 1 = {} /\ FramePlaces(<<>>, n) = {}
  BY DEF FramePlaces
<1> QED BY <1>1 DEF Consumed

\* The queue goes on where the log and the pending frame end.
LEMMA ConsumedThenQueued ==
    ASSUME NEW l \in Seq(Events), NEW rx \in Seq(Events), NEW first \in Nat, NEW next \in Nat,
           first <= next, Consumed(l, first, next),
           \A i \in 1 .. Len(rx) : rx[i] = <<"frame", next + i - 1>>
    PROVE  Consumed(l \o rx, first, next + Len(rx))
<1> DEFINE q == l \o rx
           n == Len(l)
           k == Len(rx)
           M == FramePlaces(l, first)
           N == n + 1 .. n + k
<1>1. /\ n \in Nat /\ k \in Nat /\ DOMAIN q = 1 .. n + k /\ DOMAIN l = 1 .. n
      /\ \A i \in 1 .. n : q[i] = l[i]
      /\ \A i \in N : i - n \in 1 .. k /\ q[i] = rx[i - n]
  OBVIOUS
<1>2. {l[i][2] : i \in M} = first .. next - 1 /\ \A i, j \in M : i < j => l[i][2] < l[j][2]
  BY DEF Consumed
<1>3. \A i \in 1 .. k : rx[i][1] = "frame" /\ rx[i][2] = next + i - 1
  OBVIOUS
<1>4. M = {i \in 1 .. n : l[i][1] = "frame" /\ l[i][2] >= first}
  BY <1>1 DEF FramePlaces
<1> HIDE DEF q, n, k, M
<1>5. \A i \in N : i \in Int /\ q[i][1] = "frame" /\ q[i][2] = next + (i - n) - 1
  <2> SUFFICES ASSUME NEW i \in N
               PROVE  i \in Int /\ q[i][1] = "frame" /\ q[i][2] = next + (i - n) - 1
    OBVIOUS
  <2>1. i \in Int /\ i - n \in 1 .. k
    BY <1>1
  <2>2. q[i] = rx[i - n]
    BY <1>1
  <2>3. rx[i - n][1] = "frame" /\ rx[i - n][2] = next + (i - n) - 1
    BY <1>3, <2>1
  <2> QED BY <2>1, <2>2, <2>3
<1>6. \A i \in N : q[i][2] \in Int /\ q[i][2] >= next /\ q[i][2] >= first /\ q[i][2] <= (next + k) - 1
  <2> SUFFICES ASSUME NEW i \in N
               PROVE  q[i][2] \in Int /\ q[i][2] >= next /\ q[i][2] >= first /\ q[i][2] <= (next + k) - 1
    OBVIOUS
  <2>1. i \in Int /\ i >= n + 1 /\ i <= n + k
    BY <1>1
  <2> DEFINE d == next + (i - n) - 1
  <2>2. d \in Int /\ d >= next /\ d >= first /\ d <= (next + k) - 1
    BY <1>1, <2>1
  <2>3. q[i][2] = d
    BY <1>5
  <2> HIDE DEF d
  <2> QED BY <2>2, <2>3
<1>7. \A i \in M : i \in 1 .. n /\ q[i] = l[i] /\ q[i][2] \in first .. next - 1
  <2>1. \A i \in M : l[i][2] \in first .. next - 1
    BY <1>2
  <2> QED BY <1>1, <1>4, <2>1
<1>8. FramePlaces(q, first) = M \cup N
  <2>1. \A i : i \in 1 .. n + k <=> i \in 1 .. n \/ i \in N
    BY <1>1
  <2>2. \A i \in 1 .. n : i \in M <=> q[i][1] = "frame" /\ q[i][2] >= first
    BY <1>1, <1>4
  <2> HIDE DEF N
  <2> QED BY <1>1, <1>5, <1>6, <1>7, <2>1, <2>2 DEF FramePlaces
<1>9. {q[i][2] : i \in M \cup N} = first .. (next + k) - 1
  <2>1. \A x : x \in first .. (next + k) - 1 <=> x \in first .. next - 1 \/ x \in next .. (next + k) - 1
    BY <1>1
  <2>2. ASSUME NEW i \in M \cup N PROVE q[i][2] \in first .. (next + k) - 1
    <3>1. CASE i \in M
      BY <1>7, <2>1, <3>1
    <3>2. CASE i \in N
      <4>1. q[i][2] \in next .. (next + k) - 1
        <5>1. q[i][2] \in Int /\ q[i][2] >= next /\ q[i][2] <= (next + k) - 1
          BY <1>6, <3>2
        <5> QED BY <1>1, <5>1
      <4> QED BY <2>1, <4>1
    <3> QED BY <2>2, <3>1, <3>2
  <2>3. ASSUME NEW x \in first .. (next + k) - 1 PROVE \E i \in M \cup N : q[i][2] = x
    <3>1. CASE x \in first .. next - 1
      <4>1. PICK i \in M : x = l[i][2]
        BY <1>2, <3>1
      <4> QED BY <1>7, <4>1
    <3>2. CASE x \in next .. (next + k) - 1
      <4> DEFINE i == n + (x - next) + 1
      <4>1. i \in N /\ next + (i - n) - 1 = x
        BY <1>1, <3>2
      <4> QED BY <1>5, <4>1
    <3> QED BY <2>1, <3>1, <3>2
  <2> QED BY <2>2, <2>3
<1>10. ASSUME NEW i \in M \cup N, NEW j \in M \cup N, i < j PROVE q[i][2] < q[j][2]
  <2>1. CASE i \in M /\ j \in M
    BY <1>2, <1>7, <1>10, <2>1
  <2>2. CASE i \in M /\ j \in N
    <3>1. q[i][2] \in first .. next - 1 /\ q[j][2] \in Int /\ q[j][2] >= next
      BY <1>6, <1>7, <2>2
    <3> QED BY <3>1
  <2>3. CASE i \in N /\ j \in M
    <3>1. i \in n + 1 .. n + k /\ j \in 1 .. n
      BY <1>7, <2>3
    <3> QED BY <1>1, <1>10, <3>1
  <2>4. CASE i \in N /\ j \in N
    <3>1. q[i][2] = next + (i - n) - 1 /\ q[j][2] = next + (j - n) - 1 /\ i \in Int /\ j \in Int
      BY <1>5, <2>4
    <3>2. next + (i - n) - 1 < next + (j - n) - 1
      BY <1>1, <1>10, <3>1
    <3> QED BY <3>1, <3>2
  <2> QED BY <1>10, <2>1, <2>2, <2>3, <2>4
<1> QED BY <1>8, <1>9, <1>10 DEF Consumed, q, k

\* What happens to a machine besides frames leaves its frames where they are.
FramesKept(k, m) ==
    \A first \in Nat : \A last : Consumed(m.log, first, last) => Consumed(k.log, first, last)

LEMMA KeptSame ==
    ASSUME NEW m, NEW k, k.log = m.log
    PROVE  FramesKept(k, m)
BY DEF FramesKept

LEMMA KeptTransitive ==
    ASSUME NEW j, NEW k, NEW m, FramesKept(k, m), FramesKept(j, k)
    PROVE  FramesKept(j, m)
BY DEF FramesKept

LEMMA KeptEvent ==
    ASSUME NEW m \in Machines, NEW e \in Events, e[1] # "frame", NEW k, k.log = Append(m.log, e)
    PROVE  FramesKept(k, m)
<1>1. m.log \in Seq(Events) /\ \A first : ~IsFrom(e, first)
  BY DEF Machines, IsFrom
<1> QED BY <1>1, ConsumedOther DEF FramesKept

LEMMA FramedKept ==
    ASSUME NEW mode, NEW m, NEW k, NEW pending, NEW network, NEW config, NEW frames \in Nat,
           Framed(mode, m, pending, network, config, frames), m # None, k # None, FramesKept(k, m)
    PROVE  Framed(mode, k, pending, network, config, frames)
<1>1. ~IsReplay(mode) => Consumed(k.log, frames, frames)
  BY DEF Framed, FramesKept
<1>2. network # None => Queued(k.log, pending, network, frames)
  BY DEF Framed, FramesKept, Queued
<1> QED BY <1>1, <1>2 DEF Framed

\* A session that has brought nothing yet.
Unused(network, frames) == network # None => network.first = frames /\ network.rx = <<>>

LEMMA UnusedQueued ==
    ASSUME NEW log, NEW pending, NEW network, NEW frames \in Nat, network # None,
           Unused(network, frames), Consumed(log, frames, frames),
           pending # None => ~IsFrom(pending, frames)
    PROVE  Queued(log, pending, network, frames)
<1>1. network.first = frames /\ network.rx = <<>> /\ Len(network.rx) = 0
  BY DEF Unused
<1>2. frames - Len(network.rx) = frames /\ \A i \in 1 .. Len(network.rx) : FALSE
  BY <1>1
<1> QED BY <1>1, <1>2 DEF Queued

\* A session is replaced under a machine that goes on.
LEMMA FramedFresh ==
    ASSUME NEW mode, NEW m, NEW pending, NEW network, NEW session, NEW config, NEW frames \in Nat,
           Framed(mode, m, pending, network, config, frames), Unused(session, frames),
           session # None => m # None /\ ~IsReplay(mode) /\ config = TRUE
    PROVE  Framed(mode, m, pending, session, config, frames)
<1>1. session # None => Consumed(m.log, frames, frames) /\ (pending # None => ~IsFrom(pending, frames))
  BY DEF Framed
<1>2. session # None => Queued(m.log, pending, session, frames)
  BY <1>1, UnusedQueued
<1> QED BY <1>2 DEF Framed

\* A reset forgets the frame that was pending, of the session it replaced.
LEMMA FramedReset ==
    ASSUME NEW mode, NEW m, NEW k, NEW pending, NEW network, NEW config, NEW frames \in Nat,
           Framed(mode, m, pending, network, config, frames), m # None, k # None, FramesKept(k, m),
           Unused(network, frames)
    PROVE  Framed(mode, k, None, network, config, frames)
<1>1. ~IsReplay(mode) => Consumed(k.log, frames, frames)
  BY DEF Framed, FramesKept
<1>2. network # None => ~IsReplay(mode) /\ config = TRUE
  BY DEF Framed
<1>3. network # None => Queued(k.log, None, network, frames)
  BY <1>1, <1>2, UnusedQueued
<1> QED BY <1>1, <1>2, <1>3 DEF Framed

\* The machine consumes the frame that is pending.
LEMMA FramedInput ==
    ASSUME NEW mode, NEW m \in Machines, NEW k, NEW e \in Events, NEW network, NEW config,
           NEW frames \in Nat, Framed(mode, m, e, network, config, frames), ~IsReplay(mode),
           e # None, m # None, k # None, k.log = Append(m.log, e),
           network # None => network.rx \in Seq(Events)
    PROVE  Framed(mode, k, None, network, config, frames)
<1>1. m.log \in Seq(Events) /\ ~IsFrom(e, frames)
  BY DEF Machines, Framed
<1>2. Consumed(k.log, frames, frames)
  BY <1>1, ConsumedOther DEF Framed
<1>3. ASSUME network # None PROVE Queued(k.log, None, network, frames)
  <2> DEFINE next == frames - Len(network.rx)
             first == network.first
  <2>4. Queued(m.log, e, network, frames)
    BY <1>3 DEF Framed
  <2>5. Len(network.rx) \in Nat
    BY <1>3
  <2>6. next \in Int
    BY <2>5
  <2>1. /\ first \in Nat /\ first <= next /\ next \in Int
        /\ \A i \in 1 .. Len(network.rx) : network.rx[i] = <<"frame", next + i - 1>>
        /\ IF IsFrom(e, first)
           THEN e[2] = next - 1 /\ Consumed(m.log, first, next - 1)
           ELSE Consumed(m.log, first, next)
    BY <2>4, <2>6 DEF Queued
  <2> HIDE DEF next, first
  <2>2. CASE IsFrom(e, first)
    <3>1. next - 1 \in Nat /\ first <= next - 1 /\ (next - 1) + 1 = next
      BY <2>1, <2>2 DEF IsFrom
    <3>2. Consumed(k.log, first, (next - 1) + 1)
      BY <1>1, <2>1, <2>2, <3>1, ConsumedNext
    <3> QED BY <2>1, <3>1, <3>2 DEF Queued, next, first
  <2>3. CASE ~IsFrom(e, first)
    <3>1. Consumed(k.log, first, next)
      BY <1>1, <2>1, <2>3, ConsumedOther
    <3> QED BY <2>1, <3>1 DEF Queued, next, first
  <2> QED BY <2>2, <2>3
<1> QED BY <1>2, <1>3 DEF Framed

\* The frame at the head of the queue becomes pending.
LEMMA FramedFetch ==
    ASSUME NEW mode, NEW m, NEW network, NEW session, NEW config, NEW frames \in Nat,
           Framed(mode, m, None, network, config, frames), network # None,
           network.rx \in Seq(Events), network.rx # <<>>,
           session.rx = Tail(network.rx), session.first = network.first, Head(network.rx) # None
    PROVE  Framed(mode, m, Head(network.rx), session, config, frames)
<1> DEFINE rx == network.rx
           first == network.first
           next == frames - Len(rx)
           e == Head(rx)
<1>1. /\ first \in Nat /\ first <= next /\ Consumed(m.log, first, next)
      /\ \A i \in 1 .. Len(rx) : rx[i] = <<"frame", next + i - 1>>
  BY DEF Framed, Queued
<1>2. /\ Len(rx) \in Nat \ {0} /\ Len(Tail(rx)) = Len(rx) - 1 /\ e = rx[1]
      /\ \A i \in 1 .. Len(rx) - 1 : Tail(rx)[i] = rx[i + 1]
  OBVIOUS
<1>9. next = frames - Len(rx)
  OBVIOUS
<1> HIDE DEF rx, first, next, e
<1>3. e = <<"frame", next>> /\ next \in Nat /\ next < frames
  BY <1>1, <1>2 DEF next
<1>4. IsFrom(e, first) /\ ~IsFrom(e, frames) /\ e[2] = next
  BY <1>1, <1>3 DEF IsFrom
<1>8. session.rx = Tail(rx) /\ session.first = first
  BY DEF rx, first
<1>5. frames - Len(session.rx) = next + 1
  <2>1. Len(session.rx) = Len(rx) - 1
    BY <1>2, <1>8
  <2>2. Len(rx) \in Nat /\ \A f, k \in Nat : f - (k - 1) = (f - k) + 1
    BY <1>2
  <2>3. frames - (Len(rx) - 1) = (frames - Len(rx)) + 1
    BY <2>2
  <2> QED BY <1>9, <2>1, <2>3, Zenon
<1>6. \A i \in 1 .. Len(session.rx) : session.rx[i] = <<"frame", (next + 1) + i - 1>>
  <2> SUFFICES ASSUME NEW i \in 1 .. Len(rx) - 1 PROVE Tail(rx)[i] = <<"frame", (next + 1) + i - 1>>
    BY <1>2, <1>8
  <2>1. i + 1 \in 1 .. Len(rx) /\ next + (i + 1) - 1 = (next + 1) + i - 1
    BY <1>2, <1>3
  <2> QED BY <1>1, <1>2, <2>1
<1>7. Queued(m.log, e, session, frames)
  <2>1. session.first \in Nat /\ session.first <= next + 1 /\ (next + 1) - 1 = next
    BY <1>1, <1>3, <1>8
  <2>2. e # None
    BY DEF e, rx
  <2> QED BY <1>1, <1>4, <1>5, <1>6, <1>8, <2>1, <2>2 DEF Queued
<1> QED BY <1>4, <1>7 DEF Framed, e, rx

\* A frame arrives.
LEMMA FramedArrival ==
    ASSUME NEW mode, NEW m, NEW pending, NEW network, NEW session, NEW config, NEW frames \in Nat,
           Framed(mode, m, pending, network, config, frames), network # None, m \in Machines,
           pending # None => pending \in Events, network.rx \in Seq(Events),
           session.rx = Append(network.rx, <<"frame", frames>>), session.first = network.first
    PROVE  Framed(mode, m, pending, session, config, frames + 1)
<1> DEFINE rx == network.rx
           first == network.first
           next == frames - Len(rx)
           e == <<"frame", frames>>
<1>1. /\ first \in Nat /\ first <= next /\ ~IsReplay(mode) /\ config = TRUE /\ m # None
      /\ \A i \in 1 .. Len(rx) : rx[i] = <<"frame", next + i - 1>>
      /\ IF pending # None /\ IsFrom(pending, first)
         THEN pending[2] = next - 1 /\ Consumed(m.log, first, next - 1)
         ELSE Consumed(m.log, first, next)
  BY DEF Framed, Queued
<1>2. e \in Events
  BY DEF Events
<1>3. /\ Len(rx) \in Nat /\ Len(Append(rx, e)) = Len(rx) + 1 /\ Append(rx, e)[Len(rx) + 1] = e
      /\ \A i \in 1 .. Len(rx) : Append(rx, e)[i] = rx[i]
  BY <1>2
<1>4. m.log \in Seq(Events) /\ Consumed(m.log, frames, frames) /\ (pending # None => ~IsFrom(pending, frames))
  BY <1>1 DEF Framed, Machines
<1>5. Consumed(m.log, frames + 1, frames + 1)
  BY <1>4, ConsumedLater
<1>6. pending # None => ~IsFrom(pending, frames + 1)
  <2>1. pending # None => pending[2] \in Nat
    BY DEF Events
  <2> QED BY <1>4, <2>1 DEF IsFrom
<1>7. session.rx = Append(rx, e) /\ session.first = first
  OBVIOUS
<1>11. next = frames - Len(rx)
  OBVIOUS
<1> HIDE DEF rx, first, next, e
<1>8. (frames + 1) - Len(session.rx) = next
  <2>1. Len(session.rx) = Len(rx) + 1
    BY <1>3, <1>7
  <2>2. Len(rx) \in Nat /\ \A f, k \in Nat : (f + 1) - (k + 1) = f - k
    BY <1>3
  <2>3. (frames + 1) - (Len(rx) + 1) = frames - Len(rx)
    BY <2>2
  <2> QED BY <1>11, <2>1, <2>3, Zenon
<1>9. \A i \in 1 .. Len(session.rx) : session.rx[i] = <<"frame", next + i - 1>>
  <2> SUFFICES ASSUME NEW i \in 1 .. Len(rx) + 1 PROVE Append(rx, e)[i] = <<"frame", next + i - 1>>
    BY <1>3, <1>7
  <2>1. CASE i = Len(rx) + 1
    <3>1. next + i - 1 = frames
      BY <1>3, <2>1 DEF next
    <3> QED BY <1>3, <2>1, <3>1 DEF e
  <2>2. CASE i # Len(rx) + 1
    <3>1. i \in 1 .. Len(rx)
      BY <1>3, <2>2
    <3> QED BY <1>1, <1>3, <3>1
  <2> QED BY <2>1, <2>2
<1>10. Queued(m.log, pending, session, frames + 1)
  BY <1>1, <1>7, <1>8, <1>9 DEF Queued
<1> QED BY <1>1, <1>5, <1>6, <1>10 DEF Framed

\* Each frame of the session is in one of its three places, in order.
LEMMA QueuedExact ==
    ASSUME NEW log \in Seq(Events), NEW pending, pending # None => pending \in Events,
           NEW session, session.rx \in Seq(Events), NEW frames \in Nat,
           Queued(log, pending, session, frames)
    PROVE  Consumed(Places(log, pending, session.rx), session.first, frames)
<1> DEFINE rx == session.rx
           first == session.first
           next == frames - Len(rx)
           p == IF pending = None THEN <<>> ELSE <<pending>>
           l == log \o p
<1>1. /\ first \in Nat /\ first <= next
      /\ \A i \in 1 .. Len(rx) : rx[i] = <<"frame", next + i - 1>>
      /\ IF pending # None /\ IsFrom(pending, first)
         THEN pending[2] = next - 1 /\ Consumed(log, first, next - 1)
         ELSE Consumed(log, first, next)
  BY DEF Queued
<1>2. Len(rx) \in Nat
  OBVIOUS
<1>3. next \in Nat /\ next + Len(rx) = frames
  BY <1>1, <1>2
<1>4. Places(log, pending, rx) = l \o rx
  BY DEF Places
<1> HIDE DEF rx, first, next
<1>5. Consumed(l, first, next) /\ l \in Seq(Events)
  <2>1. CASE pending = None
    <3>1. l = log
      BY <2>1
    <3> QED BY <1>1, <2>1, <3>1
  <2>2. CASE pending # None
    <3>1. l = Append(log, pending) /\ pending \in Events
      BY <2>2
    <3> HIDE DEF l
    <3>4. l \in Seq(Events)
      BY <3>1
    <3>2. CASE IsFrom(pending, first)
      <4>1. next - 1 \in Nat /\ first <= next - 1 /\ (next - 1) + 1 = next
        BY <1>1, <1>3, <2>2, <3>2 DEF IsFrom
      <4>2. Consumed(l, first, (next - 1) + 1)
        BY <1>1, <2>2, <3>1, <3>2, <4>1, ConsumedNext
      <4> QED BY <3>4, <4>1, <4>2
    <3>3. CASE ~IsFrom(pending, first)
      <4>1. Consumed(log, first, next)
        BY <1>1, <3>3
      <4> QED BY <1>1, <3>1, <3>3, <3>4, <4>1, ConsumedOther
    <3> QED BY <3>2, <3>3
  <2> QED BY <2>1, <2>2
<1>6. rx \in Seq(Events)
  BY DEF rx
<1> HIDE DEF l
<1>7. Consumed(l \o rx, first, next + Len(rx))
  BY <1>1, <1>3, <1>5, <1>6, ConsumedThenQueued
<1> QED BY <1>3, <1>4, <1>7 DEF rx, first
-----------------------------------------------------------------------------
(* The end of a Record.                                                    *)

LEMMA RecordFailureEffect ==
    ASSUME NEW w, Shape(w)
    PROVE  /\ Keeps(SetRecordFailure(w), w, {"recorder", "state", "mode"})
           /\ SetRecordFailure(w).rt.state = "Paused"
           /\ SetRecordFailure(w).rt.mode = "RecordCompleted"
           /\ Revised(SetRecordFailure(w))
<1> DEFINE v == SetRecordFailure(w)
<1>1. /\ v.rt = [w.rt EXCEPT !.recorder = None, !.state = "Paused", !.mode = "RecordCompleted",
                             !.session_error = TRUE, !.revised = TRUE]
      /\ v.files = w.files /\ v.host = w.host /\ DOMAIN v = DOMAIN w
  BY DEF SetRecordFailure, Revise, Shape
<1> HIDE DEF v
<1>2. DOMAIN v.rt = DOMAIN w.rt /\ Shape(v)
  BY <1>1 DEF Shape
<1>3. \A f \in CoreFields \ {"recorder", "state", "mode"} : v.rt[f] = w.rt[f]
  BY <1>1 DEF Shape, CoreFields, PlainFields
<1>4. v.rt.state = "Paused" /\ v.rt.mode = "RecordCompleted" /\ Revised(v)
  BY <1>1 DEF Revised, Shape, CoreFields, PlainFields
<1> QED BY <1>1, <1>2, <1>3, <1>4 DEF v, Keeps

\* A world whose session has ended is sound, when the rest of it is.
LEMMA RecordCompletedSound ==
    ASSUME NEW w, NEW v, Outer(w), w.rt.mode = "Recording", w.rt.machine # None,
           Shape(v), v.host = w.host, Filed(v.files),
           \A f \in CoreFields \ {"recorder", "state", "mode"} : v.rt[f] = w.rt[f],
           v.rt.state = "Paused" \/ v.rt.state = w.rt.state,
           v.rt.mode = "RecordCompleted"
    PROVE  Base(v) /\ Rested(v)
<1>1. /\ v.rt.machine = w.rt.machine /\ v.rt.remainder = w.rt.remainder
      /\ v.rt.instant = w.rt.instant /\ v.rt.position = w.rt.position
      /\ v.rt.preserved = w.rt.preserved /\ v.rt.ignore = w.rt.ignore
      /\ v.rt.network = w.rt.network /\ v.rt.network_generation = w.rt.network_generation
      /\ v.rt.network_error = w.rt.network_error /\ v.rt.pending = w.rt.pending
      /\ v.rt.network_config = w.rt.network_config
  BY DEF CoreFields
<1>2. /\ Typed(v.rt.machine, v.rt.position, v.rt.remainder, v.rt.instant, v.rt.pending)
      /\ Linked(v.rt.network, v.rt.network_generation, v.rt.network_error, v.host.inbox, v.host.frames)
      /\ Clocked(v.rt.machine, v.rt.instant, v.rt.remainder)
  BY <1>1 DEF Outer
<1>3. Stops(v.rt.state, v.rt.mode, v.rt.machine, v.rt.network_error)
  BY <1>1 DEF Outer, Stops
<1>4. Exempt(v.rt.state, v.rt.ignore, v.rt.machine)
  BY <1>1 DEF Outer, Exempt
<1>5. Isolated(v.rt.mode, v.rt.machine, v.rt.preserved, v.host.result, v.host.replay_first)
  BY <1>1 DEF Outer, Isolated
<1>7. Framed(v.rt.mode, v.rt.machine, v.rt.pending, v.rt.network, v.rt.network_config, v.host.frames)
  BY <1>1 DEF Outer, Framed, IsReplay
<1>6. Outer(v)
  BY <1>2, <1>3, <1>4, <1>5, <1>7 DEF Outer
<1> QED BY <1>6 DEF Base, InRecord, InReplay, Recorded, Replayed, IsReplay, Rested

LEMMA RecordFailureSound ==
    ASSUME NEW w, Outer(w), Recording(w), w.rt.machine # None
    PROVE  /\ Base(SetRecordFailure(w)) /\ Rested(SetRecordFailure(w))
           /\ SetRecordFailure(w).rt.mode = "RecordCompleted"
<1> DEFINE v == SetRecordFailure(w)
<1>1. Shape(w) /\ Filed(w.files) /\ w.rt.mode = "Recording"
  BY DEF Outer, Recording
<1>2. Keeps(v, w, {"recorder", "state", "mode"}) /\ v.rt.state = "Paused" /\ v.rt.mode = "RecordCompleted"
  BY <1>1, RecordFailureEffect
<1> HIDE DEF v
<1>3. Base(v) /\ Rested(v)
  <2>1. /\ Shape(v) /\ v.host = w.host /\ Filed(v.files)
        /\ \A f \in CoreFields \ {"recorder", "state", "mode"} : v.rt[f] = w.rt[f]
    BY <1>1, <1>2 DEF Keeps
  <2> QED BY <1>1, <1>2, <2>1, RecordCompletedSound
<1> QED BY <1>2, <1>3 DEF v

LEMMA CheckRecordFailureSound ==
    ASSUME NEW w, Base(w)
    PROVE  /\ Base(CheckRecordFailure(w)) /\ ~RecorderFailed(CheckRecordFailure(w))
           /\ Rested(w) => Rested(CheckRecordFailure(w))
           /\ CheckRecordFailure(w).rt.mode \in {w.rt.mode, "RecordCompleted"}
           /\ CheckRecordFailure(w).rt.machine = w.rt.machine
           /\ ~Recording(w) => CheckRecordFailure(w) = w
<1>1. CASE RecorderFailed(w)
  <2>1. Outer(w) /\ Recording(w) /\ w.rt.machine # None
    BY <1>1 DEF Base, RecorderFailed, Recording, InRecord, Recorded
  <2>2. SetRecordFailure(w).rt.machine = w.rt.machine
    BY <2>1, RecordFailureEffect DEF Outer, Keeps, CoreFields
  <2> QED BY <1>1, <2>1, <2>2, RecordFailureSound DEF CheckRecordFailure, RecorderFailed, Recording
<1>2. CASE ~RecorderFailed(w)
  BY <1>2 DEF CheckRecordFailure
<1> QED BY <1>1, <1>2

\* The Record that StopRecording would write is one of this program's.
Closes(w, outcome) ==
    Recording(w) =>
        /\ w.rt.machine # None
        /\ w.rt.recorder \in Recorders
        /\ ~w.rt.recorder.failed =>
             RecordGood(Finalized(w.rt.recorder, w.rt.position, outcome, Fingerprint(w.rt.machine)))

LEMMA BaseCloses ==
    ASSUME NEW w, Base(w), NEW kind, kind # "ExecutionError"
    PROVE  Closes(w, Outcome(kind))
<1>1. SUFFICES ASSUME Recording(w), ~w.rt.recorder.failed
               PROVE  RecordGood(Finalized(w.rt.recorder, w.rt.position, Outcome(kind), Fingerprint(w.rt.machine)))
  BY DEF Base, InRecord, Recorded, Recording, Closes
<1> DEFINE r == Finalized(w.rt.recorder, w.rt.position, Outcome(kind), Fingerprint(w.rt.machine))
           s == StateOf(w.rt.position, Len(w.rt.recorder.timeline), w.rt.machine, w.rt.remainder)
<1>2. OnPath(w.rt.recorder.timeline, s)
  BY <1>1 DEF Base, InRecord, Recorded, Recording
<1>3. /\ r.timeline = w.rt.recorder.timeline /\ r.position = w.rt.position
      /\ r.outcome.kind = kind /\ r.digest = w.rt.machine.log
  BY DEF Finalized, Outcome, Fingerprint
<1>4. s.cur = Len(w.rt.recorder.timeline) /\ s.pos = w.rt.position /\ s.log = w.rt.machine.log
  BY DEF StateOf
<1>5. s.log \in Seq(Events)
  BY <1>2, PathStateOK DEF PathStates
<1> HIDE DEF r, s
<1>6. OnPath(r.timeline, s) /\ EndsRecord(r, s)
  BY <1>2, <1>3, <1>4, <1>5 DEF EndsRecord
<1> QED BY <1>6, ClosedRecord DEF r

LEMMA StopRecordingSound ==
    ASSUME NEW w, NEW outcome, Outer(w), InReplay(w), Closes(w, outcome),
           NEW v \in StopRecording(w, outcome)
    PROVE  /\ Base(v) /\ v.rt.mode # "Recording" /\ v.host = w.host
           /\ \A f \in CoreFields \ {"recorder", "state", "mode"} : v.rt[f] = w.rt[f]
           /\ IF Recording(w) THEN Rested(v) /\ v.rt.mode = "RecordCompleted" /\ Revised(v) ELSE v = w
<1> DEFINE footer == Finalized(w.rt.recorder, w.rt.position, outcome, Fingerprint(w.rt.machine))
           done == Revise([w EXCEPT !.files.record = footer, !.rt.recorder = None,
                                    !.rt.mode = "RecordCompleted", !.rt.session_error = FALSE])
<1>0. Shape(w)
  BY DEF Outer
<1>1. CASE ~Recording(w)
  <2>1. v = w
    BY <1>1 DEF StopRecording, RecorderFailed
  <2> QED BY <1>1, <2>1 DEF Base, InRecord, Recorded, Recording
<1>2. CASE Recording(w) /\ v = SetRecordFailure(w)
  <2>1. w.rt.machine # None
    BY <1>2 DEF Closes
  <2>2. Base(v) /\ Rested(v) /\ v.rt.mode = "RecordCompleted"
    BY <1>2, <2>1, RecordFailureSound
  <2>3. Keeps(v, w, {"recorder", "state", "mode"}) /\ Revised(v)
    BY <1>0, <1>2, RecordFailureEffect
  <2> QED BY <1>2, <2>2, <2>3 DEF Keeps
<1>3. CASE Recording(w) /\ ~w.rt.recorder.failed /\ v = done
  <2>1. /\ v.rt = [w.rt EXCEPT !.recorder = None, !.mode = "RecordCompleted", !.session_error = FALSE,
                               !.revised = TRUE]
        /\ v.files = [w.files EXCEPT !.record = footer]
        /\ v.host = w.host /\ DOMAIN v = DOMAIN w
    <3> HIDE DEF footer
    <3> QED BY <1>0, <1>3 DEF Revise, Shape
  <2>2. RecordGood(footer) /\ w.rt.machine # None
    BY <1>3 DEF Closes
  <2> HIDE DEF footer, done
  <2>3. DOMAIN v.rt = DOMAIN w.rt /\ DOMAIN v.files = DOMAIN w.files /\ Shape(v)
    BY <1>0, <2>1 DEF Shape
  <2>4. v.files.record = footer /\ v.files.snapshot = w.files.snapshot
    BY <1>0, <2>1 DEF Shape
  <2>5. Filed(v.files)
    BY <2>2, <2>4 DEF Outer, Filed
  <2>6. \A f \in CoreFields \ {"recorder", "state", "mode"} : v.rt[f] = w.rt[f]
    BY <1>0, <2>1 DEF Shape, CoreFields, PlainFields
  <2>7. v.rt.mode = "RecordCompleted" /\ v.rt.state = w.rt.state /\ Revised(v)
    BY <1>0, <2>1 DEF Revised, Shape, CoreFields, PlainFields
  <2>8. Base(v) /\ Rested(v)
    BY <1>3, <2>1, <2>2, <2>3, <2>5, <2>6, <2>7, RecordCompletedSound DEF Recording
  <2> QED BY <1>3, <2>1, <2>6, <2>7, <2>8
<1>4. Recording(w) => \/ v = SetRecordFailure(w)
                      \/ ~w.rt.recorder.failed /\ v = done
  BY DEF StopRecording, Maybe, RecorderFailed
<1> QED BY <1>1, <1>2, <1>3, <1>4
-----------------------------------------------------------------------------
(* The end of a Replay.                                                    *)

LEMMA EndReplaySound ==
    ASSUME NEW w, NEW mode \in {"ReplayCompleted", "ReplayDiverged"}, NEW failed,
           Outer(w), Replaying(w), w.rt.machine # None,
           Replayed(mode, w.rt.replay, w.rt.position, w.rt.machine, w.rt.remainder)
    PROVE  /\ Base(EndReplay(w, mode, failed)) /\ Rested(EndReplay(w, mode, failed))
           /\ EndReplay(w, mode, failed).rt.mode = mode
<1> DEFINE v == EndReplay(w, mode, failed)
<1>0. Shape(w) /\ w.rt.mode = "Replaying"
  BY DEF Outer, Replaying
<1>1. /\ v.rt = [w.rt EXCEPT !.state = "Paused", !.session_error = failed, !.mode = mode,
                             !.revised = TRUE]
      /\ v.files = w.files /\ v.host = w.host /\ DOMAIN v = DOMAIN w
  BY <1>0 DEF EndReplay, Replaying, Revise, Shape
<1> HIDE DEF v
<1>2. DOMAIN v.rt = DOMAIN w.rt /\ Shape(v)
  BY <1>0, <1>1 DEF Shape
<1>3. \A f \in CoreFields \ {"state", "mode"} : v.rt[f] = w.rt[f]
  BY <1>0, <1>1 DEF Shape, CoreFields, PlainFields
<1>4. v.rt.state = "Paused" /\ v.rt.mode = mode
  BY <1>0, <1>1 DEF Shape, CoreFields, PlainFields
<1>5. /\ v.rt.machine = w.rt.machine /\ v.rt.remainder = w.rt.remainder
      /\ v.rt.instant = w.rt.instant /\ v.rt.position = w.rt.position
      /\ v.rt.preserved = w.rt.preserved /\ v.rt.replay = w.rt.replay
      /\ v.rt.network = w.rt.network /\ v.rt.network_generation = w.rt.network_generation
      /\ v.rt.network_error = w.rt.network_error /\ v.rt.pending = w.rt.pending
      /\ v.rt.network_config = w.rt.network_config
  BY <1>3 DEF CoreFields
<1>6. /\ Typed(v.rt.machine, v.rt.position, v.rt.remainder, v.rt.instant, v.rt.pending)
      /\ Linked(v.rt.network, v.rt.network_generation, v.rt.network_error, v.host.inbox, v.host.frames)
      /\ Clocked(v.rt.machine, v.rt.instant, v.rt.remainder) /\ Filed(v.files)
  BY <1>1, <1>5 DEF Outer
<1>7. /\ Stops(v.rt.state, v.rt.mode, v.rt.machine, v.rt.network_error)
      /\ Exempt(v.rt.state, v.rt.ignore, v.rt.machine)
  BY <1>4, <1>5 DEF Stops, Exempt
<1>8. Isolated(v.rt.mode, v.rt.machine, v.rt.preserved, v.host.result, v.host.replay_first)
  BY <1>0, <1>1, <1>4, <1>5 DEF Outer, Isolated
<1>11. Framed(v.rt.mode, v.rt.machine, v.rt.pending, v.rt.network, v.rt.network_config, v.host.frames)
  BY <1>0, <1>1, <1>4, <1>5 DEF Outer, Framed, IsReplay
<1>9. Outer(v)
  BY <1>2, <1>6, <1>7, <1>8, <1>11 DEF Outer
<1>10. InReplay(v) /\ InRecord(v) /\ Rested(v)
  BY <1>4, <1>5 DEF InReplay, InRecord, Recorded, Rested
<1> QED BY <1>4, <1>9, <1>10 DEF Base, v

\* A Replay may be declared diverged once its storage or an unnoted read has failed.
LEMMA DivergenceSound ==
    ASSUME NEW w, Outer(w), Replaying(w), w.rt.machine # None,
           w.rt.replay.failed \/ ~Unharmed(w.rt.machine.log, w.rt.replay.record),
           DOMAIN w.rt.replay = {"record", "cursor", "failed"}, w.rt.replay.failed \in BOOLEAN,
           w.rt.replay.cursor \in Nat, RecordGood(w.rt.replay.record)
    PROVE  /\ Base(SetReplayDivergence(w)) /\ Rested(SetReplayDivergence(w))
           /\ SetReplayDivergence(w).rt.mode = "ReplayDiverged"
<1>1. Replayed("ReplayDiverged", w.rt.replay, w.rt.position, w.rt.machine, w.rt.remainder)
  BY DEF Replayed
<1> QED BY <1>1, EndReplaySound DEF SetReplayDivergence

LEMMA CheckReplayFailureSound ==
    ASSUME NEW w, Base(w)
    PROVE  /\ Base(CheckReplayStorageFailure(w))
           /\ Replaying(CheckReplayStorageFailure(w)) =>
                CheckReplayStorageFailure(w) = w /\ ~w.rt.replay.failed
           /\ ~Replaying(w) => CheckReplayStorageFailure(w) = w
           /\ (Rested(w) \/ (Replaying(w) /\ w.rt.replay.failed)) => Rested(CheckReplayStorageFailure(w))
<1>1. CASE Replaying(w) /\ w.rt.replay.failed
  <2>1. /\ Outer(w) /\ w.rt.machine # None /\ DOMAIN w.rt.replay = {"record", "cursor", "failed"}
        /\ w.rt.replay.failed \in BOOLEAN /\ w.rt.replay.cursor \in Nat
        /\ RecordGood(w.rt.replay.record)
    BY <1>1 DEF Base, InReplay, Replayed, Replaying, IsReplay
  <2>2. CheckReplayStorageFailure(w) = SetReplayDivergence(w)
    BY <1>1 DEF CheckReplayStorageFailure
  <2>3. /\ Base(SetReplayDivergence(w)) /\ Rested(SetReplayDivergence(w))
        /\ SetReplayDivergence(w).rt.mode = "ReplayDiverged"
    BY <1>1, <2>1, DivergenceSound
  <2> QED BY <1>1, <2>2, <2>3 DEF Replaying
<1>2. CASE ~ (Replaying(w) /\ w.rt.replay.failed)
  BY <1>2 DEF CheckReplayStorageFailure
<1> QED BY <1>1, <1>2

\* A Replay that reached the fingerprint of its Record completes.
LEMMA VerifySound ==
    ASSUME NEW w, Outer(w), Replaying(w), w.rt.machine # None, ~w.rt.replay.failed,
           DOMAIN w.rt.replay = {"record", "cursor", "failed"}, w.rt.replay.failed \in BOOLEAN,
           w.rt.replay.cursor \in Nat, RecordGood(w.rt.replay.record),
           w.rt.machine.log = w.rt.replay.record.digest
             \/ ~Unharmed(w.rt.machine.log, w.rt.replay.record)
    PROVE  Base(VerifyFinalFingerprint(w)) /\ Rested(VerifyFinalFingerprint(w)) /\ IsReplay(VerifyFinalFingerprint(w).rt.mode)
<1>1. CASE w.rt.machine.log = w.rt.replay.record.digest
  <2>1. VerifyFinalFingerprint(w) = EndReplay(w, "ReplayCompleted", FALSE)
    BY <1>1 DEF VerifyFinalFingerprint, CompleteReplay, Fingerprint
  <2>2. Replayed("ReplayCompleted", w.rt.replay, w.rt.position, w.rt.machine, w.rt.remainder)
    BY <1>1 DEF Replayed
  <2>3. Base(EndReplay(w, "ReplayCompleted", FALSE)) /\ Rested(EndReplay(w, "ReplayCompleted", FALSE))
        /\ EndReplay(w, "ReplayCompleted", FALSE).rt.mode = "ReplayCompleted"
    BY <2>2, EndReplaySound
  <2> QED BY <2>1, <2>3 DEF IsReplay
<1>2. CASE w.rt.machine.log # w.rt.replay.record.digest
  <2>1. VerifyFinalFingerprint(w) = SetReplayDivergence(w)
    BY <1>2 DEF VerifyFinalFingerprint, Fingerprint
  <2>2. /\ Base(SetReplayDivergence(w)) /\ Rested(SetReplayDivergence(w))
        /\ SetReplayDivergence(w).rt.mode = "ReplayDiverged"
    BY <1>2, DivergenceSound
  <2> QED BY <2>1, <2>2 DEF IsReplay
<1> QED BY <1>1, <1>2

-----------------------------------------------------------------------------
(* The NAT session.                                                        *)

LEMMA FailNetworkSound ==
    ASSUME NEW w, Base(w), w.rt.network = None \/ w.rt.network.failure # "none",
           NEW v \in FailNetwork(w)
    PROVE  /\ Base(v) /\ (Rested(w) \/ Recording(w) => Rested(v))
           /\ v.rt.mode \in {w.rt.mode, "RecordCompleted"}
           /\ v.rt.network = w.rt.network /\ v.rt.position = w.rt.position
           /\ v.rt.machine = w.rt.machine /\ v.host = w.host
           /\ Revised(v) \/ (v = w /\ w.rt.network_error)
<1>0. Outer(w) /\ Shape(w)
  BY DEF Base, Outer
<1>1. CASE w.rt.network_error
  <2>1. v = w
    BY <1>1 DEF FailNetwork
  <2>2. ~Recording(w)
    BY <1>1 DEF Base, InRecord, Recorded, Recording
  <2> QED BY <1>1, <2>1, <2>2
<1>2. CASE ~w.rt.network_error
  <2> DEFINE f == [w EXCEPT !.rt.network_error = TRUE, !.rt.state = Stopped(w.rt)]
  <2>1. PICK u \in StopRecording(f, Outcome("HostNetworkError")) : v = Revise(u)
    BY <1>2 DEF FailNetwork
  <2>2. /\ f.rt = [w.rt EXCEPT !.network_error = TRUE, !.state = Stopped(w.rt)]
        /\ f.files = w.files /\ f.host = w.host /\ DOMAIN f = DOMAIN w
    BY <1>0 DEF Shape
  <2> HIDE DEF f
  <2>3. DOMAIN f.rt = DOMAIN w.rt /\ Shape(f)
    BY <1>0, <2>2 DEF Shape
  <2>4. \A x \in CoreFields \ {"network_error", "state"} : f.rt[x] = w.rt[x]
    BY <1>0, <2>2 DEF Shape, CoreFields, PlainFields
  <2>5. f.rt.network_error = TRUE /\ f.rt.state = Stopped(w.rt) /\ f.rt.state # "Running"
    BY <1>0, <2>2 DEF Shape, CoreFields, PlainFields, Stopped
  <2>6. /\ f.rt.machine = w.rt.machine /\ f.rt.remainder = w.rt.remainder
        /\ f.rt.instant = w.rt.instant /\ f.rt.position = w.rt.position
        /\ f.rt.preserved = w.rt.preserved /\ f.rt.replay = w.rt.replay
        /\ f.rt.network = w.rt.network /\ f.rt.network_generation = w.rt.network_generation
        /\ f.rt.network_config = w.rt.network_config
        /\ f.rt.pending = w.rt.pending /\ f.rt.mode = w.rt.mode /\ f.rt.recorder = w.rt.recorder
    BY <2>4 DEF CoreFields
  <2>7. /\ Typed(f.rt.machine, f.rt.position, f.rt.remainder, f.rt.instant, f.rt.pending)
        /\ Clocked(f.rt.machine, f.rt.instant, f.rt.remainder) /\ Filed(f.files)
        /\ Isolated(f.rt.mode, f.rt.machine, f.rt.preserved, f.host.result, f.host.replay_first)
        /\ Framed(f.rt.mode, f.rt.machine, f.rt.pending, f.rt.network, f.rt.network_config, f.host.frames)
    BY <1>0, <2>2, <2>6 DEF Outer
  <2>8. Linked(f.rt.network, f.rt.network_generation, f.rt.network_error, f.host.inbox, f.host.frames)
    BY <1>0, <2>2, <2>5, <2>6 DEF Outer, Linked
  <2>9. /\ Stops(f.rt.state, f.rt.mode, f.rt.machine, f.rt.network_error)
        /\ Exempt(f.rt.state, f.rt.ignore, f.rt.machine)
    BY <2>5, <2>6 DEF Stops, Exempt, Stopped
  <2>10. Outer(f)
    BY <2>3, <2>7, <2>8, <2>9 DEF Outer
  <2>11. InReplay(f)
    BY <2>6 DEF Base, InReplay
  <2>12. Closes(f, Outcome("HostNetworkError"))
    <3>1. Closes(w, Outcome("HostNetworkError"))
      BY BaseCloses
    <3> QED BY <2>6, <3>1 DEF Closes, Recording
  <2>13. /\ Base(u) /\ u.rt.mode # "Recording" /\ u.host = f.host
         /\ \A x \in CoreFields \ {"recorder", "state", "mode"} : u.rt[x] = f.rt[x]
         /\ IF Recording(f) THEN Rested(u) /\ u.rt.mode = "RecordCompleted" ELSE u = f
    BY <2>10, <2>11, <2>12, StopRecordingSound
  <2>14. Shape(u)
    BY <2>13 DEF Base, Outer
  <2>15. Keeps(v, u, {}) /\ Revised(v)
    BY <2>1, <2>14, ReviseKeeps, ReviseAnnounces
  <2>16. Base(v) /\ (Rested(u) => Rested(v))
    BY <2>13, <2>15, KeepsBase
  <2>17. u.rt.network = w.rt.network /\ u.rt.position = w.rt.position /\ u.rt.machine = w.rt.machine
    BY <2>6, <2>13 DEF CoreFields
  <2>18. /\ v.rt.network = u.rt.network /\ v.rt.position = u.rt.position
         /\ v.rt.machine = u.rt.machine /\ v.host = u.host /\ v.rt.mode = u.rt.mode
    BY <2>15 DEF Keeps, CoreFields
  <2>19. u.rt.mode \in {w.rt.mode, "RecordCompleted"}
    BY <2>6, <2>13
  <2>20. Rested(w) \/ Recording(w) => Rested(u)
    <3>1. CASE Recording(w)
      BY <2>6, <2>13, <3>1 DEF Recording
    <3>2. CASE ~Recording(w)
      <4>1. u = f
        BY <2>6, <2>13, <3>2 DEF Recording
      <4> QED BY <2>6, <3>2, <4>1 DEF Rested, Recording
    <3> QED BY <3>1, <3>2
  <2> QED BY <2>2, <2>13, <2>15, <2>16, <2>17, <2>18, <2>19, <2>20
<1> QED BY <1>1, <1>2
\* A change of the NAT session and of the frame it brought concerns nothing else.
LEMMA NetworkChange ==
    ASSUME NEW w, NEW v, Base(w), Shape(v), v.files = w.files, v.host.result = w.host.result /\ v.host.replay_first = w.host.replay_first,
           \A f \in CoreFields \ {"network", "network_generation", "pending", "state"} :
               v.rt[f] = w.rt[f],
           v.rt.state = w.rt.state \/ v.rt.state = Stopped(w.rt),
           Linked(v.rt.network, v.rt.network_generation, v.rt.network_error,
                  v.host.inbox, v.host.frames),
           v.rt.pending # None => v.rt.pending \in Events,
           Framed(v.rt.mode, v.rt.machine, v.rt.pending,
                  v.rt.network, v.rt.network_config, v.host.frames)
    PROVE  /\ Base(v) /\ (Rested(w) => Rested(v))
           /\ v.rt.mode = w.rt.mode /\ v.rt.machine = w.rt.machine /\ v.rt.position = w.rt.position
           /\ v.rt.recorder = w.rt.recorder
<1>1. /\ v.rt.machine = w.rt.machine /\ v.rt.remainder = w.rt.remainder
      /\ v.rt.instant = w.rt.instant /\ v.rt.position = w.rt.position
      /\ v.rt.preserved = w.rt.preserved /\ v.rt.replay = w.rt.replay
      /\ v.rt.network_error = w.rt.network_error /\ v.rt.ignore = w.rt.ignore
      /\ v.rt.mode = w.rt.mode /\ v.rt.recorder = w.rt.recorder
  BY DEF CoreFields
<1>2. Outer(w)
  BY DEF Base
<1>3. Typed(v.rt.machine, v.rt.position, v.rt.remainder, v.rt.instant, v.rt.pending)
  BY <1>1, <1>2 DEF Outer, Typed
<1>4. /\ Stops(v.rt.state, v.rt.mode, v.rt.machine, v.rt.network_error)
      /\ Exempt(v.rt.state, v.rt.ignore, v.rt.machine)
  BY <1>1, <1>2 DEF Outer, Stops, Exempt, Stopped
<1>5. /\ Clocked(v.rt.machine, v.rt.instant, v.rt.remainder) /\ Filed(v.files)
      /\ Isolated(v.rt.mode, v.rt.machine, v.rt.preserved, v.host.result, v.host.replay_first)
  BY <1>1, <1>2 DEF Outer
<1>6. Outer(v)
  BY <1>3, <1>4, <1>5 DEF Outer
<1>7. InRecord(v) /\ InReplay(v)
  BY <1>1 DEF Base, InRecord, InReplay
<1>8. Rested(w) => Rested(v)
  BY <1>1 DEF Rested
<1> QED BY <1>1, <1>6, <1>7, <1>8 DEF Base

LEMMA TakeFailureSound ==
    ASSUME NEW w, Base(w), NEW v \in TakeFailure(w)
    PROVE  /\ Base(v) /\ (Rested(w) => Rested(v))
           /\ v.rt.mode \in {w.rt.mode, "RecordCompleted"} /\ v.rt.machine = w.rt.machine
<1>0. Outer(w) /\ Shape(w)
  BY DEF Base, Outer
<1>1. CASE ~ (w.rt.network # None /\ w.rt.network.failure = "latched")
  BY <1>1 DEF TakeFailure
<1>2. CASE w.rt.network # None /\ w.rt.network.failure = "latched"
  <2> DEFINE u == [w EXCEPT !.rt.network.failure = "taken"]
  <2>1. v \in FailNetwork(u)
    BY <1>2 DEF TakeFailure
  <2>2. /\ u.rt = [w.rt EXCEPT !.network = [w.rt.network EXCEPT !.failure = "taken"]]
        /\ u.files = w.files /\ u.host = w.host /\ DOMAIN u = DOMAIN w
    BY <1>0 DEF Shape, CoreFields, PlainFields
  <2> HIDE DEF u
  <2>3. DOMAIN u.rt = DOMAIN w.rt /\ Shape(u)
    BY <1>0, <2>2 DEF Shape
  <2>4. \A x \in CoreFields \ {"network"} : u.rt[x] = w.rt[x]
    BY <1>0, <2>2 DEF Shape, CoreFields, PlainFields
  <2>5. u.rt.network = [w.rt.network EXCEPT !.failure = "taken"]
    BY <1>0, <2>2 DEF Shape, CoreFields, PlainFields
  <2>6. Linked(w.rt.network, w.rt.network_generation, w.rt.network_error, w.host.inbox, w.host.frames)
    BY <1>0 DEF Outer
  <2>7. /\ u.rt.network_generation = w.rt.network_generation /\ u.rt.state = w.rt.state
        /\ u.rt.network_error = w.rt.network_error /\ u.rt.pending = w.rt.pending
    BY <2>4 DEF CoreFields
  <2>8. /\ DOMAIN u.rt.network = DOMAIN w.rt.network /\ u.rt.network.failure = "taken"
        /\ u.rt.network.generation = w.rt.network.generation /\ u.rt.network.rx = w.rt.network.rx
        /\ u.rt.network.first = w.rt.network.first
    BY <1>2, <2>5, <2>6 DEF Linked
  <2>9. Linked(u.rt.network, u.rt.network_generation, u.rt.network_error, u.host.inbox, u.host.frames)
    BY <1>2, <2>2, <2>6, <2>7, <2>8 DEF Linked
  <2>10. u.rt.pending # None => u.rt.pending \in Events
    BY <1>0, <2>7 DEF Outer, Typed
  <2>13. \A x \in CoreFields \ {"network", "network_generation", "pending", "state"} : u.rt[x] = w.rt[x]
    BY <2>4
  <2>14. Framed(u.rt.mode, u.rt.machine, u.rt.pending, u.rt.network, u.rt.network_config, u.host.frames)
    <3>1. Framed(w.rt.mode, w.rt.machine, w.rt.pending, w.rt.network, w.rt.network_config, w.host.frames)
      BY <1>0 DEF Outer
    <3>2. /\ u.rt.mode = w.rt.mode /\ u.rt.machine = w.rt.machine
          /\ u.rt.network_config = w.rt.network_config
      BY <2>4 DEF CoreFields
    <3> QED BY <1>2, <2>2, <2>7, <2>8, <3>1, <3>2 DEF Framed, Queued
  <2>15. u.files = w.files /\ u.host.result = w.host.result /\ u.host.replay_first = w.host.replay_first
    BY <2>2
  <2>11. Base(u) /\ (Rested(w) => Rested(u)) /\ u.rt.mode = w.rt.mode /\ u.rt.machine = w.rt.machine
    BY <2>3, <2>7, <2>9, <2>10, <2>13, <2>14, <2>15, NetworkChange
  <2>12. u.rt.network.failure # "none"
    BY <2>8
  <2> QED BY <2>1, <2>11, <2>12, FailNetworkSound
<1> QED BY <1>1, <1>2

LEMMA FetchFrameSound ==
    ASSUME NEW w, Base(w)
    PROVE  /\ Base(FetchFrame(w)) /\ (Rested(w) => Rested(FetchFrame(w)))
           /\ FetchFrame(w).rt.mode = w.rt.mode /\ FetchFrame(w).rt.machine = w.rt.machine
<1>0. Outer(w) /\ Shape(w)
  BY DEF Base, Outer
<1> DEFINE due == w.rt.pending = None /\ w.rt.network # None /\ w.rt.network.rx # <<>>
<1>1. CASE ~due
  BY <1>1 DEF FetchFrame
<1>2. CASE due
  <2> DEFINE u == FetchFrame(w)
  <2>1. /\ u.rt = [w.rt EXCEPT !.pending = Head(w.rt.network.rx),
                               !.network = [w.rt.network EXCEPT !.rx = Tail(w.rt.network.rx)]]
        /\ u.files = w.files /\ u.host = w.host /\ DOMAIN u = DOMAIN w
    <3>1. u = [w EXCEPT !.rt.pending = Head(w.rt.network.rx), !.rt.network.rx = Tail(@)]
      BY <1>2 DEF FetchFrame
    <3> HIDE DEF u
    <3>2. DOMAIN w.rt.network = {"generation", "first", "rx", "failure", "notified"}
      BY <1>0, <1>2 DEF Outer, Linked
    <3> QED BY <1>0, <3>1, <3>2 DEF Shape, CoreFields, PlainFields
  <2> HIDE DEF u
  <2>3. DOMAIN u.rt = DOMAIN w.rt /\ Shape(u)
    BY <1>0, <2>1 DEF Shape
  <2>4. \A x \in CoreFields \ {"network", "pending"} : u.rt[x] = w.rt[x]
    BY <1>0, <2>1 DEF Shape, CoreFields, PlainFields
  <2>5. /\ u.rt.network = [w.rt.network EXCEPT !.rx = Tail(w.rt.network.rx)]
        /\ u.rt.pending = Head(w.rt.network.rx)
    BY <1>0, <2>1 DEF Shape, CoreFields, PlainFields
  <2>6. Linked(w.rt.network, w.rt.network_generation, w.rt.network_error, w.host.inbox, w.host.frames)
    BY <1>0 DEF Outer
  <2>7. /\ u.rt.network_generation = w.rt.network_generation /\ u.rt.state = w.rt.state
        /\ u.rt.network_error = w.rt.network_error
    BY <2>4 DEF CoreFields
  <2>8. w.rt.network.rx \in Seq(Events) /\ w.rt.network.rx # <<>>
    BY <1>2, <2>6 DEF Linked
  <2>9. Tail(w.rt.network.rx) \in Seq(Events) /\ Head(w.rt.network.rx) \in Events
    BY <2>8
  <2>10. /\ DOMAIN u.rt.network = DOMAIN w.rt.network /\ u.rt.network.failure = w.rt.network.failure
         /\ u.rt.network.generation = w.rt.network.generation /\ u.rt.network.rx = Tail(w.rt.network.rx)
         /\ u.rt.network.first = w.rt.network.first
    BY <1>2, <2>5, <2>6 DEF Linked
  <2>11. Linked(u.rt.network, u.rt.network_generation, u.rt.network_error, u.host.inbox, u.host.frames)
    BY <1>2, <2>1, <2>6, <2>7, <2>9, <2>10 DEF Linked
  <2>13. \A x \in CoreFields \ {"network", "network_generation", "pending", "state"} : u.rt[x] = w.rt[x]
    BY <2>4
  <2>14. Framed(u.rt.mode, u.rt.machine, u.rt.pending, u.rt.network, u.rt.network_config, u.host.frames)
    <3>1. /\ Framed(w.rt.mode, w.rt.machine, None, w.rt.network, w.rt.network_config, w.host.frames)
          /\ w.host.frames \in Nat
      BY <1>0, <1>2, <2>6 DEF Outer, Linked
    <3>2. /\ u.rt.mode = w.rt.mode /\ u.rt.machine = w.rt.machine
          /\ u.rt.network_config = w.rt.network_config
      BY <2>4 DEF CoreFields
    <3>3. Head(w.rt.network.rx) # None
      BY <2>9, RuntimeConstants
    <3>4. Framed(w.rt.mode, w.rt.machine, Head(w.rt.network.rx), u.rt.network, w.rt.network_config,
                 w.host.frames)
      BY <1>2, <2>8, <2>10, <3>1, <3>3, FramedFetch
    <3> QED BY <2>1, <2>5, <3>2, <3>4
  <2>12. /\ Base(u) /\ (Rested(w) => Rested(u)) /\ u.rt.mode = w.rt.mode
         /\ u.rt.machine = w.rt.machine
    <3>1. u.files = w.files /\ u.host.result = w.host.result /\ u.host.replay_first = w.host.replay_first /\ u.rt.pending \in Events
      BY <2>1, <2>5, <2>9
    <3> QED BY <2>3, <2>13, <2>7, <2>11, <2>14, <3>1, NetworkChange
  <2> QED BY <2>12 DEF u
<1> QED BY <1>1, <1>2
-----------------------------------------------------------------------------
(* What a Recording writes.                                                *)

LEMMA MachineData == \A m \in Machines : m.log \in Seq(Events) /\ m.cycles \in Nat
BY DEF Machines

LEMMA MachineFields ==
    ASSUME NEW m \in Machines, NEW e \in Events
    PROVE  /\ m.log \in Seq(Events) /\ m.cycles \in Nat /\ m # None
           /\ Happened(m, e) \in Machines /\ Happened(m, e).log = Append(m.log, e)
           /\ Happened(m, e).cycles = m.cycles /\ Happened(m, e).owner = m.owner
           /\ Happened(m, e).nv = m.nv
<1>1. m.log \in Seq(Events) /\ m.cycles \in Nat
  BY DEF Machines
<1>2. m # None
  BY RecordConstants
<1>3. Append(m.log, e) \in Seq(Events)
  BY <1>1
<1> QED BY <1>1, <1>2, <1>3 DEF Machines, Happened

LEMMA InputPath ==
    ASSUME NEW t, NEW m \in Machines, NEW pos, NEW rem, NEW e \in Events,
           ~ (e[1] = "frame" /\ m.cycles % 2 = 1),
           OnPath(t, StateOf(pos, Len(t), m, rem))
    PROVE  /\ Append(t, MachineInput(pos, e)) \in Seq(Entries)
           /\ OnPath(Append(t, MachineInput(pos, e)),
                     StateOf(pos, Len(Append(t, MachineInput(pos, e))), ReceiveInput(m, e), rem))
<1> DEFINE s == StateOf(pos, Len(t), m, rem)
           x == MachineInput(pos, e)
           u == StateOf(pos, Len(t) + 1, Happened(m, e), rem)
<1>1. s \in PathStates /\ t \in Seq(Entries)
  BY PathStateOK
<1>2. s = [pos |-> pos, cur |-> Len(t), log |-> m.log, cyc |-> m.cycles, rem |-> rem]
  BY DEF StateOf
<1>3. pos \in Positions /\ rem \in Nat /\ m.log \in Seq(Events) /\ m.cycles \in Nat /\ Len(t) \in Nat
  BY <1>1, <1>2 DEF PathStates, Machines
<1>4. u = [pos |-> pos, cur |-> Len(t) + 1, log |-> Append(m.log, e), cyc |-> m.cycles, rem |-> rem]
  BY MachineFields DEF StateOf
<1> HIDE DEF s, u
<1>5. u \in PathStates
  <2>1. Append(m.log, e) \in Seq(Events) /\ Len(t) + 1 \in Nat
    BY <1>3
  <2> QED BY <1>3, <1>4, <2>1 DEF PathStates
<1>6. x \in Entries /\ x.position = pos /\ x.kind = "input" /\ x.data = <<e>> /\ x.data[1] = e
  <2>1. <<e>> \in Seq(Events)
    OBVIOUS
  <2> QED BY <1>3, <2>1 DEF Entries, EntryKinds, MachineInput
<1> HIDE DEF x
<1>7. Append(t, x) \in Seq(Entries) /\ Len(Append(t, x)) = Len(t) + 1 /\ Append(t, x)[Len(t) + 1] = x
  BY <1>1, <1>6
<1>8. Consumes(Append(t, x), s, u)
  <2> DEFINE y == Append(t, x)
  <2>1. /\ s.cur = Len(t) /\ s.pos = pos /\ s.log = m.log /\ s.cyc = m.cycles /\ s.rem = rem
        /\ s.cur < Len(y) /\ y[s.cur + 1] = x
    BY <1>2, <1>3, <1>7
  <2> HIDE DEF y
  <2> QED BY <1>4, <1>6, <2>1 DEF Consumes, y
<1>9. s.cur = Len(t) /\ x.position = s.pos
  BY <1>2, <1>6
<1>10. OnPath(Append(t, x), u)
  BY <1>5, <1>6, <1>8, <1>9, PathRecords DEF s
<1> QED BY <1>7, <1>10 DEF x, u, ReceiveInput

LEMMA CheckpointPath ==
    ASSUME NEW t, NEW m \in Machines, NEW pos, NEW rem, OnPath(t, StateOf(pos, Len(t), m, rem))
    PROVE  /\ Append(t, Checkpoint(pos, Fingerprint(m))) \in Seq(Entries)
           /\ OnPath(Append(t, Checkpoint(pos, Fingerprint(m))),
                     StateOf(pos, Len(Append(t, Checkpoint(pos, Fingerprint(m)))), m, rem))
<1> DEFINE s == StateOf(pos, Len(t), m, rem)
           x == Checkpoint(pos, Fingerprint(m))
           u == StateOf(pos, Len(t) + 1, m, rem)
<1>1. s \in PathStates /\ t \in Seq(Entries)
  BY PathStateOK
<1>2. s = [pos |-> pos, cur |-> Len(t), log |-> m.log, cyc |-> m.cycles, rem |-> rem]
  BY DEF StateOf
<1>3. pos \in Positions /\ rem \in Nat /\ m.log \in Seq(Events) /\ m.cycles \in Nat /\ Len(t) \in Nat
  BY <1>1, <1>2 DEF PathStates, Machines
<1>4. u = [pos |-> pos, cur |-> Len(t) + 1, log |-> m.log, cyc |-> m.cycles, rem |-> rem]
  BY DEF StateOf
<1>5. u \in PathStates
  BY <1>3, <1>4 DEF PathStates
<1>6. x \in Entries /\ x.position = pos /\ x.kind = "checkpoint" /\ x.data = m.log
  BY <1>3 DEF Entries, EntryKinds, Checkpoint, Fingerprint
<1> HIDE DEF x
<1>7. Append(t, x) \in Seq(Entries) /\ Len(Append(t, x)) = Len(t) + 1 /\ Append(t, x)[Len(t) + 1] = x
  BY <1>1, <1>6
<1>8. Consumes(Append(t, x), s, u)
  BY <1>2, <1>3, <1>4, <1>6, <1>7 DEF Consumes
<1>9. s.cur = Len(t) /\ x.position = s.pos
  BY <1>2, <1>6
<1>10. OnPath(Append(t, x), u)
  <2> HIDE DEF s, u
  <2> QED BY <1>5, <1>6, <1>8, <1>9, PathRecords DEF s
<1> QED BY <1>7, <1>10 DEF x

LEMMA ResetPath ==
    ASSUME NEW t, NEW m \in Machines, NEW pos, NEW rem, pos.epoch # U64_MAX,
           OnPath(t, StateOf(pos, Len(t), m, rem))
    PROVE  /\ Append(t, ResetEntry(pos)) \in Seq(Entries)
           /\ OnPath(Append(t, ResetEntry(pos)),
                     StateOf(NextEpoch(pos), Len(Append(t, ResetEntry(pos))), ResetGuest(m), 0))
           /\ ResetGuest(m) \in Machines
<1> DEFINE s == StateOf(pos, Len(t), m, rem)
           x == ResetEntry(pos)
           u == StateOf(NextEpoch(pos), Len(t) + 1, ResetGuest(m), 0)
           r == <<"reset", 0>>
<1>1. s \in PathStates /\ t \in Seq(Entries) /\ r \in Events
  BY PathStateOK DEF Events
<1>2. s = [pos |-> pos, cur |-> Len(t), log |-> m.log, cyc |-> m.cycles, rem |-> rem]
  BY DEF StateOf
<1>3. pos \in Positions /\ rem \in Nat /\ m.log \in Seq(Events) /\ m.cycles \in Nat /\ Len(t) \in Nat
  BY <1>1, <1>2 DEF PathStates, Machines
<1>4. /\ Happened(m, r) \in Machines /\ Happened(m, r).log = Append(m.log, r)
      /\ ResetGuest(m) = [Happened(m, r) EXCEPT !.cycles = 0]
  BY <1>1, MachineFields DEF ResetGuest
<1> DEFINE h == Happened(m, r)
           g == ResetGuest(m)
<1> HIDE DEF r, h, g
<1>5. ResetGuest(m) \in Machines /\ ResetGuest(m).log = Append(m.log, r) /\ ResetGuest(m).cycles = 0
  <2>1. h \in Machines /\ h.log = Append(m.log, r) /\ g = [h EXCEPT !.cycles = 0]
    BY <1>4 DEF h, g
  <2>2. g \in Machines /\ g.log = h.log /\ g.cycles = 0
    BY <2>1 DEF Machines
  <2> QED BY <2>1, <2>2 DEF g
<1>6. u = [pos |-> [epoch |-> pos.epoch + 1, completed |-> 0], cur |-> Len(t) + 1,
           log |-> Append(m.log, r), cyc |-> 0, rem |-> 0]
  BY <1>5 DEF StateOf, NextEpoch
<1> HIDE DEF u
<1>7. u \in PathStates
  <2>1. [epoch |-> pos.epoch + 1, completed |-> 0] \in Positions
    BY <1>3 DEF Positions
  <2>2. Append(m.log, r) \in Seq(Events) /\ Len(t) + 1 \in Nat
    BY <1>1, <1>3
  <2> QED BY <1>6, <2>1, <2>2 DEF PathStates
<1>8. x \in Entries /\ x.position = pos /\ x.kind = "reset"
  BY <1>3 DEF Entries, EntryKinds, ResetEntry
<1> HIDE DEF x
<1>9. Append(t, x) \in Seq(Entries) /\ Len(Append(t, x)) = Len(t) + 1 /\ Append(t, x)[Len(t) + 1] = x
  BY <1>1, <1>8
<1>10. Consumes(Append(t, x), s, u)
  BY <1>2, <1>3, <1>6, <1>8, <1>9 DEF Consumes, r
<1>11. s.cur = Len(t) /\ x.position = s.pos
  BY <1>2, <1>8
<1>12. OnPath(Append(t, x), u)
  <2> HIDE DEF s, u
  <2> QED BY <1>7, <1>8, <1>10, <1>11, PathRecords DEF s
<1> QED BY <1>5, <1>9, <1>12 DEF x, u
LEMMA RecordTimelineEffect ==
    ASSUME NEW w, Shape(w), NEW entry, NEW v \in RecordTimeline(w, entry)
    PROVE  /\ Keeps(v, w, {"recorder"})
           /\ v.rt.recorder \in {RecordEntry(w.rt.recorder, entry), FailRecorder(w.rt.recorder)}
<1> DEFINE R == {RecordEntry(w.rt.recorder, entry), FailRecorder(w.rt.recorder)}
<1>1. \E r \in R : v = [w EXCEPT !.rt.recorder = r]
  BY DEF RecordTimeline, Maybe
<1> HIDE DEF R
<1>2. PICK r \in R : v = [w EXCEPT !.rt.recorder = r]
  BY <1>1
<1>3. Keeps(v, w, {"recorder"}) /\ v.rt.recorder = r
  BY <1>2 DEF Shape, Keeps, CoreFields, PlainFields
<1> QED BY <1>3 DEF R

LEMMA RecorderEntry ==
    ASSUME NEW r \in Recorders, NEW e
    PROVE  /\ RecordEntry(r, e).timeline = Append(r.timeline, e) /\ RecordEntry(r, e).failed = r.failed
           /\ e \in Entries => RecordEntry(r, e) \in Recorders
           /\ FailRecorder(r) \in Recorders /\ FailRecorder(r).failed
<1>1. r.timeline \in Seq(Entries)
  BY DEF Recorders
<1>2. e \in Entries => Append(r.timeline, e) \in Seq(Entries)
  BY <1>1
<1> QED BY <1>2 DEF RecordEntry, FailRecorder, Recorders

\* An event that takes no cycle.
LEMMA HappenedOuter ==
    ASSUME NEW w, NEW v, NEW e \in Events, Outer(w), w.rt.machine # None,
           Shape(v), v.files = w.files, v.host = w.host,
           \A f \in CoreFields \ {"machine", "recorder", "replay", "pending"} : v.rt[f] = w.rt[f],
           v.rt.machine = Happened(w.rt.machine, e),
           \/ v.rt.pending = w.rt.pending /\ (e[1] # "frame" \/ IsReplay(w.rt.mode))
           \/ v.rt.pending = None /\ w.rt.pending = e /\ ~IsReplay(w.rt.mode)
    PROVE  Outer(v)
<1>1. /\ v.rt.remainder = w.rt.remainder /\ v.rt.state = w.rt.state
      /\ v.rt.instant = w.rt.instant /\ v.rt.position = w.rt.position
      /\ v.rt.preserved = w.rt.preserved /\ v.rt.ignore = w.rt.ignore /\ v.rt.mode = w.rt.mode
      /\ v.rt.network = w.rt.network /\ v.rt.network_generation = w.rt.network_generation
      /\ v.rt.network_error = w.rt.network_error /\ v.rt.network_config = w.rt.network_config
  BY DEF CoreFields
<1>2. w.rt.machine \in Machines
  BY DEF Outer, Typed
<1>3. /\ v.rt.machine \in Machines /\ v.rt.machine.cycles = w.rt.machine.cycles
      /\ v.rt.machine.owner = w.rt.machine.owner /\ v.rt.machine.nv = w.rt.machine.nv
      /\ v.rt.machine.log = Append(w.rt.machine.log, e)
  <2> DEFINE m == w.rt.machine
  <2> HIDE DEF m
  <2>1. m \in Machines /\ v.rt.machine = Happened(m, e)
    BY <1>2 DEF m
  <2>2. /\ Happened(m, e) \in Machines /\ Happened(m, e).log = Append(m.log, e)
        /\ Happened(m, e).cycles = m.cycles /\ Happened(m, e).owner = m.owner
        /\ Happened(m, e).nv = m.nv
    BY <2>1, MachineFields
  <2>3. /\ v.rt.machine \in Machines /\ v.rt.machine.cycles = m.cycles
        /\ v.rt.machine.owner = m.owner /\ v.rt.machine.nv = m.nv
        /\ v.rt.machine.log = Append(m.log, e)
    BY <2>1, <2>2
  <2> QED BY <2>3 DEF m
<1>4. v.rt.machine # None
  BY <1>3, RecordConstants
<1>5. Typed(v.rt.machine, v.rt.position, v.rt.remainder, v.rt.instant, v.rt.pending)
  BY <1>1, <1>3 DEF Outer, Typed
<1>6. /\ Linked(v.rt.network, v.rt.network_generation, v.rt.network_error, v.host.inbox, v.host.frames)
      /\ Filed(v.files)
  BY <1>1 DEF Outer
<1>7. Stops(v.rt.state, v.rt.mode, v.rt.machine, v.rt.network_error)
  BY <1>1, <1>4 DEF Outer, Stops
<1>8. Exempt(v.rt.state, v.rt.ignore, v.rt.machine)
  BY <1>1, <1>3 DEF Outer, Exempt, ExecutionAddress
<1>9. Clocked(v.rt.machine, v.rt.instant, v.rt.remainder)
  BY <1>1, <1>3 DEF Outer, Clocked
<1>10. Isolated(v.rt.mode, v.rt.machine, v.rt.preserved, v.host.result, v.host.replay_first)
  BY <1>1, <1>3, <1>4 DEF Outer, Isolated
<1>11. Framed(v.rt.mode, v.rt.machine, v.rt.pending, v.rt.network, v.rt.network_config, v.host.frames)
  <2>1. /\ Framed(w.rt.mode, w.rt.machine, w.rt.pending, w.rt.network, w.rt.network_config, w.host.frames)
        /\ w.host.frames \in Nat /\ (w.rt.network # None => w.rt.network.rx \in Seq(Events))
    BY DEF Outer, Linked
  <2>2. CASE v.rt.pending = w.rt.pending /\ e[1] # "frame"
    BY <1>1, <1>2, <1>3, <1>4, <2>1, <2>2, KeptEvent, FramedKept
  <2>3. CASE IsReplay(w.rt.mode)
    BY <1>1, <2>1, <2>3 DEF Framed
  <2>4. CASE v.rt.pending = None /\ w.rt.pending = e /\ ~IsReplay(w.rt.mode)
    <3>1. e # None
      BY RuntimeConstants
    <3> QED BY <1>1, <1>2, <1>3, <1>4, <2>1, <2>4, <3>1, FramedInput
  <2> QED BY <2>2, <2>3, <2>4
<1> QED BY <1>5, <1>6, <1>7, <1>8, <1>9, <1>10, <1>11 DEF Outer

\* An input that the machine consumes, and the Record of it.
LEMMA InputSound ==
    ASSUME NEW w, NEW v, NEW e \in Events, Base(w), w.rt.machine # None, ~IsReplay(w.rt.mode),
           ~ (e[1] = "frame" /\ w.rt.machine.cycles % 2 = 1),
           Shape(v), v.files = w.files, v.host = w.host,
           \A f \in CoreFields \ {"machine", "recorder", "pending"} : v.rt[f] = w.rt[f],
           v.rt.machine = ReceiveInput(w.rt.machine, e),
           \/ v.rt.pending = w.rt.pending /\ e[1] # "frame"
           \/ v.rt.pending = None /\ w.rt.pending = e,
           w.rt.mode = "Recording" =>
               v.rt.recorder \in {RecordEntry(w.rt.recorder, MachineInput(w.rt.position, e)),
                                  FailRecorder(w.rt.recorder)}
    PROVE  Base(v) /\ v.rt.mode = w.rt.mode /\ v.rt.machine # None
<1>1. /\ v.rt.mode = w.rt.mode /\ v.rt.position = w.rt.position /\ v.rt.remainder = w.rt.remainder
      /\ v.rt.network_error = w.rt.network_error
  BY DEF CoreFields
<1>2. Outer(w)
  BY DEF Base
<1>3. v.rt.machine = Happened(w.rt.machine, e)
  BY DEF ReceiveInput
<1>4. Outer(v)
  <2>1. \A f \in CoreFields \ {"machine", "recorder", "replay", "pending"} : v.rt[f] = w.rt[f]
    OBVIOUS
  <2> QED BY <1>2, <1>3, <2>1, HappenedOuter
<1>5. InReplay(v)
  BY <1>1 DEF InReplay, Replayed
<1>6. InRecord(v)
  <2>1. SUFFICES ASSUME w.rt.mode = "Recording" PROVE InRecord(v)
    BY <1>1 DEF InRecord, Recorded
  <2> DEFINE r == w.rt.recorder
             x == MachineInput(w.rt.position, e)
  <2>2. w.rt.machine \in Machines
    BY <1>2 DEF Outer, Typed
  <2>3. v.rt.machine # None
    BY <1>3, <2>2, MachineFields, RecordConstants
  <2>4. /\ ~w.rt.network_error /\ r \in Recorders
        /\ ~r.failed => OnPath(r.timeline, StateOf(w.rt.position, Len(r.timeline), w.rt.machine, w.rt.remainder))
    BY <2>1 DEF Base, InRecord, Recorded
  <2>5. x \in Entries
    <3>1. <<e>> \in Seq(Events) /\ w.rt.position \in Positions
      BY <1>2 DEF Outer, Typed
    <3> QED BY <3>1 DEF Entries, EntryKinds, MachineInput
  <2>6. v.rt.recorder = RecordEntry(r, x) \/ v.rt.recorder = FailRecorder(r)
    BY <2>1
  <2> HIDE DEF r, x
  <2>7. /\ RecordEntry(r, x).timeline = Append(r.timeline, x) /\ RecordEntry(r, x).failed = r.failed
        /\ RecordEntry(r, x) \in Recorders
        /\ FailRecorder(r) \in Recorders /\ FailRecorder(r).failed
    BY <2>4, <2>5, RecorderEntry
  <2>8. ~r.failed => OnPath(Append(r.timeline, x),
                            StateOf(w.rt.position, Len(Append(r.timeline, x)),
                                    v.rt.machine, w.rt.remainder))
    BY <2>2, <2>4, InputPath DEF x
  <2>9. v.rt.recorder \in Recorders
    BY <2>6, <2>7
  <2>10. ~v.rt.recorder.failed =>
           OnPath(v.rt.recorder.timeline,
                  StateOf(v.rt.position, Len(v.rt.recorder.timeline), v.rt.machine, v.rt.remainder))
    BY <1>1, <2>6, <2>7, <2>8
  <2> QED BY <1>1, <2>3, <2>4, <2>9, <2>10 DEF InRecord, Recorded
<1>7. v.rt.machine # None
  <2>1. w.rt.machine \in Machines
    BY <1>2 DEF Outer, Typed
  <2> QED BY <1>3, <2>1, MachineFields, RecordConstants
<1> QED BY <1>1, <1>4, <1>5, <1>6, <1>7 DEF Base

LEMMA AcceptSound ==
    ASSUME NEW w, Base(w), w.rt.machine # None, ~IsReplay(w.rt.mode), w.rt.pending # None,
           ~WouldBlock(w.rt.machine, w.rt.pending), NEW v \in AcceptNetworkInput(w)
    PROVE  Base(v) /\ v.rt.mode = w.rt.mode /\ v.rt.machine # None
<1> DEFINE e == w.rt.pending
           u == [w EXCEPT !.rt.machine = ReceiveInput(@, w.rt.pending), !.rt.pending = None]
<1>0. Outer(w) /\ Shape(w)
  BY DEF Base, Outer
<1>1. e \in Events /\ ~ (e[1] = "frame" /\ w.rt.machine.cycles % 2 = 1)
  BY <1>0 DEF Outer, Typed, WouldBlock
<1>2. /\ u.rt = [w.rt EXCEPT !.machine = ReceiveInput(w.rt.machine, w.rt.pending), !.pending = None]
      /\ u.files = w.files /\ u.host = w.host /\ DOMAIN u = DOMAIN w
  BY <1>0 DEF Shape, CoreFields, PlainFields
<1>3. IF Recording(w) THEN v \in RecordTimeline(u, MachineInput(w.rt.position, e)) ELSE v = u
  BY DEF AcceptNetworkInput
<1> HIDE DEF u
<1>4. DOMAIN u.rt = DOMAIN w.rt /\ Shape(u)
  BY <1>0, <1>2 DEF Shape
<1>5. \A f \in CoreFields \ {"machine", "pending"} : u.rt[f] = w.rt[f]
  BY <1>0, <1>2 DEF Shape, CoreFields, PlainFields
<1>6. u.rt.machine = ReceiveInput(w.rt.machine, e) /\ u.rt.pending = None
  BY <1>0, <1>2 DEF Shape, CoreFields, PlainFields
<1>9. w.rt.pending = e
  OBVIOUS
<1> HIDE DEF e
<1>7. CASE ~Recording(w)
  <2>1. v = u /\ w.rt.mode # "Recording"
    BY <1>3, <1>7 DEF Recording
  <2>2. \A f \in CoreFields \ {"machine", "recorder", "pending"} : v.rt[f] = w.rt[f]
    BY <1>5, <2>1
  <2>3. v.files = w.files /\ v.host = w.host /\ Shape(v) /\ v.rt.machine = ReceiveInput(w.rt.machine, e) /\ v.rt.pending = None
    BY <1>2, <1>4, <1>6, <2>1
  <2> QED BY <1>1, <1>9, <2>1, <2>2, <2>3, InputSound
<1>8. CASE Recording(w)
  <2> DEFINE x == MachineInput(w.rt.position, e)
  <2> HIDE DEF x
  <2>1. v \in RecordTimeline(u, x)
    BY <1>3, <1>8 DEF x
  <2>2. Keeps(v, u, {"recorder"}) /\ v.rt.recorder \in {RecordEntry(u.rt.recorder, x), FailRecorder(u.rt.recorder)}
    BY <1>4, <2>1, RecordTimelineEffect
  <2>3. \A f \in CoreFields \ {"machine", "recorder", "pending"} : v.rt[f] = w.rt[f]
    BY <1>5, <2>2 DEF Keeps
  <2>4. u.rt.recorder = w.rt.recorder /\ v.rt.machine = u.rt.machine /\ v.rt.pending = u.rt.pending
    BY <1>5, <2>2 DEF Keeps, CoreFields
  <2>5. v.files = w.files /\ v.host = w.host /\ Shape(v) /\ v.rt.machine = ReceiveInput(w.rt.machine, e) /\ v.rt.pending = None
    BY <1>2, <1>6, <2>2, <2>4 DEF Keeps
  <2>6. v.rt.recorder \in {RecordEntry(w.rt.recorder, x), FailRecorder(w.rt.recorder)}
    BY <2>2, <2>4
  <2> QED BY <1>1, <1>9, <2>3, <2>5, <2>6, InputSound DEF x
<1> QED BY <1>7, <1>8

LEMMA FailSessionRecording ==
    ASSUME NEW w, Outer(w), Recording(w), w.rt.machine # None
    PROVE  /\ Base(FailSession(w)) /\ Rested(FailSession(w))
           /\ FailSession(w).rt.mode = "RecordCompleted" /\ FailSession(w).rt.machine = w.rt.machine
<1>1. FailSession(w) = SetRecordFailure(w)
  BY DEF FailSession, Recording, Replaying
<1>2. SetRecordFailure(w).rt.machine = w.rt.machine
  BY RecordFailureEffect DEF Outer, Keeps, CoreFields
<1> QED BY <1>1, <1>2, RecordFailureSound

LEMMA NetworkBoundarySound ==
    ASSUME NEW w, Base(w), w.rt.machine # None, ~IsReplay(w.rt.mode),
           NEW v \in ProcessNetworkBoundary(w)
    PROVE  Base(v) /\ v.rt.mode \in {w.rt.mode, "RecordCompleted"} /\ v.rt.machine # None
<1> DEFINE u == FetchFrame(w)
<1>1. Base(u) /\ u.rt.mode = w.rt.mode /\ u.rt.machine = w.rt.machine
  BY FetchFrameSound
<1>2. \/ v \in TakeFailure(u)
      \/ /\ u.rt.pending # None /\ ~WouldBlock(u.rt.machine, u.rt.pending)
         /\ \E x \in AcceptNetworkInput(u) :
              IF RecorderFailed(x) THEN v = FailSession(x) ELSE v \in TakeFailure(x)
  BY DEF ProcessNetworkBoundary, Then
<1> HIDE DEF u
<1>3. CASE v \in TakeFailure(u)
  <2>1. Base(v) /\ v.rt.mode \in {u.rt.mode, "RecordCompleted"} /\ v.rt.machine = u.rt.machine
    BY <1>1, <1>3, TakeFailureSound
  <2> QED BY <1>1, <2>1
<1>4. CASE /\ u.rt.pending # None /\ ~WouldBlock(u.rt.machine, u.rt.pending)
           /\ \E x \in AcceptNetworkInput(u) :
                IF RecorderFailed(x) THEN v = FailSession(x) ELSE v \in TakeFailure(x)
  <2>1. PICK x \in AcceptNetworkInput(u) :
          IF RecorderFailed(x) THEN v = FailSession(x) ELSE v \in TakeFailure(x)
    BY <1>4
  <2>2. Base(x) /\ x.rt.mode = u.rt.mode /\ x.rt.machine # None
    BY <1>1, <1>4, AcceptSound
  <2>3. CASE RecorderFailed(x)
    <3>1. Outer(x) /\ Recording(x) /\ x.rt.machine # None
      BY <2>2, <2>3 DEF Base, RecorderFailed, Recording, InRecord, Recorded
    <3> QED BY <2>1, <2>3, <3>1, FailSessionRecording
  <2>4. CASE ~RecorderFailed(x)
    <3>1. v \in TakeFailure(x)
      BY <2>1, <2>4
    <3>2. Base(v) /\ v.rt.mode \in {x.rt.mode, "RecordCompleted"} /\ v.rt.machine = x.rt.machine
      BY <2>2, <3>1, TakeFailureSound
    <3> QED BY <1>1, <2>2, <3>2
  <2> QED BY <2>3, <2>4
<1> QED BY <1>2, <1>3, <1>4

\* A checkpoint, when one is written.
LEMMA RecordCheckpointSound ==
    ASSUME NEW w, Base(w), NEW v \in RecordCheckpoint(w)
    PROVE  Base(v) /\ Keeps(v, w, {"recorder"}) /\ (~Recording(w) => v = w)
<1>0. Outer(w) /\ Shape(w)
  BY DEF Base, Outer
<1>1. CASE ~Recording(w)
  <2>1. v = w
    BY <1>1 DEF RecordCheckpoint
  <2> QED BY <1>0, <2>1 DEF Keeps
<1>2. CASE Recording(w)
  <2> DEFINE r == w.rt.recorder
             x == Checkpoint(w.rt.position, Fingerprint(w.rt.machine))
  <2> HIDE DEF x, r
  <2>1. v \in RecordTimeline(w, x) /\ w.rt.mode = "Recording"
    BY <1>2 DEF RecordCheckpoint, x, Recording
  <2>2. Keeps(v, w, {"recorder"}) /\ v.rt.recorder \in {RecordEntry(r, x), FailRecorder(r)}
    BY <1>0, <2>1, RecordTimelineEffect DEF r
  <2>3. /\ v.files = w.files /\ v.host = w.host /\ Shape(v)
        /\ v.rt.state = w.rt.state /\ v.rt.mode = w.rt.mode /\ v.rt.machine = w.rt.machine
        /\ v.rt.remainder = w.rt.remainder /\ v.rt.instant = w.rt.instant
        /\ v.rt.position = w.rt.position /\ v.rt.preserved = w.rt.preserved
        /\ v.rt.ignore = w.rt.ignore /\ v.rt.network = w.rt.network
        /\ v.rt.network_generation = w.rt.network_generation
        /\ v.rt.network_error = w.rt.network_error /\ v.rt.pending = w.rt.pending
        /\ v.rt.network_config = w.rt.network_config
    BY <2>2 DEF Keeps, CoreFields
  <2>4. Outer(v)
    BY <1>0, <2>3 DEF Outer
  <2>5. InReplay(v)
    BY <2>1, <2>3 DEF InReplay, Replayed, IsReplay
  <2>6. /\ ~w.rt.network_error /\ w.rt.machine # None
        /\ r \in Recorders
        /\ ~r.failed => OnPath(r.timeline, StateOf(w.rt.position, Len(r.timeline), w.rt.machine, w.rt.remainder))
    BY <2>1 DEF Base, InRecord, Recorded, r
  <2>7. w.rt.machine \in Machines /\ w.rt.position \in Positions
    BY <1>0, <2>6 DEF Outer, Typed
  <2>8. x \in Entries
    BY <2>7 DEF x, Entries, EntryKinds, Checkpoint, Fingerprint, Machines
  <2>9. /\ RecordEntry(r, x).timeline = Append(r.timeline, x) /\ RecordEntry(r, x).failed = r.failed
        /\ RecordEntry(r, x) \in Recorders
        /\ FailRecorder(r) \in Recorders /\ FailRecorder(r).failed
    <3>1. r \in Recorders
      BY <2>6
    <3> QED BY <2>8, <3>1, RecorderEntry
  <2>10. ~r.failed => OnPath(Append(r.timeline, x),
                             StateOf(w.rt.position, Len(Append(r.timeline, x)),
                                     w.rt.machine, w.rt.remainder))
    BY <2>6, <2>7, CheckpointPath DEF x
  <2>11. v.rt.recorder \in Recorders
    BY <2>2, <2>9
  <2>12. ~v.rt.recorder.failed =>
           OnPath(v.rt.recorder.timeline,
                  StateOf(v.rt.position, Len(v.rt.recorder.timeline), v.rt.machine, v.rt.remainder))
    BY <2>2, <2>3, <2>9, <2>10
  <2>13. InRecord(v)
    BY <2>3, <2>6, <2>11, <2>12 DEF InRecord, Recorded
  <2> QED BY <1>2, <2>2, <2>4, <2>5, <2>13 DEF Base
<1> QED BY <1>1, <1>2

LEMMA CheckpointIfDueSound ==
    ASSUME NEW w, Base(w), ~RecorderFailed(w), ~IsReplay(w.rt.mode),
           NEW v \in RecordCheckpointIfDue(w)
    PROVE  Base(v) /\ Rested(v) /\ v.rt.machine = w.rt.machine
<1>1. CASE ~ (Recording(w) /\ w.rt.deadline = w.rt.position.completed)
  <2>1. v = w
    BY <1>1 DEF RecordCheckpointIfDue
  <2> QED BY <2>1 DEF Rested, RecorderFailed, Recording, IsReplay
<1>2. CASE Recording(w) /\ w.rt.deadline = w.rt.position.completed
  <2>1. PICK u \in RecordCheckpoint(w) :
          v = IF RecorderFailed(u) THEN FailSession(u)
              ELSE [u EXCEPT !.rt.deadline = @ + CHECKPOINT_INTERVAL]
    BY <1>2 DEF RecordCheckpointIfDue
  <2>2. Base(u) /\ u.rt.machine = w.rt.machine
    BY RecordCheckpointSound DEF Keeps, CoreFields
  <2>3. CASE RecorderFailed(u)
    <3>1. Outer(u) /\ Recording(u) /\ u.rt.machine # None
      BY <2>2, <2>3 DEF Base, RecorderFailed, Recording, InRecord, Recorded
    <3> QED BY <2>1, <2>2, <2>3, <3>1, FailSessionRecording
  <2>4. CASE ~RecorderFailed(u)
    <3>1. v = [u EXCEPT !.rt.deadline = @ + CHECKPOINT_INTERVAL]
      BY <2>1, <2>4
    <3>2. Shape(u)
      BY <2>2 DEF Base, Outer
    <3>3. Keeps(v, u, {})
      BY <3>1, <3>2 DEF Shape, Keeps, CoreFields, PlainFields
    <3>4. Rested(u)
      <4>1. u.rt.mode = w.rt.mode
        BY RecordCheckpointSound DEF Keeps, CoreFields
      <4> QED BY <1>2, <2>4, <4>1 DEF Rested, RecorderFailed, Recording
    <3>5. v.rt.machine = u.rt.machine
      BY <3>3 DEF Keeps, CoreFields
    <3> QED BY <2>2, <3>3, <3>4, <3>5, KeepsBase
  <2> QED BY <2>3, <2>4
<1> QED BY <1>1, <1>2
-----------------------------------------------------------------------------
(* One instruction.                                                        *)

LEMMA TickExact ==
    ASSUME NEW rem \in Nat
    PROVE  AdvanceCycle(rem).elapsed * FREQUENCY_HZ + AdvanceCycle(rem).remainder
             = ATTOSECONDS_PER_SECOND + rem
<1> DEFINE F == FREQUENCY_HZ
           A == ATTOSECONDS_PER_SECOND
           W == WholeAttosecondsPerCycle
           R == RemainderPerCycle
<1>1. F \in Nat \ {0} /\ A \in Nat /\ W = A \div F /\ R = A % F
  BY MachineConstants DEF WholeAttosecondsPerCycle, RemainderPerCycle
<1> HIDE DEF F, A, W, R
<1>2. W \in Nat /\ R \in Nat /\ A = W * F + R
  BY <1>1
<1>3. CASE rem + R >= F
  <2>1. AdvanceCycle(rem) = [remainder |-> rem + R - 1 * F, elapsed |-> W + 1]
    BY <1>1, <1>2, <1>3 DEF AdvanceCycle, F, R, W
  <2>2. (W + 1) * F = W * F + F /\ W * F \in Nat
    BY <1>1, <1>2
  <2>3. (W + 1) * F + (rem + R - 1 * F) = A + rem
    BY <1>1, <1>2, <2>2
  <2> QED BY <2>1, <2>3 DEF F, A
<1>4. CASE ~ (rem + R >= F)
  <2>1. AdvanceCycle(rem) = [remainder |-> rem + R - 0 * F, elapsed |-> W + 0]
    BY <1>1, <1>2, <1>4 DEF AdvanceCycle, F, R, W
  <2>2. (W + 0) * F = W * F /\ W * F \in Nat
    BY <1>1, <1>2
  <2>3. (W + 0) * F + (rem + R - 0 * F) = A + rem
    BY <1>1, <1>2, <2>2
  <2> QED BY <2>1, <2>3 DEF F, A
<1> QED BY <1>3, <1>4

LEMMA ClockTicks ==
    ASSUME NEW m, NEW x, NEW instant \in Nat, NEW rem \in Nat, m # None, m.cycles \in Nat,
           Clocked(m, instant, rem), x.cycles = m.cycles + 1
    PROVE  Clocked(x, instant + AdvanceCycle(rem).elapsed, AdvanceCycle(rem).remainder)
<1> DEFINE F == FREQUENCY_HZ
           A == ATTOSECONDS_PER_SECOND
           e == AdvanceCycle(rem).elapsed
           r == AdvanceCycle(rem).remainder
           c == m.cycles
<1>1. F \in Nat /\ A \in Nat /\ e \in Nat /\ r \in Nat /\ e * F + r = A + rem /\ c \in Nat
  BY MachineConstants, TickType, TickExact
<1>2. instant * F + rem = c * A
  BY DEF Clocked
<1>3. x.cycles = c + 1
  OBVIOUS
<1> HIDE DEF F, A, e, r, c
<1>4. (instant + e) * F = instant * F + e * F /\ (c + 1) * A = c * A + A
  BY <1>1
<1>5. instant * F \in Nat /\ e * F \in Nat /\ c * A \in Nat
  BY <1>1
<1>6. (instant + e) * F + r = (c + 1) * A
  BY <1>1, <1>2, <1>4, <1>5
<1> QED BY <1>3, <1>6 DEF Clocked, F, A, e, r

LEMMA WritesType ==
    ASSUME NEW m \in Machines
    PROVE  /\ WritesNonvolatile(m) \in Machines /\ WritesNonvolatile(m).log = m.log
           /\ WritesNonvolatile(m).cycles = m.cycles /\ WritesNonvolatile(m).owner = m.owner
           /\ m.owner = "user" /\ m.nv = "user" => WritesNonvolatile(m).nv = "user"
BY DEF WritesNonvolatile, Machines

LEMMA InstructionType ==
    ASSUME NEW m \in Machines
    PROVE  LET x == ExecuteInstruction(m) IN
           /\ x \in Machines /\ x.owner = m.owner
           /\ m.owner = "user" /\ m.nv = "user" => x.nv = "user"
           /\ IF InstructionFails(m)
              THEN x.cycles = m.cycles /\ x.log = Append(m.log, <<"fault", 0>>)
              ELSE x.cycles = m.cycles + 1 /\ x.log = m.log
<1> DEFINE y == WritesNonvolatile(m)
           x == ExecuteInstruction(m)
<1>1. /\ y \in Machines /\ y.log = m.log /\ y.cycles = m.cycles /\ y.owner = m.owner
      /\ m.owner = "user" /\ m.nv = "user" => y.nv = "user"
  BY WritesType
<1>2. <<"fault", 0>> \in Events
  BY DEF Events
<1>3. IF InstructionFails(m) THEN x = Happened(y, <<"fault", 0>>) ELSE x = [y EXCEPT !.cycles = @ + 1]
  BY DEF ExecuteInstruction
<1> HIDE DEF x, y
<1>4. CASE InstructionFails(m)
  <2>1. x = Happened(y, <<"fault", 0>>)
    BY <1>3, <1>4
  <2>2. /\ x \in Machines /\ x.log = Append(y.log, <<"fault", 0>>)
        /\ x.cycles = y.cycles /\ x.owner = y.owner /\ x.nv = y.nv
    BY <1>1, <1>2, <2>1, MachineFields
  <2> QED BY <1>1, <1>4, <2>2 DEF x
<1>5. CASE ~InstructionFails(m)
  <2>1. x = [y EXCEPT !.cycles = y.cycles + 1]
    BY <1>3, <1>5
  <2>2. x \in Machines /\ x.log = y.log /\ x.cycles = y.cycles + 1 /\ x.owner = y.owner /\ x.nv = y.nv
    BY <1>1, <2>1 DEF Machines
  <2> QED BY <1>1, <1>5, <2>2 DEF x
<1> QED BY <1>4, <1>5

LEMMA StorageErrorType ==
    ASSUME NEW m \in Machines, NEW f \in StorageFailures
    PROVE  LET x == ExecuteWithStorageError(m, f) IN
           /\ x \in Machines /\ x.owner = m.owner
           /\ m.owner = "user" /\ m.nv = "user" => x.nv = "user"
           /\ x.cycles = IF InstructionFails(m) THEN m.cycles ELSE m.cycles + 1
           /\ x.log = Append(ExecuteInstruction(m).log, <<f, 0>>)
<1> DEFINE y == ExecuteInstruction(m)
           x == ExecuteWithStorageError(m, f)
<1>1. /\ y \in Machines /\ y.owner = m.owner /\ (m.owner = "user" /\ m.nv = "user" => y.nv = "user")
      /\ y.cycles = IF InstructionFails(m) THEN m.cycles ELSE m.cycles + 1
  BY InstructionType
<1>2. <<f, 0>> \in Events /\ x = Happened(y, <<f, 0>>)
  BY DEF Events, StorageFailures, ExecuteWithStorageError
<1> HIDE DEF x, y
<1>3. /\ x \in Machines /\ x.cycles = y.cycles /\ x.owner = y.owner /\ x.nv = y.nv
      /\ x.log = Append(y.log, <<f, 0>>)
  BY <1>1, <1>2, MachineFields
<1> QED BY <1>1, <1>3 DEF x, y

LEMMA BrokenEffect ==
    ASSUME NEW w, Shape(w), NEW f
    PROVE  LET b == Broken(w, f) IN
           /\ Keeps(b, w, {"machine"}) /\ b.rt.machine = ExecuteWithStorageError(w.rt.machine, f)
           /\ b.rt.recorder = w.rt.recorder /\ b.rt.replay = w.rt.replay /\ Shape(b)
<1> DEFINE b == Broken(w, f)
<1>1. /\ b.rt = [w.rt EXCEPT !.machine = ExecuteWithStorageError(w.rt.machine, f)]
      /\ b.files = w.files /\ b.host = w.host /\ DOMAIN b = DOMAIN w
  BY DEF Broken, Shape, CoreFields, PlainFields
<1> HIDE DEF b
<1>2. DOMAIN b.rt = DOMAIN w.rt /\ Shape(b)
  BY <1>1 DEF Shape
<1>3. \A g \in CoreFields \ {"machine"} : b.rt[g] = w.rt[g]
  BY <1>1 DEF Shape, CoreFields, PlainFields
<1>4. b.rt.machine = ExecuteWithStorageError(w.rt.machine, f)
  BY <1>1 DEF Shape, CoreFields, PlainFields
<1>5. b.rt.recorder = w.rt.recorder /\ b.rt.replay = w.rt.replay
  BY <1>3 DEF CoreFields
<1> QED BY <1>1, <1>2, <1>3, <1>4, <1>5 DEF Keeps, b

\* The instruction completes or fails, or the host storage fails under it, and
\* the session may hear of that.
LEMMA AttemptEffect ==
    ASSUME NEW w, Shape(w), NEW v \in AttemptInstruction(w),
           Replaying(w) => DOMAIN w.rt.replay = {"record", "cursor", "failed"}
    PROVE  /\ Keeps(v, w, {"machine", "recorder", "replay"})
           /\ \/ /\ v.rt.machine \in {ExecuteInstruction(w.rt.machine),
                                    ExecuteWithStorageError(w.rt.machine, "read_error")}
                 /\ v.rt.recorder = w.rt.recorder /\ v.rt.replay = w.rt.replay
              \/ /\ v.rt.machine = ExecuteWithStorageError(w.rt.machine, "storage_error")
                 /\ Recording(w) /\ v.rt.recorder = FailRecorder(w.rt.recorder)
                 /\ v.rt.replay = w.rt.replay
              \/ /\ v.rt.machine = ExecuteWithStorageError(w.rt.machine, "storage_error")
                 /\ Replaying(w) /\ v.rt.recorder = w.rt.recorder
                 /\ v.rt.replay = [w.rt.replay EXCEPT !.failed = TRUE]
<1> DEFINE b == Broken(w, "storage_error")
           c == Broken(w, "read_error")
<1>1. \/ v = [w EXCEPT !.rt.machine = ExecuteInstruction(@)]
      \/ v = c
      \/ Recording(w) /\ v = [b EXCEPT !.rt.recorder = FailRecorder(@)]
      \/ Replaying(w) /\ v = [b EXCEPT !.rt.replay.failed = TRUE]
  BY DEF AttemptInstruction, Maybe
<1>2. /\ Keeps(c, w, {"machine"}) /\ c.rt.recorder = w.rt.recorder /\ c.rt.replay = w.rt.replay
      /\ c.rt.machine = ExecuteWithStorageError(w.rt.machine, "read_error")
  BY BrokenEffect
<1>3. /\ Keeps(b, w, {"machine"}) /\ b.rt.recorder = w.rt.recorder /\ b.rt.replay = w.rt.replay
      /\ b.rt.machine = ExecuteWithStorageError(w.rt.machine, "storage_error")
  BY BrokenEffect
<1> HIDE DEF b, c
<1>4. Shape(b)
  BY <1>3 DEF Keeps
<1>5. CASE v = [w EXCEPT !.rt.machine = ExecuteInstruction(@)]
  <2>1. Keeps(v, w, {"machine"}) /\ v.rt.machine = ExecuteInstruction(w.rt.machine)
    BY <1>5 DEF Shape, Keeps, CoreFields, PlainFields
  <2>2. v.rt.recorder = w.rt.recorder /\ v.rt.replay = w.rt.replay
    BY <2>1 DEF Keeps, CoreFields
  <2>3. Keeps(v, w, {"machine", "recorder", "replay"})
    BY <2>1 DEF Keeps
  <2> QED BY <2>1, <2>2, <2>3
<1>6. CASE Recording(w) /\ v = [b EXCEPT !.rt.recorder = FailRecorder(@)]
  <2>1. Keeps(v, b, {"recorder"}) /\ v.rt.recorder = FailRecorder(b.rt.recorder)
    BY <1>4, <1>6 DEF Shape, Keeps, CoreFields, PlainFields
  <2>2. v.rt.machine = b.rt.machine /\ v.rt.replay = b.rt.replay
    BY <2>1 DEF Keeps, CoreFields
  <2>3. Keeps(v, w, {"machine", "recorder", "replay"})
    BY <1>3, <2>1 DEF Keeps
  <2> QED BY <1>3, <1>6, <2>1, <2>2, <2>3
<1>7. CASE Replaying(w) /\ v = [b EXCEPT !.rt.replay.failed = TRUE]
  <2> DEFINE y == [b.rt.replay EXCEPT !.failed = TRUE]
  <2>1. v = [b EXCEPT !.rt.replay = y]
    BY <1>4, <1>7 DEF Shape, CoreFields, PlainFields
  <2> HIDE DEF y
  <2>2. Keeps(v, b, {"replay"}) /\ v.rt.replay = y
    BY <1>4, <2>1 DEF Shape, Keeps, CoreFields, PlainFields
  <2>3. v.rt.machine = b.rt.machine /\ v.rt.recorder = b.rt.recorder
    BY <2>2 DEF Keeps, CoreFields
  <2>4. Keeps(v, w, {"machine", "recorder", "replay"})
    BY <1>3, <2>2 DEF Keeps
  <2> QED BY <1>3, <1>7, <2>2, <2>3, <2>4 DEF y
<1>8. CASE v = c
  <2>1. Keeps(v, w, {"machine", "recorder", "replay"})
    BY <1>2, <1>8 DEF Keeps
  <2> QED BY <1>2, <1>8, <2>1
<1> QED BY <1>1, <1>5, <1>6, <1>7, <1>8

\* Whatever became of it, the machine is one of its owner's.
LEMMA AttemptMachine ==
    ASSUME NEW m \in Machines, NEW x,
           x = ExecuteInstruction(m) \/ \E f \in StorageFailures : x = ExecuteWithStorageError(m, f)
    PROVE  /\ x \in Machines /\ x # None /\ x.owner = m.owner
           /\ m.owner = "user" /\ m.nv = "user" => x.nv = "user"
           /\ x.cycles = IF InstructionFails(m) THEN m.cycles ELSE m.cycles + 1
           /\ FramesKept(x, m)
<1> DEFINE i == ExecuteInstruction(m)
<1>3. i \in Machines /\ FramesKept(i, m)
  <2>1. i \in Machines /\ (IF InstructionFails(m) THEN i.log = Append(m.log, <<"fault", 0>>) ELSE i.log = m.log)
    BY InstructionType
  <2>2. <<"fault", 0>> \in Events /\ <<"fault", 0>>[1] # "frame"
    BY DEF Events
  <2> HIDE DEF i
  <2> QED BY <2>1, <2>2, KeptSame, KeptEvent
<1>1. CASE x = ExecuteInstruction(m)
  BY <1>1, <1>3, InstructionType, RecordConstants
<1>2. ASSUME NEW f \in StorageFailures, x = ExecuteWithStorageError(m, f)
      PROVE  /\ x \in Machines /\ x # None /\ x.owner = m.owner
             /\ m.owner = "user" /\ m.nv = "user" => x.nv = "user"
             /\ x.cycles = IF InstructionFails(m) THEN m.cycles ELSE m.cycles + 1
             /\ FramesKept(x, m)
  <2>1. <<f, 0>> \in Events /\ <<f, 0>>[1] # "frame"
    BY DEF Events, StorageFailures
  <2>2. x.log = Append(i.log, <<f, 0>>)
    BY <1>2, StorageErrorType
  <2> HIDE DEF i
  <2>3. FramesKept(x, m)
    BY <1>3, <2>1, <2>2, KeptEvent, KeptTransitive
  <2> QED BY <1>2, <2>3, StorageErrorType, RecordConstants

<1> QED BY <1>1, <1>2

\* What a session that heard of no failure has of the instruction.
LEMMA UnheardLog ==
    ASSUME NEW m \in Machines, NEW x,
           x \in {ExecuteInstruction(m), ExecuteWithStorageError(m, "read_error")}
    PROVE  x.log \in Disturbed(IF InstructionFails(m) THEN Append(m.log, <<"fault", 0>>) ELSE m.log)
<1> DEFINE l == IF InstructionFails(m) THEN Append(m.log, <<"fault", 0>>) ELSE m.log
<1>1. ExecuteInstruction(m).log = l
  BY InstructionType
<1>2. "read_error" \in StorageFailures
  BY DEF StorageFailures
<1>3. ExecuteWithStorageError(m, "read_error").log = Append(ExecuteInstruction(m).log, <<"read_error", 0>>)
  BY <1>2, StorageErrorType
<1> HIDE DEF l
<1>4. x.log = l \/ x.log = Append(l, <<"read_error", 0>>)
  BY <1>1, <1>3
<1> QED BY <1>4 DEF Disturbed, l

LEMMA FinishEffect ==
    ASSUME NEW w, Shape(w)
    PROVE  LET u == FinishInstruction(w)
               tick == AdvanceCycle(w.rt.remainder) IN
           /\ Keeps(u, w, {"machine", "remainder", "instant"})
           /\ u.rt.machine = Happened(w.rt.machine, <<"cycle", tick.elapsed>>)
           /\ u.rt.remainder = tick.remainder /\ u.rt.instant = w.rt.instant + tick.elapsed
<1> DEFINE u == FinishInstruction(w)
           tick == AdvanceCycle(w.rt.remainder)
<1>1. /\ u.rt = [w.rt EXCEPT !.remainder = tick.remainder, !.instant = w.rt.instant + tick.elapsed,
                             !.machine = AdvanceTime(w.rt.machine, tick.elapsed),
                             !.completed = (w.rt.completed + 1) % (U64_MAX + 1)]
      /\ u.files = w.files /\ u.host = w.host /\ DOMAIN u = DOMAIN w
  <2> HIDE DEF tick
  <2>1. u = [w EXCEPT !.rt.remainder = tick.remainder,
                 !.rt.instant = @ + tick.elapsed,
                 !.rt.machine = AdvanceTime(@, tick.elapsed),
                 !.rt.completed = (@ + 1) % (U64_MAX + 1)]
    BY DEF FinishInstruction, tick
  <2> HIDE DEF u
  <2> QED BY <2>1 DEF Shape, CoreFields, PlainFields
<1> HIDE DEF u, tick
<1>2. DOMAIN u.rt = DOMAIN w.rt /\ Shape(u)
  BY <1>1 DEF Shape
<1>3. \A f \in CoreFields \ {"machine", "remainder", "instant"} : u.rt[f] = w.rt[f]
  BY <1>1 DEF Shape, CoreFields, PlainFields
<1>4. /\ u.rt.machine = AdvanceTime(w.rt.machine, tick.elapsed)
      /\ u.rt.remainder = tick.remainder /\ u.rt.instant = w.rt.instant + tick.elapsed
  BY <1>1 DEF Shape, CoreFields, PlainFields
<1> QED BY <1>1, <1>2, <1>3, <1>4 DEF Keeps, AdvanceTime, u, tick

LEMMA AdvanceEffect ==
    ASSUME NEW w, Shape(w), w.rt.position \in Positions
    PROVE  /\ Keeps(AdvancePosition(w), w, {"position"})
           /\ AdvancePosition(w).rt.position
                = [epoch |-> w.rt.position.epoch, completed |-> w.rt.position.completed + 1]
           /\ AdvancePosition(w).rt.position \in Positions
<1> DEFINE p == [epoch |-> w.rt.position.epoch, completed |-> w.rt.position.completed + 1]
           v == AdvancePosition(w)
<1>1. p \in Positions /\ p = [w.rt.position EXCEPT !.completed = @ + 1]
  BY DEF Positions
<1>2. v = [w EXCEPT !.rt.position = [w.rt.position EXCEPT !.completed = @ + 1]]
  BY DEF Shape, CoreFields, PlainFields, AdvancePosition
<1> HIDE DEF p, v
<1>3. v = [w EXCEPT !.rt.position = p]
  BY <1>1, <1>2
<1>4. Keeps(v, w, {"position"}) /\ v.rt.position = p
  BY <1>3 DEF Shape, Keeps, CoreFields, PlainFields
<1> QED BY <1>1, <1>4 DEF p, v
LEMMA AdvanceOuter ==
    ASSUME NEW w, Outer(w)
    PROVE  Outer(AdvancePosition(w))
<1> DEFINE v == AdvancePosition(w)
<1>0. Shape(w) /\ w.rt.position \in Positions
  BY DEF Outer, Typed
<1>1. Keeps(v, w, {"position"}) /\ v.rt.position \in Positions
  BY <1>0, AdvanceEffect
<1> HIDE DEF v
<1>2. /\ v.files = w.files /\ v.host = w.host /\ Shape(v)
      /\ v.rt.state = w.rt.state /\ v.rt.mode = w.rt.mode /\ v.rt.machine = w.rt.machine
      /\ v.rt.remainder = w.rt.remainder /\ v.rt.instant = w.rt.instant
      /\ v.rt.preserved = w.rt.preserved
      /\ v.rt.ignore = w.rt.ignore /\ v.rt.network = w.rt.network
      /\ v.rt.network_generation = w.rt.network_generation
      /\ v.rt.network_error = w.rt.network_error /\ v.rt.pending = w.rt.pending
      /\ v.rt.network_config = w.rt.network_config
  BY <1>1 DEF Keeps, CoreFields
<1>3. Typed(v.rt.machine, v.rt.position, v.rt.remainder, v.rt.instant, v.rt.pending)
  BY <1>1, <1>2 DEF Outer, Typed
<1>4. Outer(v)
  BY <1>2, <1>3 DEF Outer
<1> QED BY <1>4 DEF v

\* What every attempt leaves of the world, whether it completes or not.
LEMMA AttemptOuter ==
    ASSUME NEW w, Outer(w), w.rt.machine # None, w.rt.state = "Running" => w.rt.ignore = None,
           Replaying(w) => DOMAIN w.rt.replay = {"record", "cursor", "failed"},
           NEW v \in AttemptInstruction(w)
    PROVE  /\ w.rt.machine \in Machines /\ v.rt.machine \in Machines /\ v.rt.machine # None
           /\ Keeps(v, w, {"machine", "recorder", "replay"})
           /\ v.rt.machine.cycles = IF InstructionFails(w.rt.machine) THEN w.rt.machine.cycles
                                    ELSE w.rt.machine.cycles + 1
           /\ Stops(v.rt.state, v.rt.mode, v.rt.machine, v.rt.network_error)
           /\ v.rt.state = "Running" => v.rt.ignore = None
           /\ Isolated(v.rt.mode, v.rt.machine, v.rt.preserved, v.host.result, v.host.replay_first)
           /\ Framed(v.rt.mode, v.rt.machine, v.rt.pending, v.rt.network, v.rt.network_config, v.host.frames)
<1>0. Shape(w) /\ w.rt.machine \in Machines
  BY DEF Outer, Typed
<1>1. /\ Keeps(v, w, {"machine", "recorder", "replay"})
      /\ \/ v.rt.machine = ExecuteInstruction(w.rt.machine)
         \/ \E f \in StorageFailures : v.rt.machine = ExecuteWithStorageError(w.rt.machine, f)
  BY <1>0, AttemptEffect DEF StorageFailures
<1>2. /\ v.rt.machine \in Machines /\ v.rt.machine # None /\ v.rt.machine.owner = w.rt.machine.owner
      /\ w.rt.machine.owner = "user" /\ w.rt.machine.nv = "user" => v.rt.machine.nv = "user"
      /\ v.rt.machine.cycles = IF InstructionFails(w.rt.machine) THEN w.rt.machine.cycles
                               ELSE w.rt.machine.cycles + 1
      /\ FramesKept(v.rt.machine, w.rt.machine)
  BY <1>0, <1>1, AttemptMachine
<1>3. /\ v.rt.state = w.rt.state /\ v.rt.mode = w.rt.mode /\ v.rt.network_error = w.rt.network_error
      /\ v.rt.ignore = w.rt.ignore /\ v.rt.preserved = w.rt.preserved /\ v.host = w.host
  BY <1>1 DEF Keeps, CoreFields
<1>4. Stops(v.rt.state, v.rt.mode, v.rt.machine, v.rt.network_error)
  BY <1>2, <1>3 DEF Outer, Stops
<1>5. Isolated(v.rt.mode, v.rt.machine, v.rt.preserved, v.host.result, v.host.replay_first)
  BY <1>2, <1>3 DEF Outer, Isolated
<1>6. Framed(v.rt.mode, v.rt.machine, v.rt.pending, v.rt.network, v.rt.network_config, v.host.frames)
  <2>1. Framed(w.rt.mode, w.rt.machine, w.rt.pending, w.rt.network, w.rt.network_config, w.host.frames) /\ w.host.frames \in Nat
    BY DEF Outer, Linked
  <2>2. /\ v.rt.pending = w.rt.pending /\ v.rt.network = w.rt.network
        /\ v.rt.network_config = w.rt.network_config
    BY <1>1 DEF Keeps, CoreFields
  <2> QED BY <1>2, <1>3, <2>1, <2>2, FramedKept
<1> QED BY <1>0, <1>1, <1>2, <1>3, <1>4, <1>5, <1>6

\* The failed instruction takes no time.
LEMMA FaultOuter ==
    ASSUME NEW w, Outer(w), w.rt.machine # None, w.rt.state = "Running" => w.rt.ignore = None,
           Replaying(w) => DOMAIN w.rt.replay = {"record", "cursor", "failed"},
           InstructionFails(w.rt.machine), NEW v \in AttemptInstruction(w)
    PROVE  Outer(v)
<1>1. /\ v.rt.machine \in Machines /\ Keeps(v, w, {"machine", "recorder", "replay"})
      /\ v.rt.machine # None /\ v.rt.machine.cycles = w.rt.machine.cycles
      /\ Stops(v.rt.state, v.rt.mode, v.rt.machine, v.rt.network_error)
      /\ v.rt.state = "Running" => v.rt.ignore = None
      /\ Isolated(v.rt.mode, v.rt.machine, v.rt.preserved, v.host.result, v.host.replay_first)
      /\ Framed(v.rt.mode, v.rt.machine, v.rt.pending, v.rt.network, v.rt.network_config, v.host.frames)
  BY AttemptOuter
<1>2. /\ v.files = w.files /\ v.host = w.host /\ Shape(v)
      /\ v.rt.remainder = w.rt.remainder /\ v.rt.instant = w.rt.instant
      /\ v.rt.position = w.rt.position /\ v.rt.network = w.rt.network
      /\ v.rt.network_generation = w.rt.network_generation
      /\ v.rt.network_error = w.rt.network_error /\ v.rt.pending = w.rt.pending
  BY <1>1 DEF Keeps, CoreFields
<1>3. Typed(v.rt.machine, v.rt.position, v.rt.remainder, v.rt.instant, v.rt.pending)
  BY <1>1, <1>2 DEF Outer, Typed
<1>4. /\ Linked(v.rt.network, v.rt.network_generation, v.rt.network_error, v.host.inbox, v.host.frames)
      /\ Filed(v.files)
  BY <1>2 DEF Outer
<1>5. Exempt(v.rt.state, v.rt.ignore, v.rt.machine)
  BY <1>1 DEF Exempt
<1>6. Clocked(v.rt.machine, v.rt.instant, v.rt.remainder)
  BY <1>1, <1>2 DEF Outer, Clocked
<1> QED BY <1>1, <1>2, <1>3, <1>4, <1>5, <1>6 DEF Outer

\* The completed instruction takes one cycle.
LEMMA CycleOuter ==
    ASSUME NEW w, Outer(w), w.rt.machine # None, w.rt.state = "Running" => w.rt.ignore = None,
           Replaying(w) => DOMAIN w.rt.replay = {"record", "cursor", "failed"},
           ~InstructionFails(w.rt.machine), NEW v \in AttemptInstruction(w),
           NEW u, u = FinishInstruction(v)
    PROVE  /\ Outer(u) /\ u.rt.machine \in Machines /\ u.rt.machine # None
           /\ u.rt.mode = w.rt.mode /\ u.rt.position = w.rt.position
           /\ u.rt.network_error = w.rt.network_error
           /\ u.rt.recorder = v.rt.recorder /\ u.rt.replay = v.rt.replay
           /\ u.rt.remainder = AdvanceCycle(w.rt.remainder).remainder
           /\ u.rt.machine.cycles = w.rt.machine.cycles + 1
           /\ u.rt.machine.log
                = Append(v.rt.machine.log, <<"cycle", AdvanceCycle(w.rt.remainder).elapsed>>)
<1> DEFINE tick == AdvanceCycle(w.rt.remainder)
           e == <<"cycle", tick.elapsed>>
<1>0. /\ w.rt.machine \in Machines /\ w.rt.remainder \in Nat /\ w.rt.instant \in Nat
      /\ w.rt.position \in Positions /\ w.rt.machine.cycles \in Nat
  BY DEF Outer, Typed, Machines
<1>1. /\ v.rt.machine \in Machines /\ v.rt.machine # None /\ Keeps(v, w, {"machine", "recorder", "replay"})
      /\ v.rt.machine.cycles = w.rt.machine.cycles + 1
      /\ Stops(v.rt.state, v.rt.mode, v.rt.machine, v.rt.network_error)
      /\ v.rt.state = "Running" => v.rt.ignore = None
      /\ Isolated(v.rt.mode, v.rt.machine, v.rt.preserved, v.host.result, v.host.replay_first)
      /\ Framed(v.rt.mode, v.rt.machine, v.rt.pending, v.rt.network, v.rt.network_config, v.host.frames)
  BY AttemptOuter
<1>2. Shape(v) /\ v.rt.remainder = w.rt.remainder /\ v.rt.instant = w.rt.instant
  BY <1>1 DEF Keeps, CoreFields
<1>3. /\ Keeps(u, v, {"machine", "remainder", "instant"}) /\ u.rt.machine = Happened(v.rt.machine, e)
      /\ u.rt.remainder = tick.remainder /\ u.rt.instant = w.rt.instant + tick.elapsed
  BY <1>2, FinishEffect
<1>4. e \in Events /\ tick.elapsed \in Nat /\ tick.remainder \in Nat
  BY <1>0, TickType DEF Events
<1> HIDE DEF tick, e
<1>5. /\ u.rt.machine \in Machines /\ u.rt.machine.cycles = v.rt.machine.cycles
      /\ u.rt.machine.log = Append(v.rt.machine.log, e)
      /\ u.rt.machine.owner = v.rt.machine.owner /\ u.rt.machine.nv = v.rt.machine.nv
  <2>1. v.rt.machine \in Machines /\ e \in Events /\ u.rt.machine = Happened(v.rt.machine, e)
    BY <1>1, <1>3, <1>4
  <2> DEFINE m == v.rt.machine
  <2> HIDE DEF m
  <2>2. m \in Machines /\ e \in Events /\ u.rt.machine = Happened(m, e)
    BY <2>1 DEF m
  <2>3. /\ Happened(m, e) \in Machines /\ Happened(m, e).log = Append(m.log, e)
        /\ Happened(m, e).cycles = m.cycles /\ Happened(m, e).owner = m.owner
        /\ Happened(m, e).nv = m.nv
    BY <2>2, MachineFields
  <2> QED BY <2>2, <2>3 DEF m
<1>6. u.rt.machine # None
  BY <1>5, RecordConstants
<1>7. /\ u.files = v.files /\ u.host = v.host /\ Shape(u)
      /\ u.rt.state = v.rt.state /\ u.rt.mode = v.rt.mode /\ u.rt.preserved = v.rt.preserved
      /\ u.rt.ignore = v.rt.ignore
      /\ u.rt.position = v.rt.position /\ u.rt.network = v.rt.network
      /\ u.rt.network_generation = v.rt.network_generation
      /\ u.rt.network_error = v.rt.network_error /\ u.rt.pending = v.rt.pending
      /\ u.rt.network_config = v.rt.network_config
      /\ u.rt.recorder = v.rt.recorder /\ u.rt.replay = v.rt.replay
  BY <1>3 DEF Keeps, CoreFields
<1>8. /\ v.files = w.files /\ v.host = w.host
      /\ v.rt.position = w.rt.position /\ v.rt.network = w.rt.network /\ v.rt.mode = w.rt.mode
      /\ v.rt.network_generation = w.rt.network_generation
      /\ v.rt.network_error = w.rt.network_error /\ v.rt.pending = w.rt.pending
  BY <1>1 DEF Keeps, CoreFields
<1>9. Typed(u.rt.machine, u.rt.position, u.rt.remainder, u.rt.instant, u.rt.pending)
  <2>1. u.rt.instant \in Nat /\ u.rt.remainder \in Nat /\ u.rt.position \in Positions
    BY <1>0, <1>3, <1>4, <1>7, <1>8
  <2>2. u.rt.pending # None => u.rt.pending \in Events
    BY <1>7, <1>8 DEF Outer, Typed
  <2> QED BY <1>5, <2>1, <2>2 DEF Typed
<1>10. /\ Linked(u.rt.network, u.rt.network_generation, u.rt.network_error, u.host.inbox, u.host.frames)
       /\ Filed(u.files)
  BY <1>7, <1>8 DEF Outer
<1>11. Exempt(u.rt.state, u.rt.ignore, u.rt.machine)
  BY <1>1, <1>7 DEF Exempt
<1>12. Stops(u.rt.state, u.rt.mode, u.rt.machine, u.rt.network_error)
  BY <1>1, <1>6, <1>7 DEF Stops
<1>13. Isolated(u.rt.mode, u.rt.machine, u.rt.preserved, u.host.result, u.host.replay_first)
  BY <1>1, <1>5, <1>6, <1>7 DEF Isolated
<1>14. Clocked(u.rt.machine, u.rt.instant, u.rt.remainder)
  <2>1. Clocked(w.rt.machine, w.rt.instant, w.rt.remainder)
    BY DEF Outer
  <2>2. u.rt.machine.cycles = w.rt.machine.cycles + 1
    BY <1>1, <1>5
  <2> QED BY <1>0, <1>3, <2>1, <2>2, ClockTicks DEF tick
<1>17. Framed(u.rt.mode, u.rt.machine, u.rt.pending, u.rt.network, u.rt.network_config, u.host.frames)
  <2>1. e[1] # "frame"
    BY DEF e
  <2>2. FramesKept(u.rt.machine, v.rt.machine)
    BY <1>1, <1>4, <1>5, <2>1, KeptEvent
  <2>3. v.host.frames \in Nat
    BY <1>8 DEF Outer, Linked
  <2> QED BY <1>1, <1>6, <1>7, <2>2, <2>3, FramedKept
<1>15. Outer(u)
  BY <1>7, <1>9, <1>10, <1>11, <1>12, <1>13, <1>14, <1>17 DEF Outer
<1>16. u.rt.machine.cycles = w.rt.machine.cycles + 1 /\ u.rt.machine.log = Append(v.rt.machine.log, e)
  BY <1>1, <1>5
<1> QED BY <1>3, <1>5, <1>6, <1>7, <1>8, <1>15, <1>16 DEF tick, e
LEMMA LiveOnly ==
    ASSUME NEW w, w.rt.mode # "Recording", ~IsReplay(w.rt.mode)
    PROVE  InRecord(w) /\ InReplay(w) /\ Rested(w)
BY DEF InRecord, InReplay, Recorded, Replayed, Rested, IsReplay

LEMMA ExecuteNormalSound ==
    ASSUME NEW w, Outer(w), w.rt.machine # None, w.rt.state = "Running" => w.rt.ignore = None,
           w.rt.mode # "Recording", ~IsReplay(w.rt.mode), ~InstructionFails(w.rt.machine),
           NEW v \in AttemptInstruction(w), NEW x \in ExecuteNormal(v)
    PROVE  Base(x) /\ Rested(x) /\ x.rt.machine # None
<1> DEFINE u == FinishInstruction(v)
<1>1. ~Replaying(w)
  BY DEF Replaying, IsReplay
<1>2. Outer(u) /\ u.rt.machine # None /\ u.rt.mode = w.rt.mode
  BY <1>1, CycleOuter
<1> HIDE DEF u
<1>3. Base(u)
  BY <1>2, LiveOnly DEF Base
<1>4. x \in ProcessNetworkBoundary(u)
  BY DEF ExecuteNormal, u
<1>5. ~IsReplay(u.rt.mode)
  BY <1>2
<1>6. Base(x) /\ x.rt.mode \in {u.rt.mode, "RecordCompleted"} /\ x.rt.machine # None
  BY <1>2, <1>3, <1>4, <1>5, NetworkBoundarySound
<1>7. x.rt.mode # "Recording" /\ ~IsReplay(x.rt.mode)
  BY <1>2, <1>6 DEF IsReplay
<1> QED BY <1>6, <1>7, LiveOnly

\* The path of a Recording goes on with the instruction.
LEMMA CyclePath ==
    ASSUME NEW t, NEW m \in Machines, NEW pos \in Positions, NEW rem \in Nat, NEW x \in Machines,
           OnPath(t, StateOf(pos, Len(t), m, rem)),
           ~InstructionFails(m), pos.completed # U64_MAX,
           x.cycles = m.cycles + 1, NEW log \in Disturbed(m.log),
           x.log = Append(log, <<"cycle", AdvanceCycle(rem).elapsed>>)
    PROVE  OnPath(t, StateOf([epoch |-> pos.epoch, completed |-> pos.completed + 1], Len(t), x,
                             AdvanceCycle(rem).remainder))
<1> DEFINE q == [epoch |-> pos.epoch, completed |-> pos.completed + 1]
           r == AdvanceCycle(rem).remainder
           s == StateOf(pos, Len(t), m, rem)
           u == StateOf(q, Len(t), x, r)
<1>1. s \in PathStates /\ t \in Seq(Entries)
  BY PathStateOK
<1>2. s = [pos |-> pos, cur |-> Len(t), log |-> m.log, cyc |-> m.cycles, rem |-> rem]
  BY DEF StateOf
<1>3. u = [pos |-> q, cur |-> Len(t), log |-> x.log, cyc |-> x.cycles, rem |-> r]
  BY DEF StateOf
<1>4. Len(t) \in Nat /\ x.log \in Seq(Events) /\ x.cycles \in Nat /\ r \in Nat /\ q \in Positions
  <2>1. Len(t) \in Nat /\ x.log \in Seq(Events) /\ x.cycles \in Nat
    <3>1. Len(t) \in Nat
      BY <1>1
    <3>2. x.log \in Seq(Events)
      BY MachineData, Zenon
    <3>3. x.cycles \in Nat
      BY MachineData, Zenon
    <3> QED BY <3>1, <3>2, <3>3
  <2>2. r \in Nat
    BY TickType
  <2>3. q \in Positions
    BY DEF Positions
  <2> QED BY <2>1, <2>2, <2>3
<1>5. OnPath(t, s)
  OBVIOUS
<1> HIDE DEF s, u, q, r
<1>6. u \in PathStates
  BY <1>3, <1>4 DEF PathStates
<1>7. Executes(t, s, u)
  <2>1. /\ s.cur = Len(t) /\ s.pos = pos /\ s.log = m.log /\ s.cyc = m.cycles /\ s.rem = rem
    BY <1>2
  <2>2. ~ (s.cur < Len(t))
    BY <1>4, <2>1
  <2>3. s.cyc # FAULT_AT /\ s.pos.completed # U64_MAX
    BY <2>1 DEF InstructionFails
  <2> QED BY <1>3, <2>1, <2>2, <2>3 DEF Executes, q, r
<1>8. OnPath(t, u)
  BY <1>5, <1>6, <1>7, PathExecutes
<1> QED BY <1>8 DEF u, q, r

LEMMA ExecuteRecordingSound ==
    ASSUME NEW w, Base(w), Recording(w), w.rt.state = "Running" => w.rt.ignore = None,
           ~InstructionFails(w.rt.machine),
           NEW v \in AttemptInstruction(w), NEW x \in ExecuteRecording(v)
    PROVE  Base(x) /\ Rested(x) /\ x.rt.machine # None
<1> DEFINE u == FinishInstruction(v)
           y == AdvancePosition(u)
<1>0. /\ Outer(w) /\ Shape(w) /\ w.rt.mode = "Recording" /\ w.rt.machine # None
      /\ ~Replaying(w) /\ ~w.rt.network_error
  BY DEF Base, Outer, Recording, Replaying, InRecord, Recorded
<1>1. /\ Outer(u) /\ u.rt.machine \in Machines /\ u.rt.machine # None
      /\ u.rt.mode = w.rt.mode /\ u.rt.position = w.rt.position
      /\ u.rt.network_error = w.rt.network_error /\ u.rt.recorder = v.rt.recorder
      /\ u.rt.remainder = AdvanceCycle(w.rt.remainder).remainder
      /\ u.rt.machine.cycles = w.rt.machine.cycles + 1
      /\ u.rt.machine.log
           = Append(v.rt.machine.log, <<"cycle", AdvanceCycle(w.rt.remainder).elapsed>>)
  BY <1>0, CycleOuter, ZenonT(60)
<1>2. IF PositionOverflows(u) THEN x = FailSession(u)
      ELSE \E z \in ProcessNetworkBoundary(y) : x \in RecordCheckpointIfDue(CheckRecordFailure(z))
  BY DEF ExecuteRecording, Then
<1> HIDE DEF u
<1>3. CASE PositionOverflows(u)
  <2>1. x = FailSession(u) /\ Recording(u)
    BY <1>0, <1>1, <1>2, <1>3 DEF Recording
  <2> QED BY <1>1, <2>1, FailSessionRecording
<1>4. CASE ~PositionOverflows(u)
  <2>1. PICK z \in ProcessNetworkBoundary(y) : x \in RecordCheckpointIfDue(CheckRecordFailure(z))
    BY <1>2, <1>4
  <2>2. Outer(y)
    BY <1>1, AdvanceOuter
  <2>3. Shape(u) /\ u.rt.position \in Positions
    BY <1>1 DEF Outer, Typed
  <2>4. /\ Keeps(y, u, {"position"})
        /\ y.rt.position = [epoch |-> u.rt.position.epoch, completed |-> u.rt.position.completed + 1]
    BY <2>3, AdvanceEffect
  <2> HIDE DEF y
  <2>5. /\ y.rt.mode = "Recording" /\ y.rt.machine = u.rt.machine /\ y.rt.recorder = v.rt.recorder
        /\ y.rt.remainder = u.rt.remainder /\ y.rt.network_error = w.rt.network_error
    BY <1>0, <1>1, <2>4 DEF Keeps, CoreFields
  <2>6. /\ w.rt.recorder \in Recorders /\ w.rt.machine \in Machines /\ w.rt.remainder \in Nat
        /\ ~w.rt.recorder.failed =>
             OnPath(w.rt.recorder.timeline,
                    StateOf(w.rt.position, Len(w.rt.recorder.timeline), w.rt.machine, w.rt.remainder))
    BY <1>0 DEF Base, InRecord, Recorded, Outer, Typed
  <2>7. \/ v.rt.machine.log \in Disturbed(w.rt.machine.log) /\ v.rt.recorder = w.rt.recorder
        \/ v.rt.recorder = FailRecorder(w.rt.recorder)
    <3>1. \/ /\ v.rt.machine \in {ExecuteInstruction(w.rt.machine),
                                 ExecuteWithStorageError(w.rt.machine, "read_error")}
             /\ v.rt.recorder = w.rt.recorder
          \/ v.rt.recorder = FailRecorder(w.rt.recorder)
      BY <1>0, AttemptEffect
    <3> QED BY <2>6, <3>1, UnheardLog
  <2>8. y.rt.recorder \in Recorders
    BY <2>5, <2>6, <2>7, RecorderEntry
  <2>9. ASSUME ~y.rt.recorder.failed
        PROVE  OnPath(y.rt.recorder.timeline,
                      StateOf(y.rt.position, Len(y.rt.recorder.timeline), y.rt.machine, y.rt.remainder))
    <3>1. FailRecorder(w.rt.recorder).failed
      BY <2>6, RecorderEntry
    <3>2. v.rt.machine.log \in Disturbed(w.rt.machine.log) /\ v.rt.recorder = w.rt.recorder
      BY <2>5, <2>7, <2>9, <3>1
    <3>3. /\ u.rt.machine.cycles = w.rt.machine.cycles + 1
          /\ u.rt.machine.log
               = Append(v.rt.machine.log, <<"cycle", AdvanceCycle(w.rt.remainder).elapsed>>)
      BY <1>1
    <3>4. w.rt.position.completed # U64_MAX /\ w.rt.position \in Positions
      BY <1>1, <1>4, <2>3 DEF PositionOverflows
    <3>5. OnPath(w.rt.recorder.timeline,
                 StateOf(w.rt.position, Len(w.rt.recorder.timeline), w.rt.machine, w.rt.remainder))
      BY <2>5, <2>6, <2>9, <3>2
    <3>6. OnPath(w.rt.recorder.timeline,
                 StateOf([epoch |-> w.rt.position.epoch, completed |-> w.rt.position.completed + 1],
                         Len(w.rt.recorder.timeline), u.rt.machine,
                         AdvanceCycle(w.rt.remainder).remainder))
      BY <1>1, <2>6, <3>2, <3>3, <3>4, <3>5, CyclePath
    <3> QED BY <1>1, <2>4, <2>5, <3>2, <3>6
  <2>10. InRecord(y)
    BY <1>0, <1>1, <2>5, <2>8, <2>9 DEF InRecord, Recorded
  <2>11. ~IsReplay(y.rt.mode) /\ InReplay(y) /\ y.rt.machine # None
    BY <1>1, <2>5 DEF InReplay, Replayed, IsReplay
  <2>12. Base(y)
    BY <2>2, <2>10, <2>11 DEF Base
  <2>13. Base(z) /\ z.rt.mode \in {"Recording", "RecordCompleted"} /\ z.rt.machine # None
    BY <2>5, <2>11, <2>12, NetworkBoundarySound
  <2> DEFINE c == CheckRecordFailure(z)
  <2>14. Base(c) /\ ~RecorderFailed(c) /\ c.rt.mode \in {z.rt.mode, "RecordCompleted"} /\ c.rt.machine # None
    BY <2>13, CheckRecordFailureSound
  <2> HIDE DEF c
  <2>15. ~IsReplay(c.rt.mode)
    BY <2>13, <2>14 DEF IsReplay
  <2> QED BY <2>1, <2>14, <2>15, CheckpointIfDueSound DEF c
<1> QED BY <1>3, <1>4
-----------------------------------------------------------------------------
(* A failed instruction.                                                   *)

LEMMA PausedSound ==
    ASSUME NEW w, Base(w), w.rt.machine # None
    PROVE  /\ Base([w EXCEPT !.rt.state = "Paused"])
           /\ Rested(w) => Rested([w EXCEPT !.rt.state = "Paused"])
<1> DEFINE v == [w EXCEPT !.rt.state = "Paused"]
<1>0. Outer(w) /\ Shape(w)
  BY DEF Base, Outer
<1>1. Keeps(v, w, {"state"}) /\ v.rt.state = "Paused"
  BY <1>0 DEF Shape, Keeps, CoreFields, PlainFields
<1> HIDE DEF v
<1>2. /\ Shape(v) /\ v.files = w.files /\ v.host = w.host
      /\ v.rt.network = w.rt.network /\ v.rt.network_generation = w.rt.network_generation
      /\ v.rt.network_error = w.rt.network_error /\ v.rt.pending = w.rt.pending
      /\ v.rt.mode = w.rt.mode /\ v.rt.machine = w.rt.machine
      /\ v.rt.network_config = w.rt.network_config
  BY <1>1 DEF Keeps, CoreFields
<1>3. \A f \in CoreFields \ {"network", "network_generation", "pending", "state"} : v.rt[f] = w.rt[f]
  BY <1>1 DEF Keeps
<1>4. Linked(v.rt.network, v.rt.network_generation, v.rt.network_error, v.host.inbox, v.host.frames)
  BY <1>0, <1>2 DEF Outer
<1>5. (v.rt.pending # None => v.rt.pending \in Events) /\ v.rt.state = Stopped(w.rt) /\ v.host.result = w.host.result /\ v.host.replay_first = w.host.replay_first
  BY <1>0, <1>1, <1>2 DEF Outer, Typed, Stopped
<1>7. Framed(v.rt.mode, v.rt.machine, v.rt.pending,
             v.rt.network, v.rt.network_config, v.host.frames)
  BY <1>0, <1>2 DEF Outer
<1>6. Base(v) /\ (Rested(w) => Rested(v))
  BY <1>2, <1>3, <1>4, <1>5, <1>7, NetworkChange
<1> QED BY <1>6 DEF v

\* A Recording whose instruction failed closes with the fault as its last event.
LEMMA FaultCloses ==
    ASSUME NEW w, Base(w), Recording(w), InstructionFails(w.rt.machine), NEW v,
           v.rt.mode = w.rt.mode, v.rt.position = w.rt.position,
           v.rt.machine \in {ExecuteInstruction(w.rt.machine),
                            ExecuteWithStorageError(w.rt.machine, "read_error")},
           v.rt.recorder = w.rt.recorder
    PROVE  Closes(v, ExecutionErrorAt(ExecutionAddress(v.rt.machine)))
<1> DEFINE m == w.rt.machine
           out == ExecutionErrorAt(ExecutionAddress(v.rt.machine))
           r == Finalized(v.rt.recorder, v.rt.position, out, Fingerprint(v.rt.machine))
           s == StateOf(w.rt.position, Len(w.rt.recorder.timeline), m, w.rt.remainder)
<1>1. /\ w.rt.mode = "Recording" /\ m \in Machines /\ w.rt.recorder \in Recorders
      /\ ~w.rt.recorder.failed => OnPath(w.rt.recorder.timeline, s)
  BY DEF Base, Outer, Typed, InRecord, Recorded, Recording
<1>2. /\ v.rt.machine \in Machines /\ v.rt.machine.cycles = m.cycles
      /\ v.rt.machine.log \in Disturbed(Append(m.log, <<"fault", 0>>))
  <2>1. "read_error" \in StorageFailures
    BY DEF StorageFailures
  <2>2. v.rt.machine \in Machines /\ v.rt.machine.cycles = m.cycles
    BY <1>1, <2>1, AttemptMachine
  <2>3. v.rt.machine.log \in Disturbed(Append(m.log, <<"fault", 0>>))
    BY <1>1, UnheardLog
  <2> QED BY <2>2, <2>3
<1>3. v.rt.machine # None /\ v.rt.recorder \in Recorders
  BY <1>1, <1>2, RecordConstants
<1>4. ASSUME ~v.rt.recorder.failed PROVE RecordGood(r)
  <2>1. OnPath(w.rt.recorder.timeline, s)
    BY <1>1, <1>4
  <2>2. /\ r.timeline = w.rt.recorder.timeline /\ r.position = w.rt.position
        /\ r.outcome.kind = "ExecutionError" /\ r.outcome.address = m.cycles % ADDRESSES
        /\ r.digest \in Disturbed(Append(m.log, <<"fault", 0>>))
    BY <1>2 DEF Finalized, ExecutionErrorAt, Fingerprint, ExecutionAddress
  <2>3. /\ s.cur = Len(w.rt.recorder.timeline) /\ s.pos = w.rt.position
        /\ s.log = m.log /\ s.cyc = m.cycles
    BY DEF StateOf
  <2>4. m.cycles = FAULT_AT
    BY DEF InstructionFails
  <2>5. r.digest \in Seq(Events)
    <3>1. <<"fault", 0>> \in Events /\ m.log \in Seq(Events)
      BY <1>1 DEF Events, Machines
    <3>2. \A l \in Seq(Events), e \in Events : Append(l, e) \in Seq(Events)
      OBVIOUS
    <3>3. Append(m.log, <<"fault", 0>>) \in Seq(Events)
      BY <3>1, <3>2, Zenon
    <3> HIDE DEF r, s, m
    <3> QED BY <2>2, <3>3, DisturbedLog
  <2> HIDE DEF r, s, m
  <2>6. EndsRecord(r, s)
    BY <2>2, <2>3, <2>4, <2>5 DEF EndsRecord
  <2>7. OnPath(r.timeline, s)
    BY <2>1, <2>2
  <2> QED BY <2>6, <2>7, ClosedRecord
<1> QED BY <1>3, <1>4 DEF Closes

LEMMA FaultSettled ==
    ASSUME NEW w, Base(w), w.rt.machine # None, ~IsReplay(w.rt.mode), w.rt.state = "Running" => w.rt.ignore = None,
           InstructionFails(w.rt.machine), NEW v \in AttemptInstruction(w),
           NEW x \in HandleExecutionError(v)
    PROVE  Base(x) /\ Rested(x) /\ x.rt.machine # None
<1> DEFINE u == [v EXCEPT !.rt.last_error = TRUE]
           out == ExecutionErrorAt(ExecutionAddress(v.rt.machine))
           c == CheckRecordFailure(u)
<1>0. Outer(w) /\ Shape(w) /\ ~Replaying(w)
  BY DEF Base, Outer, Replaying, IsReplay
<1>1. Outer(v)
  BY <1>0, FaultOuter
<1>2. /\ Keeps(v, w, {"machine", "recorder", "replay"}) /\ v.rt.machine # None
      /\ \/ /\ v.rt.machine \in {ExecuteInstruction(w.rt.machine),
                               ExecuteWithStorageError(w.rt.machine, "read_error")}
            /\ v.rt.recorder = w.rt.recorder
         \/ Recording(w) /\ v.rt.recorder = FailRecorder(w.rt.recorder)
  BY <1>0, AttemptEffect, AttemptOuter
<1>3. Shape(v) /\ v.rt.mode = w.rt.mode /\ v.rt.position = w.rt.position
  BY <1>2 DEF Keeps, CoreFields
<1>4. Keeps(u, v, {})
  BY <1>3 DEF Shape, Keeps, CoreFields, PlainFields
<1>5. /\ u.files = v.files /\ u.host = v.host /\ Shape(u)
      /\ u.rt.state = v.rt.state /\ u.rt.mode = v.rt.mode /\ u.rt.machine = v.rt.machine
      /\ u.rt.remainder = v.rt.remainder /\ u.rt.instant = v.rt.instant
      /\ u.rt.position = v.rt.position /\ u.rt.preserved = v.rt.preserved
      /\ u.rt.ignore = v.rt.ignore /\ u.rt.network = v.rt.network
      /\ u.rt.network_generation = v.rt.network_generation
      /\ u.rt.network_error = v.rt.network_error /\ u.rt.pending = v.rt.pending
      /\ u.rt.network_config = v.rt.network_config
      /\ u.rt.recorder = v.rt.recorder
  BY <1>4 DEF Keeps, CoreFields
<1>6. Outer(u)
  BY <1>1, <1>5 DEF Outer
<1>7. LET z == CheckReplayStorageFailure(c) IN
      IF Replaying(z)
      THEN x \in {IF ExpectsError(z) /\ z.rt.replay.record.outcome.address = ExecutionAddress(v.rt.machine)
                  THEN VerifyFinalFingerprint(z) ELSE SetReplayDivergence(z)}
      ELSE x \in StopRecording(z, out)
  BY DEF HandleExecutionError
<1> HIDE DEF u, c, out
<1>8. ~IsReplay(u.rt.mode) /\ ~Replaying(u)
  BY <1>3, <1>5 DEF IsReplay, Replaying
<1>9. ASSUME ~Replaying(c) PROVE x \in StopRecording(c, out)
  <2>1. CheckReplayStorageFailure(c) = c
    BY <1>9 DEF CheckReplayStorageFailure
  <2> QED BY <1>7, <1>9, <2>1
<1>10. CASE RecorderFailed(u)
  <2>1. Recording(u)
    BY <1>10 DEF RecorderFailed
  <2>2. c = SetRecordFailure(u)
    BY <1>10 DEF CheckRecordFailure, c
  <2>3. Base(c) /\ Rested(c) /\ c.rt.mode = "RecordCompleted" /\ c.rt.machine # None
    BY <1>2, <1>5, <1>6, <2>1, <2>2, RecordFailureSound, RecordFailureEffect DEF Keeps, CoreFields
  <2>4. ~Recording(c) /\ ~Replaying(c)
    BY <2>3 DEF Recording, Replaying
  <2>5. x = c
    BY <1>9, <2>4 DEF StopRecording, RecorderFailed
  <2> QED BY <2>3, <2>5
<1>11. CASE ~RecorderFailed(u)
  <2>1. c = u
    BY <1>11 DEF CheckRecordFailure, c
  <2>2. x \in StopRecording(u, out)
    BY <1>8, <1>9, <2>1
  <2>3. InReplay(u)
    BY <1>8 DEF InReplay, Replayed
  <2>4. Closes(u, out)
    <3>1. CASE ~Recording(u)
      BY <3>1 DEF Closes
    <3>2. CASE Recording(u)
      <4>1. Recording(w) /\ ~u.rt.recorder.failed
        BY <1>3, <1>5, <1>11, <3>2 DEF Recording, RecorderFailed
      <4>2. w.rt.recorder \in Recorders
        BY <4>1 DEF Base, InRecord, Recorded, Recording
      <4>3. FailRecorder(w.rt.recorder).failed
        BY <4>2, RecorderEntry
      <4>4. /\ v.rt.machine \in {ExecuteInstruction(w.rt.machine),
                                 ExecuteWithStorageError(w.rt.machine, "read_error")}
            /\ v.rt.recorder = w.rt.recorder
        BY <1>2, <1>5, <4>1, <4>3
      <4>5. /\ u.rt.mode = w.rt.mode /\ u.rt.position = w.rt.position
            /\ u.rt.machine \in {ExecuteInstruction(w.rt.machine),
                                 ExecuteWithStorageError(w.rt.machine, "read_error")}
            /\ u.rt.recorder = w.rt.recorder
        BY <1>3, <1>5, <4>4
      <4>6. Closes(u, ExecutionErrorAt(ExecutionAddress(u.rt.machine)))
        BY <4>1, <4>5, FaultCloses
      <4> QED BY <1>5, <4>6 DEF out
    <3> QED BY <3>1, <3>2
  <2>5. Base(x) /\ (IF Recording(u) THEN Rested(x) ELSE x = u) /\ x.rt.machine = u.rt.machine
    BY <1>6, <2>2, <2>3, <2>4, StopRecordingSound DEF CoreFields
  <2>6. ~Recording(u) => Rested(u)
    BY <1>8, LiveOnly DEF Recording
  <2> QED BY <1>2, <1>5, <2>5, <2>6
<1> QED BY <1>10, <1>11
-----------------------------------------------------------------------------
(* Replay boundaries.                                                      *)

\* The loop of a boundary, as the sequence of its turns.
LEMMA TurnsExist ==
    ASSUME NEW w, Len(w.rt.replay.record.timeline) - w.rt.replay.cursor \in Nat
    PROVE  LET t == w.rt.replay.record.timeline
               c == w.rt.replay.cursor
               left == Len(t) - c
           IN \E g : /\ g[0] = [world |-> w, stop |-> FALSE, diverged |-> FALSE]
                     /\ \A k \in 1 .. left : g[k] = BoundaryTurn(g[k - 1], t[c + k])
                     /\ BoundaryTurns(w) = g[left]
<1> DEFINE t == w.rt.replay.record.timeline
           c == w.rt.replay.cursor
           left == Len(t) - c
           a == [world |-> w, stop |-> FALSE, diverged |-> FALSE]
           F(g, n) == g = [k \in 0 .. n |-> IF k = 0 THEN a ELSE BoundaryTurn(g[k - 1], t[c + k])]
           T == {n \in Nat : \E g : F(g, n)}
<1>1. BoundaryTurns(w) = (CHOOSE g : F(g, left))[left]
  BY DEF BoundaryTurns
<1> HIDE DEF left, t, c, a
<1>2. 0 \in T
  <2> DEFINE g == [k \in 0 .. 0 |-> a]
  <2>1. F(g, 0)
    OBVIOUS
  <2> HIDE DEF F
  <2> QED BY <2>1
<1>3. ASSUME NEW n \in Nat, n \in T PROVE n + 1 \in T
  <2>1. PICK g : F(g, n)
    BY <1>3
  <2> DEFINE h == [k \in 0 .. n + 1 |-> IF k <= n THEN g[k] ELSE BoundaryTurn(g[n], t[c + (n + 1)])]
  <2>2. \A k \in 0 .. n : g[k] = IF k = 0 THEN a ELSE BoundaryTurn(g[k - 1], t[c + k])
    BY <2>1
  <2>3. \A k \in 0 .. n + 1 : h[k] = IF k = 0 THEN a ELSE BoundaryTurn(h[k - 1], t[c + k])
    <3>1. SUFFICES ASSUME NEW k \in 0 .. n + 1
                   PROVE  h[k] = IF k = 0 THEN a ELSE BoundaryTurn(h[k - 1], t[c + k])
      OBVIOUS
    <3>2. CASE k = 0
      BY <2>2, <3>2
    <3>3. CASE k \in 1 .. n
      <4>1. h[k] = g[k] /\ h[k - 1] = g[k - 1] /\ k \in 0 .. n /\ k # 0
        BY <3>3
      <4> QED BY <2>2, <4>1
    <3>4. CASE k = n + 1
      <4>1. h[k] = BoundaryTurn(g[n], t[c + (n + 1)]) /\ h[k - 1] = g[n] /\ k # 0
        BY <3>4
      <4> QED BY <3>4, <4>1
    <3> QED BY <3>2, <3>3, <3>4
  <2>4. h = [k \in 0 .. n + 1 |-> h[k]]
    OBVIOUS
  <2> HIDE DEF h
  <2>5. F(h, n + 1)
    BY <2>3, <2>4
  <2> HIDE DEF F
  <2> QED BY <2>5
<1>4. \A n \in Nat : n \in T
  <2> HIDE DEF T
  <2> QED BY <1>2, <1>3, SetInduction
<1>5. left \in Nat
  BY DEF left, t, c
<1>6. \E g : F(g, left)
  BY <1>4, <1>5
<1> DEFINE f == CHOOSE g : F(g, left)
<1>7. F(f, left)
  <2> HIDE DEF F
  <2> QED BY <1>6
<1>8. BoundaryTurns(w) = f[left]
  BY <1>1
<1> HIDE DEF f
<1>9. f[0] = a /\ \A k \in 1 .. left : f[k] = BoundaryTurn(f[k - 1], t[c + k])
  BY <1>5, <1>7
<1> QED BY <1>8, <1>9 DEF t, c, left, a
\* A reset machine starts its clock again.
LEMMA ResetOuter ==
    ASSUME NEW w, NEW v, Outer(w), w.rt.machine # None,
           Shape(v), v.files = w.files, v.host = w.host,
           v.rt.machine = ResetGuest(w.rt.machine), v.rt.remainder = 0, v.rt.instant = 0,
           v.rt.pending = None, v.rt.ignore = None, v.rt.position \in Positions,
           v.rt.mode = w.rt.mode, v.rt.preserved = w.rt.preserved, v.rt.network = w.rt.network,
           v.rt.network_generation = w.rt.network_generation,
           v.rt.network_config = w.rt.network_config, Unused(w.rt.network, w.host.frames),
           v.rt.state \in {w.rt.state, "Paused"}, v.rt.network_error \in {w.rt.network_error, FALSE}
    PROVE  Outer(v) /\ v.rt.machine \in Machines /\ v.rt.machine # None
<1> DEFINE e == <<"reset", 0>>
           m == w.rt.machine
           h == Happened(m, e)
           x == v.rt.machine
<1>1. m \in Machines /\ e \in Events
  BY DEF Outer, Typed, Events
<1>2. h \in Machines /\ h.owner = m.owner /\ h.nv = m.nv /\ x = [h EXCEPT !.cycles = 0]
      /\ h.log = Append(m.log, e) /\ e[1] # "frame"
  BY <1>1, MachineFields DEF ResetGuest
<1> HIDE DEF h, e, m, x
<1>3. x \in Machines /\ x.owner = m.owner /\ x.nv = m.nv /\ x.cycles = 0 /\ x.log = h.log
  BY <1>2 DEF Machines
<1>4. x # None
  BY <1>3, RecordConstants
<1>5. Typed(x, v.rt.position, v.rt.remainder, v.rt.instant, v.rt.pending)
  BY <1>3 DEF Typed
<1>6. Linked(v.rt.network, v.rt.network_generation, v.rt.network_error, v.host.inbox, v.host.frames)
  BY DEF Outer, Linked
<1>7. Stops(v.rt.state, v.rt.mode, x, v.rt.network_error)
  BY <1>4 DEF Outer, Stops
<1>8. Exempt(v.rt.state, v.rt.ignore, x)
  BY DEF Exempt
<1>9. Clocked(x, v.rt.instant, v.rt.remainder)
  <2>1. FREQUENCY_HZ \in Nat /\ ATTOSECONDS_PER_SECOND \in Nat
    BY MachineConstants
  <2>2. 0 * FREQUENCY_HZ + 0 = 0 * ATTOSECONDS_PER_SECOND
    BY <2>1
  <2> QED BY <1>3, <2>2 DEF Clocked
<1>10. Isolated(v.rt.mode, x, v.rt.preserved, v.host.result, v.host.replay_first)
  BY <1>3, <1>4 DEF Outer, Isolated, m
<1>12. Framed(v.rt.mode, x, v.rt.pending, v.rt.network, v.rt.network_config, v.host.frames)
  <2>1. FramesKept(x, m)
    BY <1>1, <1>2, <1>3, KeptEvent
  <2>2. /\ Framed(w.rt.mode, m, w.rt.pending, w.rt.network, w.rt.network_config, w.host.frames)
        /\ w.host.frames \in Nat /\ m # None
    BY DEF Outer, Linked, m
  <2> QED BY <1>4, <2>1, <2>2, FramedReset
<1>11. Outer(v)
  BY <1>5, <1>6, <1>7, <1>8, <1>9, <1>10, <1>12 DEF Outer, x
<1> QED BY <1>3, <1>4, <1>11 DEF x

LEMMA ResetEffect ==
    ASSUME NEW w, Shape(w)
    PROVE  LET v == ResetMachine(w) IN
           /\ Keeps(v, w, {"machine", "remainder", "instant", "pending", "ignore"})
           /\ v.rt.machine = ResetGuest(w.rt.machine) /\ v.rt.remainder = 0 /\ v.rt.instant = 0
           /\ v.rt.pending = None /\ v.rt.ignore = None
<1> DEFINE v == ResetMachine(w)
<1>1. /\ v.rt = [w.rt EXCEPT !.machine = ResetGuest(@), !.remainder = 0, !.instant = 0,
                             !.pending = None, !.last_error = FALSE, !.ignore = None,
                             !.output = w.rt.generation]
      /\ v.files = w.files /\ v.host = w.host /\ DOMAIN v = DOMAIN w
  BY DEF ResetMachine, Shape
<1> HIDE DEF v
<1>2. DOMAIN v.rt = DOMAIN w.rt /\ Shape(v)
  BY <1>1 DEF Shape
<1>3. \A f \in CoreFields \ {"machine", "remainder", "instant", "pending", "ignore"} : v.rt[f] = w.rt[f]
  BY <1>1 DEF Shape, CoreFields, PlainFields
<1>4. /\ v.rt.machine = ResetGuest(w.rt.machine) /\ v.rt.remainder = 0 /\ v.rt.instant = 0
      /\ v.rt.pending = None /\ v.rt.ignore = None
  BY <1>1 DEF Shape, CoreFields, PlainFields
<1> QED BY <1>1, <1>2, <1>3, <1>4 DEF v, Keeps

\* A Replay on its path, and what is said of it.
OnTrack(w) ==
    /\ Base(w) /\ w.rt.mode = "Replaying" /\ ~w.rt.replay.failed

LEMMA OnTrackFacts ==
    ASSUME NEW w, OnTrack(w)
    PROVE  /\ Outer(w) /\ Shape(w) /\ w.rt.machine # None /\ w.rt.machine \in Machines
           /\ DOMAIN w.rt.replay = {"record", "cursor", "failed"} /\ w.rt.replay.failed = FALSE
           /\ w.rt.replay.cursor \in Nat /\ RecordGood(w.rt.replay.record)
           /\ TracksRecord(w.rt.replay.record,
                           StateOf(w.rt.position, w.rt.replay.cursor, w.rt.machine, w.rt.remainder))
           /\ w.rt.position \in Positions
<1>1. Outer(w) /\ InReplay(w) /\ IsReplay(w.rt.mode)
  BY DEF OnTrack, Base, IsReplay
<1>2. /\ w.rt.machine # None
      /\ DOMAIN w.rt.replay = {"record", "cursor", "failed"} /\ w.rt.replay.failed \in BOOLEAN
      /\ w.rt.replay.cursor \in Nat /\ RecordGood(w.rt.replay.record)
      /\ TracksRecord(w.rt.replay.record,
                      StateOf(w.rt.position, w.rt.replay.cursor, w.rt.machine, w.rt.remainder))
  BY <1>1 DEF InReplay, Replayed, OnTrack
<1>3. Shape(w) /\ w.rt.machine \in Machines /\ w.rt.position \in Positions
  BY <1>1, <1>2 DEF Outer, Typed
<1>4. w.rt.replay.failed = FALSE
  BY <1>2 DEF OnTrack
<1> QED BY <1>1, <1>2, <1>3, <1>4

\* How a world comes to be on track.
LEMMA OnTrackFrom ==
    ASSUME NEW w, Outer(w), w.rt.mode = "Replaying", w.rt.machine # None,
           DOMAIN w.rt.replay = {"record", "cursor", "failed"}, w.rt.replay.failed = FALSE,
           w.rt.replay.cursor \in Nat, RecordGood(w.rt.replay.record),
           TracksRecord(w.rt.replay.record,
                        StateOf(w.rt.position, w.rt.replay.cursor, w.rt.machine, w.rt.remainder))
    PROVE  OnTrack(w)
<1>1. InRecord(w)
  BY DEF InRecord, Recorded
<1>2. InReplay(w)
  BY DEF InReplay, Replayed
<1> QED BY <1>1, <1>2 DEF OnTrack, Base

\* A Replay that a failed read has led away from its Record.
Astray(w) ==
    /\ Outer(w) /\ w.rt.mode = "Replaying" /\ w.rt.machine # None
    /\ DOMAIN w.rt.replay = {"record", "cursor", "failed"} /\ w.rt.replay.failed = FALSE
    /\ w.rt.replay.cursor \in Nat /\ RecordGood(w.rt.replay.record)
    /\ ~Unharmed(w.rt.machine.log, w.rt.replay.record)

\* A due entry fits the machine, and the machine follows it.
LEMMA EntryApplied ==
    ASSUME NEW a, OnTrack(a)
    PROVE  \A e, k, x :
             /\ a.rt.replay.cursor < Len(a.rt.replay.record.timeline)
             /\ e = a.rt.replay.record.timeline[a.rt.replay.cursor + 1]
             /\ e.position = a.rt.position
             /\ k = [a EXCEPT !.rt.replay.cursor = @ + 1] /\ x = ApplyEntry(k, e)
             => /\ (Contradicts(k, e) => Astray(k)) /\ OnTrack(x)
                /\ x.rt.replay.record = a.rt.replay.record
                /\ x.rt.replay.cursor = a.rt.replay.cursor + 1
<1> TAKE e, k, x
<1>14. HAVE /\ a.rt.replay.cursor < Len(a.rt.replay.record.timeline)
            /\ e = a.rt.replay.record.timeline[a.rt.replay.cursor + 1]
            /\ e.position = a.rt.position
            /\ k = [a EXCEPT !.rt.replay.cursor = @ + 1] /\ x = ApplyEntry(k, e)
<1> DEFINE r == a.rt.replay.record
           c == a.rt.replay.cursor
           m == a.rt.machine
           y == [a.rt.replay EXCEPT !.cursor = @ + 1]
           z0 == StateOf(a.rt.position, c, m, a.rt.remainder)
<1>0. /\ Outer(a) /\ Shape(a) /\ m # None /\ m \in Machines
      /\ DOMAIN a.rt.replay = {"record", "cursor", "failed"} /\ a.rt.replay.failed = FALSE
      /\ c \in Nat /\ RecordGood(r) /\ TracksRecord(r, z0) /\ a.rt.position \in Positions
      /\ a.rt.mode = "Replaying"
  BY OnTrackFacts DEF OnTrack
<1>1. k = [a EXCEPT !.rt.replay = y]
  BY <1>0, <1>14 DEF Shape, CoreFields, PlainFields
<1>2. /\ DOMAIN y = {"record", "cursor", "failed"} /\ y.record = r /\ y.failed = FALSE /\ y.cursor = c + 1
  BY <1>0
<1> HIDE DEF y
<1>3. Keeps(k, a, {"replay"}) /\ k.rt.replay = y
  BY <1>0, <1>1 DEF Shape, Keeps, CoreFields, PlainFields
<1>4. /\ Shape(k) /\ k.files = a.files /\ k.host = a.host
      /\ k.rt.state = a.rt.state /\ k.rt.mode = a.rt.mode /\ k.rt.machine = a.rt.machine
      /\ k.rt.remainder = a.rt.remainder /\ k.rt.instant = a.rt.instant
      /\ k.rt.position = a.rt.position /\ k.rt.preserved = a.rt.preserved
      /\ k.rt.ignore = a.rt.ignore /\ k.rt.network = a.rt.network
      /\ k.rt.network_generation = a.rt.network_generation
      /\ k.rt.network_error = a.rt.network_error /\ k.rt.pending = a.rt.pending
      /\ k.rt.network_config = a.rt.network_config
  BY <1>3 DEF Keeps, CoreFields
<1>5. Outer(k)
  BY <1>0, <1>4 DEF Outer
<1>15. PICK s \in PathStates : FollowsRecord(r, s) /\ Beside(s, z0, r)
  BY <1>0 DEF TracksRecord
<1>6. /\ s.pos = a.rt.position /\ s.cur = c /\ s.cyc = m.cycles /\ s.rem = a.rt.remainder
      /\ Unharmed(m.log, r) => s.log = m.log
  BY <1>15 DEF StateOf, Beside
<1> HIDE DEF z0
<1>7. PICK u \in PathStates : Consumes(r.timeline, s, u) /\ FollowsRecord(r, u)
  BY <1>6, <1>14, <1>15, FollowsEntry
<1>8. /\ e.kind = "input" \/ e.kind = "reset" \/ e.kind = "checkpoint"
      /\ e.kind = "input" => e.data[1] \in Events /\ ~ (e.data[1][1] = "frame" /\ m.cycles % 2 = 1)
           /\ u = [pos |-> a.rt.position, cur |-> c + 1, log |-> Append(s.log, e.data[1]),
                   cyc |-> m.cycles, rem |-> a.rt.remainder]
      /\ e.kind = "reset" => a.rt.position.epoch # U64_MAX
           /\ u = [pos |-> [epoch |-> a.rt.position.epoch + 1, completed |-> 0], cur |-> c + 1,
                   log |-> Append(s.log, <<"reset", 0>>), cyc |-> 0, rem |-> 0]
      /\ e.kind = "checkpoint" => e.data = s.log
           /\ u = [pos |-> a.rt.position, cur |-> c + 1, log |-> s.log, cyc |-> m.cycles,
                   rem |-> a.rt.remainder]
  BY <1>6, <1>7, <1>14 DEF Consumes
<1>16. m.log \in Seq(Events)
  BY <1>0, MachineData
<1> HIDE DEF m, c, r
<1>9. Contradicts(k, e) => Astray(k)
  <2>1. SUFFICES ASSUME Contradicts(k, e) PROVE Astray(k)
    OBVIOUS
  <2>2. e.kind = "checkpoint" /\ m.log # s.log
    BY <1>4, <1>8, <2>1 DEF Contradicts, WouldBlock, Fingerprint, m
  <2>3. ~Unharmed(m.log, r)
    BY <1>6, <2>2
  <2>4. /\ k.rt.mode = "Replaying" /\ k.rt.machine = m /\ k.rt.replay = y
    BY <1>0, <1>3, <1>4 DEF m
  <2>5. y.cursor \in Nat
    BY <1>0, <1>2
  <2> QED BY <1>0, <1>2, <1>5, <2>3, <2>4, <2>5 DEF Astray
<1>17. ASSUME NEW d \in Events, Unharmed(Append(m.log, d), r)
       PROVE  s.log = m.log
  BY <1>6, <1>16, <1>17, CleanAppend DEF Unharmed
<1>10. ASSUME Outer(x), x.rt.mode = "Replaying", x.rt.machine # None, x.rt.replay = y,
              Beside(u, StateOf(x.rt.position, c + 1, x.rt.machine, x.rt.remainder), r)
       PROVE  OnTrack(x) /\ x.rt.replay.record = r /\ x.rt.replay.cursor = c + 1
  <2>1. c + 1 \in Nat /\ x.rt.replay.record = r /\ x.rt.replay.cursor = c + 1
    BY <1>0, <1>2, <1>10
  <2>2. TracksRecord(x.rt.replay.record,
                     StateOf(x.rt.position, x.rt.replay.cursor, x.rt.machine, x.rt.remainder))
    BY <1>7, <1>10, <2>1 DEF TracksRecord
  <2>3. /\ DOMAIN x.rt.replay = {"record", "cursor", "failed"} /\ x.rt.replay.failed = FALSE
        /\ x.rt.replay.cursor \in Nat /\ RecordGood(x.rt.replay.record)
    BY <1>0, <1>2, <1>10, <2>1
  <2> QED BY <1>10, <2>1, <2>2, <2>3, OnTrackFrom
<1>11. CASE e.kind = "input"
  <2> DEFINE d == e.data[1]
  <2>1. x = [k EXCEPT !.rt.machine = ReceiveInput(@, d)]
    BY <1>11, <1>14 DEF ApplyEntry
  <2> HIDE DEF d
  <2>2. Keeps(x, k, {"machine"}) /\ x.rt.machine = ReceiveInput(k.rt.machine, d)
    BY <1>4, <2>1 DEF Shape, Keeps, CoreFields, PlainFields
  <2>3. d \in Events /\ x.rt.machine = Happened(m, d)
    BY <1>4, <1>8, <1>11, <2>2 DEF ReceiveInput, d, m
  <2>4. /\ x.rt.mode = "Replaying" /\ x.rt.replay = y /\ x.rt.position = a.rt.position
        /\ x.rt.remainder = a.rt.remainder /\ x.rt.pending = k.rt.pending
        /\ Shape(x) /\ x.files = k.files /\ x.host = k.host
    BY <1>0, <1>3, <1>4, <2>2 DEF Keeps, CoreFields
  <2>5. \A f \in CoreFields \ {"machine", "recorder", "replay", "pending"} : x.rt[f] = k.rt[f]
    BY <2>2 DEF Keeps
  <2>6. Outer(x)
    <3>1. k.rt.machine = m /\ m # None
      BY <1>0, <1>4 DEF m
    <3>2. IsReplay(k.rt.mode)
      BY <1>0, <1>4 DEF IsReplay
    <3> QED BY <1>5, <2>3, <2>4, <2>5, <3>1, <3>2, HappenedOuter
  <2>7. x.rt.machine \in Machines /\ x.rt.machine.log = Append(m.log, d) /\ x.rt.machine.cycles = m.cycles
    BY <1>0, <2>3, MachineFields
  <2>8. x.rt.machine # None
    BY <2>7, RecordConstants
  <2>9. Beside(u, StateOf(x.rt.position, c + 1, x.rt.machine, x.rt.remainder), r)
    <3>1. /\ u.pos = x.rt.position /\ u.cur = c + 1 /\ u.cyc = x.rt.machine.cycles
          /\ u.rem = x.rt.remainder /\ u.log = Append(s.log, d)
      BY <1>8, <1>11, <2>4, <2>7 DEF d
    <3>2. Unharmed(x.rt.machine.log, r) => u.log = x.rt.machine.log
      BY <1>17, <2>3, <2>7, <3>1
    <3> QED BY <3>1, <3>2 DEF StateOf, Beside
  <2> QED BY <1>9, <1>10, <2>4, <2>6, <2>8, <2>9 DEF r, c
<1>12. CASE e.kind = "reset"
  <2> DEFINE z == ResetMachine(k)
             p == NextEpoch(a.rt.position)
  <2>1. x = [z EXCEPT !.rt.position = NextEpoch(@)]
    BY <1>12, <1>14 DEF ApplyEntry
  <2>2. /\ Keeps(z, k, {"machine", "remainder", "instant", "pending", "ignore"})
        /\ z.rt.machine = ResetGuest(m) /\ z.rt.remainder = 0 /\ z.rt.instant = 0
        /\ z.rt.pending = None /\ z.rt.ignore = None
    BY <1>4, ResetEffect DEF m
  <2> HIDE DEF z
  <2>3. /\ Shape(z) /\ z.rt.position = a.rt.position /\ z.rt.mode = k.rt.mode /\ z.rt.state = k.rt.state
        /\ z.rt.preserved = k.rt.preserved /\ z.rt.network = k.rt.network /\ z.rt.replay = k.rt.replay
        /\ z.rt.network_generation = k.rt.network_generation /\ z.rt.network_error = k.rt.network_error
        /\ z.rt.network_config = k.rt.network_config
        /\ z.files = k.files /\ z.host = k.host
    BY <1>4, <2>2 DEF Keeps, CoreFields
  <2>4. x = [z EXCEPT !.rt.position = p]
    BY <2>1, <2>3 DEF Shape, CoreFields, PlainFields
  <2>5. p = [epoch |-> a.rt.position.epoch + 1, completed |-> 0] /\ p \in Positions
    BY <1>0 DEF NextEpoch, Positions
  <2> HIDE DEF p
  <2>6. Keeps(x, z, {"position"}) /\ x.rt.position = p
    BY <2>3, <2>4 DEF Shape, Keeps, CoreFields, PlainFields
  <2>7. /\ Shape(x) /\ x.rt.mode = z.rt.mode /\ x.rt.state = z.rt.state
        /\ x.rt.preserved = z.rt.preserved /\ x.rt.network = z.rt.network /\ x.rt.replay = z.rt.replay
        /\ x.rt.network_generation = z.rt.network_generation /\ x.rt.network_error = z.rt.network_error
        /\ x.rt.network_config = z.rt.network_config
        /\ x.files = z.files /\ x.host = z.host
        /\ x.rt.machine = z.rt.machine /\ x.rt.remainder = z.rt.remainder
        /\ x.rt.instant = z.rt.instant /\ x.rt.pending = z.rt.pending /\ x.rt.ignore = z.rt.ignore
    BY <2>6 DEF Keeps, CoreFields
  <2>8. Outer(x) /\ x.rt.machine \in Machines /\ x.rt.machine # None
    <3>1. k.rt.machine # None /\ x.rt.machine = ResetGuest(k.rt.machine)
      BY <1>0, <1>4, <2>2, <2>7 DEF m
    <3>2. /\ Shape(x) /\ x.files = k.files /\ x.host = k.host
          /\ x.rt.remainder = 0 /\ x.rt.instant = 0 /\ x.rt.pending = None /\ x.rt.ignore = None
          /\ x.rt.position \in Positions /\ x.rt.mode = k.rt.mode /\ x.rt.preserved = k.rt.preserved
          /\ x.rt.network = k.rt.network /\ x.rt.network_generation = k.rt.network_generation
          /\ x.rt.state = k.rt.state /\ x.rt.network_error = k.rt.network_error
          /\ x.rt.network_config = k.rt.network_config
      BY <2>2, <2>3, <2>5, <2>6, <2>7
    <3>3. Unused(k.rt.network, k.host.frames)
      BY <1>0, <1>4, <1>5 DEF Outer, Framed, IsReplay, Unused
    <3> QED BY <1>5, <3>1, <3>2, <3>3, ResetOuter
  <2>9. x.rt.machine.log = Append(m.log, <<"reset", 0>>) /\ x.rt.machine.cycles = 0
    <3>1. <<"reset", 0>> \in Events
      BY DEF Events
    <3> DEFINE h == Happened(m, <<"reset", 0>>)
    <3>2. h \in Machines /\ h.log = Append(m.log, <<"reset", 0>>)
      BY <1>0, <3>1, MachineFields
    <3>3. x.rt.machine = [h EXCEPT !.cycles = 0]
      BY <2>2, <2>7 DEF ResetGuest
    <3> HIDE DEF h
    <3> QED BY <3>2, <3>3 DEF Machines
  <2>10. Beside(u, StateOf(x.rt.position, c + 1, x.rt.machine, x.rt.remainder), r)
    <3>1. /\ u.pos = x.rt.position /\ u.cur = c + 1 /\ u.cyc = x.rt.machine.cycles
          /\ u.rem = x.rt.remainder /\ u.log = Append(s.log, <<"reset", 0>>)
      BY <1>8, <1>12, <2>2, <2>5, <2>6, <2>7, <2>9
    <3>2. <<"reset", 0>> \in Events
      BY DEF Events
    <3>3. Unharmed(x.rt.machine.log, r) => u.log = x.rt.machine.log
      BY <1>17, <2>9, <3>1, <3>2
    <3> QED BY <3>1, <3>3 DEF StateOf, Beside
  <2>11. x.rt.mode = "Replaying" /\ x.rt.replay = y
    BY <1>0, <1>3, <1>4, <2>3, <2>7
  <2> QED BY <1>9, <1>10, <2>8, <2>10, <2>11 DEF r, c
<1>13. CASE e.kind = "checkpoint"
  <2>1. x = k
    BY <1>13, <1>14 DEF ApplyEntry
  <2>2. Beside(u, StateOf(x.rt.position, c + 1, x.rt.machine, x.rt.remainder), r)
    <3>1. /\ u.pos = x.rt.position /\ u.cur = c + 1 /\ u.cyc = x.rt.machine.cycles
          /\ u.rem = x.rt.remainder /\ u.log = s.log /\ x.rt.machine.log = m.log
      BY <1>4, <1>8, <1>13, <2>1 DEF m
    <3> QED BY <1>6, <3>1 DEF StateOf, Beside
  <2>3. x.rt.mode = "Replaying" /\ x.rt.replay = y /\ Outer(x) /\ x.rt.machine # None
    BY <1>0, <1>3, <1>4, <1>5, <2>1 DEF m
  <2> QED BY <1>9, <1>10, <2>2, <2>3 DEF r, c
<1> QED BY <1>8, <1>11, <1>12, <1>13
\* After n turns of a boundary: diverged only when a read failed, and stopped
\* besides only where no entry is due.
GoodTurn(acc, w, n) ==
    LET s == acc.world.rt IN
    /\ DOMAIN acc = {"world", "stop", "diverged"} /\ acc.stop \in BOOLEAN /\ acc.diverged \in BOOLEAN
    /\ acc.diverged => acc.stop /\ Astray(acc.world)
    /\ ~acc.diverged =>
         /\ OnTrack(acc.world) /\ s.replay.record = w.rt.replay.record
         /\ IF acc.stop
            THEN /\ s.replay.cursor < Len(s.replay.record.timeline)
                 /\ s.replay.record.timeline[s.replay.cursor + 1].position # s.position
            ELSE s.replay.cursor = w.rt.replay.cursor + n

LEMMA OnTrackOrder ==
    ASSUME NEW w, OnTrack(w)
    PROVE  LET r == w.rt.replay.record
               t == r.timeline
               c == w.rt.replay.cursor
           IN /\ t \in Seq(Entries) /\ r.position \in Positions /\ c <= Len(t)
              /\ ~Before(r.position, w.rt.position)
              /\ c > 0 => ~Before(w.rt.position, t[c].position)
              /\ c < Len(t) => /\ t[c + 1].position \in Positions
                               /\ ~Before(t[c + 1].position, w.rt.position)
                               /\ ~Before(r.position, t[c + 1].position)
<1> DEFINE r == w.rt.replay.record
           t == r.timeline
           c == w.rt.replay.cursor
           z == StateOf(w.rt.position, c, w.rt.machine, w.rt.remainder)
<1>5. TracksRecord(r, z) /\ c \in Nat
  BY OnTrackFacts
<1>1. PICK s \in PathStates : FollowsRecord(r, s) /\ Beside(s, z, r) /\ c \in Nat
  BY <1>5 DEF TracksRecord
<1>2. s.pos = w.rt.position /\ s.cur = c
  BY <1>1 DEF StateOf, Beside
<1> HIDE DEF r, z, c
<1>3. /\ t \in Seq(Entries) /\ r.position \in Positions
      /\ s.cur <= Len(t) /\ ~Before(r.position, s.pos)
      /\ s.cur > 0 => ~Before(s.pos, t[s.cur].position)
      /\ s.cur < Len(t) => /\ ~Before(t[s.cur + 1].position, s.pos)
                           /\ ~Before(r.position, t[s.cur + 1].position)
  BY <1>1, FollowsOrder
<1> HIDE DEF t
<1>4. c < Len(t) => t[c + 1].position \in Positions
  <2>1. SUFFICES ASSUME c < Len(t) PROVE t[c + 1].position \in Positions
    OBVIOUS
  <2>2. c + 1 \in 1 .. Len(t)
    BY <1>1, <1>3, <2>1
  <2>3. t[c + 1] \in Entries
    BY <1>3, <2>2
  <2> QED BY <2>3 DEF Entries
<1> QED BY <1>2, <1>3, <1>4 DEF r, t, c

LEMMA TurnSound ==
    ASSUME NEW w, NEW acc, NEW n \in Nat, GoodTurn(acc, w, n), w.rt.replay.cursor \in Nat,
           w.rt.replay.cursor + (n + 1) <= Len(w.rt.replay.record.timeline)
    PROVE  GoodTurn(BoundaryTurn(acc, w.rt.replay.record.timeline[w.rt.replay.cursor + (n + 1)]), w, n + 1)
<1> DEFINE t == w.rt.replay.record.timeline
           e == t[w.rt.replay.cursor + (n + 1)]
           a == acc.world
           k == [a EXCEPT !.rt.replay.cursor = @ + 1]
           x == ApplyEntry(k, e)
           b == BoundaryTurn(acc, e)
<1>0. CASE acc.diverged
  <2>1. acc.stop = TRUE /\ b = [acc EXCEPT !.stop = TRUE]
    BY <1>0 DEF GoodTurn, BoundaryTurn
  <2>2. DOMAIN acc = {"world", "stop", "diverged"} /\ acc.diverged = TRUE /\ Astray(acc.world)
    BY <1>0 DEF GoodTurn
  <2> HIDE DEF b
  <2>3. /\ DOMAIN b = {"world", "stop", "diverged"} /\ b.stop = TRUE /\ b.diverged = TRUE
        /\ b.world = acc.world
    BY <2>1, <2>2
  <2>4. GoodTurn(b, w, n + 1)
    BY <2>2, <2>3 DEF GoodTurn
  <2> QED BY <2>4 DEF b, e
<1>5. SUFFICES ASSUME ~acc.diverged PROVE GoodTurn(b, w, n + 1)
  BY <1>0 DEF b
<1>1. /\ DOMAIN acc = {"world", "stop", "diverged"} /\ acc.stop \in BOOLEAN /\ acc.diverged = FALSE
      /\ OnTrack(a) /\ a.rt.replay.record = w.rt.replay.record
  BY <1>5 DEF GoodTurn
<1>2. b = IF acc.stop \/ Before(a.rt.position, e.position) THEN [acc EXCEPT !.stop = TRUE]
          ELSE IF Before(e.position, a.rt.position)
          THEN [acc EXCEPT !.stop = TRUE, !.diverged = TRUE]
          ELSE IF Contradicts(k, e)
          THEN [world |-> k, stop |-> TRUE, diverged |-> TRUE]
          ELSE [acc EXCEPT !.world = x]
  BY DEF BoundaryTurn
<1> HIDE DEF k, x, b, e, a
<1>3. CASE acc.stop
  <2>1. b = [acc EXCEPT !.stop = TRUE]
    BY <1>2, <1>3
  <2>2. DOMAIN b = {"world", "stop", "diverged"} /\ b.stop = TRUE /\ b.diverged = FALSE /\ b.world = a
    BY <1>1, <2>1 DEF a
  <2>3. /\ a.rt.replay.cursor < Len(a.rt.replay.record.timeline)
        /\ a.rt.replay.record.timeline[a.rt.replay.cursor + 1].position # a.rt.position
    BY <1>3, <1>5 DEF GoodTurn, a
  <2>4. GoodTurn(b, w, n + 1)
    BY <1>1, <2>2, <2>3 DEF GoodTurn
  <2> QED BY <2>4
<1>4. CASE ~acc.stop
  <2>1. a.rt.replay.cursor = w.rt.replay.cursor + n
    BY <1>4, <1>5 DEF GoodTurn, a
  <2>2. (w.rt.replay.cursor + n) + 1 = w.rt.replay.cursor + (n + 1)
    OBVIOUS
  <2>3. e = a.rt.replay.record.timeline[a.rt.replay.cursor + 1]
    BY <1>1, <2>1, <2>2 DEF e
  <2>4. a.rt.replay.cursor < Len(a.rt.replay.record.timeline)
    <3>1. a.rt.replay.record.timeline \in Seq(Entries)
      BY <1>1, OnTrackOrder
    <3> DEFINE L == Len(a.rt.replay.record.timeline)
               c == w.rt.replay.cursor
    <3>2. L \in Nat
      BY <3>1, SMTT(30)
    <3>3. c + (n + 1) <= L /\ c \in Nat /\ a.rt.replay.cursor = c + n
      BY <1>1, <2>1
    <3> HIDE DEF L, c
    <3>4. c + n < L
      BY <3>2, <3>3
    <3> QED BY <3>3, <3>4 DEF L
  <2>5. /\ e.position \in Positions /\ ~Before(e.position, a.rt.position) /\ a.rt.position \in Positions
    BY <1>1, <2>3, <2>4, OnTrackOrder, OnTrackFacts
  <2>6. CASE Before(a.rt.position, e.position)
    <3>1. b = [acc EXCEPT !.stop = TRUE]
      BY <1>2, <2>6
    <3>2. DOMAIN b = {"world", "stop", "diverged"} /\ b.stop = TRUE /\ b.diverged = FALSE /\ b.world = a
      BY <1>1, <3>1 DEF a
    <3>3. e.position # a.rt.position
      BY <2>5, <2>6, PositionOrder
    <3>4. GoodTurn(b, w, n + 1)
      BY <1>1, <2>3, <2>4, <3>2, <3>3 DEF GoodTurn
    <3> QED BY <3>4
  <2>7. CASE ~Before(a.rt.position, e.position)
    <3>1. e.position = a.rt.position
      BY <2>5, <2>7, PositionOrder
    <3>2. /\ (Contradicts(k, e) => Astray(k)) /\ OnTrack(x) /\ x.rt.replay.record = a.rt.replay.record
          /\ x.rt.replay.cursor = a.rt.replay.cursor + 1
      <4>1. k = [a EXCEPT !.rt.replay.cursor = @ + 1] /\ x = ApplyEntry(k, e)
        BY DEF k, x
      <4>2. \A d, i, y :
              /\ a.rt.replay.cursor < Len(a.rt.replay.record.timeline)
              /\ d = a.rt.replay.record.timeline[a.rt.replay.cursor + 1]
              /\ d.position = a.rt.position
              /\ i = [a EXCEPT !.rt.replay.cursor = @ + 1] /\ y = ApplyEntry(i, d)
              => /\ (Contradicts(i, d) => Astray(i)) /\ OnTrack(y)
                 /\ y.rt.replay.record = a.rt.replay.record
                 /\ y.rt.replay.cursor = a.rt.replay.cursor + 1
        BY <1>1, EntryApplied
      <4> QED BY <2>3, <2>4, <3>1, <4>1, <4>2, Zenon
    <3>3. CASE Contradicts(k, e)
      <4>1. b = [world |-> k, stop |-> TRUE, diverged |-> TRUE]
        BY <1>2, <1>4, <2>5, <2>7, <3>3
      <4>2. /\ DOMAIN b = {"world", "stop", "diverged"} /\ b.stop = TRUE /\ b.diverged = TRUE
            /\ b.world = k
        BY <4>1
      <4> QED BY <3>2, <3>3, <4>2 DEF GoodTurn
    <3>4. CASE ~Contradicts(k, e)
      <4>1. b = [acc EXCEPT !.world = x]
        BY <1>2, <1>4, <2>5, <2>7, <3>4
      <4>2. DOMAIN b = {"world", "stop", "diverged"} /\ b.stop = acc.stop /\ b.diverged = FALSE /\ b.world = x
        BY <1>1, <4>1
      <4>3. x.rt.replay.cursor = w.rt.replay.cursor + (n + 1) /\ x.rt.replay.record = w.rt.replay.record
        BY <1>1, <2>1, <2>2, <3>2
      <4> QED BY <1>1, <1>4, <3>2, <4>2, <4>3 DEF GoodTurn
    <3> QED BY <3>3, <3>4
  <2> QED BY <2>6, <2>7
<1> QED BY <1>1, <1>3, <1>4

\* A boundary of a Replay on its path diverges only when a read failed, and does
\* all that is due.
LEMMA BoundarySound ==
    ASSUME NEW w, OnTrack(w)
    PROVE  Base(ProcessReplayBoundary(w)) /\ Rested(ProcessReplayBoundary(w)) /\ IsReplay(ProcessReplayBoundary(w).rt.mode)
<1> DEFINE t == w.rt.replay.record.timeline
           c == w.rt.replay.cursor
           left == Len(t) - c
           end == BoundaryTurns(w)
           x == end.world
<1>1. c \in Nat /\ left \in Nat /\ Len(t) \in Nat
  <2>1. c \in Nat /\ c <= Len(t) /\ t \in Seq(Entries)
    BY OnTrackFacts, OnTrackOrder
  <2> HIDE DEF t, c
  <2>2. Len(t) \in Nat
    BY <2>1
  <2> QED BY <2>1, <2>2
<1>2. PICK g : /\ g[0] = [world |-> w, stop |-> FALSE, diverged |-> FALSE]
               /\ \A k \in 1 .. left : g[k] = BoundaryTurn(g[k - 1], t[c + k])
               /\ end = g[left]
  BY <1>1, TurnsExist
<1> HIDE DEF end, left
<1>3. GoodTurn(g[left], w, left)
  <2> DEFINE S == {n \in Nat : n <= left => GoodTurn(g[n], w, n)}
  <2>1. 0 \in S
    <3>1. w.rt.replay.cursor = w.rt.replay.cursor + 0
      BY <1>1
    <3> DEFINE b == [world |-> w, stop |-> FALSE, diverged |-> FALSE]
    <3>2. DOMAIN b = {"world", "stop", "diverged"} /\ b.stop = FALSE /\ b.diverged = FALSE /\ b.world = w
      OBVIOUS
    <3>3. g[0] = b
      BY <1>2
    <3> HIDE DEF b
    <3>4. GoodTurn(b, w, 0)
      BY <3>1, <3>2 DEF GoodTurn, OnTrack
    <3> QED BY <3>3, <3>4
  <2>2. ASSUME NEW n \in Nat, n \in S PROVE n + 1 \in S
    <3>1. SUFFICES ASSUME n + 1 <= left PROVE GoodTurn(g[n + 1], w, n + 1)
      OBVIOUS
    <3>2. GoodTurn(g[n], w, n)
      BY <1>1, <2>2, <3>1
    <3>3. n + 1 \in 1 .. left /\ (n + 1) - 1 = n
      BY <1>1, <3>1
    <3>4. g[n + 1] = BoundaryTurn(g[n], t[c + (n + 1)])
      BY <1>2, <3>3
    <3>5. c + (n + 1) <= Len(t)
      BY <1>1, <3>1, SMTT(30) DEF left
    <3> QED BY <1>1, <3>2, <3>4, <3>5, TurnSound
  <2>3. \A n \in Nat : n \in S
    <3> HIDE DEF S
    <3> QED BY <2>1, <2>2, SetInduction
  <2> QED BY <1>1, <2>3
<1>4. GoodTurn(end, w, left)
  BY <1>2, <1>3
<1>12. CASE end.diverged
  <2>1. Astray(x)
    BY <1>4, <1>12 DEF GoodTurn
  <2>2. ProcessReplayBoundary(w) = SetReplayDivergence(x)
    BY <1>12 DEF ProcessReplayBoundary, end
  <2>3. /\ Base(SetReplayDivergence(x)) /\ Rested(SetReplayDivergence(x))
        /\ SetReplayDivergence(x).rt.mode = "ReplayDiverged"
    BY <2>1, DivergenceSound DEF Astray, Replaying
  <2> QED BY <2>2, <2>3 DEF IsReplay
<1>13. SUFFICES ASSUME ~end.diverged
                PROVE  /\ Base(ProcessReplayBoundary(w)) /\ Rested(ProcessReplayBoundary(w))
                       /\ IsReplay(ProcessReplayBoundary(w).rt.mode)
  BY <1>12
<1>5. /\ OnTrack(x) /\ end.diverged = FALSE /\ x.rt.replay.record = w.rt.replay.record
      /\ \/ x.rt.replay.cursor = Len(x.rt.replay.record.timeline)
         \/ /\ x.rt.replay.cursor < Len(x.rt.replay.record.timeline)
            /\ x.rt.replay.record.timeline[x.rt.replay.cursor + 1].position # x.rt.position
  <2>1. c + left = Len(t)
    BY <1>1, SMTT(30) DEF left
  <2> QED BY <1>4, <1>13, <2>1 DEF GoodTurn
<1>6. ProcessReplayBoundary(w) = AtFooter(x)
  BY <1>5 DEF ProcessReplayBoundary, end
<1> DEFINE r == x.rt.replay
           d == r.record
<1>7. /\ d.position \in Positions /\ ~Before(d.position, x.rt.position) /\ x.rt.position \in Positions
      /\ r.cursor < Len(d.timeline) => /\ d.timeline[r.cursor + 1].position \in Positions
                                       /\ ~Before(d.timeline[r.cursor + 1].position, x.rt.position)
                                       /\ ~Before(d.position, d.timeline[r.cursor + 1].position)
  BY <1>5, OnTrackOrder, OnTrackFacts
<1>8. AtFooter(x) = IF Before(x.rt.position, d.position) THEN x
                    ELSE IF r.cursor # Len(d.timeline) THEN SetReplayDivergence(x)
                    ELSE IF d.outcome.kind = "ExecutionError" THEN x ELSE VerifyFinalFingerprint(x)
  BY <1>7, PositionOrder DEF AtFooter, FinalPosition, TimelineConsumed
<1>9. Base(x) /\ x.rt.mode = "Replaying" /\ ~r.failed
  BY <1>5 DEF OnTrack
<1>10. CASE Before(x.rt.position, d.position)
  <2>0. x.rt.position # d.position
    BY <1>7, <1>10, PositionOrder
  <2>1. Settled(r, x.rt.position)
    <3>1. r.cursor \in Nat /\ Len(d.timeline) \in Nat
      <4>1. d.timeline \in Seq(Entries) /\ r.cursor \in Nat
        BY <1>5, OnTrackOrder, OnTrackFacts
      <4> HIDE DEF r, d
      <4> QED BY <4>1
    <3>2. ASSUME r.cursor < Len(d.timeline)
          PROVE  d.timeline[r.cursor + 1].position # x.rt.position
      <4>1. \/ r.cursor = Len(d.timeline)
            \/ d.timeline[r.cursor + 1].position # x.rt.position
        BY <1>5, Zenon
      <4> HIDE DEF r, d
      <4> QED BY <3>1, <3>2, <4>1
    <3> HIDE DEF r
    <3> QED BY <2>0, <3>2 DEF Settled
  <2> QED BY <1>6, <1>8, <1>9, <1>10, <2>1 DEF Rested, IsReplay
<1>11. CASE ~Before(x.rt.position, d.position)
  <2>1. x.rt.position = d.position
    BY <1>7, <1>11, PositionOrder
  <2>2. r.cursor = Len(d.timeline)
    <3>1. CASE r.cursor < Len(d.timeline) /\ d.timeline[r.cursor + 1].position # x.rt.position
      BY <1>7, <2>1, <3>1, PositionOrder, SMTT(60)
    <3> QED BY <1>5, <3>1
  <2>3. CASE d.outcome.kind = "ExecutionError"
    <3>1. Settled(r, x.rt.position)
      <4>1. r.cursor = Len(d.timeline) /\ Len(d.timeline) \in Nat
        BY <1>5, <2>2, OnTrackOrder, OnTrackFacts
      <4> HIDE DEF r
      <4> QED BY <2>3, <4>1 DEF Settled
    <3> QED BY <1>6, <1>8, <1>9, <1>11, <2>2, <2>3, <3>1 DEF Rested, IsReplay
  <2>4. CASE d.outcome.kind # "ExecutionError"
    <3> DEFINE z == StateOf(x.rt.position, r.cursor, x.rt.machine, x.rt.remainder)
    <3>7. TracksRecord(d, z)
      BY <1>5, OnTrackFacts
    <3>1. PICK s \in PathStates : FollowsRecord(d, s) /\ Beside(s, z, d)
      BY <3>7 DEF TracksRecord
    <3>2. /\ s.cur = r.cursor /\ s.pos = x.rt.position
          /\ Unharmed(x.rt.machine.log, d) => s.log = x.rt.machine.log
      BY <3>1 DEF StateOf, Beside
    <3> HIDE DEF z
    <3>3. EndsRecord(d, s)
      BY <2>1, <2>2, <3>1, <3>2, FollowsEnd
    <3>4. x.rt.machine.log = d.digest \/ ~Unharmed(x.rt.machine.log, d)
      BY <2>4, <3>2, <3>3 DEF EndsRecord
    <3>5. ProcessReplayBoundary(w) = VerifyFinalFingerprint(x)
      BY <1>6, <1>8, <1>11, <2>2, <2>4
    <3>6. /\ Outer(x) /\ x.rt.machine # None /\ DOMAIN r = {"record", "cursor", "failed"}
          /\ r.failed = FALSE /\ r.cursor \in Nat /\ RecordGood(d) /\ Replaying(x)
      BY <1>5, <1>9, OnTrackFacts DEF Replaying
    <3> QED BY <3>4, <3>5, <3>6, VerifySound
  <2> QED BY <2>3, <2>4
<1> QED BY <1>10, <1>11
\* Before the next boundary nothing is due.
LEMMA BeforeBoundary ==
    ASSUME NEW w, OnTrack(w), Before(w.rt.position, NextBoundaryPosition(w.rt.replay))
    PROVE  Settled(w.rt.replay, w.rt.position)
<1> DEFINE r == w.rt.replay
           d == r.record
           t == d.timeline
           c == r.cursor
           pos == w.rt.position
<1>1. /\ t \in Seq(Entries) /\ d.position \in Positions /\ c <= Len(t) /\ c \in Nat /\ pos \in Positions
      /\ c < Len(t) => t[c + 1].position \in Positions
  BY OnTrackFacts, OnTrackOrder
<1>2. Before(pos, IF c = Len(t) THEN d.position
                  ELSE IF Before(d.position, t[c + 1].position) THEN d.position
                       ELSE t[c + 1].position)
  BY DEF NextBoundaryPosition, TimelineConsumed, FinalPosition, NextEntry, Earlier
<1> HIDE DEF pos, t, c
<1>3. Len(t) \in Nat
  BY <1>1
<1>4. c < Len(t) => t[c + 1].position # pos
  <2>1. SUFFICES ASSUME c < Len(t), t[c + 1].position = pos PROVE FALSE
    OBVIOUS
  <2>2. c # Len(t)
    BY <1>1, <1>3, <2>1
  <2>3. Before(pos, IF Before(d.position, pos) THEN d.position ELSE pos)
    BY <1>2, <2>1, <2>2
  <2> QED BY <1>1, <2>3, PositionOrder
<1>5. c = Len(t) => pos # d.position
  <2>1. SUFFICES ASSUME c = Len(t), pos = d.position PROVE FALSE
    OBVIOUS
  <2>2. Before(pos, pos)
    BY <1>2, <2>1
  <2> QED BY <1>1, <2>2, PositionOrder
<1> QED BY <1>4, <1>5 DEF Settled, t, c, pos

\* A Replay that has not ended executes an instruction of its Record, unless
\* the Record ended with the error of the instruction.
LEMMA ReplayInstruction ==
    ASSUME NEW w, OnTrack(w), Settled(w.rt.replay, w.rt.position)
    PROVE  LET r == w.rt.replay.record
               z == StateOf(w.rt.position, w.rt.replay.cursor, w.rt.machine, w.rt.remainder)
           IN IF ExpectsError(w)
              THEN /\ w.rt.machine.cycles = FAULT_AT /\ r.outcome.address = FAULT_AT % ADDRESSES
                   /\ Unharmed(w.rt.machine.log, r)
                        => r.digest = Append(w.rt.machine.log, <<"fault", 0>>)
              ELSE \E s \in PathStates : \E u \in PathStates :
                     Beside(s, z, r) /\ Executes(r.timeline, s, u) /\ FollowsRecord(r, u)
<1> DEFINE r == w.rt.replay.record
           c == w.rt.replay.cursor
           l == w.rt.machine.log
           z == StateOf(w.rt.position, c, w.rt.machine, w.rt.remainder)
<1>0. TracksRecord(r, z) /\ c \in Nat /\ l \in Seq(Events)
  BY OnTrackFacts, MachineData
<1>1. PICK s \in PathStates : FollowsRecord(r, s) /\ Beside(s, z, r)
  BY <1>0 DEF TracksRecord
<1>2. /\ s.pos = w.rt.position /\ s.cur = c /\ s.cyc = w.rt.machine.cycles
      /\ Unharmed(l, r) => s.log = l
  BY <1>1 DEF StateOf, Beside
<1>3. /\ c < Len(r.timeline) => r.timeline[c + 1].position # w.rt.position
      /\ c = Len(r.timeline) /\ w.rt.position = r.position => r.outcome.kind = "ExecutionError"
  BY DEF Settled
<1>4. ExpectsError(w) <=> /\ w.rt.position = r.position /\ c = Len(r.timeline)
                          /\ r.outcome.kind = "ExecutionError"
  BY DEF ExpectsError, FinalPosition, TimelineConsumed
<1> HIDE DEF r, c, z, l
<1>5. CASE ExpectsError(w)
  <2> DEFINE a == Append(l, <<"fault", 0>>)
  <2>1. EndsRecord(r, s)
    BY <1>1, <1>2, <1>4, <1>5, FollowsEnd
  <2>2. /\ w.rt.machine.cycles = FAULT_AT /\ r.outcome.address = FAULT_AT % ADDRESSES
        /\ r.digest \in Disturbed(Append(s.log, <<"fault", 0>>))
    BY <1>2, <1>4, <1>5, <2>1 DEF EndsRecord
  <2>3. a \in Seq(Events)
    <3>1. <<"fault", 0>> \in Events
      BY DEF Events
    <3> QED BY <1>0, <3>1
  <2>4. ASSUME Unharmed(l, r) PROVE r.digest = a
    <3>1. r.digest \in Disturbed(a) /\ NoReadFailed(r.digest)
      BY <1>2, <2>2, <2>4 DEF Unharmed
    <3> HIDE DEF a
    <3> QED BY <2>3, <3>1, DisturbedLog
  <2> QED BY <1>5, <2>2, <2>4 DEF r, l
<1>6. CASE ~ExpectsError(w)
  <2>1. \E u \in PathStates : Executes(r.timeline, s, u) /\ FollowsRecord(r, u)
    BY <1>1, <1>2, <1>3, <1>4, <1>6, FollowsInstruction
  <2> QED BY <1>1, <1>6, <2>1 DEF r, z, c
<1> QED BY <1>5, <1>6

LEMMA ExecuteReplaySound ==
    ASSUME NEW w, OnTrack(w), Rested(w), w.rt.state = "Running" => w.rt.ignore = None,
           ~InstructionFails(w.rt.machine), NEW v \in AttemptInstruction(w)
    PROVE  Base(ExecuteReplay(v, ExpectsError(w))) /\ Rested(ExecuteReplay(v, ExpectsError(w))) /\ IsReplay(ExecuteReplay(v, ExpectsError(w)).rt.mode)
<1> DEFINE r == w.rt.replay.record
           z0 == StateOf(w.rt.position, w.rt.replay.cursor, w.rt.machine, w.rt.remainder)
           u == FinishInstruction(v)
           y == AdvancePosition(u)
           z == CheckReplayStorageFailure(y)
           x == ExecuteReplay(v, ExpectsError(w))
<1>0. /\ Outer(w) /\ Shape(w) /\ w.rt.machine # None /\ w.rt.mode = "Replaying"
      /\ DOMAIN w.rt.replay = {"record", "cursor", "failed"} /\ w.rt.replay.failed = FALSE
      /\ w.rt.replay.cursor \in Nat /\ RecordGood(r) /\ w.rt.position \in Positions
      /\ Settled(w.rt.replay, w.rt.position)
  BY OnTrackFacts DEF OnTrack, Rested
<1>1. /\ Outer(u) /\ u.rt.machine # None
      /\ u.rt.mode = w.rt.mode /\ u.rt.position = w.rt.position
      /\ u.rt.replay = v.rt.replay /\ u.rt.remainder = AdvanceCycle(w.rt.remainder).remainder
      /\ u.rt.machine.cycles = w.rt.machine.cycles + 1
      /\ u.rt.machine.log
           = Append(v.rt.machine.log, <<"cycle", AdvanceCycle(w.rt.remainder).elapsed>>)
  <2>1. Replaying(w) => DOMAIN w.rt.replay = {"record", "cursor", "failed"}
    BY <1>0
  <2>2. Outer(w) /\ w.rt.machine # None
    BY <1>0
  <2> HIDE DEF r, z0, y, z, x
  <2> QED BY <2>1, <2>2, CycleOuter, ZenonT(40)
<1>2. \/ v.rt.machine.log \in Disturbed(w.rt.machine.log) /\ v.rt.replay = w.rt.replay
      \/ v.rt.replay = [w.rt.replay EXCEPT !.failed = TRUE]
  <2>1. ~Recording(w)
    BY <1>0 DEF Recording
  <2>2. \/ /\ v.rt.machine \in {ExecuteInstruction(w.rt.machine),
                               ExecuteWithStorageError(w.rt.machine, "read_error")}
           /\ v.rt.replay = w.rt.replay
        \/ v.rt.replay = [w.rt.replay EXCEPT !.failed = TRUE]
    BY <1>0, <2>1, AttemptEffect
  <2>3. w.rt.machine \in Machines
    BY OnTrackFacts
  <2> QED BY <2>2, <2>3, UnheardLog
<1>3. ~ExpectsError(w)
  BY <1>0, ReplayInstruction DEF InstructionFails
<1>4. x = IF PositionOverflows(u) THEN FailSession(u)
          ELSE IF ReplayBoundaryDue(z) THEN ProcessReplayBoundary(z) ELSE z
  BY <1>3 DEF ExecuteReplay
<1> HIDE DEF u, x
<1>5. Shape(u) /\ u.rt.position \in Positions
  BY <1>1 DEF Outer, Typed
<1>6. Outer(y)
  BY <1>1, AdvanceOuter
<1>7. /\ Keeps(y, u, {"position"})
      /\ y.rt.position = [epoch |-> u.rt.position.epoch, completed |-> u.rt.position.completed + 1]
  BY <1>5, AdvanceEffect
<1> HIDE DEF y
<1>8. /\ y.rt.mode = "Replaying" /\ y.rt.machine = u.rt.machine /\ y.rt.machine # None
      /\ y.rt.remainder = u.rt.remainder /\ y.rt.replay = v.rt.replay
  BY <1>0, <1>1, <1>7 DEF Keeps, CoreFields
<1>9. CASE v.rt.replay = [w.rt.replay EXCEPT !.failed = TRUE]
  <2> DEFINE f == v.rt.replay
  <2>1. /\ DOMAIN f = {"record", "cursor", "failed"} /\ f.failed = TRUE /\ f.cursor \in Nat
        /\ RecordGood(f.record)
    BY <1>0, <1>9
  <2> HIDE DEF f
  <2>2. /\ Base(SetReplayDivergence(u)) /\ Rested(SetReplayDivergence(u))
        /\ SetReplayDivergence(u).rt.mode = "ReplayDiverged"
    BY <1>0, <1>1, <2>1, DivergenceSound DEF f, Replaying
  <2>3. /\ Base(SetReplayDivergence(y)) /\ Rested(SetReplayDivergence(y))
        /\ SetReplayDivergence(y).rt.mode = "ReplayDiverged"
    BY <1>6, <1>8, <2>1, DivergenceSound DEF f, Replaying
  <2>4. z = SetReplayDivergence(y)
    BY <1>8, <2>1 DEF z, f, CheckReplayStorageFailure, Replaying
  <2>5. FailSession(u) = SetReplayDivergence(u)
    BY <1>0, <1>1 DEF FailSession, Recording, Replaying
  <2> HIDE DEF z
  <2>6. ~ReplayBoundaryDue(z)
    BY <2>3, <2>4 DEF ReplayBoundaryDue, Replaying
  <2>7. Base(x) /\ Rested(x) /\ IsReplay(x.rt.mode)
    BY <1>4, <2>2, <2>3, <2>4, <2>5, <2>6 DEF IsReplay
  <2> QED BY <2>7 DEF x
<1>10. CASE v.rt.machine.log \in Disturbed(w.rt.machine.log) /\ v.rt.replay = w.rt.replay
  <2> DEFINE e == <<"cycle", AdvanceCycle(w.rt.remainder).elapsed>>
             l == w.rt.machine.log
             k == v.rt.machine.log
  <2>11. \E s \in PathStates : \E q \in PathStates :
           Beside(s, z0, r) /\ Executes(r.timeline, s, q) /\ FollowsRecord(r, q)
    BY <1>0, <1>3, ReplayInstruction
  <2>12. PICK s \in PathStates : \E q \in PathStates :
           Beside(s, z0, r) /\ Executes(r.timeline, s, q) /\ FollowsRecord(r, q)
    BY <2>11
  <2>1. PICK q \in PathStates :
          Beside(s, z0, r) /\ Executes(r.timeline, s, q) /\ FollowsRecord(r, q)
    BY <2>12
  <2>2. /\ s.pos = w.rt.position /\ s.cur = w.rt.replay.cursor
        /\ s.cyc = w.rt.machine.cycles /\ s.rem = w.rt.remainder
        /\ Unharmed(l, r) => s.log = l
    BY <2>1 DEF StateOf, Beside
  <2> HIDE DEF z0
  <2>3. PICK j \in Disturbed(s.log) :
        /\ w.rt.position.completed # U64_MAX
        /\ q = [pos |-> [epoch |-> w.rt.position.epoch, completed |-> w.rt.position.completed + 1],
                cur |-> w.rt.replay.cursor, log |-> Append(j, e),
                cyc |-> w.rt.machine.cycles + 1, rem |-> AdvanceCycle(w.rt.remainder).remainder]
    BY <2>1, <2>2 DEF Executes
  <2>4. ~PositionOverflows(u)
    BY <1>1, <2>3 DEF PositionOverflows
  <2>13. /\ e \in Events /\ l \in Seq(Events) /\ k \in Seq(Events) /\ s.log \in Seq(Events)
         /\ j \in Seq(Events) /\ Append(j, e) \in Seq(Events) /\ Append(k, e) \in Seq(Events)
         /\ y.rt.machine.log = Append(k, e) /\ q.log = Append(j, e)
    <3>1. w.rt.machine \in Machines /\ w.rt.remainder \in Nat
      BY <1>0 DEF Outer, Typed
    <3>2. e \in Events
      BY <3>1, TickType DEF Events
    <3>3. l \in Seq(Events)
      BY <3>1, MachineData
    <3>4. k \in Seq(Events)
      BY <1>10, <3>3, DisturbedLog
    <3>5. s.log \in Seq(Events)
      BY DEF PathStates
    <3>6. j \in Seq(Events)
      BY <3>5, DisturbedLog
    <3>7. y.rt.machine.log = Append(k, e) /\ q.log = Append(j, e)
      BY <1>1, <1>8, <2>3
    <3> HIDE DEF e, l, k
    <3>8. Append(j, e) \in Seq(Events) /\ Append(k, e) \in Seq(Events)
      BY <3>2, <3>4, <3>6
    <3> QED BY <3>2, <3>3, <3>4, <3>5, <3>6, <3>7, <3>8
  <2>14. r.digest \in Seq(Events) /\ Prefix(q.log, r.digest)
    BY <2>1, FollowsOrder
  <2>15. k \in Disturbed(l)
    BY <1>10
  <2> HIDE DEF e, l, k
  <2>16. ASSUME Unharmed(Append(k, e), r) PROVE Append(j, e) = Append(k, e)
    <3>1. NoReadFailed(Append(k, e)) /\ NoReadFailed(r.digest)
      BY <2>16 DEF Unharmed
    <3>2. NoReadFailed(k)
      BY <2>13, <3>1, CleanAppend
    <3>3. k = l
      BY <2>13, <2>15, <3>2, DisturbedLog
    <3>4. s.log = l
      BY <2>2, <3>1, <3>2, <3>3 DEF Unharmed
    <3>5. NoReadFailed(Append(j, e))
      BY <2>13, <2>14, <3>1, CleanPrefix
    <3>6. NoReadFailed(j)
      BY <2>13, <3>5, CleanAppend
    <3>7. j = s.log
      BY <2>13, <3>6, DisturbedLog
    <3> QED BY <3>3, <3>4, <3>7
  <2>5. Beside(q, StateOf(y.rt.position, y.rt.replay.cursor, y.rt.machine, y.rt.remainder), r)
    <3>1. /\ q.pos = y.rt.position /\ q.cur = y.rt.replay.cursor /\ q.cyc = y.rt.machine.cycles
          /\ q.rem = y.rt.remainder
      BY <1>1, <1>7, <1>8, <1>10, <2>3
    <3>2. Unharmed(y.rt.machine.log, r) => q.log = y.rt.machine.log
      BY <2>13, <2>16
    <3> QED BY <3>1, <3>2 DEF StateOf, Beside
  <2>6. OnTrack(y)
    <3>1. /\ DOMAIN y.rt.replay = {"record", "cursor", "failed"} /\ y.rt.replay.failed = FALSE
          /\ y.rt.replay.cursor \in Nat /\ RecordGood(y.rt.replay.record) /\ y.rt.replay.record = r
      BY <1>0, <1>8, <1>10
    <3> HIDE DEF r
    <3>2. TracksRecord(r, StateOf(y.rt.position, y.rt.replay.cursor, y.rt.machine, y.rt.remainder))
      BY <2>1, <2>5 DEF TracksRecord
    <3> QED BY <1>6, <1>8, <3>1, <3>2, OnTrackFrom
  <2>7. z = y
    BY <2>6 DEF z, CheckReplayStorageFailure, OnTrack
  <2>8. x = IF ReplayBoundaryDue(y) THEN ProcessReplayBoundary(y) ELSE y
    BY <1>4, <2>4, <2>7
  <2>9. CASE ReplayBoundaryDue(y)
    <3>1. Base(x) /\ Rested(x) /\ IsReplay(x.rt.mode)
      BY <2>6, <2>8, <2>9, BoundarySound
    <3> QED BY <3>1 DEF x
  <2>10. CASE ~ReplayBoundaryDue(y)
    <3>1. Before(y.rt.position, NextBoundaryPosition(y.rt.replay))
      BY <1>8, <2>10 DEF ReplayBoundaryDue, Replaying
    <3>2. Settled(y.rt.replay, y.rt.position)
      BY <2>6, <3>1, BeforeBoundary
    <3>3. Base(y) /\ Rested(y) /\ IsReplay(y.rt.mode)
      BY <1>8, <2>6, <3>2 DEF OnTrack, Rested, IsReplay
    <3> QED BY <2>8, <2>10, <3>3 DEF x
  <2> QED BY <2>9, <2>10
<1> QED BY <1>2, <1>9, <1>10
\* A Replay whose instruction fails is at the error its Record ended with.
LEMMA ReplayFault ==
    ASSUME NEW w, OnTrack(w), Rested(w), w.rt.state = "Running" => w.rt.ignore = None,
           InstructionFails(w.rt.machine), NEW v \in AttemptInstruction(w),
           NEW x \in HandleExecutionError(v)
    PROVE  Base(x) /\ Rested(x) /\ IsReplay(x.rt.mode)
<1> DEFINE u == [v EXCEPT !.rt.last_error = TRUE]
           z == CheckReplayStorageFailure(u)
           address == ExecutionAddress(v.rt.machine)
<1>0. /\ Outer(w) /\ Shape(w) /\ w.rt.machine # None /\ w.rt.mode = "Replaying" /\ w.rt.machine \in Machines
      /\ DOMAIN w.rt.replay = {"record", "cursor", "failed"} /\ w.rt.replay.failed = FALSE
      /\ w.rt.replay.cursor \in Nat /\ RecordGood(w.rt.replay.record) /\ w.rt.position \in Positions
      /\ Settled(w.rt.replay, w.rt.position)
  BY OnTrackFacts DEF OnTrack, Rested
<1>1. Outer(v)
  BY <1>0, FaultOuter
<1>2. /\ Keeps(v, w, {"machine", "recorder", "replay"}) /\ v.rt.machine # None
      /\ v.rt.machine.cycles = w.rt.machine.cycles
      /\ \/ /\ v.rt.machine.log \in Disturbed(Append(w.rt.machine.log, <<"fault", 0>>))
            /\ v.rt.replay = w.rt.replay
         \/ v.rt.replay = [w.rt.replay EXCEPT !.failed = TRUE]
  <2>1. ~Recording(w)
    BY <1>0 DEF Recording
  <2>2. /\ Keeps(v, w, {"machine", "recorder", "replay"})
        /\ \/ /\ v.rt.machine \in {ExecuteInstruction(w.rt.machine),
                                 ExecuteWithStorageError(w.rt.machine, "read_error")}
              /\ v.rt.replay = w.rt.replay
           \/ v.rt.replay = [w.rt.replay EXCEPT !.failed = TRUE]
    BY <1>0, <2>1, AttemptEffect
  <2>3. v.rt.machine # None /\ v.rt.machine.cycles = w.rt.machine.cycles
    BY <1>0, AttemptOuter
  <2>4. v.rt.machine \in {ExecuteInstruction(w.rt.machine),
                          ExecuteWithStorageError(w.rt.machine, "read_error")}
        => v.rt.machine.log \in Disturbed(Append(w.rt.machine.log, <<"fault", 0>>))
    BY <1>0, UnheardLog
  <2> QED BY <2>2, <2>3, <2>4
<1>3. Shape(v) /\ v.rt.mode = w.rt.mode /\ v.rt.position = w.rt.position
  BY <1>2 DEF Keeps, CoreFields
<1>4. Keeps(u, v, {})
  BY <1>3 DEF Shape, Keeps, CoreFields, PlainFields
<1>5. CheckRecordFailure(u) = u
  <2>1. u.rt.mode = "Replaying"
    BY <1>0, <1>3, <1>4 DEF Keeps, CoreFields
  <2> HIDE DEF u
  <2> QED BY <2>1 DEF CheckRecordFailure, RecorderFailed, Recording
<1>6. IF Replaying(z)
      THEN x = IF ExpectsError(z) /\ z.rt.replay.record.outcome.address = address
               THEN VerifyFinalFingerprint(z) ELSE SetReplayDivergence(z)
      ELSE x \in StopRecording(z, ExecutionErrorAt(address))
  BY <1>5 DEF HandleExecutionError
<1> HIDE DEF u, address
<1>7. /\ u.files = v.files /\ u.host = v.host /\ Shape(u)
      /\ u.rt.state = v.rt.state /\ u.rt.mode = "Replaying" /\ u.rt.machine = v.rt.machine
      /\ u.rt.remainder = v.rt.remainder /\ u.rt.instant = v.rt.instant
      /\ u.rt.position = w.rt.position /\ u.rt.preserved = v.rt.preserved
      /\ u.rt.ignore = v.rt.ignore /\ u.rt.network = v.rt.network
      /\ u.rt.network_generation = v.rt.network_generation
      /\ u.rt.network_error = v.rt.network_error /\ u.rt.pending = v.rt.pending
      /\ u.rt.network_config = v.rt.network_config
      /\ u.rt.replay = v.rt.replay
  BY <1>0, <1>3, <1>4 DEF Keeps, CoreFields
<1>8. Outer(u)
  BY <1>0, <1>1, <1>3, <1>7 DEF Outer
<1>9. CASE v.rt.replay = [w.rt.replay EXCEPT !.failed = TRUE]
  <2> DEFINE f == v.rt.replay
  <2>1. /\ DOMAIN f = {"record", "cursor", "failed"} /\ f.failed = TRUE /\ f.cursor \in Nat
        /\ RecordGood(f.record)
    BY <1>0, <1>9
  <2> HIDE DEF f
  <2>2. /\ Base(SetReplayDivergence(u)) /\ Rested(SetReplayDivergence(u))
        /\ SetReplayDivergence(u).rt.mode = "ReplayDiverged"
    BY <1>2, <1>7, <1>8, <2>1, DivergenceSound DEF f, Replaying
  <2>3. z = SetReplayDivergence(u)
    BY <1>7, <2>1 DEF z, f, CheckReplayStorageFailure, Replaying
  <2> HIDE DEF z
  <2>4. ~Replaying(z) /\ ~Recording(z)
    BY <2>2, <2>3 DEF Replaying, Recording
  <2>5. x = z
    BY <1>6, <2>4 DEF StopRecording, RecorderFailed
  <2> QED BY <2>2, <2>3, <2>5 DEF IsReplay
<1>10. CASE /\ v.rt.machine.log \in Disturbed(Append(w.rt.machine.log, <<"fault", 0>>))
            /\ v.rt.replay = w.rt.replay
  <2>1. z = u /\ Replaying(u)
    BY <1>0, <1>7, <1>10 DEF z, CheckReplayStorageFailure, Replaying
  <2>2. ExpectsError(u) <=> ExpectsError(w)
    BY <1>7, <1>10 DEF ExpectsError
  <2>3. ExpectsError(w)
    <3>1. SUFFICES ASSUME ~ExpectsError(w) PROVE FALSE
      OBVIOUS
    <3> DEFINE s == StateOf(w.rt.position, w.rt.replay.cursor, w.rt.machine, w.rt.remainder)
               r == w.rt.replay.record
    <3>2. PICK j \in PathStates : \E q \in PathStates : Beside(j, s, r) /\ Executes(r.timeline, j, q)
      BY <1>0, <3>1, ReplayInstruction
    <3>3. j.cyc # FAULT_AT /\ j.cyc = s.cyc
      BY <3>2 DEF Executes, Beside
    <3> QED BY <3>3 DEF InstructionFails, StateOf
  <2>4. /\ w.rt.machine.cycles = FAULT_AT
        /\ w.rt.replay.record.outcome.address = FAULT_AT % ADDRESSES
        /\ Unharmed(w.rt.machine.log, w.rt.replay.record)
             => w.rt.replay.record.digest = Append(w.rt.machine.log, <<"fault", 0>>)
    BY <1>0, <2>3, ReplayInstruction
  <2>5. \/ u.rt.machine.log = u.rt.replay.record.digest
        \/ ~Unharmed(u.rt.machine.log, u.rt.replay.record)
    <3> DEFINE l == w.rt.machine.log
               e == <<"fault", 0>>
               r == w.rt.replay.record
    <3>1. SUFFICES ASSUME Unharmed(u.rt.machine.log, r) PROVE u.rt.machine.log = r.digest
      BY <1>7, <1>10
    <3>2. l \in Seq(Events) /\ e \in Events /\ u.rt.machine.log \in Disturbed(Append(l, e))
      BY <1>0, <1>7, <1>10, MachineData DEF Events
    <3>3. NoReadFailed(u.rt.machine.log) /\ NoReadFailed(r.digest)
      BY <3>1 DEF Unharmed
    <3>4. Unharmed(l, r) => r.digest = Append(l, e)
      BY <2>4
    <3> HIDE DEF l, e, r
    <3>5. Append(l, e) \in Seq(Events)
      BY <3>2
    <3>6. u.rt.machine.log = Append(l, e)
      BY <3>2, <3>3, <3>5, DisturbedLog
    <3>7. NoReadFailed(l)
      BY <3>2, <3>3, <3>6, CleanAppend
    <3> QED BY <3>3, <3>4, <3>6, <3>7 DEF Unharmed
  <2>6. u.rt.replay.record.outcome.address = address
    BY <1>2, <1>7, <1>10, <2>4 DEF address, ExecutionAddress
  <2>7. x = VerifyFinalFingerprint(u)
    BY <1>6, <2>1, <2>2, <2>3, <2>6
  <2>8. /\ DOMAIN u.rt.replay = {"record", "cursor", "failed"} /\ u.rt.replay.failed = FALSE
        /\ u.rt.replay.cursor \in Nat /\ RecordGood(u.rt.replay.record) /\ u.rt.machine # None
    BY <1>0, <1>2, <1>7, <1>10
  <2> QED BY <1>8, <2>1, <2>5, <2>7, <2>8, VerifySound
<1> QED BY <1>2, <1>9, <1>10

\* One instruction and what Step and the batches make of its result.
LEMMA InstructionSound ==
    ASSUME NEW w, Base(w), Rested(w), w.rt.machine # None, w.rt.state = "Running" => w.rt.ignore = None,
           NEW x \in Then(ExecuteInstructions(w), Settle)
    PROVE  Base(x) /\ Rested(x) /\ x.rt.machine # None
<1>1. PICK result \in ExecuteInstructions(w) : x \in Settle(result)
  BY DEF Then
<1>2. ASSUME NEW y, result = [world |-> y, error |-> FALSE], Base(y), Rested(y), y.rt.machine # None
      PROVE  Base(x) /\ Rested(x) /\ x.rt.machine # None
  <2>1. x = [y EXCEPT !.rt.last_error = FALSE]
    BY <1>1, <1>2 DEF Settle
  <2>2. Shape(y)
    BY <1>2 DEF Base, Outer
  <2>3. Keeps(x, y, {})
    BY <2>1, <2>2 DEF Shape, Keeps, CoreFields, PlainFields
  <2>4. x.rt.machine = y.rt.machine
    BY <2>3 DEF Keeps, CoreFields
  <2> QED BY <1>2, <2>3, <2>4, KeepsBase
<1>3. CASE w.rt.mode \in {"ReplayCompleted", "ReplayDiverged"}
  <2>1. result = [world |-> w, error |-> FALSE]
    BY <1>1, <1>3 DEF ExecuteInstructions, Completed, Result
  <2> QED BY <1>2, <2>1
<1>4. CASE w.rt.mode \notin {"ReplayCompleted", "ReplayDiverged"}
  <2>1. PICK v \in AttemptInstruction(w) : result \in FinishAttempt(w, v)
    BY <1>1, <1>4 DEF ExecuteInstructions
  <2>2. Outer(w) /\ Shape(w) /\ (Replaying(w) => DOMAIN w.rt.replay = {"record", "cursor", "failed"})
    BY DEF Base, Outer, InReplay, Replayed, Replaying, IsReplay
  <2>3. v.rt.mode = w.rt.mode
    <3>1. Keeps(v, w, {"machine", "recorder", "replay"})
      BY <2>2, AttemptEffect
    <3> QED BY <3>1 DEF Keeps, CoreFields
  <2>4. ASSUME Replaying(w) PROVE OnTrack(w)
    BY <2>4 DEF OnTrack, Rested, Replaying
  <2>5. CASE InstructionFails(w.rt.machine)
    <3>1. result = [world |-> v, error |-> TRUE]
      BY <2>1, <2>5 DEF FinishAttempt, Result
    <3>2. PICK h \in HandleExecutionError(v) : x = [h EXCEPT !.rt.state = "Paused"]
      BY <1>1, <3>1 DEF Settle
    <3>3. Base(h) /\ Rested(h) /\ h.rt.machine # None
      <4>1. CASE Replaying(w)
        BY <2>4, <2>5, <4>1, ReplayFault DEF Base, InReplay, Replayed
      <4>2. CASE ~Replaying(w)
        <5>1. ~IsReplay(w.rt.mode)
          BY <1>4, <4>2 DEF IsReplay, Replaying
        <5> QED BY <2>5, <5>1, FaultSettled
      <4> QED BY <4>1, <4>2
    <3>4. x.rt.machine = h.rt.machine
      BY <3>2, <3>3 DEF Base, Outer, Shape, CoreFields, PlainFields
    <3> QED BY <3>2, <3>3, <3>4, PausedSound
  <2>6. CASE ~InstructionFails(w.rt.machine) /\ Recording(w)
    <3>1. Recording(v) /\ ~Replaying(v)
      BY <2>3, <2>6 DEF Recording, Replaying
    <3>2. PICK y \in ExecuteRecording(v) : result = [world |-> y, error |-> FALSE]
      BY <2>1, <2>6, <3>1 DEF FinishAttempt, Completed, Result
    <3>3. Base(y) /\ Rested(y) /\ y.rt.machine # None
      BY <2>6, ExecuteRecordingSound
    <3> QED BY <1>2, <3>2, <3>3
  <2>7. CASE ~InstructionFails(w.rt.machine) /\ Replaying(w)
    <3>1. Replaying(v) /\ ~Recording(v)
      BY <2>3, <2>7 DEF Recording, Replaying
    <3> DEFINE y == ExecuteReplay(v, ExpectsError(w))
    <3>2. result = [world |-> y, error |-> FALSE]
      BY <2>1, <2>7, <3>1 DEF FinishAttempt, Completed, Result
    <3>3. Base(y) /\ Rested(y) /\ y.rt.machine # None
      BY <2>4, <2>7, ExecuteReplaySound DEF Base, InReplay, Replayed
    <3> HIDE DEF y
    <3> QED BY <1>2, <3>2, <3>3
  <2>8. CASE ~InstructionFails(w.rt.machine) /\ ~Recording(w) /\ ~Replaying(w)
    <3>1. ~Replaying(v) /\ ~Recording(v) /\ w.rt.mode # "Recording" /\ ~IsReplay(w.rt.mode)
      BY <1>4, <2>3, <2>8 DEF Recording, Replaying, IsReplay
    <3>2. PICK y \in ExecuteNormal(v) : result = [world |-> y, error |-> FALSE]
      BY <2>1, <2>8, <3>1 DEF FinishAttempt, Completed, Result
    <3>3. Base(y) /\ Rested(y) /\ y.rt.machine # None
      BY <2>2, <2>8, <3>1, ExecuteNormalSound
    <3> QED BY <1>2, <3>2, <3>3
  <2> QED BY <2>5, <2>6, <2>7, <2>8
<1> QED BY <1>3, <1>4

-----------------------------------------------------------------------------
(* Commands.                                                               *)

\* What a handler starts from.
LEMMA Starts ==
    ASSUME Inv
    PROVE  /\ Base(Start) /\ Rested(Start) /\ Outer(Start) /\ Shape(Start)
           /\ Start.files = files /\ Start.host = host
           /\ \A f \in CoreFields : Start.rt[f] = rt[f]
<1>1. Base(World) /\ Rested(World) /\ Shape(World)
  BY DEF Inv, Base, Outer
<1>2. World.rt = rt /\ World.files = files /\ World.host = host
  BY DEF World
<1> DEFINE w == World
           v == [w EXCEPT !.rt.revised = FALSE]
<1> HIDE DEF w
<1>3. Keeps(v, w, {})
  BY <1>1 DEF Keeps, Shape, CoreFields, PlainFields, w
<1>4. v = Start
  BY DEF w, Start
<1> HIDE DEF v
<1>5. Base(v) /\ Rested(v)
  BY <1>1, <1>3, KeepsBase DEF w
<1>6. Outer(v) /\ Shape(v)
  BY <1>5 DEF Base, Outer
<1>7. v.files = files /\ v.host = host /\ \A f \in CoreFields : v.rt[f] = rt[f]
  BY <1>2, <1>3 DEF Keeps, w
<1> QED BY <1>4, <1>5, <1>6, <1>7

\* A handler leaves the invariant behind when its last world is sound, and
\* a revision when that world announces what it changed.
LEMMA Leaves ==
    ASSUME Inv, NEW v, Base(v), Rested(v), Becomes(v)
    PROVE  Inv' /\ (Announces(v, Start) => Advances)
<1>1. DOMAIN v = {"rt", "files", "host"}
  BY DEF Base, Outer, Shape
<1>2. [rt |-> rt', files |-> files', host |-> host'] = [rt |-> v.rt, files |-> v.files, host |-> v.host]
  BY DEF Becomes
<1>3. World' = [rt |-> rt', files |-> files', host |-> host']
  BY DEF World
<1>4. Inv'
  BY <1>2, <1>3 DEF Inv, Base, Outer, InRecord, InReplay, Rested, Shape
<1>5. Visible(Start.rt) = Visible(rt)
  <2>1. Shape(World) /\ World.rt = rt
    BY DEF Inv, Base, Outer, World
  <2> DEFINE w == World
  <2>2. Start = [w EXCEPT !.rt.revised = FALSE]
    BY DEF Start
  <2> HIDE DEF w
  <2>3. Start.rt = [w.rt EXCEPT !.revised = FALSE]
    BY <2>1, <2>2 DEF Shape, w
  <2>4. Visible(Start.rt) = Visible(w.rt)
    BY <2>1, <2>3 DEF Visible, Shape, CoreFields, PlainFields, w
  <2> QED BY <2>1, <2>4 DEF w
<1>6. Announces(v, Start) => Advances
  BY <1>5 DEF Announces, Revised, Advances, Becomes
<1> QED BY <1>4, <1>6

LEMMA StartFields ==
    ASSUME Inv
    PROVE  /\ Start.rt.state = rt.state /\ Start.rt.mode = rt.mode /\ Start.rt.machine = rt.machine
           /\ Start.rt.remainder = rt.remainder /\ Start.rt.instant = rt.instant
           /\ Start.rt.position = rt.position /\ Start.rt.preserved = rt.preserved
           /\ Start.rt.ignore = rt.ignore /\ Start.rt.recorder = rt.recorder
           /\ Start.rt.replay = rt.replay /\ Start.rt.network = rt.network
           /\ Start.rt.network_generation = rt.network_generation
           /\ Start.rt.network_error = rt.network_error /\ Start.rt.pending = rt.pending
           /\ Start.rt.network_config = rt.network_config
BY Starts DEF CoreFields

\* Stopping a machine, and running one that may run.
LEMMA StateChange ==
    ASSUME NEW w, NEW v, Base(w), Keeps(v, w, {"state", "ignore"}),
           v.rt.state = "Running" =>
               /\ w.rt.machine # None /\ ~w.rt.network_error
               /\ w.rt.mode \notin {"ReplayCompleted", "ReplayDiverged"}
               /\ v.rt.ignore # None => v.rt.ignore = ExecutionAddress(w.rt.machine),
           v.rt.state # "Running" => v.rt.state = Stopped(w.rt)
    PROVE  Base(v) /\ (Rested(w) => Rested(v))
<1>1. /\ v.files = w.files /\ v.host = w.host /\ Shape(v)
      /\ v.rt.mode = w.rt.mode /\ v.rt.machine = w.rt.machine
      /\ v.rt.remainder = w.rt.remainder /\ v.rt.instant = w.rt.instant
      /\ v.rt.position = w.rt.position /\ v.rt.preserved = w.rt.preserved
      /\ v.rt.recorder = w.rt.recorder /\ v.rt.replay = w.rt.replay /\ v.rt.network = w.rt.network
      /\ v.rt.network_generation = w.rt.network_generation
      /\ v.rt.network_error = w.rt.network_error /\ v.rt.pending = w.rt.pending
      /\ v.rt.network_config = w.rt.network_config
  BY DEF Keeps, CoreFields
<1>2. Stops(v.rt.state, v.rt.mode, v.rt.machine, v.rt.network_error)
  BY <1>1 DEF Stops, Stopped
<1>3. Exempt(v.rt.state, v.rt.ignore, v.rt.machine)
  BY <1>1 DEF Exempt
<1>4. Outer(w) /\ InRecord(w) /\ InReplay(w)
  BY DEF Base
<1>5. Outer(v)
  BY <1>1, <1>2, <1>3, <1>4 DEF Outer
<1>6. InRecord(v) /\ InReplay(v)
  BY <1>1, <1>4 DEF InRecord, InReplay
<1>7. Rested(w) => Rested(v)
  BY <1>1 DEF Rested
<1> QED BY <1>5, <1>6, <1>7 DEF Base

\* A world that has its revision announced, and its output flushed.
LEMMA Announced ==
    ASSUME NEW w, Base(w), Rested(w)
    PROVE  /\ Base(Revise(w)) /\ Rested(Revise(w))
           /\ Base(Revise(Flushed(w))) /\ Rested(Revise(Flushed(w)))
           /\ \A u : Announces(Revise(w), u) /\ Announces(Revise(Flushed(w)), u)
<1>1. Shape(w)
  BY DEF Base, Outer
<1>2. Base(Flushed(w)) /\ Rested(Flushed(w))
  BY <1>1, FlushedKeeps, KeepsBase
<1>3. Shape(Flushed(w))
  BY <1>2 DEF Base, Outer
<1>4. Base(Revise(w)) /\ Rested(Revise(w))
  BY <1>1, ReviseKeeps, KeepsBase
<1>5. Base(Revise(Flushed(w))) /\ Rested(Revise(Flushed(w)))
  BY <1>2, <1>3, ReviseKeeps, KeepsBase
<1>6. \A u : Announces(Revise(w), u) /\ Announces(Revise(Flushed(w)), u)
  BY <1>1, <1>3, ReviseAnnounces DEF Announces
<1> QED BY <1>4, <1>5, <1>6

LEMMA RunKeeps == Inv /\ Run => Inv' /\ Advances
<1> SUFFICES ASSUME Inv, Run PROVE Inv' /\ Advances
  OBVIOUS
<1> DEFINE w == Start
           i == IF ExecutionAddress(rt.machine) \in rt.breakpoints
                THEN ExecutionAddress(rt.machine) ELSE None
           v == [w EXCEPT !.rt.state = "Running", !.rt.ignore = i]
<1>1. RequireRunnable(rt) /\ Becomes(Revise(v))
  BY DEF Run
<1>2. i = None \/ i = ExecutionAddress(rt.machine)
  OBVIOUS
<1>3. Base(w) /\ Rested(w) /\ Shape(w)
  BY Starts
<1>4. w.rt.machine = rt.machine /\ w.rt.network_error = rt.network_error /\ w.rt.mode = rt.mode
  BY StartFields
<1> HIDE DEF w, i
<1>5. Keeps(v, w, {"state", "ignore"}) /\ v.rt.state = "Running" /\ v.rt.ignore = i
  BY <1>3 DEF Keeps, Shape, CoreFields, PlainFields
<1> HIDE DEF v
<1>6. Base(v) /\ Rested(v)
  BY <1>1, <1>2, <1>3, <1>4, <1>5, StateChange DEF RequireRunnable
<1> QED BY <1>1, <1>6, Announced, Leaves

LEMMA PauseKeeps == Inv /\ Pause => Inv' /\ Advances
<1> SUFFICES ASSUME Inv, Pause PROVE Inv' /\ Advances
  OBVIOUS
<1> DEFINE w == Start
           v == [w EXCEPT !.rt.state = "Paused", !.rt.ignore = None]
<1>1. Becomes(Revise(v)) /\ rt.machine # None
  BY DEF Pause, HasMachine
<1>2. Base(w) /\ Rested(w) /\ Shape(w) /\ w.rt.machine # None
  BY <1>1, Starts, StartFields
<1> HIDE DEF w
<1>3. Keeps(v, w, {"state", "ignore"}) /\ v.rt.state = "Paused"
  BY <1>2 DEF Keeps, Shape, CoreFields, PlainFields
<1> HIDE DEF v
<1>4. Base(v) /\ Rested(v)
  BY <1>2, <1>3, StateChange DEF Stopped
<1> QED BY <1>1, <1>4, Announced, Leaves

LEMMA ToggleBreakpointKeeps == Inv /\ ToggleBreakpoint => Inv' /\ Advances
<1> SUFFICES ASSUME Inv, ToggleBreakpoint PROVE Inv' /\ Advances
  OBVIOUS
<1> DEFINE w == Start
<1>1. PICK address \in Breakpoints :
        Becomes(Revise([w EXCEPT !.rt.breakpoints =
                          IF address \in @ THEN @ \ {address} ELSE @ \cup {address}]))
  BY DEF ToggleBreakpoint
<1>2. Base(w) /\ Rested(w) /\ Shape(w)
  BY Starts
<1> HIDE DEF w
<1> DEFINE v == [w EXCEPT !.rt.breakpoints =
                   IF address \in @ THEN @ \ {address} ELSE @ \cup {address}]
<1>3. Keeps(v, w, {})
  BY <1>2 DEF Keeps, Shape, CoreFields, PlainFields
<1>4. Becomes(Revise(v))
  BY <1>1
<1> HIDE DEF v
<1>5. Base(v) /\ Rested(v)
  BY <1>2, <1>3, KeepsBase
<1> QED BY <1>4, <1>5, Announced, Leaves

LEMMA StepKeeps == Inv /\ Step => Inv' /\ Advances
<1> SUFFICES ASSUME Inv, Step PROVE Inv' /\ Advances
  OBVIOUS
<1> DEFINE w == Start
<1>1. RequireRunnable(rt) /\ rt.state # "Running"
  BY DEF Step
<1>2. PICK x \in Then(ExecuteInstructions(w), Settle) :
        Becomes(Revise(Flushed([x EXCEPT !.rt.state = "Paused", !.rt.ignore = None])))
  BY DEF Step
<1>3. Base(w) /\ Rested(w) /\ w.rt.machine # None /\ w.rt.state # "Running"
  BY <1>1, Starts, StartFields DEF RequireRunnable
<1> HIDE DEF w
<1>4. Base(x) /\ Rested(x) /\ x.rt.machine # None
  BY <1>2, <1>3, InstructionSound
<1> DEFINE v == [x EXCEPT !.rt.state = "Paused", !.rt.ignore = None]
<1>5. Shape(x)
  BY <1>4 DEF Base, Outer
<1>6. Keeps(v, x, {"state", "ignore"}) /\ v.rt.state = "Paused"
  BY <1>5 DEF Keeps, Shape, CoreFields, PlainFields
<1>7. Becomes(Revise(Flushed(v)))
  BY <1>2
<1> HIDE DEF v
<1>8. Base(v) /\ Rested(v)
  BY <1>4, <1>6, StateChange DEF Stopped
<1> QED BY <1>7, <1>8, Announced, Leaves

LEMMA StopAtBreakpointKeeps == Inv /\ StopAtBreakpoint => Inv' /\ Advances
<1> SUFFICES ASSUME Inv, StopAtBreakpoint PROVE Inv' /\ Advances
  OBVIOUS
<1> DEFINE w == Start
           v == [w EXCEPT !.rt.state = "Paused"]
<1>1. Becomes(Revise(Flushed(v))) /\ rt.state = "Running"
  BY DEF StopAtBreakpoint
<1>2. Base(w) /\ Rested(w) /\ Shape(w) /\ w.rt.machine # None
  BY <1>1, Starts, StartFields DEF Outer, Stops
<1> HIDE DEF w
<1>4. Base(v) /\ Rested(v)
  BY <1>2, PausedSound
<1> HIDE DEF v
<1> QED BY <1>1, <1>4, Announced, Leaves

LEMMA ExecuteBatchKeeps == Inv /\ ExecuteBatch => Inv' /\ Advances
<1> SUFFICES ASSUME Inv, ExecuteBatch PROVE Inv' /\ Advances
  OBVIOUS
<1> DEFINE w == Start
           v == PassBreakpoint(w)
<1>1. rt.state = "Running"
  BY DEF ExecuteBatch
<1>2. PICK x \in Then(ExecuteInstructions(v), Settle) : Becomes(Revise(Flushed(x)))
  BY DEF ExecuteBatch
<1>3. Base(w) /\ Rested(w) /\ Outer(w) /\ Shape(w) /\ w.rt.state = "Running"
  BY <1>1, Starts, StartFields
<1> HIDE DEF w
<1>4. /\ w.rt.machine # None /\ ~w.rt.network_error
      /\ w.rt.mode \notin {"ReplayCompleted", "ReplayDiverged"}
      /\ w.rt.ignore # None => w.rt.ignore = ExecutionAddress(w.rt.machine)
  BY <1>3 DEF Outer, Stops, Exempt
<1> DEFINE i == IF w.rt.ignore = ExecutionAddress(w.rt.machine) THEN None ELSE w.rt.ignore
<1>5. i = None
  BY <1>4
<1>6. v.rt = [w.rt EXCEPT !.ignore = i] /\ v.files = w.files /\ v.host = w.host /\ DOMAIN v = DOMAIN w
  BY <1>3 DEF PassBreakpoint, Shape, CoreFields, PlainFields
<1> HIDE DEF v, i
<1>7. Keeps(v, w, {"state", "ignore"}) /\ v.rt.ignore = None /\ v.rt.state = "Running"
  BY <1>3, <1>5, <1>6 DEF Keeps, Shape, CoreFields, PlainFields
<1>8. Base(v) /\ Rested(v)
  BY <1>3, <1>4, <1>7, StateChange
<1>9. v.rt.machine # None
  BY <1>4, <1>7 DEF Keeps, CoreFields
<1>10. Base(x) /\ Rested(x)
  BY <1>2, <1>7, <1>8, <1>9, InstructionSound
<1> QED BY <1>2, <1>10, Announced, Leaves
LEMMA StopRecordingCommandKeeps == Inv /\ StopRecordingCommand => Inv' /\ Advances
<1> SUFFICES ASSUME Inv, StopRecordingCommand PROVE Inv' /\ Advances
  OBVIOUS
<1> DEFINE w == Start
<1>1. rt.mode = "Recording"
  BY DEF StopRecordingCommand, Recording, World
<1>2. PICK x \in StopRecording(w, Outcome("UserStopped")) : Becomes(x)
  BY DEF StopRecordingCommand
<1>3. Base(w) /\ Rested(w) /\ Outer(w) /\ Recording(w)
  BY <1>1, Starts, StartFields DEF Recording
<1> HIDE DEF w
<1>4. Closes(w, Outcome("UserStopped")) /\ InReplay(w)
  BY <1>3, BaseCloses DEF Base
<1>5. Base(x) /\ Rested(x) /\ Announces(x, w)
  BY <1>2, <1>3, <1>4, StopRecordingSound DEF Announces
<1> QED BY <1>2, <1>5, Leaves DEF w

LEMMA LiveInputKeeps == Inv /\ LiveInput => Inv' /\ Advances
<1> SUFFICES ASSUME Inv, LiveInput PROVE Inv' /\ Advances
  OBVIOUS
<1> DEFINE w == Start
<1>1. rt.machine # None /\ ~IsReplay(rt.mode)
  BY DEF LiveInput, HasMachine
<1>2. /\ Base(w) /\ Rested(w) /\ Outer(w) /\ Shape(w) /\ w.rt.machine # None /\ ~IsReplay(w.rt.mode)
      /\ w.rt.position = rt.position
  BY <1>1, Starts, StartFields
<1>3. PICK handle \in 0 .. rt.generation :
        CurrentHandle(handle) /\
        LET input == <<"input", handle>>
            z == [w EXCEPT !.rt.machine = ReceiveInput(@, input)]
            W == IF Recording(z) THEN RecordTimeline(z, MachineInput(rt.position, input)) ELSE {z}
        IN \E v \in W : Becomes(IF RecorderFailed(v) THEN CheckRecordFailure(v) ELSE Revise(v))
  BY DEF LiveInput
<1> DEFINE input == <<"input", handle>>
           z == [w EXCEPT !.rt.machine = ReceiveInput(@, input)]
<1>4. PICK v \in IF Recording(z) THEN RecordTimeline(z, MachineInput(w.rt.position, input)) ELSE {z} :
        Becomes(IF RecorderFailed(v) THEN CheckRecordFailure(v) ELSE Revise(v))
  BY <1>2, <1>3
<1> HIDE DEF w
<1>5. input \in Events /\ input[1] # "frame"
  <2>1. handle \in Nat
    OBVIOUS
  <2> QED BY <2>1 DEF Events
<1> HIDE DEF input
<1>6. z.rt = [w.rt EXCEPT !.machine = ReceiveInput(w.rt.machine, input)] /\ z.files = w.files
      /\ z.host = w.host /\ DOMAIN z = DOMAIN w
  BY <1>2 DEF Shape, CoreFields, PlainFields
<1> HIDE DEF z
<1>7. Keeps(z, w, {"machine"}) /\ z.rt.machine = ReceiveInput(w.rt.machine, input)
  BY <1>2, <1>6 DEF Shape, Keeps, CoreFields, PlainFields
<1>8. /\ Shape(z) /\ z.files = w.files /\ z.host = w.host /\ z.rt.mode = w.rt.mode
      /\ z.rt.recorder = w.rt.recorder /\ z.rt.pending = w.rt.pending
  BY <1>7 DEF Keeps, CoreFields
<1>9. /\ Keeps(v, z, {"recorder"})
      /\ IF Recording(w)
         THEN v.rt.recorder \in {RecordEntry(w.rt.recorder, MachineInput(w.rt.position, input)),
                                 FailRecorder(w.rt.recorder)}
         ELSE v = z
  <2>1. Recording(z) <=> Recording(w)
    BY <1>8 DEF Recording
  <2>2. CASE Recording(w)
    <3>1. v \in RecordTimeline(z, MachineInput(w.rt.position, input))
      BY <1>4, <2>1, <2>2
    <3> QED BY <1>8, <2>2, <3>1, RecordTimelineEffect
  <2>3. CASE ~Recording(w)
    <3>1. v = z
      BY <1>4, <2>1, <2>3
    <3> QED BY <1>8, <2>3, <3>1 DEF Keeps
  <2> QED BY <2>2, <2>3
<1>10. /\ Shape(v) /\ v.files = w.files /\ v.host = w.host
       /\ v.rt.machine = ReceiveInput(w.rt.machine, input) /\ v.rt.pending = w.rt.pending
       /\ v.rt.mode = w.rt.mode
  BY <1>7, <1>8, <1>9 DEF Keeps, CoreFields
<1>11. \A f \in CoreFields \ {"machine", "recorder", "pending"} : v.rt[f] = w.rt[f]
  BY <1>7, <1>9 DEF Keeps
<1>12. w.rt.mode = "Recording" =>
         v.rt.recorder \in {RecordEntry(w.rt.recorder, MachineInput(w.rt.position, input)),
                            FailRecorder(w.rt.recorder)}
  BY <1>9 DEF Recording
<1>13. Base(v)
  BY <1>2, <1>5, <1>10, <1>11, <1>12, InputSound
<1>14. CASE RecorderFailed(v)
  <2>1. /\ Base(CheckRecordFailure(v)) /\ Rested(CheckRecordFailure(v))
        /\ Announces(CheckRecordFailure(v), Start)
    <3>1. Recording(v) /\ CheckRecordFailure(v) = SetRecordFailure(v)
      BY <1>14 DEF RecorderFailed, CheckRecordFailure
    <3>2. Outer(v) /\ v.rt.machine # None
      BY <1>13, <3>1 DEF Base, InRecord, Recorded, Recording
    <3>3. Revised(SetRecordFailure(v))
      BY <1>10, RecordFailureEffect
    <3> QED BY <3>1, <3>2, <3>3, RecordFailureSound DEF Announces
  <2> QED BY <1>4, <1>14, <2>1, Leaves
<1>15. CASE ~RecorderFailed(v)
  <2>1. Rested(v)
    BY <1>2, <1>10, <1>15 DEF Rested, RecorderFailed, Recording, IsReplay
  <2> QED BY <1>4, <1>13, <1>15, <2>1, Announced, Leaves
<1> QED BY <1>14, <1>15

LEMMA MediaCommandKeeps == Inv /\ MediaCommand => Inv' /\ Advances
<1> SUFFICES ASSUME Inv, MediaCommand PROVE Inv' /\ Advances
  OBVIOUS
<1> DEFINE w == Start
<1>1. rt.machine # None /\ rt.mode = "Normal"
  BY DEF MediaCommand, HasMachine
<1>2. Base(w) /\ Outer(w) /\ Shape(w) /\ w.rt.machine # None /\ w.rt.mode = "Normal"
  BY <1>1, Starts, StartFields
<1>3. PICK handle \in 0 .. rt.generation :
        Becomes(Revise([w EXCEPT !.rt.machine = ChangeMedia(@, <<"media", handle>>)]))
  BY DEF MediaCommand
<1> DEFINE e == <<"media", handle>>
           v == [w EXCEPT !.rt.machine = ChangeMedia(@, e)]
<1>4. Becomes(Revise(v))
  BY <1>3
<1> HIDE DEF w
<1>5. e \in Events
  <2>1. handle \in Nat
    OBVIOUS
  <2> QED BY <2>1 DEF Events
<1>11. e[1] # "frame"
  OBVIOUS
<1> HIDE DEF e
<1>6. Keeps(v, w, {"machine"}) /\ v.rt.machine = Happened(w.rt.machine, e)
  BY <1>2 DEF Shape, Keeps, CoreFields, PlainFields, ChangeMedia
<1> HIDE DEF v
<1>7. /\ Shape(v) /\ v.files = w.files /\ v.host = w.host /\ v.rt.mode = "Normal"
      /\ v.rt.pending = w.rt.pending
  BY <1>2, <1>6 DEF Keeps, CoreFields
<1>8. \A f \in CoreFields \ {"machine", "recorder", "replay", "pending"} : v.rt[f] = w.rt[f]
  BY <1>6 DEF Keeps
<1>9. Outer(v)
  BY <1>2, <1>5, <1>6, <1>7, <1>8, <1>11, HappenedOuter
<1>10. Base(v) /\ Rested(v)
  BY <1>7, <1>9, LiveOnly DEF Base, IsReplay
<1> QED BY <1>4, <1>10, Announced, Leaves

LEMMA CreateReplaySnapshotKeeps == Inv /\ CreateReplaySnapshot => Inv' /\ Advances
<1> SUFFICES ASSUME Inv, CreateReplaySnapshot PROVE Inv' /\ Advances
  OBVIOUS
<1> DEFINE w == Start
           s == Snapshot(rt.replay, rt.position, rt.completed, rt.instant, rt.remainder, rt.machine)
           v == [w EXCEPT !.files.snapshot = s]
<1>1. rt.mode = "Replaying" /\ ~rt.replay.failed /\ Becomes(Revise(v))
  BY DEF CreateReplaySnapshot, Replaying, World
<1>2. Base(w) /\ Outer(w) /\ Shape(w) /\ Rested(w)
  BY Starts
<1>3. /\ w.rt.mode = "Replaying" /\ w.rt.replay = rt.replay /\ w.rt.position = rt.position
      /\ w.rt.instant = rt.instant /\ w.rt.remainder = rt.remainder /\ w.rt.machine = rt.machine
  BY <1>1, StartFields
<1> HIDE DEF w
<1>4. OnTrack(w) /\ Settled(w.rt.replay, w.rt.position)
  BY <1>1, <1>2, <1>3 DEF OnTrack, Rested
<1>5. /\ s.record = w.rt.replay.record /\ s.position = w.rt.position /\ s.cursor = w.rt.replay.cursor
      /\ s.instant = w.rt.instant /\ s.remainder = w.rt.remainder /\ s.machine = w.rt.machine
      /\ s.checkpoint = LastCheckpoint(SubSeq(s.record.timeline, 1, s.cursor))
  BY <1>3 DEF Snapshot
<1> HIDE DEF s
<1>6. /\ w.rt.machine \in Machines /\ w.rt.position \in Positions /\ w.rt.replay.cursor \in Nat
      /\ TracksRecord(w.rt.replay.record,
                      StateOf(w.rt.position, w.rt.replay.cursor, w.rt.machine, w.rt.remainder))
  BY <1>4, OnTrackFacts
<1>7. /\ w.rt.instant \in Nat /\ w.rt.remainder \in Nat
      /\ Clocked(w.rt.machine, w.rt.instant, w.rt.remainder)
  BY <1>2 DEF Outer, Typed
<1>8. w.rt.replay.cursor < Len(w.rt.replay.record.timeline)
        => w.rt.replay.record.timeline[w.rt.replay.cursor + 1].position # w.rt.position
  BY <1>4 DEF Settled
<1>9. SnapshotGood(s)
  BY <1>5, <1>6, <1>7, <1>8 DEF SnapshotGood
<1>10. /\ v.rt = w.rt /\ v.host = w.host /\ v.files.record = w.files.record /\ v.files.snapshot = s
       /\ DOMAIN v = DOMAIN w /\ DOMAIN v.files = DOMAIN w.files
  BY <1>2 DEF Shape
<1> HIDE DEF v
<1>11. Shape(v)
  BY <1>2, <1>10 DEF Shape
<1>12. Filed(v.files)
  BY <1>2, <1>9, <1>10 DEF Outer, Filed
<1>13. Outer(v)
  BY <1>2, <1>10, <1>11, <1>12 DEF Outer
<1>14. Base(v) /\ Rested(v)
  BY <1>2, <1>10, <1>13 DEF Base, InRecord, InReplay, Rested
<1> QED BY <1>1, <1>14, Announced, Leaves

-----------------------------------------------------------------------------
(* The NAT session: its failures and its replacement.                      *)

LEMMA NetworkFailureKeeps == Inv /\ NetworkFailure => Inv' /\ Advances
<1> SUFFICES ASSUME Inv, NetworkFailure PROVE Inv' /\ Advances
  OBVIOUS
<1> DEFINE w == Start
<1>1. PICK g \in host.inbox :
        \E v \in IF ConcernsSession(g) THEN FailNetwork([w EXCEPT !.host.inbox = @ \ {g}])
                 ELSE {[w EXCEPT !.host.inbox = @ \ {g}]} : Becomes(v)
  BY DEF NetworkFailure
<1> DEFINE x == [w EXCEPT !.host.inbox = @ \ {g}]
<1>2. PICK v \in IF ConcernsSession(g) THEN FailNetwork(x) ELSE {x} : Becomes(v)
  BY <1>1
<1>3. Base(w) /\ Rested(w) /\ Outer(w) /\ Shape(w) /\ w.host = host
  BY Starts
<1>4. ConcernsSession(g) => g = w.rt.network_generation /\ w.rt.network # None
  BY StartFields DEF ConcernsSession
<1> HIDE DEF w
<1>5. /\ x.rt = w.rt /\ x.files = w.files /\ x.host = [w.host EXCEPT !.inbox = w.host.inbox \ {g}]
      /\ DOMAIN x = DOMAIN w
  BY <1>3 DEF Shape
<1> HIDE DEF x
<1>6. /\ Shape(x) /\ x.host.inbox = w.host.inbox \ {g} /\ x.host.frames = w.host.frames
      /\ x.host.result = w.host.result /\ x.host.replay_first = w.host.replay_first
  BY <1>3, <1>5 DEF Shape
<1>7. Linked(w.rt.network, w.rt.network_generation, w.rt.network_error, w.host.inbox, w.host.frames)
      /\ (w.rt.pending # None => w.rt.pending \in Events)
  BY <1>3 DEF Outer, Typed
<1>8. Linked(x.rt.network, x.rt.network_generation, x.rt.network_error, x.host.inbox, x.host.frames)
  BY <1>5, <1>6, <1>7 DEF Linked
<1>12. Framed(x.rt.mode, x.rt.machine, x.rt.pending, x.rt.network, x.rt.network_config, x.host.frames)
  BY <1>3, <1>5, <1>6 DEF Outer
<1>9. Base(x) /\ Rested(x)
  BY <1>3, <1>5, <1>6, <1>7, <1>8, <1>12, NetworkChange
<1>10. CASE ConcernsSession(g)
  <2>1. x.rt.network.failure # "none"
    BY <1>1, <1>3, <1>4, <1>5, <1>7, <1>10 DEF Linked
  <2>2. v \in FailNetwork(x)
    BY <1>2, <1>10
  <2>3. Base(v) /\ Rested(v) /\ (Revised(v) \/ v = x)
    BY <1>9, <2>1, <2>2, FailNetworkSound
  <2>4. Announces(v, w)
    BY <1>5, <2>3 DEF Announces
  <2> QED BY <1>2, <2>3, <2>4, Leaves DEF w
<1>11. CASE ~ConcernsSession(g)
  <2>1. v = x /\ Announces(v, w)
    BY <1>2, <1>5, <1>11 DEF Announces
  <2> QED BY <1>2, <1>9, <2>1, Leaves DEF w
<1> QED BY <1>10, <1>11

\* What arrives at a session and what befalls it.
LEMMA SessionUnseen ==
    ASSUME NEW w, NEW v, NEW m, Shape(w), v.rt = [w.rt EXCEPT !.network = m]
    PROVE  Announces(v, w)
BY DEF Announces, Visible, Shape, CoreFields, PlainFields

LEMMA SessionChange ==
    ASSUME NEW w, NEW v, Base(w), Rested(w), Shape(v), v.files = w.files,
           v.host.result = w.host.result /\ v.host.replay_first = w.host.replay_first, \A f \in CoreFields \ {"network"} : v.rt[f] = w.rt[f],
           Linked(v.rt.network, w.rt.network_generation, w.rt.network_error,
                  v.host.inbox, v.host.frames),
           Framed(w.rt.mode, w.rt.machine, w.rt.pending, v.rt.network, w.rt.network_config, v.host.frames)
    PROVE  Base(v) /\ Rested(v)
<1>1. /\ v.rt.state = w.rt.state /\ v.rt.pending = w.rt.pending
      /\ v.rt.network_generation = w.rt.network_generation /\ v.rt.network_error = w.rt.network_error
      /\ v.rt.mode = w.rt.mode /\ v.rt.machine = w.rt.machine
      /\ v.rt.network_config = w.rt.network_config
  BY DEF CoreFields
<1>2. \A f \in CoreFields \ {"network", "network_generation", "pending", "state"} : v.rt[f] = w.rt[f]
  OBVIOUS
<1>3. w.rt.pending # None => w.rt.pending \in Events
  BY DEF Base, Outer, Typed
<1>4. Framed(v.rt.mode, v.rt.machine, v.rt.pending, v.rt.network, v.rt.network_config, v.host.frames)
  BY <1>1
<1> QED BY <1>1, <1>2, <1>3, <1>4, NetworkChange

LEMMA HostKeeps == Inv /\ Host => Inv' /\ Advances
<1> SUFFICES ASSUME Inv, Host PROVE Inv' /\ Advances
  OBVIOUS
<1> DEFINE w == Start
<1>1. Base(w) /\ Rested(w) /\ Outer(w) /\ Shape(w) /\ w.host = host /\ w.rt.network = rt.network
  BY Starts, StartFields
<1> DEFINE n == w.rt.network
<1>2. Linked(n, w.rt.network_generation, w.rt.network_error, w.host.inbox, w.host.frames)
  BY <1>1 DEF Outer
<1>6. /\ Framed(w.rt.mode, w.rt.machine, w.rt.pending, n, w.rt.network_config, w.host.frames)
      /\ w.host.frames \in Nat
  BY <1>1, <1>2 DEF Outer, Linked
<1>3. CASE FrameArrives
  <2> DEFINE e == <<"frame", host.frames>>
             v == [w EXCEPT !.host.frames = @ + 1, !.rt.network.rx = Append(@, e)]
             m == [n EXCEPT !.rx = Append(n.rx, e)]
  <2>1. Becomes(v) /\ n # None /\ n.failure = "none"
    BY <1>1, <1>3 DEF FrameArrives, NetworkAlive
  <2>2. e \in Events
    BY <1>1, <1>2 DEF Linked, Events
  <2> HIDE DEF w, e
  <2>3. DOMAIN n = {"generation", "first", "rx", "failure", "notified"} /\ n.rx \in Seq(Events)
    BY <1>2, <2>1 DEF Linked
  <2>4. /\ v.rt = [w.rt EXCEPT !.network = m] /\ v.files = w.files /\ DOMAIN v = DOMAIN w
        /\ v.host = [w.host EXCEPT !.frames = w.host.frames + 1]
    BY <1>1, <2>3 DEF Shape, CoreFields, PlainFields
  <2>5. /\ DOMAIN m = DOMAIN n /\ m.generation = n.generation /\ m.failure = n.failure
        /\ m.rx \in Seq(Events) /\ m.notified = n.notified
        /\ m.rx = Append(n.rx, e) /\ m.first = n.first
    BY <2>2, <2>3
  <2> HIDE DEF v, m, n
  <2>6. /\ Shape(v) /\ v.host.result = w.host.result /\ v.host.replay_first = w.host.replay_first /\ v.host.inbox = w.host.inbox
        /\ v.host.frames = w.host.frames + 1 /\ v.rt.network = m
    BY <1>1, <2>4 DEF Shape, CoreFields, PlainFields
  <2>7. \A f \in CoreFields \ {"network"} : v.rt[f] = w.rt[f]
    BY <1>1, <2>4 DEF Shape, CoreFields, PlainFields
  <2>8. Linked(m, w.rt.network_generation, w.rt.network_error, v.host.inbox, v.host.frames)
    BY <1>2, <2>1, <2>3, <2>5, <2>6 DEF Linked
  <2>11. Framed(w.rt.mode, w.rt.machine, w.rt.pending, v.rt.network, w.rt.network_config, v.host.frames)
    <3>1. /\ w.rt.machine \in Machines /\ e = <<"frame", w.host.frames>>
          /\ w.rt.pending # None => w.rt.pending \in Events
      <4>1. w.rt.machine # None
        BY <1>6, <2>1 DEF Framed
      <4> QED BY <1>1, <4>1 DEF Outer, Typed, e
    <3>2. Framed(w.rt.mode, w.rt.machine, w.rt.pending, m, w.rt.network_config, w.host.frames + 1)
      BY <1>6, <2>1, <2>3, <2>5, <3>1, FramedArrival
    <3> QED BY <2>6, <3>2
  <2>9. Base(v) /\ Rested(v)
    BY <1>1, <2>4, <2>6, <2>7, <2>8, <2>11, SessionChange
  <2>10. Announces(v, w)
    BY <1>1, <2>4, SessionUnseen
  <2> QED BY <2>1, <2>9, <2>10, Leaves DEF w
<1>4. CASE NetworkFails
  <2> DEFINE v == [w EXCEPT !.rt.network.failure = "latched"]
             m == [n EXCEPT !.failure = "latched"]
  <2>1. Becomes(v) /\ n # None
    BY <1>1, <1>4 DEF NetworkFails, NetworkAlive
  <2> HIDE DEF w
  <2>3. DOMAIN n = {"generation", "first", "rx", "failure", "notified"}
    BY <1>2, <2>1 DEF Linked
  <2>4. /\ v.rt = [w.rt EXCEPT !.network = m] /\ v.files = w.files /\ DOMAIN v = DOMAIN w
        /\ v.host = w.host
    BY <1>1, <2>3 DEF Shape, CoreFields, PlainFields
  <2>5. /\ DOMAIN m = DOMAIN n /\ m.generation = n.generation /\ m.failure = "latched"
        /\ m.rx = n.rx /\ m.notified = n.notified /\ m.first = n.first
    BY <2>3
  <2> HIDE DEF v, m, n
  <2>6. Shape(v) /\ v.rt.network = m
    BY <1>1, <2>4 DEF Shape, CoreFields, PlainFields
  <2>7. \A f \in CoreFields \ {"network"} : v.rt[f] = w.rt[f]
    BY <1>1, <2>4 DEF Shape, CoreFields, PlainFields
  <2>8. Linked(m, w.rt.network_generation, w.rt.network_error, v.host.inbox, v.host.frames)
    BY <1>2, <2>1, <2>3, <2>4, <2>5 DEF Linked
  <2>11. Framed(w.rt.mode, w.rt.machine, w.rt.pending, v.rt.network, w.rt.network_config, v.host.frames)
    <3>1. Framed(w.rt.mode, w.rt.machine, w.rt.pending, m, w.rt.network_config, w.host.frames)
      BY <1>6, <2>1, <2>5 DEF Framed, Queued
    <3> QED BY <2>4, <2>6, <3>1
  <2>9. Base(v) /\ Rested(v)
    BY <1>1, <2>4, <2>6, <2>7, <2>8, <2>11, SessionChange
  <2>10. Announces(v, w)
    BY <1>1, <2>4, SessionUnseen
  <2> QED BY <2>1, <2>9, <2>10, Leaves DEF w
<1>5. CASE NetworkNotifies
  <2> DEFINE g == n.generation
             v == [w EXCEPT !.rt.network.notified = TRUE, !.host.inbox = @ \cup {g}]
             m == [n EXCEPT !.notified = TRUE]
  <2>1. Becomes(v) /\ n # None /\ n.failure # "none"
    BY <1>1, <1>5 DEF NetworkNotifies
  <2> HIDE DEF w, g
  <2>3. DOMAIN n = {"generation", "first", "rx", "failure", "notified"}
    BY <1>2, <2>1 DEF Linked
  <2>4. /\ v.rt = [w.rt EXCEPT !.network = m] /\ v.files = w.files /\ DOMAIN v = DOMAIN w
        /\ v.host = [w.host EXCEPT !.inbox = w.host.inbox \cup {g}]
    BY <1>1, <2>3 DEF Shape, CoreFields, PlainFields
  <2>5. /\ DOMAIN m = DOMAIN n /\ m.generation = n.generation /\ m.failure = n.failure
        /\ m.rx = n.rx /\ m.first = n.first
    BY <2>3
  <2> HIDE DEF v, m, n
  <2>6. /\ Shape(v) /\ v.rt.network = m /\ v.host.result = w.host.result /\ v.host.replay_first = w.host.replay_first
        /\ v.host.inbox = w.host.inbox \cup {g} /\ v.host.frames = w.host.frames
    BY <1>1, <2>4 DEF Shape, CoreFields, PlainFields
  <2>7. \A f \in CoreFields \ {"network"} : v.rt[f] = w.rt[f]
    BY <1>1, <2>4 DEF Shape, CoreFields, PlainFields
  <2>8. Linked(m, w.rt.network_generation, w.rt.network_error, v.host.inbox, v.host.frames)
    BY <1>2, <2>1, <2>3, <2>5, <2>6 DEF Linked, g
  <2>11. Framed(w.rt.mode, w.rt.machine, w.rt.pending, v.rt.network, w.rt.network_config, v.host.frames)
    <3>1. Framed(w.rt.mode, w.rt.machine, w.rt.pending, m, w.rt.network_config, w.host.frames)
      BY <1>6, <2>1, <2>5 DEF Framed, Queued
    <3> QED BY <2>4, <2>6, <3>1
  <2>9. Base(v) /\ Rested(v)
    BY <1>1, <2>4, <2>6, <2>7, <2>8, <2>11, SessionChange
  <2>10. Announces(v, w)
    BY <1>1, <2>4, SessionUnseen
  <2> QED BY <2>1, <2>9, <2>10, Leaves DEF w
<1> QED BY <1>3, <1>4, <1>5 DEF Host
\* Dropping a session reports it at most, under its own generation.
LEMMA DropEffect ==
    ASSUME NEW w, Shape(w), NEW v \in DropNetwork(w)
    PROVE  /\ Shape(v) /\ v.files = w.files /\ v.host.result = w.host.result /\ v.host.replay_first = w.host.replay_first
           /\ v.host.frames = w.host.frames /\ v.rt.network = None
           /\ v.rt = [w.rt EXCEPT !.network = None]
           /\ \A f \in CoreFields \ {"network"} : v.rt[f] = w.rt[f]
           /\ \/ v.host.inbox = w.host.inbox
              \/ /\ w.rt.network # None
                 /\ v.host.inbox = w.host.inbox \cup {w.rt.network.generation}
<1> DEFINE gone == [w EXCEPT !.rt.network = None]
           g == w.rt.network.generation
           reported == [gone EXCEPT !.host.inbox = @ \cup {g}]
<1>1. v = gone \/ (v = reported /\ w.rt.network # None)
  BY DEF DropNetwork, Maybe
<1> HIDE DEF g
<1>2. /\ gone.rt = [w.rt EXCEPT !.network = None] /\ gone.files = w.files /\ gone.host = w.host
      /\ DOMAIN gone = DOMAIN w
  BY DEF Shape
<1> HIDE DEF gone
<1>3. /\ Shape(gone) /\ gone.rt.network = None
      /\ \A f \in CoreFields \ {"network"} : gone.rt[f] = w.rt[f]
  BY <1>2 DEF Shape, CoreFields, PlainFields
<1>4. /\ reported.rt = gone.rt /\ reported.files = w.files /\ DOMAIN reported = DOMAIN w
      /\ reported.host = [w.host EXCEPT !.inbox = w.host.inbox \cup {g}]
  BY <1>2, <1>3 DEF Shape
<1> HIDE DEF reported
<1>5. /\ Shape(reported) /\ reported.host.result = w.host.result /\ reported.host.replay_first = w.host.replay_first
      /\ reported.host.frames = w.host.frames /\ reported.host.inbox = w.host.inbox \cup {g}
  BY <1>3, <1>4 DEF Shape
<1>6. CASE v = gone
  BY <1>2, <1>3, <1>6
<1>7. CASE v = reported /\ w.rt.network # None
  BY <1>2, <1>3, <1>4, <1>5, <1>7 DEF g
<1> QED BY <1>1, <1>6, <1>7

\* x is w after its session was replaced, but that the error of the old session
\* may still be there.
Connected(x, w) ==
    /\ Shape(x) /\ x.files = w.files /\ x.host.result = w.host.result /\ x.host.replay_first = w.host.replay_first
    /\ \A f \in CoreFields \ {"network", "network_generation", "state"} : x.rt[f] = w.rt[f]
    /\ x.rt.state = w.rt.state \/ x.rt.state = Stopped(w.rt)
    /\ Linked(x.rt.network, x.rt.network_generation, FALSE, x.host.inbox, x.host.frames)
    /\ x.host.frames = w.host.frames /\ Unused(x.rt.network, x.host.frames)

LEMMA ConnectedBase ==
    ASSUME NEW w, NEW x, NEW v, Base(w), Connected(x, w), Keeps(v, x, {"network_error"}),
           v.rt.network_error = FALSE,
           x.rt.network # None => w.rt.machine # None /\ ~IsReplay(w.rt.mode) /\ w.rt.network_config = TRUE
    PROVE  Base(v) /\ (Rested(w) => Rested(v))
<1>1. /\ Shape(v) /\ v.files = w.files /\ v.host.result = w.host.result /\ v.host.replay_first = w.host.replay_first /\ v.host = x.host
      /\ v.rt.network = x.rt.network /\ v.rt.network_generation = x.rt.network_generation
      /\ v.rt.state = x.rt.state
  BY DEF Connected, Keeps, CoreFields
<1>2. \A f \in CoreFields \ {"network", "network_generation", "state", "network_error"} :
        v.rt[f] = w.rt[f]
  BY DEF Connected, Keeps
<1>3. /\ v.rt.machine = w.rt.machine /\ v.rt.remainder = w.rt.remainder
      /\ v.rt.instant = w.rt.instant /\ v.rt.position = w.rt.position
      /\ v.rt.preserved = w.rt.preserved /\ v.rt.replay = w.rt.replay
      /\ v.rt.ignore = w.rt.ignore /\ v.rt.pending = w.rt.pending
      /\ v.rt.mode = w.rt.mode /\ v.rt.recorder = w.rt.recorder
      /\ v.rt.network_config = w.rt.network_config
  BY <1>2 DEF CoreFields
<1>4. Outer(w) /\ InRecord(w) /\ InReplay(w)
  BY DEF Base
<1>5. Linked(v.rt.network, v.rt.network_generation, v.rt.network_error, v.host.inbox, v.host.frames)
  BY <1>1 DEF Connected
<1>6. v.rt.state = w.rt.state \/ v.rt.state = Stopped(w.rt)
  BY <1>1 DEF Connected
<1>7. /\ Stops(v.rt.state, v.rt.mode, v.rt.machine, v.rt.network_error)
      /\ Exempt(v.rt.state, v.rt.ignore, v.rt.machine)
  BY <1>3, <1>4, <1>6 DEF Outer, Stops, Exempt, Stopped
<1>12. Framed(v.rt.mode, v.rt.machine, v.rt.pending, v.rt.network, v.rt.network_config, v.host.frames)
  <2>1. Framed(w.rt.mode, w.rt.machine, w.rt.pending, w.rt.network, w.rt.network_config, w.host.frames) /\ w.host.frames \in Nat
    BY <1>4 DEF Outer, Linked
  <2>2. Unused(x.rt.network, w.host.frames) /\ v.host.frames = w.host.frames
    BY <1>1 DEF Connected
  <2> QED BY <1>1, <1>3, <2>1, <2>2, FramedFresh
<1>8. Outer(v)
  BY <1>1, <1>3, <1>4, <1>5, <1>7, <1>12 DEF Outer
<1>9. InRecord(v)
  BY <1>3, <1>4 DEF InRecord, Recorded
<1>10. InReplay(v)
  BY <1>3, <1>4 DEF InReplay
<1>11. Rested(w) => Rested(v)
  BY <1>3 DEF Rested
<1> QED BY <1>8, <1>9, <1>10, <1>11 DEF Base

\* The session is replaced, or the worker is left with the failure to do so.
LEMMA ReplaceSound ==
    ASSUME NEW w, Base(w), Rested(w), NEW config \in BOOLEAN, NEW x \in ReplaceNetwork(w, config)
    PROVE  IF Replaced(x, config) THEN Connected(x, w) /\ (~config => x.rt.network = None)
           ELSE Base(x) /\ Rested(x) /\ Announces(x, w)
<1> DEFINE state == Stopped(w.rt)
           next == [w EXCEPT !.rt.state = state, !.rt.network_generation = @ + 1]
           g == w.rt.network_generation
<1>1. PICK v \in DropNetwork(next) : x \in IF config THEN StartNetwork(v) ELSE {v}
  BY DEF ReplaceNetwork, Then
<1>2. Outer(w) /\ Shape(w) /\ state = Stopped(w.rt)
  BY DEF Base, Outer
<1>3. Linked(w.rt.network, g, w.rt.network_error, w.host.inbox, w.host.frames)
  BY <1>2 DEF Outer
<1> HIDE DEF state
<1>4. /\ next.rt = [w.rt EXCEPT !.state = state, !.network_generation = g + 1]
      /\ next.files = w.files /\ next.host = w.host /\ DOMAIN next = DOMAIN w
  BY <1>2 DEF Shape, CoreFields, PlainFields
<1> HIDE DEF next
<1>5. /\ Shape(next) /\ next.rt.network_generation = g + 1 /\ next.rt.state = state
      /\ next.rt.network = w.rt.network
      /\ \A f \in CoreFields \ {"network_generation", "state"} : next.rt[f] = w.rt[f]
  BY <1>2, <1>4 DEF Shape, CoreFields, PlainFields
<1>6. /\ Shape(v) /\ v.files = next.files /\ v.host.result = next.host.result /\ v.host.replay_first = next.host.replay_first
      /\ v.host.frames = next.host.frames /\ v.rt.network = None
      /\ v.rt = [next.rt EXCEPT !.network = None]
      /\ \A f \in CoreFields \ {"network"} : v.rt[f] = next.rt[f]
      /\ \/ v.host.inbox = next.host.inbox
         \/ next.rt.network # None
            /\ v.host.inbox = next.host.inbox \cup {next.rt.network.generation}
  BY <1>1, <1>5, DropEffect
<1>7. /\ v.files = w.files /\ v.host.result = w.host.result /\ v.host.replay_first = w.host.replay_first /\ v.host.frames = w.host.frames
      /\ v.rt.network_generation = g + 1 /\ v.rt.state = state
      /\ \A f \in CoreFields \ {"network", "network_generation", "state"} : v.rt[f] = w.rt[f]
  <2>1. v.rt.network_generation = g + 1 /\ v.rt.state = state
    BY <1>5, <1>6 DEF CoreFields
  <2>2. \A f \in CoreFields \ {"network", "network_generation", "state"} : v.rt[f] = w.rt[f]
    BY <1>5, <1>6
  <2> QED BY <1>4, <1>6, <2>1, <2>2
<1>8. g \in Nat /\ v.host.inbox \subseteq 0 .. g /\ v.host.frames \in Nat
  <2>1. g \in Nat /\ w.host.inbox \subseteq 0 .. g /\ w.host.frames \in Nat
    BY <1>3 DEF Linked
  <2>2. w.rt.network # None => w.rt.network.generation = g
    BY <1>3 DEF Linked
  <2>3. g \in 0 .. g
    BY <2>1
  <2> HIDE DEF g
  <2> QED BY <1>4, <1>5, <1>6, <1>7, <2>1, <2>2, <2>3
<1> HIDE DEF g
<1>9. g + 1 \in Nat /\ v.host.inbox \subseteq 0 .. g + 1 /\ g + 1 \notin v.host.inbox
  BY <1>8
<1>10. \A e \in BOOLEAN : Linked(v.rt.network, v.rt.network_generation, e, v.host.inbox, v.host.frames)
  BY <1>6, <1>7, <1>8, <1>9 DEF Linked
<1>11. Connected(v, w)
  BY <1>2, <1>6, <1>7, <1>10 DEF Connected, Unused
<1>12. /\ v.rt.network_error = w.rt.network_error /\ w.rt.network_error \in BOOLEAN
       /\ v.rt.pending = w.rt.pending /\ v.rt.mode = w.rt.mode
       /\ w.rt.pending # None => w.rt.pending \in Events
  BY <1>2, <1>3, <1>7 DEF CoreFields, Linked, Outer, Typed
<1>13. \A f \in CoreFields \ {"network", "network_generation", "pending", "state"} : v.rt[f] = w.rt[f]
  BY <1>7
<1>18. Framed(v.rt.mode, v.rt.machine, v.rt.pending, v.rt.network, v.rt.network_config, v.host.frames)
  <2>1. v.rt.machine = w.rt.machine /\ v.rt.network_config = w.rt.network_config
    BY <1>7 DEF CoreFields
  <2>2. Framed(w.rt.mode, w.rt.machine, w.rt.pending, w.rt.network, w.rt.network_config, w.host.frames)
    BY <1>2 DEF Outer
  <2> QED BY <1>6, <1>7, <1>12, <2>1, <2>2 DEF Framed
<1>14. Base(v) /\ Rested(v)
  BY <1>2, <1>6, <1>7, <1>10, <1>12, <1>13, <1>18, NetworkChange, ZenonT(40)
\* The old session had failed already: the machine was stopped.
<1>17. w.rt.network_error => Visible(v.rt) = Visible(w.rt)
  <2>1. w.rt.network_error => w.rt.state = state
    BY <1>2, <1>3 DEF Outer, Stops, Stopped, Linked
  <2> DEFINE Fields == {"mode", "generation", "completed", "position", "session_error",
                        "network_error", "last_error", "breakpoints", "machine"}
  <2>2. next.rt.state = state /\ \A f \in Fields : next.rt[f] = w.rt[f]
    BY <1>2, <1>4 DEF Shape, CoreFields, PlainFields
  <2>3. v.rt.state = next.rt.state /\ \A f \in Fields : v.rt[f] = next.rt[f]
    BY <1>5, <1>6 DEF Shape, CoreFields, PlainFields
  <2>4. \A f \in Fields : v.rt[f] = w.rt[f]
    BY <2>2, <2>3
  <2>5. /\ v.rt.mode = w.rt.mode /\ v.rt.generation = w.rt.generation
        /\ v.rt.completed = w.rt.completed /\ v.rt.position = w.rt.position
        /\ v.rt.session_error = w.rt.session_error /\ v.rt.network_error = w.rt.network_error
        /\ v.rt.last_error = w.rt.last_error /\ v.rt.breakpoints = w.rt.breakpoints
        /\ v.rt.machine = w.rt.machine
    BY <2>4
  <2> QED BY <2>1, <2>2, <2>3, <2>5 DEF Visible
<1>15. CASE ~config
  <2>1. x = v /\ Replaced(x, config)
    BY <1>1, <1>15 DEF Replaced
  <2> QED BY <1>6, <1>11, <2>1
<1>16. CASE config
  <2> DEFINE n == NewSession(v)
             y == [v EXCEPT !.rt.network = n]
             z == [v EXCEPT !.host.inbox = @ \cup {v.rt.network_generation}]
  <2>1. x = y \/ x \in FailNetwork(v) \/ x \in FailNetwork(z)
    BY <1>1, <1>16 DEF StartNetwork
  <2>2. CASE x = y
    <3>1. /\ DOMAIN n = {"generation", "first", "rx", "failure", "notified"}
          /\ n.generation = v.rt.network_generation /\ n.rx = <<>> /\ n.failure = "none"
          /\ n.first = v.host.frames
      BY DEF NewSession
    <3>0. n # None
      <4>1. v.rt.network_generation \in Nat /\ v.host.frames \in Nat
        BY <1>7, <1>8, <1>9
      <4>2. n \in Sessions
        BY <4>1 DEF NewSession, Sessions
      <4> QED BY <4>2, RuntimeConstants
    <3> HIDE DEF n
    <3>2. y.rt = [v.rt EXCEPT !.network = n] /\ y.files = v.files /\ y.host = v.host
          /\ DOMAIN y = DOMAIN v
      BY <1>6 DEF Shape
    <3> HIDE DEF y
    <3>3. Shape(y) /\ y.rt.network = n /\ y.rt.network_generation = v.rt.network_generation
          /\ y.rt.state = v.rt.state
      BY <1>6, <3>2 DEF Shape, CoreFields, PlainFields
    <3>4. \A f \in CoreFields \ {"network", "network_generation", "state"} : y.rt[f] = w.rt[f]
      <4>1. \A f \in CoreFields \ {"network", "network_generation", "state"} : y.rt[f] = v.rt[f]
        BY <1>6, <3>2 DEF Shape, CoreFields, PlainFields
      <4> QED BY <1>7, <4>1
    <3>5. n.rx \in Seq(Events)
      BY <3>1
    <3>6. Linked(n, y.rt.network_generation, FALSE, v.host.inbox, v.host.frames)
      BY <1>7, <1>8, <1>9, <3>1, <3>3, <3>5 DEF Linked
    <3>7. Connected(y, w)
      <4>1. Unused(n, v.host.frames)
        BY <3>1 DEF Unused
      <4> QED BY <1>2, <1>7, <3>2, <3>3, <3>4, <3>6, <4>1 DEF Connected
    <3>8. Replaced(x, config)
      BY <2>2, <3>3, <3>0 DEF Replaced
    <3> QED BY <1>16, <2>2, <3>7, <3>8
  <2>3. CASE x \in FailNetwork(v)
    <3>1. /\ Base(x) /\ Rested(x) /\ x.rt.network = None
          /\ Revised(x) \/ (x = v /\ v.rt.network_error)
      BY <1>6, <1>14, <2>3, FailNetworkSound
    <3> QED BY <1>12, <1>16, <1>17, <3>1 DEF Replaced, Announces
  <2>4. CASE x \in FailNetwork(z)
    <3>1. z.rt = v.rt /\ z.files = v.files /\ DOMAIN z = DOMAIN v
          /\ z.host = [v.host EXCEPT !.inbox = v.host.inbox \cup {v.rt.network_generation}]
      BY <1>6 DEF Shape
    <3> HIDE DEF z
    <3>2. /\ Shape(z) /\ z.host.result = v.host.result /\ z.host.replay_first = v.host.replay_first /\ z.host.frames = v.host.frames
          /\ z.host.inbox = v.host.inbox \cup {g + 1} /\ z.rt.network = None
      BY <1>6, <1>7, <3>1 DEF Shape
    <3>3. z.host.inbox \subseteq 0 .. g + 1
      BY <1>8, <1>9, <3>2
    <3>4. Linked(z.rt.network, v.rt.network_generation, v.rt.network_error, z.host.inbox, z.host.frames)
      BY <1>7, <1>8, <1>9, <1>12, <3>2, <3>3 DEF Linked
    <3>7. Framed(v.rt.mode, v.rt.machine, v.rt.pending, z.rt.network, v.rt.network_config, z.host.frames)
      BY <1>6, <1>18, <3>2
    <3>5. Base(z) /\ Rested(z)
      BY <1>14, <3>1, <3>2, <3>4, <3>7, SessionChange
    <3>6. /\ Base(x) /\ Rested(x) /\ x.rt.network = None
          /\ Revised(x) \/ (x = z /\ z.rt.network_error)
      BY <2>4, <3>2, <3>5, FailNetworkSound
    <3> QED BY <1>12, <1>16, <1>17, <3>1, <3>6 DEF Replaced, Announces
  <2> QED BY <2>1, <2>2, <2>3, <2>4
<1> QED BY <1>15, <1>16
\* A sound world without a failed recorder is at rest, if it replays nothing.
LEMMA LiveRested ==
    ASSUME NEW w, ~IsReplay(w.rt.mode), ~RecorderFailed(w)
    PROVE  Rested(w)
BY DEF IsReplay, RecorderFailed, Recording, Rested

LEMMA ClearEffect ==
    ASSUME NEW w, Shape(w)
    PROVE  LET c == ClearMachine(w) IN
           /\ Keeps(c, w, {"machine", "remainder", "instant", "pending", "ignore", "network_error",
                           "state", "position"})
           /\ c.rt.machine = ResetGuest(w.rt.machine) /\ c.rt.remainder = 0 /\ c.rt.instant = 0
           /\ c.rt.pending = None /\ c.rt.ignore = None /\ c.rt.network_error = FALSE
           /\ c.rt.state = "Paused"
           /\ c.rt.position = IF Recording(w) THEN NextEpoch(w.rt.position) ELSE w.rt.position
<1> DEFINE v == ResetMachine(w)
           p == IF Recording(w) THEN NextEpoch(w.rt.position) ELSE w.rt.position
           c == ClearMachine(w)
<1>1. /\ Keeps(v, w, {"machine", "remainder", "instant", "pending", "ignore"})
      /\ v.rt.machine = ResetGuest(w.rt.machine) /\ v.rt.remainder = 0 /\ v.rt.instant = 0
      /\ v.rt.pending = None /\ v.rt.ignore = None
  BY ResetEffect
<1>2. v.rt.position = w.rt.position /\ Shape(v)
  BY <1>1 DEF Keeps, CoreFields
<1>3. c = [v EXCEPT !.rt.network_error = FALSE, !.rt.state = "Paused",
                    !.rt.position = IF Recording(w) THEN NextEpoch(@) ELSE @]
  BY DEF ClearMachine
<1> HIDE DEF v, c
<1>4. /\ c.rt = [v.rt EXCEPT !.network_error = FALSE, !.state = "Paused", !.position = p]
      /\ c.files = v.files /\ c.host = v.host /\ DOMAIN c = DOMAIN v
  BY <1>2, <1>3 DEF Shape, CoreFields, PlainFields
<1> HIDE DEF p
<1>5. /\ Shape(c) /\ c.rt.network_error = FALSE /\ c.rt.state = "Paused" /\ c.rt.position = p
      /\ c.rt.machine = v.rt.machine /\ c.rt.remainder = v.rt.remainder /\ c.rt.instant = v.rt.instant
      /\ c.rt.pending = v.rt.pending /\ c.rt.ignore = v.rt.ignore
  BY <1>2, <1>4 DEF Shape, CoreFields, PlainFields
<1>6. \A f \in CoreFields \ {"machine", "remainder", "instant", "pending", "ignore", "network_error",
                             "state", "position"} : c.rt[f] = w.rt[f]
  <2>1. \A f \in CoreFields \ {"network_error", "state", "position"} : c.rt[f] = v.rt[f]
    BY <1>2, <1>4 DEF Shape, CoreFields, PlainFields
  <2>2. \A f \in CoreFields \ {"machine", "remainder", "instant", "pending", "ignore"} : v.rt[f] = w.rt[f]
    BY <1>1 DEF Keeps
  <2> QED BY <2>1, <2>2
<1>7. c.files = w.files /\ c.host = w.host
  BY <1>1, <1>4 DEF Keeps
<1> QED BY <1>1, <1>5, <1>6, <1>7 DEF Keeps, c, p

\* The reset of a sound world, from the moment it is noted.
LEMMA ClearSound ==
    ASSUME NEW y, NEW w, Outer(w), w.rt.machine # None, ~IsReplay(w.rt.mode),
           Keeps(y, w, {"recorder", "network_error"}),
           w.rt.mode = "Recording" =>
               /\ w.rt.position.epoch # U64_MAX
               /\ y.rt.recorder \in Recorders /\ ~y.rt.recorder.failed
               /\ OnPath(y.rt.recorder.timeline,
                         StateOf(NextEpoch(w.rt.position), Len(y.rt.recorder.timeline),
                                 ResetGuest(w.rt.machine), 0)),
           Unused(w.rt.network, w.host.frames),
           NEW z \in Then(RecordCheckpoint(ClearMachine(y)), FinishReset)
    PROVE  Base(z) /\ Rested(z) /\ \A u : Announces(z, u)
<1> DEFINE c == ClearMachine(y)
<1>1. /\ Shape(y) /\ y.files = w.files /\ y.host = w.host /\ y.rt.mode = w.rt.mode
      /\ y.rt.machine = w.rt.machine /\ y.rt.position = w.rt.position
      /\ y.rt.preserved = w.rt.preserved /\ y.rt.network = w.rt.network
      /\ y.rt.network_generation = w.rt.network_generation
      /\ y.rt.network_config = w.rt.network_config
  BY DEF Keeps, CoreFields
<1>2. /\ Keeps(c, y, {"machine", "remainder", "instant", "pending", "ignore", "network_error",
                      "state", "position"})
      /\ c.rt.machine = ResetGuest(w.rt.machine) /\ c.rt.remainder = 0 /\ c.rt.instant = 0
      /\ c.rt.pending = None /\ c.rt.ignore = None /\ c.rt.network_error = FALSE
      /\ c.rt.state = "Paused"
      /\ c.rt.position = IF Recording(y) THEN NextEpoch(w.rt.position) ELSE w.rt.position
  BY <1>1, ClearEffect
<1>3. PICK p \in RecordCheckpoint(c) : z \in FinishReset(p)
  BY DEF Then
<1> HIDE DEF c
<1>4. /\ Shape(c) /\ c.files = w.files /\ c.host = w.host /\ c.rt.mode = w.rt.mode
      /\ c.rt.preserved = w.rt.preserved /\ c.rt.network = w.rt.network
      /\ c.rt.network_config = w.rt.network_config
      /\ c.rt.network_generation = w.rt.network_generation /\ c.rt.recorder = y.rt.recorder
  BY <1>1, <1>2 DEF Keeps, CoreFields
<1>5. w.rt.position \in Positions
  BY DEF Outer, Typed
<1>6. NextEpoch(w.rt.position) \in Positions
  BY <1>5 DEF NextEpoch, Positions
<1>7. c.rt.position \in Positions
  BY <1>2, <1>5, <1>6
<1>8. Outer(c) /\ c.rt.machine # None
  BY <1>2, <1>4, <1>7, ResetOuter
<1>9. InRecord(c)
  <2>1. CASE w.rt.mode = "Recording"
    <3>1. c.rt.position = NextEpoch(w.rt.position)
      BY <1>1, <1>2, <2>1 DEF Recording
    <3> QED BY <1>2, <1>4, <1>8, <2>1, <3>1 DEF InRecord, Recorded
  <2>2. CASE w.rt.mode # "Recording"
    BY <1>4, <2>2 DEF InRecord, Recorded
  <2> QED BY <2>1, <2>2
<1>10. InReplay(c) /\ ~IsReplay(c.rt.mode)
  BY <1>4 DEF InReplay, Replayed, IsReplay
<1>11. Base(c)
  BY <1>8, <1>9, <1>10 DEF Base
<1>12. Base(p) /\ Keeps(p, c, {"recorder"})
  BY <1>3, <1>11, RecordCheckpointSound
<1>13. ~IsReplay(p.rt.mode) /\ Shape(p)
  <2>1. p.rt.mode = c.rt.mode /\ Shape(p)
    BY <1>12 DEF Keeps, CoreFields
  <2> QED BY <1>10, <2>1
<1>14. CASE RecorderFailed(p)
  <2>1. z = CheckRecordFailure(p)
    BY <1>3, <1>14 DEF FinishReset
  <2>2. z = SetRecordFailure(p) /\ Recording(p)
    BY <1>14, <2>1 DEF CheckRecordFailure, RecorderFailed
  <2>3. Outer(p) /\ p.rt.machine # None
    BY <1>12, <2>2 DEF Base, InRecord, Recorded, Recording
  <2>4. Revised(z)
    BY <1>13, <2>2, RecordFailureEffect
  <2> QED BY <2>2, <2>3, <2>4, RecordFailureSound DEF Announces
<1>15. CASE ~RecorderFailed(p)
  <2> DEFINE d == IF Recording(p) THEN CHECKPOINT_INTERVAL ELSE p.rt.deadline
             q == [p EXCEPT !.rt.deadline = IF Recording(p) THEN CHECKPOINT_INTERVAL ELSE @]
  <2>1. z = Revise(Flushed(q))
    BY <1>3, <1>15 DEF FinishReset
  <2>2. q.rt = [p.rt EXCEPT !.deadline = d] /\ q.files = p.files /\ q.host = p.host /\ DOMAIN q = DOMAIN p
    BY <1>13 DEF Shape, CoreFields, PlainFields
  <2> HIDE DEF q, d
  <2>3. Keeps(q, p, {})
    BY <1>13, <2>2 DEF Keeps, Shape, CoreFields, PlainFields
  <2>4. Rested(p)
    BY <1>13, <1>15, LiveRested
  <2>5. Base(q) /\ Rested(q)
    BY <1>12, <2>3, <2>4, KeepsBase
  <2> QED BY <2>1, <2>5, Announced
<1> QED BY <1>14, <1>15

LEMMA ResetKeeps == Inv /\ Reset => Inv' /\ Advances
<1> SUFFICES ASSUME Inv, Reset PROVE Inv' /\ Advances
  OBVIOUS
<1> DEFINE w == Start
           config == rt.network_config
<1>1. rt.machine # None /\ ~IsReplay(rt.mode) /\ (rt.mode = "Recording" => rt.position.epoch < U64_MAX)
  BY DEF Reset, HasMachine, Recording, World
<1>2. /\ Base(w) /\ Rested(w) /\ Outer(w) /\ Shape(w) /\ w.rt.machine # None /\ ~IsReplay(w.rt.mode)
      /\ w.rt.mode = "Recording" => w.rt.position.epoch < U64_MAX
  BY <1>1, Starts, StartFields
<1>3. PICK x \in IF config THEN ReplaceNetwork(w, TRUE) ELSE {w} :
        \E z \in ResetConnected(x, config) : Becomes(z)
  BY DEF Reset
<1>4. PICK z \in ResetConnected(x, config) : Becomes(z)
  BY <1>3
<1>8. w.rt.network_config = config
  BY StartFields
<1> HIDE DEF w, config
<1>9. config \in BOOLEAN
  BY <1>2, <1>8 DEF Outer, Framed
<1>5. IF Replaced(x, config) THEN Connected(x, w) ELSE Base(x) /\ Rested(x) /\ Announces(x, w)
  <2>1. CASE config
    <3>1. x \in ReplaceNetwork(w, TRUE)
      BY <1>3, <2>1
    <3>2. IF Replaced(x, TRUE) THEN Connected(x, w) ELSE Base(x) /\ Rested(x) /\ Announces(x, w)
      BY <1>2, <3>1, ReplaceSound
    <3>3. Replaced(x, config) <=> Replaced(x, TRUE)
      BY <2>1 DEF Replaced
    <3> QED BY <3>2, <3>3
  <2>2. CASE ~config
    <3>1. x = w /\ Replaced(x, config)
      BY <1>3, <2>2 DEF Replaced
    <3>2. Linked(w.rt.network, w.rt.network_generation, FALSE, w.host.inbox, w.host.frames)
      BY <1>2 DEF Outer, Linked
    <3>4. Unused(w.rt.network, w.host.frames)
      BY <1>2, <1>8, <2>2 DEF Outer, Framed, Unused
    <3>3. Connected(w, w)
      BY <1>2, <3>2, <3>4 DEF Connected
    <3> QED BY <3>1, <3>3
  <2> QED BY <2>1, <2>2
<1>6. CASE ~Replaced(x, config)
  <2>1. z = CheckRecordFailure(x)
    BY <1>4, <1>6 DEF ResetConnected
  <2>2. Base(z) /\ Rested(z)
    BY <1>5, <1>6, <2>1, CheckRecordFailureSound
  <2>3. z = x \/ z = SetRecordFailure(x)
    BY <2>1 DEF CheckRecordFailure
  <2>4. Shape(x)
    BY <1>5, <1>6 DEF Base, Outer
  <2>5. Announces(z, w)
    BY <1>5, <1>6, <2>3, <2>4, RecordFailureEffect DEF Announces
  <2> QED BY <1>4, <2>2, <2>5, Leaves DEF w
<1>7. CASE Replaced(x, config)
  <2>1. Connected(x, w)
    BY <1>5, <1>7
  <2>2. PICK y \in NoteReset(x) : z \in ResetNoted(y)
    BY <1>4, <1>7 DEF ResetConnected, Then
  <2> DEFINE v == [x EXCEPT !.rt.network_error = FALSE]
  <2>3. Shape(x)
    BY <2>1 DEF Connected
  <2>4. Keeps(v, x, {"network_error"}) /\ v.rt.network_error = FALSE
    BY <2>3 DEF Keeps, Shape, CoreFields, PlainFields
  <2> HIDE DEF v
  <2>12. x.rt.network # None => w.rt.network_config = TRUE
    <3>1. CASE config = TRUE
      BY <1>8, <3>1
    <3>2. CASE config # TRUE
      <4>1. x = w
        BY <1>3, <1>9, <3>2
      <4> QED BY <1>2, <1>8, <4>1 DEF Outer, Framed
    <3> QED BY <3>1, <3>2
  <2>5. Base(v) /\ Rested(v)
    BY <1>2, <2>1, <2>4, <2>12, ConnectedBase
  <2>13. Unused(v.rt.network, v.host.frames)
    BY <2>1, <2>4 DEF Connected, Keeps, CoreFields
  <2>6. /\ v.rt.mode = x.rt.mode /\ v.rt.machine = x.rt.machine /\ v.rt.recorder = x.rt.recorder
        /\ v.rt.position = x.rt.position /\ v.rt.remainder = x.rt.remainder
        /\ v.files = x.files /\ v.host = x.host
    BY <2>4 DEF Keeps, CoreFields
  <2>7. /\ x.rt.mode = w.rt.mode /\ x.rt.machine = w.rt.machine /\ x.rt.position = w.rt.position
        /\ x.rt.network_error = w.rt.network_error
    BY <2>1 DEF Connected, CoreFields
  <2>8. Outer(v) /\ v.rt.machine # None /\ ~IsReplay(v.rt.mode)
    BY <1>2, <2>5, <2>6, <2>7 DEF Base
  <2>9. \A f \in CoreFields \ {"recorder", "network_error"} : x.rt[f] = v.rt[f]
    BY <2>4 DEF Keeps
  <2>10. CASE Recording(x)
    <3>1. y \in RecordTimeline(x, ResetEntry(x.rt.position))
      BY <2>2, <2>10 DEF NoteReset
    <3>2. /\ Keeps(y, x, {"recorder"})
          /\ y.rt.recorder \in {RecordEntry(x.rt.recorder, ResetEntry(x.rt.position)),
                                FailRecorder(x.rt.recorder)}
      BY <2>3, <3>1, RecordTimelineEffect
    <3>3. /\ Shape(y) /\ y.files = v.files /\ y.host = v.host /\ y.rt.mode = "Recording"
      BY <2>6, <2>10, <3>2 DEF Keeps, CoreFields, Recording
    <3>4. \A f \in CoreFields \ {"recorder", "network_error"} : y.rt[f] = v.rt[f]
      BY <2>9, <3>2 DEF Keeps
    <3>5. Keeps(y, v, {"recorder", "network_error"})
      BY <3>3, <3>4 DEF Keeps
    <3>6. v.rt.mode = "Recording" /\ w.rt.mode = "Recording"
      BY <2>6, <2>7, <2>10 DEF Recording
    <3>7. /\ v.rt.recorder \in Recorders /\ ~v.rt.recorder.failed /\ v.rt.machine \in Machines
          /\ OnPath(v.rt.recorder.timeline,
                    StateOf(v.rt.position, Len(v.rt.recorder.timeline), v.rt.machine, v.rt.remainder))
      BY <2>5, <2>8, <3>6 DEF Base, Rested, InRecord, Recorded, Outer, Typed
    <3>8. v.rt.position.epoch # U64_MAX
      <4>1. w.rt.position \in Positions /\ w.rt.position.epoch < U64_MAX
        BY <1>2, <3>6 DEF Outer, Typed
      <4>2. w.rt.position.epoch \in Nat
        BY <4>1 DEF Positions
      <4>3. w.rt.position.epoch # U64_MAX
        BY <4>1, <4>2, RecordConstants
      <4> QED BY <2>6, <2>7, <4>3
    <3>9. CASE RecorderFailed(y)
      <4>1. z = SetRecordFailure(y)
        BY <2>2, <3>9 DEF ResetNoted, CheckRecordFailure
      <4>2. ~w.rt.network_error /\ w.rt.network_error \in BOOLEAN
        BY <1>2, <3>6 DEF Base, InRecord, Recorded, Outer, Linked
      <4>3. y.rt.network_error = v.rt.network_error
        <5>1. y.rt.network_error = x.rt.network_error
          BY <3>2 DEF Keeps, CoreFields
        <5> QED BY <2>4, <2>7, <4>2, <5>1
      <4>4. /\ y.rt.machine = v.rt.machine /\ y.rt.position = v.rt.position
            /\ y.rt.remainder = v.rt.remainder /\ y.rt.instant = v.rt.instant
            /\ y.rt.pending = v.rt.pending /\ y.rt.network = v.rt.network
            /\ y.rt.network_generation = v.rt.network_generation /\ y.rt.state = v.rt.state
            /\ y.rt.network_config = v.rt.network_config
            /\ y.rt.mode = v.rt.mode /\ y.rt.ignore = v.rt.ignore /\ y.rt.preserved = v.rt.preserved
        BY <3>4 DEF CoreFields
      <4>5. Outer(y) /\ y.rt.machine # None
        BY <2>8, <3>3, <4>3, <4>4 DEF Outer
      <4>6. Base(z) /\ Rested(z)
        BY <3>3, <4>1, <4>5, RecordFailureSound DEF Recording
      <4>7. Announces(z, Start)
        BY <3>3, <4>1, RecordFailureEffect DEF Announces
      <4> QED BY <1>4, <4>6, <4>7, Leaves
    <3>10. CASE ~RecorderFailed(y)
      <4>1. z \in Then(RecordCheckpoint(ClearMachine(y)), FinishReset)
        BY <2>2, <3>10 DEF ResetNoted
      <4>2. ~y.rt.recorder.failed
        BY <3>3, <3>10 DEF RecorderFailed, Recording
      <4>3. y.rt.recorder = RecordEntry(v.rt.recorder, ResetEntry(v.rt.position))
        <5>1. FailRecorder(v.rt.recorder).failed
          BY <3>7, RecorderEntry
        <5> QED BY <2>6, <3>2, <4>2, <5>1
      <4> DEFINE t == v.rt.recorder.timeline
                 e == ResetEntry(v.rt.position)
      <4>4. /\ Append(t, e) \in Seq(Entries)
            /\ OnPath(Append(t, e),
                      StateOf(NextEpoch(v.rt.position), Len(Append(t, e)), ResetGuest(v.rt.machine), 0))
        BY <3>7, <3>8, ResetPath
      <4>5. y.rt.recorder.timeline = Append(t, e)
        BY <3>7, <4>3, RecorderEntry
      <4>6. y.rt.recorder \in Recorders
        <5>1. v.rt.position \in Positions
          BY <2>8 DEF Outer, Typed
        <5>2. e \in Entries
          BY <5>1 DEF ResetEntry, Entries, EntryKinds
        <5> QED BY <3>7, <4>3, <5>2, RecorderEntry
      <4> HIDE DEF t, e
      <4>7. OnPath(y.rt.recorder.timeline,
                   StateOf(NextEpoch(v.rt.position), Len(y.rt.recorder.timeline),
                           ResetGuest(v.rt.machine), 0))
        BY <4>4, <4>5
      <4>8. Base(z) /\ Rested(z) /\ Announces(z, Start)
        BY <2>8, <2>13, <3>5, <3>8, <4>1, <4>2, <4>6, <4>7, ClearSound
      <4> QED BY <1>4, <4>8, Leaves
    <3> QED BY <3>9, <3>10
  <2>11. CASE ~Recording(x)
    <3>1. y = x /\ ~RecorderFailed(y) /\ v.rt.mode # "Recording"
      BY <2>2, <2>6, <2>11 DEF NoteReset, RecorderFailed, Recording
    <3>2. z \in Then(RecordCheckpoint(ClearMachine(y)), FinishReset)
      BY <2>2, <3>1 DEF ResetNoted
    <3>3. Keeps(y, v, {"recorder", "network_error"})
      BY <2>3, <2>6, <2>9, <3>1 DEF Keeps
    <3>4. Base(z) /\ Rested(z) /\ Announces(z, Start)
      BY <2>8, <2>13, <3>1, <3>2, <3>3, ClearSound
    <3> QED BY <1>4, <3>4, Leaves
  <2> QED BY <2>10, <2>11
<1> QED BY <1>6, <1>7

-----------------------------------------------------------------------------
(* Configure, Shutdown and Restart.                                        *)

\* The nonvolatile state that outlives a machine is the user's.
LEMMA RetainedUser ==
    ASSUME NEW s, NEW result, NEW first, s.machine # None => s.machine \in Machines,
           Isolated(s.mode, s.machine, s.preserved, result, first)
    PROVE  /\ Retained(s) \in {None, "user", "session"}
           /\ s.machine # None => Retained(s) # None
           /\ ~first => Retained(s) \in {None, "user"}
<1>1. None # "user" /\ None # "session" /\ "user" # "session"
  BY RecordConstants
<1>2. s.machine # None => s.machine.nv \in {"user", "session"}
  BY DEF Machines
<1>3. CASE s.preserved # None
  <2>1. Retained(s) = s.preserved
    BY <1>3 DEF Retained
  <2> QED BY <1>1, <1>3, <2>1 DEF Isolated
<1>4. CASE s.preserved = None /\ s.machine # None
  <2>1. Retained(s) = s.machine.nv
    BY <1>4 DEF Retained, NonvolatileState
  <2> QED BY <1>1, <1>2, <1>4, <2>1 DEF Isolated
<1>5. CASE s.preserved = None /\ s.machine = None
  <2>1. Retained(s) = None
    BY <1>5 DEF Retained
  <2> QED BY <1>5, <2>1
<1> QED BY <1>3, <1>4, <1>5

LEMMA ShutdownKeeps == Inv /\ Shutdown => Inv' /\ Advances
<1> SUFFICES ASSUME Inv, Shutdown PROVE Inv' /\ Advances
  OBVIOUS
<1> DEFINE w == Start
           out == Outcome("Shutdown")
<1>1. PICK y \in Then(DropNetwork(w), LAMBDA v : StopRecording(v, out)) :
        Becomes([y EXCEPT !.host.result = Retained(y.rt)])
  BY DEF Shutdown
<1>2. PICK v \in DropNetwork(w) : y \in StopRecording(v, out)
  BY <1>1 DEF Then
<1>3. Base(w) /\ Rested(w) /\ Outer(w) /\ Shape(w)
  BY Starts
<1> HIDE DEF w
<1>4. /\ Shape(v) /\ v.files = w.files /\ v.host.result = w.host.result /\ v.host.replay_first = w.host.replay_first
      /\ v.host.frames = w.host.frames /\ v.rt.network = None
      /\ v.rt = [w.rt EXCEPT !.network = None]
      /\ \A f \in CoreFields \ {"network"} : v.rt[f] = w.rt[f]
      /\ \/ v.host.inbox = w.host.inbox
         \/ w.rt.network # None /\ v.host.inbox = w.host.inbox \cup {w.rt.network.generation}
  BY <1>2, <1>3, DropEffect
<1> DEFINE g == w.rt.network_generation
<1>5. Linked(w.rt.network, g, w.rt.network_error, w.host.inbox, w.host.frames)
  BY <1>3 DEF Outer
<1>6. v.host.inbox \subseteq 0 .. g
  <2>1. g \in Nat /\ w.host.inbox \subseteq 0 .. g /\ (w.rt.network # None => w.rt.network.generation = g)
    BY <1>5 DEF Linked
  <2>2. g \in 0 .. g
    BY <2>1
  <2> HIDE DEF g
  <2> QED BY <1>4, <2>1, <2>2
<1>7. Linked(v.rt.network, g, w.rt.network_error, v.host.inbox, v.host.frames)
  BY <1>4, <1>5, <1>6 DEF Linked
<1>8. Base(v) /\ Rested(v)
  <2>1. Framed(w.rt.mode, w.rt.machine, w.rt.pending, v.rt.network, w.rt.network_config, v.host.frames)
    BY <1>3, <1>4 DEF Outer, Framed
  <2> QED BY <1>3, <1>4, <1>7, <2>1, SessionChange
<1>9. Closes(v, out) /\ Outer(v) /\ InReplay(v)
  BY <1>8, BaseCloses DEF Base
<1>10. Base(y) /\ (IF Recording(v) THEN Rested(y) /\ Revised(y) ELSE y = v)
  BY <1>2, <1>9, StopRecordingSound
<1>11. Base(y) /\ Rested(y) /\ Outer(y) /\ Shape(y)
  BY <1>8, <1>10 DEF Base, Outer
<1> DEFINE result == Retained(y.rt)
           x == [y EXCEPT !.host.result = result]
<1>12. Becomes(x)
  BY <1>1
<1>13. ~y.host.replay_first => result # "session"
  <2>1. y.rt.machine # None => y.rt.machine \in Machines
    BY <1>11 DEF Outer, Typed
  <2>2. Isolated(y.rt.mode, y.rt.machine, y.rt.preserved, y.host.result, y.host.replay_first)
    BY <1>11 DEF Outer
  <2>3. ~y.host.replay_first => Retained(y.rt) \in {None, "user"}
    BY <2>1, <2>2, RetainedUser
  <2> QED BY <2>3, RecordConstants
<1> HIDE DEF result
<1>14. /\ x.rt = y.rt /\ x.files = y.files /\ DOMAIN x = DOMAIN y
       /\ x.host = [y.host EXCEPT !.result = result]
  BY <1>11 DEF Shape
<1> HIDE DEF x
<1>15. /\ Shape(x) /\ x.host.result = result /\ x.host.inbox = y.host.inbox
       /\ x.host.frames = y.host.frames /\ x.host.replay_first = y.host.replay_first
  BY <1>11, <1>14 DEF Shape
<1>16. Isolated(x.rt.mode, x.rt.machine, x.rt.preserved, x.host.result, x.host.replay_first)
  BY <1>11, <1>13, <1>14, <1>15 DEF Outer, Isolated
<1>17. Outer(x)
  BY <1>11, <1>14, <1>15, <1>16 DEF Outer
<1>18. Base(x) /\ Rested(x)
  BY <1>11, <1>14, <1>17 DEF Base, InRecord, InReplay, Rested
<1>19. Announces(x, w)
  <2>1. Announces(v, w)
    BY <1>3, <1>4, SessionUnseen
  <2> QED BY <1>10, <1>14, <2>1 DEF Announces, Revised
<1> QED BY <1>12, <1>18, <1>19, Leaves DEF w

\* The worker of an application that has just started.
LEMMA FreshSound ==
    ASSUME NEW w, DOMAIN w = {"rt", "files", "host"}, w.rt = InitWorker,
           DOMAIN w.files = {"record", "snapshot"}, Filed(w.files),
           DOMAIN w.host = {"inbox", "frames", "recordings", "runs", "replay_first", "result"},
           w.host.inbox = {}, w.host.frames \in Nat, w.host.result = "running",
           w.host.replay_first = FALSE
    PROVE  Base(w) /\ Rested(w)
<1> DEFINE s == w.rt
<1>1. /\ s.machine = None /\ s.position = Origin /\ s.remainder = 0 /\ s.instant = 0
      /\ s.pending = None /\ s.network = None /\ s.network_generation = 0 /\ s.network_error = FALSE
      /\ s.state = "Unconfigured" /\ s.mode = "Normal" /\ s.preserved = None
      /\ s.network_config = FALSE
  BY DEF InitWorker
<1>2. DOMAIN s = CoreFields \cup PlainFields
  BY DEF InitWorker, CoreFields, PlainFields
<1> HIDE DEF s
<1>3. Shape(w)
  BY <1>2 DEF Shape, s
<1>4. Origin \in Positions
  BY DEF Origin, Positions
<1>5. Typed(s.machine, s.position, s.remainder, s.instant, s.pending)
  BY <1>1, <1>4 DEF Typed
<1>6. Linked(s.network, s.network_generation, s.network_error, w.host.inbox, w.host.frames)
  <2>1. w.host.inbox \subseteq 0 .. s.network_generation /\ s.network_generation \in Nat
    BY <1>1
  <2>2. s.network_error \in BOOLEAN /\ ~s.network_error
    BY <1>1
  <2> QED BY <1>1, <2>1, <2>2, Zenon DEF Linked
<1>7. /\ Stops(s.state, s.mode, s.machine, s.network_error) /\ Exempt(s.state, s.ignore, s.machine)
      /\ Clocked(s.machine, s.instant, s.remainder)
      /\ Isolated(s.mode, s.machine, s.preserved, w.host.result, w.host.replay_first)
  BY <1>1 DEF Stops, Exempt, Clocked, Isolated
<1>10. Framed(s.mode, s.machine, s.pending, s.network, s.network_config, w.host.frames)
  BY <1>1 DEF Framed
<1>8. Outer(w)
  BY <1>3, <1>5, <1>6, <1>7, <1>10 DEF Outer, s
<1>9. InRecord(w) /\ InReplay(w) /\ Rested(w)
  BY <1>1, LiveOnly DEF IsReplay, s
<1> QED BY <1>8, <1>9 DEF Base

LEMMA InitHolds == Init => Inv
<1> SUFFICES ASSUME Init PROVE Inv
  OBVIOUS
<1> DEFINE w == World
<1>1. w.rt = InitWorker /\ DOMAIN w = {"rt", "files", "host"}
  BY DEF World, Init
<1>2. /\ DOMAIN w.files = {"record", "snapshot"} /\ w.files.record = None /\ w.files.snapshot = None
  BY DEF World, Init
<1>3. /\ DOMAIN w.host = {"inbox", "frames", "recordings", "runs", "replay_first", "result"}
      /\ w.host.inbox = {} /\ w.host.frames = 0 /\ w.host.result = "running"
      /\ w.host.replay_first = FALSE
  BY DEF World, Init
<1> HIDE DEF w
<1>4. Filed(w.files)
  BY <1>2 DEF Filed
<1>5. w.host.frames \in Nat /\ DOMAIN w.files = {"record", "snapshot"}
  BY <1>2, <1>3
<1>6. Base(w) /\ Rested(w)
  BY <1>1, <1>3, <1>4, <1>5, FreshSound
<1> QED BY <1>6 DEF Inv, w

LEMMA RestartKeeps == Inv /\ Restart => Inv' /\ Advances
<1> SUFFICES ASSUME Inv, Restart PROVE Inv' /\ Advances
  OBVIOUS
<1> DEFINE v == [rt |-> rt', files |-> files', host |-> host']
<1>1. /\ Outer(World) /\ Shape(World) /\ World.files = files /\ World.host = host
  BY DEF Inv, Base, Outer, World
<1>2. /\ DOMAIN files = {"record", "snapshot"} /\ Filed(files) /\ host.frames \in Nat
      /\ DOMAIN host = {"inbox", "frames", "recordings", "runs", "replay_first", "result"}
  BY <1>1 DEF Outer, Shape, Linked
<1>3. /\ DOMAIN v = {"rt", "files", "host"} /\ v.rt = InitWorker /\ v.files = files
      /\ v.host = [host EXCEPT !.inbox = {}, !.runs = @ + 1, !.replay_first = FALSE,
                              !.result = "running"]
  BY DEF Restart
<1>4. Becomes(v)
  BY DEF Becomes
<1> HIDE DEF v
<1>5. /\ DOMAIN v.host = DOMAIN host /\ v.host.inbox = {} /\ v.host.frames = host.frames
      /\ v.host.result = "running" /\ v.host.replay_first = FALSE
  BY <1>2, <1>3
<1>6. Base(v) /\ Rested(v)
  BY <1>2, <1>3, <1>5, FreshSound
<1>7. Advances
  BY DEF Advances, Restart
<1> QED BY <1>4, <1>6, <1>7, Leaves

\* What Configure prepares, field by field.
NextFields ==
    {"mode", "machine", "remainder", "instant", "position", "completed", "preserved", "recorder",
     "deadline", "replay", "network_config"}

\* What Install leaves of a world.
Installs(v, w, next) ==
    /\ Shape(v) /\ v.files = w.files /\ v.host = w.host
    /\ v.rt.mode = next.mode /\ v.rt.machine = next.machine
    /\ v.rt.remainder = next.remainder /\ v.rt.instant = next.instant
    /\ v.rt.position = next.position /\ v.rt.preserved = next.preserved
    /\ v.rt.recorder = next.recorder /\ v.rt.replay = next.replay
    /\ v.rt.state = "Paused" /\ v.rt.pending = None /\ v.rt.ignore = None
    /\ v.rt.network_error = FALSE /\ v.rt.network = w.rt.network
    /\ v.rt.network_generation = w.rt.network_generation
    /\ v.rt.network_config = next.network_config

LEMMA InstallEffect ==
    ASSUME NEW w, NEW next, Shape(w), DOMAIN next = NextFields
    PROVE  Installs(Install(w, next), w, next)
<1> DEFINE s == w.rt
           F(field) == CASE field \in DOMAIN next -> next[field]
                         [] field = "generation" -> s.generation + 1
                         [] field = "state" -> "Paused"
                         [] field = "breakpoints" -> {}
                         [] field \in {"pending", "output", "ignore"} -> None
                         [] field \in {"network_error", "last_error", "session_error"} -> FALSE
                         [] OTHER -> s[field]
           r == [field \in DOMAIN s |-> F(field)]
           v == Install(w, next)
<1>1. v = [w EXCEPT !.rt = r]
  BY DEF Install
<1> HIDE DEF v
<1>2. v.rt = r /\ v.files = w.files /\ v.host = w.host /\ DOMAIN v = DOMAIN w
  <2> HIDE DEF r
  <2> QED BY <1>1 DEF Shape
<1>3. DOMAIN s = CoreFields \cup PlainFields
  BY DEF Shape
<1>4. \A f \in NextFields : F(f) = next[f]
  BY DEF NextFields
<1>5. F("state") = "Paused"
  BY DEF NextFields
<1>6. F("pending") = None /\ F("ignore") = None
  BY DEF NextFields
<1>7. F("network_error") = FALSE
  BY DEF NextFields
<1>8. F("network") = s.network /\ F("network_generation") = s.network_generation
  BY DEF NextFields
<1> HIDE DEF F
<1>9. \A f \in CoreFields : r[f] = F(f)
  BY <1>3
<1>10. DOMAIN r = DOMAIN s
  OBVIOUS
<1> HIDE DEF r
<1>11. Shape(v)
  BY <1>2, <1>3, <1>10 DEF Shape
<1>12. /\ r.mode = next.mode /\ r.machine = next.machine
       /\ r.remainder = next.remainder /\ r.instant = next.instant
       /\ r.position = next.position /\ r.preserved = next.preserved
       /\ r.recorder = next.recorder /\ r.replay = next.replay
       /\ r.network_config = next.network_config
  BY <1>4, <1>9 DEF CoreFields, NextFields
<1>13. /\ r.state = "Paused" /\ r.pending = None /\ r.ignore = None
       /\ r.network_error = FALSE /\ r.network = s.network
       /\ r.network_generation = s.network_generation
  BY <1>5, <1>6, <1>7, <1>8, <1>9 DEF CoreFields
<1>14. /\ Shape(v) /\ v.files = w.files /\ v.host = w.host
       /\ v.rt.mode = next.mode /\ v.rt.machine = next.machine
       /\ v.rt.remainder = next.remainder /\ v.rt.instant = next.instant
       /\ v.rt.position = next.position /\ v.rt.preserved = next.preserved
       /\ v.rt.recorder = next.recorder /\ v.rt.replay = next.replay
       /\ v.rt.state = "Paused" /\ v.rt.pending = None /\ v.rt.ignore = None
       /\ v.rt.network_error = FALSE /\ v.rt.network = w.rt.network
       /\ v.rt.network_generation = w.rt.network_generation
       /\ v.rt.network_config = next.network_config
  BY <1>2, <1>11, <1>12, <1>13
<1> QED BY <1>14 DEF v, Installs

\* A start that may be installed where the result of the application is known.
Prepared(next, result, first) ==
    /\ DOMAIN next = NextFields /\ next.network_config \in BOOLEAN
    /\ next.machine \in Machines /\ next.position \in Positions
    /\ next.remainder \in Nat /\ next.instant \in Nat
    /\ Clocked(next.machine, next.instant, next.remainder)
    /\ Isolated(next.mode, next.machine, next.preserved, result, first)
    /\ Recorded(next.mode, next.recorder, FALSE, next.position, next.machine, next.remainder)
    /\ Replayed(next.mode, next.replay, next.position, next.machine, next.remainder)
    /\ next.mode = "Recording" => ~next.recorder.failed
    /\ next.mode = "Replaying" => ~next.replay.failed
    /\ IF IsReplay(next.mode) THEN next.network_config = FALSE ELSE next.machine.log = <<>>

LEMMA InstallSound ==
    ASSUME NEW w, NEW x, NEW next, Base(w), Connected(x, w), Prepared(next, w.host.result, w.host.replay_first),
           ~next.network_config => x.rt.network = None
    PROVE  LET v == Install(x, next) IN
           /\ Base(v) /\ (Replaying(v) => OnTrack(v)) /\ (~Replaying(v) => Rested(v))
<1> DEFINE v == Install(x, next)
<1>1. /\ Shape(v) /\ v.files = x.files /\ v.host = x.host
      /\ v.rt.mode = next.mode /\ v.rt.machine = next.machine
      /\ v.rt.remainder = next.remainder /\ v.rt.instant = next.instant
      /\ v.rt.position = next.position /\ v.rt.preserved = next.preserved
      /\ v.rt.recorder = next.recorder /\ v.rt.replay = next.replay
      /\ v.rt.state = "Paused" /\ v.rt.pending = None /\ v.rt.ignore = None
      /\ v.rt.network_error = FALSE /\ v.rt.network = x.rt.network
      /\ v.rt.network_generation = x.rt.network_generation
      /\ v.rt.network_config = next.network_config
  <2>1. Shape(x) /\ DOMAIN next = NextFields
    BY DEF Connected, Prepared
  <2>2. Installs(v, x, next)
    BY <2>1, InstallEffect
  <2> HIDE DEF v
  <2> QED BY <2>2 DEF Installs
<1> HIDE DEF v
<1>2. Typed(v.rt.machine, v.rt.position, v.rt.remainder, v.rt.instant, v.rt.pending)
  BY <1>1 DEF Typed, Prepared
<1>3. Linked(v.rt.network, v.rt.network_generation, v.rt.network_error, v.host.inbox, v.host.frames)
  BY <1>1 DEF Connected
<1>4. /\ Stops(v.rt.state, v.rt.mode, v.rt.machine, v.rt.network_error)
      /\ Exempt(v.rt.state, v.rt.ignore, v.rt.machine)
  <2>1. v.rt.machine # None
    BY <1>1, RecordConstants DEF Prepared
  <2> QED BY <1>1, <2>1 DEF Stops, Exempt
<1>5. Clocked(v.rt.machine, v.rt.instant, v.rt.remainder)
  BY <1>1 DEF Prepared
<1>6. Isolated(v.rt.mode, v.rt.machine, v.rt.preserved, v.host.result, v.host.replay_first)
  <2>1. v.host.result = w.host.result /\ v.host.replay_first = w.host.replay_first
    BY <1>1 DEF Connected
  <2> QED BY <1>1, <2>1 DEF Prepared
<1>7. Filed(v.files)
  <2>1. v.files = w.files
    BY <1>1 DEF Connected
  <2> QED BY <2>1 DEF Base, Outer
<1>13. Framed(v.rt.mode, v.rt.machine, v.rt.pending, v.rt.network, v.rt.network_config, v.host.frames)
  <2>1. /\ v.rt.machine # None /\ v.host.frames \in Nat /\ Unused(v.rt.network, v.host.frames)
        /\ next.network_config \in BOOLEAN
    BY <1>1, <1>3, RecordConstants DEF Prepared, Connected, Linked
  <2>2. CASE IsReplay(next.mode)
    BY <1>1, <2>2 DEF Framed, Prepared
  <2>3. CASE ~IsReplay(next.mode)
    <3>1. Consumed(v.rt.machine.log, v.host.frames, v.host.frames)
      BY <1>1, <2>1, <2>3, ConsumedNothing DEF Prepared
    <3>2. v.rt.network # None => Queued(v.rt.machine.log, None, v.rt.network, v.host.frames)
      BY <2>1, <3>1, UnusedQueued
    <3> QED BY <1>1, <2>1, <2>3, <3>1, <3>2 DEF Framed
  <2> QED BY <2>2, <2>3
<1>8. Outer(v)
  BY <1>1, <1>2, <1>3, <1>4, <1>5, <1>6, <1>7, <1>13 DEF Outer
<1>9. InRecord(v) /\ InReplay(v)
  BY <1>1 DEF InRecord, InReplay, Prepared
<1>10. Base(v)
  BY <1>8, <1>9 DEF Base
<1>11. Replaying(v) => OnTrack(v)
  BY <1>1, <1>10 DEF Replaying, OnTrack, Prepared
<1>12. ~Replaying(v) => Rested(v)
  BY <1>1 DEF Replaying, Rested, Prepared
<1> QED BY <1>10, <1>11, <1>12 DEF v

LEMMA ConfigureSound ==
    ASSUME NEW w, NEW next, Base(w), Rested(w), Prepared(next, w.host.result, w.host.replay_first),
           NEW x \in ReplaceNetwork(w, next.network_config)
    PROVE  /\ Base(Installed(x, next)) /\ Rested(Installed(x, next))
           /\ Announces(Installed(x, next), w)
<1> DEFINE v == Install(x, next)
           y == IF Replaying(v) THEN ProcessReplayBoundary(v) ELSE v
<1>1. IF Replaced(x, next.network_config)
      THEN Connected(x, w) /\ (~next.network_config => x.rt.network = None)
      ELSE Base(x) /\ Rested(x) /\ Announces(x, w)
  BY ReplaceSound DEF Prepared
<1>2. Installed(x, next) = IF ~Replaced(x, next.network_config) THEN x ELSE Revise(y)
  BY DEF Installed
<1> HIDE DEF v
<1>3. CASE ~Replaced(x, next.network_config)
  BY <1>1, <1>2, <1>3
<1>4. CASE Replaced(x, next.network_config)
  <2>1. Base(v) /\ (Replaying(v) => OnTrack(v)) /\ (~Replaying(v) => Rested(v))
    BY <1>1, <1>4, InstallSound DEF v
  <2>2. Base(y) /\ Rested(y)
    BY <2>1, BoundarySound
  <2> HIDE DEF y
  <2> QED BY <1>2, <1>4, <2>2, Announced
<1> QED BY <1>3, <1>4
\* Where the Configure commands start from.
LEMMA ConfigureFacts ==
    ASSUME Inv
    PROVE  /\ rt.machine # None => rt.machine \in Machines
           /\ Isolated(rt.mode, rt.machine, rt.preserved, host.result, host.replay_first)
           /\ Filed(files) /\ Start.host.result = host.result /\ Start.host.replay_first = host.replay_first
<1>1. Outer(Start) /\ Start.files = files /\ Start.host = host
  BY Starts
<1>2. /\ Start.rt.machine = rt.machine /\ Start.rt.mode = rt.mode
      /\ Start.rt.preserved = rt.preserved
  BY StartFields
<1> QED BY <1>1, <1>2 DEF Outer, Typed

LEMMA Built ==
    ASSUME NEW owner \in {"user", "session"}, NEW nv \in {"user", "session"}
    PROVE  LET m == NewMachine(owner, nv) IN
           /\ m \in Machines /\ m # None /\ m.owner = owner /\ m.nv = nv /\ m.cycles = 0 /\ m.log = <<>>
           /\ Clocked(m, 0, 0) /\ StateOf(Origin, 0, m, 0) = First
<1> DEFINE m == NewMachine(owner, nv)
<1>1. m.owner = owner /\ m.nv = nv /\ m.cycles = 0 /\ m.log = <<>>
  BY DEF NewMachine
<1>2. m \in Machines
  BY DEF NewMachine, Machines
<1>3. m # None
  BY <1>2, RecordConstants
<1> HIDE DEF m
<1>4. Clocked(m, 0, 0)
  BY <1>1, MachineConstants DEF Clocked
<1>5. StateOf(Origin, 0, m, 0) = First
  BY <1>1 DEF StateOf, First
<1> QED BY <1>1, <1>2, <1>3, <1>4, <1>5 DEF m

LEMMA ConfigureNormalKeeps == Inv /\ ConfigureNormal => Inv' /\ Advances
<1> SUFFICES ASSUME Inv, ConfigureNormal PROVE Inv' /\ Advances
  OBVIOUS
<1> DEFINE w == Start
           next == NormalStart
           kept == Retained(rt)
           m == NewMachine("user", "user")
           k == IF kept = None THEN m ELSE RestoreNonvolatileState(m, kept)
<1>1. PICK x \in ReplaceNetwork(w, next.network_config) : Becomes(Installed(x, next))
  BY DEF ConfigureNormal, Configure
<1>2. Base(w) /\ Rested(w) /\ w.host.result = host.result /\ w.host.replay_first = host.replay_first
  BY Starts, ConfigureFacts
<1>3. /\ kept \in {None, "user", "session"} /\ (~host.replay_first => kept \in {None, "user"})
      /\ Isolated(rt.mode, rt.machine, rt.preserved, host.result, host.replay_first)
  BY ConfigureFacts, RetainedUser
<1>4. /\ m \in Machines /\ m.owner = "user" /\ m.nv = "user" /\ m.cycles = 0 /\ m.log = <<>>
      /\ Clocked(m, 0, 0)
  BY Built
<1>5. /\ next.mode = "Normal" /\ next.machine = k /\ next.remainder = 0 /\ next.instant = 0
      /\ next.position = Origin /\ next.preserved = None /\ next.network_config = Ethernet
      /\ DOMAIN next = NextFields
  BY DEF NormalStart, ColdStart, NextFields
<1> HIDE DEF w, next, m, kept
<1>6. /\ k \in Machines /\ k.owner = "user" /\ k.cycles = 0 /\ k.log = <<>>
      /\ ~host.replay_first => k.nv = "user"
  <2>1. CASE kept = None
    BY <1>4, <2>1
  <2>2. CASE kept # None
    <3>1. kept \in {"user", "session"} /\ k = [m EXCEPT !.nv = kept]
      BY <1>3, <2>2 DEF RestoreNonvolatileState
    <3>2. k.owner = m.owner /\ k.cycles = m.cycles /\ k.log = m.log /\ k.nv = kept /\ k \in Machines
      BY <1>4, <3>1 DEF Machines
    <3> QED BY <1>3, <1>4, <2>2, <3>2
  <2> QED BY <2>1, <2>2
<1>7. k # None
  BY <1>6, RecordConstants
<1> HIDE DEF k
<1>8. Clocked(k, 0, 0)
  BY <1>6, MachineConstants DEF Clocked
<1>9. host.replay_first \in BOOLEAN /\ (~host.replay_first => host.result # "session")
  BY <1>3 DEF Isolated
<1>10. Isolated("Normal", k, None, host.result, host.replay_first)
  BY <1>6, <1>7, <1>9 DEF Isolated
<1>11. Origin \in Positions /\ Ethernet \in BOOLEAN
  BY RuntimeConstants DEF Origin, Positions
<1>12. /\ Recorded(next.mode, next.recorder, FALSE, next.position, next.machine, next.remainder)
       /\ Replayed(next.mode, next.replay, next.position, next.machine, next.remainder)
  BY <1>5 DEF Recorded, Replayed, IsReplay
<1>13. Prepared(next, w.host.result, w.host.replay_first)
  <2>1. /\ next.machine \in Machines /\ next.position \in Positions /\ next.remainder \in Nat
        /\ next.instant \in Nat /\ next.network_config \in BOOLEAN
        /\ next.mode # "Recording" /\ next.mode # "Replaying"
    BY <1>5, <1>6, <1>11
  <2>2. /\ Clocked(next.machine, next.instant, next.remainder)
        /\ Isolated(next.mode, next.machine, next.preserved, w.host.result, w.host.replay_first)
    BY <1>2, <1>5, <1>8, <1>10
  <2>3. ~IsReplay(next.mode) /\ next.machine.log = <<>>
    BY <1>5, <1>6 DEF IsReplay
  <2> QED BY <1>5, <1>12, <2>1, <2>2, <2>3, Zenon DEF Prepared
<1>14. Base(Installed(x, next)) /\ Rested(Installed(x, next)) /\ Announces(Installed(x, next), w)
  BY <1>1, <1>2, <1>13, ConfigureSound
<1> QED BY <1>1, <1>14, Leaves DEF w

LEMMA ConfigureRecordingKeeps == Inv /\ ConfigureRecording => Inv' /\ Advances
<1> SUFFICES ASSUME Inv, ConfigureRecording PROVE Inv' /\ Advances
  OBVIOUS
<1> DEFINE w == [Start EXCEPT !.host.recordings = @ + 1]
           next == RecordingStart
           kept == Retained(rt)
           m == NewMachine("session", "user")
           p == IF kept = None THEN "user" ELSE kept
           r == RecordEntry(NewRecorder, Checkpoint(Origin, Fingerprint(m)))
<1>1. PICK x \in ReplaceNetwork(w, next.network_config) : Becomes(Installed(x, next))
  BY DEF ConfigureRecording, Configure
<1>2. /\ kept \in {None, "user", "session"} /\ (~host.replay_first => kept \in {None, "user"})
      /\ Isolated(rt.mode, rt.machine, rt.preserved, host.result, host.replay_first)
  BY ConfigureFacts, RetainedUser
<1>3. /\ m \in Machines /\ m # None /\ m.nv = "user" /\ m.cycles = 0 /\ m.log = <<>>
      /\ Clocked(m, 0, 0) /\ StateOf(Origin, 0, m, 0) = First
  BY Built
<1>4. Base(w) /\ Rested(w) /\ w.host.result = host.result /\ w.host.replay_first = host.replay_first /\ w.rt = Start.rt
  <2> DEFINE s == Start
  <2>1. Base(s) /\ Rested(s) /\ Shape(s) /\ s.host = host
    BY Starts
  <2>2. w = [s EXCEPT !.host.recordings = @ + 1]
    OBVIOUS
  <2> HIDE DEF s, w
  <2>3. /\ w.rt = s.rt /\ w.files = s.files /\ DOMAIN w = DOMAIN s
        /\ w.host = [s.host EXCEPT !.recordings = s.host.recordings + 1]
    BY <2>1, <2>2 DEF Shape
  <2>4. /\ Shape(w) /\ w.host.result = s.host.result /\ w.host.replay_first = s.host.replay_first /\ w.host.inbox = s.host.inbox
        /\ w.host.frames = s.host.frames
    BY <2>1, <2>3 DEF Shape
  <2>5. Linked(w.rt.network, s.rt.network_generation, s.rt.network_error, w.host.inbox, w.host.frames)
    BY <2>1, <2>3, <2>4 DEF Base, Outer
  <2>6. Framed(s.rt.mode, s.rt.machine, s.rt.pending, w.rt.network, s.rt.network_config, w.host.frames)
    BY <2>1, <2>3, <2>4 DEF Base, Outer
  <2> QED BY <2>1, <2>3, <2>4, <2>5, <2>6, SessionChange DEF s
<1>5. /\ next.mode = "Recording" /\ next.machine = m /\ next.remainder = 0 /\ next.instant = 0
      /\ next.position = Origin /\ next.network_config = Ethernet /\ next.recorder = r
      /\ DOMAIN next = NextFields
  BY DEF RecordingStart, ColdStart, NextFields
<1>6. next.preserved = p
  BY <1>3 DEF RecordingStart, ColdStart, NonvolatileState
<1>7. /\ r \in Recorders /\ ~r.failed
      /\ OnPath(r.timeline, StateOf(Origin, Len(r.timeline), m, 0))
  <2> DEFINE e == Checkpoint(Origin, Fingerprint(m))
             t == Append(<<>>, e)
  <2>1. OnPath(<<>>, StateOf(Origin, Len(<<>>), m, 0))
    <3>1. Len(<<>>) = 0
      OBVIOUS
    <3> QED BY <1>3, <3>1, PathStarts
  <2> HIDE DEF m
  <2>2. t \in Seq(Entries) /\ OnPath(t, StateOf(Origin, Len(t), m, 0))
    BY <1>3, <2>1, CheckpointPath
  <2>3. NewRecorder \in Recorders /\ NewRecorder.timeline = <<>> /\ NewRecorder.failed = FALSE
    BY DEF NewRecorder, Recorders
  <2>4. e \in Entries
    <3>1. Fingerprint(m) \in Seq(Events) /\ Origin \in Positions
      BY <1>3, MachineData DEF Fingerprint, Origin, Positions
    <3> QED BY <3>1 DEF Checkpoint, Entries, EntryKinds
  <2> HIDE DEF e
  <2>5. r = RecordEntry(NewRecorder, e)
    BY DEF e
  <2> HIDE DEF r
  <2>6. r.timeline = t /\ r.failed = FALSE /\ r \in Recorders
    BY <2>3, <2>4, <2>5, RecorderEntry
  <2> HIDE DEF t
  <2> QED BY <2>2, <2>6
<1> HIDE DEF w, next, m, kept, r
<1>8. p \in {"user", "session"} /\ (~host.replay_first => p = "user")
  BY <1>2
<1> HIDE DEF p
<1>9. Isolated("Recording", m, p, host.result, host.replay_first)
  <2>1. host.replay_first \in BOOLEAN /\ (~host.replay_first => host.result # "session")
    BY <1>2 DEF Isolated
  <2> QED BY <1>3, <1>8, <2>1 DEF Isolated
<1>10. Origin \in Positions /\ Ethernet \in BOOLEAN
  BY RuntimeConstants DEF Origin, Positions
<1>11. /\ Recorded(next.mode, next.recorder, FALSE, next.position, next.machine, next.remainder)
       /\ Replayed(next.mode, next.replay, next.position, next.machine, next.remainder)
  BY <1>3, <1>5, <1>7 DEF Recorded, Replayed, IsReplay
<1>12. Prepared(next, w.host.result, w.host.replay_first)
  <2>1. /\ next.machine \in Machines /\ next.position \in Positions /\ next.remainder \in Nat
        /\ next.instant \in Nat /\ next.network_config \in BOOLEAN
        /\ next.mode # "Replaying" /\ ~next.recorder.failed
    BY <1>3, <1>5, <1>7, <1>10
  <2>2. /\ Clocked(next.machine, next.instant, next.remainder)
        /\ Isolated(next.mode, next.machine, next.preserved, w.host.result, w.host.replay_first)
    BY <1>3, <1>4, <1>5, <1>6, <1>9
  <2>3. ~IsReplay(next.mode) /\ next.machine.log = <<>>
    BY <1>3, <1>5 DEF IsReplay
  <2> QED BY <1>5, <1>11, <2>1, <2>2, <2>3, Zenon DEF Prepared
<1>13. Base(Installed(x, next)) /\ Rested(Installed(x, next)) /\ Announces(Installed(x, next), w)
  BY <1>1, <1>4, <1>12, ConfigureSound
<1>14. Announces(Installed(x, next), Start)
  BY <1>4, <1>13 DEF Announces
<1> QED BY <1>1, <1>13, <1>14, Leaves

\* A run of the application whose first machine is a Replay's.
LEMMA ReplayFirst ==
    ASSUME Inv
    PROVE  LET w == [Start EXCEPT !.host.replay_first = @ \/ rt.machine = None]
               first == w.host.replay_first IN
           /\ Base(w) /\ Rested(w) /\ w.host.result = host.result /\ w.rt = Start.rt
           /\ first \in BOOLEAN /\ (~first => ~host.replay_first /\ rt.machine # None)
<1> DEFINE s == Start
           flag == s.host.replay_first \/ rt.machine = None
           w == [s EXCEPT !.host.replay_first = flag]
<1>1. Base(s) /\ Rested(s) /\ Shape(s) /\ Outer(s) /\ s.host = host
  BY Starts
<1>2. s.rt.machine = rt.machine
  BY StartFields
<1>3. w = [Start EXCEPT !.host.replay_first = @ \/ rt.machine = None]
  BY <1>1 DEF Shape
<1>4. flag \in BOOLEAN /\ (~flag => ~host.replay_first /\ rt.machine # None)
  BY <1>1
<1>5. rt.machine # None => flag = s.host.replay_first
  <2>1. s.host.replay_first \in BOOLEAN
    BY <1>1 DEF Outer, Isolated
  <2> QED BY <2>1
<1> HIDE DEF s, flag
<1>6. /\ w.rt = s.rt /\ w.files = s.files /\ DOMAIN w = DOMAIN s
      /\ w.host = [s.host EXCEPT !.replay_first = flag]
  BY <1>1 DEF Shape
<1> HIDE DEF w
<1>7. /\ Shape(w) /\ w.host.result = s.host.result /\ w.host.replay_first = flag
      /\ w.host.inbox = s.host.inbox /\ w.host.frames = s.host.frames
  BY <1>1, <1>6 DEF Shape
<1>8. Isolated(w.rt.mode, w.rt.machine, w.rt.preserved, w.host.result, w.host.replay_first)
  <2>1. Isolated(s.rt.mode, s.rt.machine, s.rt.preserved, s.host.result, s.host.replay_first)
    BY <1>1 DEF Outer
  <2>2. CASE rt.machine # None
    BY <1>5, <1>6, <1>7, <2>1, <2>2
  <2>3. CASE rt.machine = None
    <3>1. flag = TRUE
      BY <2>3 DEF flag
    <3>2. w.rt.preserved \in {None, "user", "session"}
      BY <1>6, <2>1 DEF Isolated
    <3> QED BY <1>7, <3>1, <3>2 DEF Isolated
  <2> QED BY <2>2, <2>3
<1>9. Outer(w)
  BY <1>1, <1>6, <1>7, <1>8 DEF Outer
<1>10. Base(w) /\ Rested(w)
  BY <1>1, <1>6, <1>9 DEF Base, InRecord, InReplay, Rested
<1> QED BY <1>1, <1>3, <1>4, <1>6, <1>7, <1>10 DEF s

LEMMA ConfigureReplayKeeps == Inv /\ ConfigureReplay => Inv' /\ Advances
<1> SUFFICES ASSUME Inv, ConfigureReplay PROVE Inv' /\ Advances
  OBVIOUS
<1> DEFINE w == [Start EXCEPT !.host.replay_first = @ \/ rt.machine = None]
           first == w.host.replay_first
           kept == Retained(rt)
           record == files.record
           snap == files.snapshot
           cold == ReplayStart
           warm == RestoreSnapshot(cold, snap)
           m == NewMachine("session", "session")
<1>1. /\ record # None
      /\ \/ \E x \in ReplaceNetwork(w, cold.network_config) : Becomes(Installed(x, cold))
         \/ /\ snap # None /\ SnapshotFits(record, snap)
            /\ \E x \in ReplaceNetwork(w, warm.network_config) : Becomes(Installed(x, warm))
  BY DEF ConfigureReplay, Configure
<1>2. /\ Base(w) /\ Rested(w) /\ w.host.result = host.result /\ w.rt = Start.rt
      /\ first \in BOOLEAN /\ (~first => ~host.replay_first /\ rt.machine # None)
  BY ReplayFirst
<1>3. /\ kept \in {None, "user", "session"} /\ (~first => kept \in {None, "user"})
      /\ rt.machine # None => kept # None
      /\ Isolated(rt.mode, rt.machine, rt.preserved, host.result, host.replay_first)
  <2>1. /\ kept \in {None, "user", "session"} /\ (~host.replay_first => kept \in {None, "user"})
        /\ rt.machine # None => kept # None
        /\ Isolated(rt.mode, rt.machine, rt.preserved, host.result, host.replay_first)
    BY ConfigureFacts, RetainedUser
  <2> HIDE DEF w, kept
  <2> QED BY <1>2, <2>1
<1>4. RecordGood(record) /\ (snap # None => SnapshotGood(snap))
  BY <1>1, ConfigureFacts DEF Filed
<1>5. /\ m \in Machines /\ m # None /\ Clocked(m, 0, 0) /\ StateOf(Origin, 0, m, 0) = First
  BY Built
<1>6. /\ cold.mode = "Replaying" /\ cold.machine = m /\ cold.remainder = 0 /\ cold.instant = 0
      /\ cold.position = Origin /\ cold.network_config = FALSE /\ cold.preserved = kept
      /\ cold.replay = [record |-> record, cursor |-> 0, failed |-> FALSE]
      /\ DOMAIN cold = NextFields
  BY DEF ReplayStart, ColdStart, NextFields, NewReplay
<1> HIDE DEF w, first, cold, m, kept, record, snap
<1>7. \A k : k # None => Isolated("Replaying", k, kept, host.result, first)
  <2>1. ~first => host.result # "session"
    BY <1>2, <1>3 DEF Isolated
  <2>2. ~first => kept = "user"
    BY <1>2, <1>3
  <2> QED BY <1>2, <1>3, <2>1, <2>2 DEF Isolated
<1>8. Origin \in Positions
  BY DEF Origin, Positions
<1>9. Prepared(cold, w.host.result, first)
  <2> DEFINE y == cold.replay
  <2>1. y.record = record /\ y.cursor = 0 /\ y.failed = FALSE /\ DOMAIN y = {"record", "cursor", "failed"}
    BY <1>6
  <2> HIDE DEF y
  <2>2. TracksRecord(record, StateOf(Origin, 0, m, 0))
    BY <1>4, <1>5, FollowsFirst, FollowsTracked
  <2>3. Replayed("Replaying", y, Origin, m, 0)
    <3>1. TracksRecord(y.record, StateOf(Origin, y.cursor, m, 0)) /\ m # None
      BY <1>5, <2>1, <2>2
    <3>2. RecordGood(y.record)
      BY <1>4, <2>1, Zenon
    <3>3. y.failed \in BOOLEAN /\ ~y.failed
      BY <2>1, Zenon
    <3>4. y.cursor \in Nat
      BY <2>1
    <3>5. "Replaying" # "ReplayDiverged"
      OBVIOUS
    <3> QED BY <2>1, <3>1, <3>2, <3>3, <3>4, <3>5, Zenon DEF Replayed
  <2>4. Recorded("Replaying", cold.recorder, FALSE, Origin, m, 0)
    BY DEF Recorded
  <2>5. /\ cold.machine \in Machines /\ cold.position \in Positions /\ cold.remainder \in Nat
        /\ cold.instant \in Nat /\ cold.network_config \in BOOLEAN
        /\ cold.mode # "Recording"
    <3>1. m \in Machines
      BY <1>5
    <3>2. /\ cold.mode = "Replaying" /\ cold.machine = m /\ cold.remainder = 0 /\ cold.instant = 0
          /\ cold.position = Origin
      BY <1>6, Zenon
    <3>3. cold.network_config \in BOOLEAN
      BY <1>6, Zenon
    <3> QED BY <1>8, <3>1, <3>2, <3>3
  <2>6. /\ Clocked(cold.machine, cold.instant, cold.remainder)
        /\ Isolated(cold.mode, cold.machine, cold.preserved, w.host.result, first)
    BY <1>2, <1>5, <1>6, <1>7
  <2>7. /\ Recorded(cold.mode, cold.recorder, FALSE, cold.position, cold.machine, cold.remainder)
        /\ Replayed(cold.mode, cold.replay, cold.position, cold.machine, cold.remainder)
    BY <1>6, <2>3, <2>4 DEF y
  <2>8. ~cold.replay.failed
    BY <2>1 DEF y
  <2>9. IsReplay(cold.mode)
    BY <1>6 DEF IsReplay
  <2> QED BY <1>6, <2>5, <2>6, <2>7, <2>8, <2>9, Zenon DEF Prepared
<1>10. CASE \E x \in ReplaceNetwork(w, cold.network_config) : Becomes(Installed(x, cold))
  <2>1. PICK x \in ReplaceNetwork(w, cold.network_config) : Becomes(Installed(x, cold))
    BY <1>10
  <2>2. /\ Base(Installed(x, cold)) /\ Rested(Installed(x, cold))
        /\ Announces(Installed(x, cold), w)
    BY <1>2, <1>9, <2>1, ConfigureSound DEF first
  <2>3. Announces(Installed(x, cold), Start)
    BY <1>2, <2>2 DEF Announces
  <2> QED BY <2>1, <2>2, <2>3, Leaves
<1>11. CASE /\ snap # None /\ SnapshotFits(record, snap)
            /\ \E x \in ReplaceNetwork(w, warm.network_config) : Becomes(Installed(x, warm))
  <2>1. PICK x \in ReplaceNetwork(w, warm.network_config) : Becomes(Installed(x, warm))
    BY <1>11
  <2> DEFINE q == [cold.replay EXCEPT !.cursor = snap.cursor]
  <2>2. /\ q.record = record /\ q.cursor = snap.cursor /\ q.failed = FALSE
        /\ DOMAIN q = {"record", "cursor", "failed"}
    BY <1>6
  <2> HIDE DEF q
  <2>3. warm = [cold EXCEPT !.machine = snap.machine, !.instant = snap.instant,
                  !.remainder = snap.remainder, !.position = snap.position,
                  !.completed = snap.completed, !.replay = q]
    BY <1>6 DEF RestoreSnapshot, q, NextFields
  <2> HIDE DEF warm
  <2>4. /\ DOMAIN warm = NextFields /\ warm.mode = "Replaying" /\ warm.machine = snap.machine
        /\ warm.remainder = snap.remainder /\ warm.instant = snap.instant
        /\ warm.position = snap.position /\ warm.network_config = FALSE /\ warm.preserved = kept
        /\ warm.replay = q
    BY <1>6, <2>3 DEF NextFields
  <2>5. /\ snap.machine \in Machines /\ snap.position \in Positions /\ snap.cursor \in Nat
        /\ snap.instant \in Nat /\ snap.remainder \in Nat
        /\ Clocked(snap.machine, snap.instant, snap.remainder)
        /\ TracksRecord(snap.record, StateOf(snap.position, snap.cursor, snap.machine, snap.remainder))
    BY <1>4, <1>11 DEF SnapshotGood
  <2>6. snap.record = record
    BY <1>11 DEF SnapshotFits
  <2>7. snap.machine # None
    BY <2>5, RecordConstants
  <2>8. Replayed("Replaying", q, snap.position, snap.machine, snap.remainder)
    BY <1>4, <2>2, <2>5, <2>6, <2>7 DEF Replayed
  <2>9. Recorded("Replaying", warm.recorder, FALSE, snap.position, snap.machine, snap.remainder)
    BY DEF Recorded
  <2>10. Isolated("Replaying", snap.machine, kept, w.host.result, first)
    BY <1>2, <1>7, <2>7
  <2>11. Prepared(warm, w.host.result, first)
    <3>1. IsReplay(warm.mode)
      BY <2>4 DEF IsReplay
    <3> QED BY <2>2, <2>4, <2>5, <2>8, <2>9, <2>10, <3>1 DEF Prepared
  <2>12. /\ Base(Installed(x, warm)) /\ Rested(Installed(x, warm))
         /\ Announces(Installed(x, warm), w)
    BY <1>2, <2>1, <2>11, ConfigureSound DEF first
  <2>13. Announces(Installed(x, warm), Start)
    BY <1>2, <2>12 DEF Announces
  <2> QED BY <2>1, <2>12, <2>13, Leaves
<1> QED BY <1>1, <1>10, <1>11

-----------------------------------------------------------------------------
(* Theorems.                                                               *)

LEMMA StepHolds == Inv /\ [Next]_vars => Inv' /\ Advances
<1> SUFFICES ASSUME Inv, [Next]_vars PROVE Inv' /\ Advances
  OBVIOUS
<1>1. CASE Command
  BY <1>1, RunKeeps, PauseKeeps, ToggleBreakpointKeeps, StepKeeps, ResetKeeps,
     StopRecordingCommandKeeps, LiveInputKeeps, MediaCommandKeeps, CreateReplaySnapshotKeeps,
     NetworkFailureKeeps, ConfigureNormalKeeps, ConfigureRecordingKeeps, ConfigureReplayKeeps,
     ShutdownKeeps DEF Command
<1>2. CASE Batch
  BY <1>2, StopAtBreakpointKeeps, ExecuteBatchKeeps DEF Batch
<1>3. CASE Host
  BY <1>3, HostKeeps
<1>4. CASE Restart
  BY <1>4, RestartKeeps
<1>5. CASE UNCHANGED vars
  <2>1. Becomes(World)
    BY <1>5 DEF Becomes, World, vars
  <2>2. Base(World) /\ Rested(World)
    BY DEF Inv
  <2>3. Advances
    BY <1>5 DEF Advances, vars
  <2> QED BY <2>1, <2>2, <2>3, Leaves
<1> QED BY <1>1, <1>2, <1>3, <1>4, <1>5 DEF Next, Ended

\* The inductive invariant: the Recording is the end of the path of its Timeline,
\* the Replay is on the path of its Record, and the files hold Records and
\* snapshots that such sessions wrote (execute_timed_instruction, finalize,
\* process_replay_boundary, create_snapshot).
THEOREM RuntimeInv == Spec => []Inv
BY InitHolds, StepHolds, PTL DEF Spec

\* What stops a session stops it at once and nothing else does: every error
\* path of the worker leaves Running and ends the Recording, a NAT session is
\* blamed for its own failure only, and the exemption of a breakpoint belongs
\* to the next instruction (fail_network, set_record_failure, handle_execution_error).
THEOREM RuntimeStops == Spec => []StopsJustified
<1>1. Inv => StopsJustified
  <2> SUFFICES ASSUME Inv PROVE StopsJustified
    OBVIOUS
  <2>1. /\ Outer(World) /\ InRecord(World) /\ Rested(World) /\ World.rt = rt
        /\ World.host = host /\ World.files = files
    BY DEF Inv, Base, World
  <2>2. /\ Stops(rt.state, rt.mode, rt.machine, rt.network_error)
        /\ Exempt(rt.state, rt.ignore, rt.machine)
        /\ Linked(rt.network, rt.network_generation, rt.network_error, host.inbox, host.frames)
    BY <2>1 DEF Outer
  <2>3. rt.mode = "Recording" => ~rt.recorder.failed /\ ~rt.network_error
    BY <2>1 DEF InRecord, Recorded, Rested
  <2>4. RunningIsRunnable
    BY <2>2 DEF RunningIsRunnable, RequireRunnable, Stops
  <2>5. RecordingHealthy
    BY <2>1, <2>3 DEF RecordingHealthy, Recording
  <2>6. NetworkErrorJustified
    BY <2>2 DEF NetworkErrorJustified, Linked
  <2>7. ExemptionFresh
    BY <2>2 DEF ExemptionFresh, Exempt
  <2> QED BY <2>4, <2>5, <2>6, <2>7 DEF StopsJustified
<1> QED BY <1>1, RuntimeInv, PTL

\* Every Record that is finished passes parse_record, every snapshot passes
\* validate_replay_snapshot for its Record, and the clock of every machine, a
\* restored one too, is exactly its cycles (finalize, create_snapshot, CpuClock).
THEOREM RuntimeRecords == Spec => []RecordSound
<1>1. Inv => RecordSound
  <2> SUFFICES ASSUME Inv PROVE RecordSound
    OBVIOUS
  <2>1. Outer(World) /\ World.rt = rt /\ World.files = files
    BY DEF Inv, Base, World
  <2>2. Filed(files) /\ Clocked(rt.machine, rt.instant, rt.remainder)
    BY <2>1 DEF Outer
  <2>3. RecordParses
    BY <2>2, GoodParses DEF RecordParses, Filed
  <2>4. SnapshotRestorable
    <3>1. SUFFICES ASSUME files.snapshot # None, files.snapshot.record = files.record
                   PROVE  SnapshotFits(files.record, files.snapshot)
      BY DEF SnapshotRestorable
    <3> DEFINE snap == files.snapshot
               r == files.record
               t == r.timeline
               z == StateOf(snap.position, snap.cursor, snap.machine, snap.remainder)
    <3>2. /\ TracksRecord(r, z) /\ snap.position \in Positions /\ snap.cursor \in Nat
          /\ snap.cursor < Len(t) => t[snap.cursor + 1].position # snap.position
          /\ snap.checkpoint = LastCheckpoint(SubSeq(t, 1, snap.cursor))
      BY <2>2, <3>1 DEF Filed, SnapshotGood
    <3>8. PICK s \in PathStates : FollowsRecord(r, s) /\ Beside(s, z, r)
      BY <3>2 DEF TracksRecord
    <3>3. s.pos = snap.position /\ s.cur = snap.cursor
      BY <3>8 DEF StateOf, Beside
    <3>4. snap.record = r
      BY <3>1
    <3> HIDE DEF snap, r, z
    <3>5. /\ t \in Seq(Entries) /\ r.position \in Positions
          /\ s.cur <= Len(t) /\ ~Before(r.position, s.pos)
          /\ s.cur > 0 => ~Before(s.pos, t[s.cur].position)
          /\ s.cur < Len(t) => ~Before(t[s.cur + 1].position, s.pos)
      BY <3>8, FollowsOrder
    <3> HIDE DEF t
    <3>6. snap.cursor < Len(t) => Before(snap.position, t[snap.cursor + 1].position)
      <4>1. SUFFICES ASSUME snap.cursor < Len(t)
                     PROVE  Before(snap.position, t[snap.cursor + 1].position)
        OBVIOUS
      <4>2. snap.cursor + 1 \in 1 .. Len(t)
        BY <3>2, <3>5, <4>1
      <4>3. t[snap.cursor + 1] \in Entries
        BY <3>5, <4>2
      <4>4. t[snap.cursor + 1].position \in Positions
        BY <4>3 DEF Entries
      <4>5. ~Before(t[snap.cursor + 1].position, snap.position)
        BY <3>3, <3>5, <4>1
      <4> QED BY <3>2, <4>1, <4>4, <4>5, PositionOrder
    <3>7. SnapshotFits(r, snap)
      BY <3>2, <3>3, <3>4, <3>5, <3>6 DEF SnapshotFits, t
    <3> QED BY <3>7 DEF r, snap
  <2>5. VirtualTimeExact
    BY <2>2 DEF VirtualTimeExact, Clocked
  <2> QED BY <2>3, <2>4, <2>5 DEF RecordSound
<1> QED BY <1>1, RuntimeInv, PTL

\* A Replay of a Record this program wrote diverges only when a storage failed,
\* its own or, unnoted by the Recorder, the CD-ROM the Record was made with; until
\* then, from the start or from a snapshot, its machine has done nothing but what
\* the recorded machine did (process_replay_boundary, end_replay).
THEOREM RuntimeReplays == Spec => []ReplayFaithful
<1>1. Inv => ReplayFaithful
  <2> SUFFICES ASSUME Inv, IsReplay(rt.mode), ~StorageFailed
               PROVE  /\ rt.mode # "ReplayDiverged"
                      /\ IsPrefix(rt.machine.log, rt.replay.record.digest)
    BY DEF ReplayFaithful
  <2> DEFINE r == rt.replay.record
             z == StateOf(rt.position, rt.replay.cursor, rt.machine, rt.remainder)
             a == rt.machine.log
             b == r.digest
  <2>1. Outer(World) /\ InReplay(World) /\ World.rt = rt
    BY DEF Inv, Base, World
  <2>2. Replayed(rt.mode, rt.replay, rt.position, rt.machine, rt.remainder)
    BY <2>1 DEF InReplay
  <2>3. ~rt.replay.failed /\ Unharmed(a, r)
    BY DEF StorageFailed, Unharmed
  <2>4. rt.mode # "ReplayDiverged" /\ (TracksRecord(r, z) \/ a = b)
    BY <2>2, <2>3 DEF Replayed
  <2>5. rt.machine \in Machines
    BY <2>1, <2>2 DEF Replayed, Outer, Typed
  <2>6. a \in Seq(Events) /\ z.log = a
    BY <2>5, MachineData DEF StateOf
  <2> HIDE DEF r, z, a
  <2>7. b \in Seq(Events) /\ Prefix(a, b)
    <3>1. CASE TracksRecord(r, z)
      <4>1. PICK s \in PathStates : FollowsRecord(r, s) /\ Beside(s, z, r)
        BY <3>1 DEF TracksRecord
      <4>2. s.log = a
        BY <2>3, <2>6, <4>1 DEF Beside
      <4> QED BY <4>1, <4>2, FollowsOrder
    <3>2. CASE a = b
      BY <2>6, <3>2 DEF Prefix
    <3> QED BY <2>4, <3>1, <3>2
  <2> HIDE DEF b
  <2>8. SubSeq(a, 1, Len(a)) = SubSeq(b, 1, Len(a)) /\ Len(a) <= Len(b)
    BY <2>6, <2>7 DEF Prefix
  <2>9. IsPrefix(a, b)
    BY <2>8 DEF IsPrefix
  <2> QED BY <2>4, <2>9 DEF a, b, r
<1> QED BY <1>1, RuntimeInv, PTL

\* Each frame the current network session received is in exactly one place and in
\* the order it arrived: in the machine's log, in the slot process_network_boundary
\* keeps for one the machine could not take yet, or in the session's queue; across
\* resets, new sessions, failed ones and the events of a session that is gone.
THEOREM RuntimeFrames == Spec => []FramesExact
<1>1. Inv => FramesExact
  <2> SUFFICES ASSUME Inv, rt.network # None
               PROVE  LET places == Places(rt.machine.log, rt.pending, rt.network.rx)
                          mine == FramePlaces(places, rt.network.first)
                      IN /\ {places[i][2] : i \in mine} = rt.network.first .. host.frames - 1
                         /\ \A i, j \in mine : i < j => places[i][2] < places[j][2]
    BY DEF FramesExact
  <2>1. Outer(World) /\ World.rt = rt /\ World.host = host
    BY DEF Inv, Base, World
  <2>2. /\ rt.machine \in Machines /\ (rt.pending # None => rt.pending \in Events)
        /\ Queued(rt.machine.log, rt.pending, rt.network, host.frames)
    BY <2>1 DEF Outer, Typed, Framed
  <2>3. rt.network.rx \in Seq(Events) /\ host.frames \in Nat
    BY <2>1 DEF Outer, Linked
  <2>4. rt.machine.log \in Seq(Events)
    BY <2>2, MachineData
  <2>5. Consumed(Places(rt.machine.log, rt.pending, rt.network.rx), rt.network.first, host.frames)
    BY <2>2, <2>3, <2>4, QueuedExact
  <2> QED BY <2>5 DEF Consumed
<1> QED BY <1>1, RuntimeInv, PTL

\* Nothing a debugger sees of the worker changes without a new revision: every
\* handler that changes it, its error paths too, passes the increment, and a
\* failure that is not announced changed nothing (advance_revision,
\* set_record_failure, fail_network, replace_network).
THEOREM RuntimeRevisions == Spec => RevisionAdvances
<1>1. Inv /\ [Next]_vars => [Advances]_vars
  BY StepHolds
<1>2. [Advances]_vars <=> [Visible(rt') # Visible(rt) => rt'.revised \/ rt' = InitWorker]_vars
  BY DEF Advances
<1> QED BY <1>1, <1>2, RuntimeInv, PTL DEF Spec, RevisionAdvances

\* What a Recording or Replay machine wrote to its nonvolatile state reaches
\* neither a Normal machine nor the state Shutdown returns
\* (preserved_nonvolatile), for every sequence of configurations and failures.
\* The one exception of the code is part of the property: in a run of the
\* application whose first machine is a Replay's there is no state to preserve.
THEOREM RuntimeIsolation == Spec => []NonvolatileIsolated
<1>1. Inv => NonvolatileIsolated
  <2> SUFFICES ASSUME Inv PROVE NonvolatileIsolated
    OBVIOUS
  <2>1. Outer(World) /\ World.rt = rt /\ World.host = host
    BY DEF Inv, Base, World
  <2>2. Isolated(rt.mode, rt.machine, rt.preserved, host.result, host.replay_first)
    BY <2>1 DEF Outer
  <2> QED BY <2>2 DEF Isolated, NonvolatileIsolated, NonvolatileState
<1> QED BY <1>1, RuntimeInv, PTL
=============================================================================
