---------------------------- MODULE ClientsProofs ----------------------------
(***************************************************************************)
(* Proofs about RuntimeClients, for every set of machines, modes, inputs   *)
(* and batches and for every bound.                                        *)
(*                                                                         *)
(* The invariants are stated of a worker w, of the clients and of the      *)
(* window, so that what delivering output does to a worker is proved once  *)
(* and used for every command that delivers.                               *)
(***************************************************************************)
EXTENDS RuntimeClients, TLAPS, WellFoundedInduction

-----------------------------------------------------------------------------
(* Induction on natural numbers, for sets.                                 *)

LEMMA LeastNat ==
    ASSUME NEW T, T \subseteq Nat, T # {}
    PROVE  \E x \in T : \A y \in T : x <= y
<1> DEFINE R == OpToRel(<, Nat)
<1>1. IsWellFoundedOn(R, Nat)
  BY NatLessThanWellFounded
<1> HIDE DEF R
<1>2. PICK x \in T : \A y \in T : ~ (<<y, x>> \in R)
  BY <1>1, WFMin
<1>3. \A y \in T : x <= y
  <2>1. SUFFICES ASSUME NEW y \in T, ~ (x <= y) PROVE FALSE
    OBVIOUS
  <2>2. x \in Nat /\ y \in Nat /\ y < x
    BY <2>1
  <2>3. <<y, x>> \in R
    BY <2>2 DEF R, OpToRel
  <2> QED BY <1>2, <2>3
<1> QED BY <1>3

LEMMA SetInduction ==
    ASSUME NEW T, 0 \in T, \A n \in Nat : n \in T => n + 1 \in T
    PROVE  \A n \in Nat : n \in T
<1>1. SUFFICES ASSUME NEW m \in Nat, m \notin T PROVE FALSE
  OBVIOUS
<1> DEFINE U == Nat \ T
<1>2. U \subseteq Nat /\ U # {}
  BY <1>1
<1>3. PICK x \in U : \A y \in U : x <= y
  BY <1>2, LeastNat
<1>4. x \in Nat /\ x # 0
  OBVIOUS
<1>5. x - 1 \in Nat /\ ~ (x <= x - 1) /\ (x - 1) + 1 = x
  BY <1>4
<1>6. x - 1 \in U
  BY <1>5
<1> QED BY <1>3, <1>5, <1>6

-----------------------------------------------------------------------------
(* Types.                                                                  *)

Ports == {SERIAL_A, SERIAL_B}
EndpointKeys == {KEYBOARD, POINTER, SERIAL_A, SERIAL_B, ETHERNET, VIDEO}
Handles == [generation : Nat, key : EndpointKeys \cup {""}]
Streams == UNION {[S -> Seq(Nat)] : S \in SUBSET Handles}

OutputKinds == {"Serial", "Ethernet", "Video"}
OutputEntries == [kind : OutputKinds, data : Seq(Nat)]
Outputs == UNION {[S -> OutputEntries] : S \in SUBSET EndpointKeys}

Descriptors == [kind : {"Keyboard", "Pointer", "Serial", "Ethernet", "Video"},
                direction : {"Input", "Output", "Bidirectional"}]
Catalogs == UNION {[S -> Descriptors] : S \in SUBSET EndpointKeys}

SessionModes == Modes \cup {"Normal", "RecordCompleted"}
Inputs == [handle : Handles, payload : Payloads, mode : SessionModes]
Machines == [keyboard : BOOLEAN, mouse : BOOLEAN, video : BOOLEAN, picture : Nat, board : Nat,
             received : Seq(Inputs)]
Sinks == [serial : Streams, video : Streams, scheduled : BOOLEAN, posted : BOOLEAN,
          open : BOOLEAN]
Workers ==
    [alive : BOOLEAN, panicked : BOOLEAN, state : {"Unconfigured", "Paused", "Running"},
     mode : SessionModes, generation : Nat, machine : Machines \cup {NoMachine},
     output : Outputs, handler : BOOLEAN, sink : Sinks, late : BOOLEAN, tokens : Nat,
     emitted : Streams]

UiOperations == {"attach", "sample", "catalog", "resolve", "refresh", "run", "pause", "step",
                 "reset", "input", "detach", "shutdown"}
Operations == UiOperations \cup {"configure"}
Commands == [client : Clients, op : Operations, handle : Handles, payload : Payloads \cup {""},
             mode : SessionModes \cup {""}, topology : Topologies \cup {NoMachine}]
Replies == {"ok", "rejected", "unavailable", "StaleEndpoint", "UnknownEndpoint",
            "EndpointKindMismatch", "EndpointDirectionMismatch"}
Requests == [op : Operations \cup {"idle"}, handle : Handles, payload : Payloads \cup {""},
             reply : Replies \cup {"none"}, generation : Nat, catalog : Catalogs]
Panes == [generation : Nat, catalog : Catalogs, a : Seq(Nat), b : Seq(Nat), picture : Nat,
          fromA : Int, fromB : Int]
Windows == [window : {"new", "open", "closing", "detached", "closed"}, panes : Panes]

-----------------------------------------------------------------------------
(* Sequences.                                                              *)

LEMMA ConcatType ==
    ASSUME NEW a \in Seq(Nat), NEW b \in Seq(Nat)
    PROVE  a \o b \in Seq(Nat) /\ Len(a \o b) = Len(a) + Len(b)
OBVIOUS

LEMMA ConcatAssociates ==
    ASSUME NEW a \in Seq(Nat), NEW b \in Seq(Nat), NEW c \in Seq(Nat)
    PROVE  (a \o b) \o c = a \o (b \o c)
OBVIOUS

LEMMA AppendAssociates ==
    ASSUME NEW b \in Nat
    PROVE  \A s, t \in Seq(Nat) : Append(s \o t, b) = s \o Append(t, b)
<1>1. SUFFICES ASSUME NEW s \in Seq(Nat), NEW t \in Seq(Nat)
               PROVE  Append(s \o t, b) = s \o Append(t, b)
  OBVIOUS
<1>2. \A u \in Seq(Nat) : Append(u, b) = u \o <<b>>
  OBVIOUS
<1>3. s \o t \in Seq(Nat)
  BY ConcatType
<1>4. <<b>> \in Seq(Nat)
  OBVIOUS
<1>5. (s \o t) \o <<b>> = s \o (t \o <<b>>)
  BY <1>4, ConcatAssociates
<1> QED BY <1>2, <1>3, <1>5

LEMMA ConcatEmpty ==
    ASSUME NEW a \in Seq(Nat)
    PROVE  <<>> \o a = a /\ a \o <<>> = a
OBVIOUS

LEMMA SameElements ==
    ASSUME NEW a \in Seq(Nat), NEW b \in Seq(Nat), Len(a) = Len(b),
           \A i \in 1 .. Len(a) : a[i] = b[i]
    PROVE  a = b
OBVIOUS

LEMMA ConcatElements ==
    ASSUME NEW a \in Seq(Nat), NEW b \in Seq(Nat), NEW i \in 1 .. Len(a) + Len(b)
    PROVE  (a \o b)[i] = IF i <= Len(a) THEN a[i] ELSE b[i - Len(a)]
OBVIOUS

LEMMA RestType ==
    ASSUME NEW s \in Seq(Nat), NEW k \in 0 .. Len(s)
    PROVE  /\ SubSeq(s, k + 1, Len(s)) \in Seq(Nat)
           /\ Len(SubSeq(s, k + 1, Len(s))) = Len(s) - k
           /\ \A i \in 1 .. Len(s) - k : SubSeq(s, k + 1, Len(s))[i] = s[k + i]
OBVIOUS

LEMMA RestGrows ==
    ASSUME NEW s \in Seq(Nat), NEW e \in Seq(Nat), NEW k \in 0 .. Len(s)
    PROVE  SubSeq(s \o e, k + 1, Len(s \o e)) = SubSeq(s, k + 1, Len(s)) \o e
<1>1. PICK t : t = s \o e
  OBVIOUS
<1>2. PICK r : r = SubSeq(s, k + 1, Len(s))
  OBVIOUS
<1>3. PICK l : l = SubSeq(t, k + 1, Len(t))
  OBVIOUS
<1>4. t \in Seq(Nat) /\ Len(t) = Len(s) + Len(e)
  BY <1>1, ConcatType
<1>5. k \in 0 .. Len(t)
  BY <1>4
<1>6. r \in Seq(Nat) /\ Len(r) = Len(s) - k /\ \A i \in 1 .. Len(s) - k : r[i] = s[k + i]
  BY <1>2, RestType
<1>7. l \in Seq(Nat) /\ Len(l) = Len(t) - k /\ \A i \in 1 .. Len(t) - k : l[i] = t[k + i]
  BY <1>3, <1>4, <1>5, RestType
<1>8. r \o e \in Seq(Nat) /\ Len(r \o e) = Len(l) /\ Len(l) = Len(r) + Len(e)
  <2>1. r \o e \in Seq(Nat) /\ Len(r \o e) = Len(r) + Len(e)
    BY <1>6, ConcatType
  <2>2. Len(r) + Len(e) = Len(t) - k
    BY <1>4, <1>6
  <2> QED BY <2>1, <2>2, <1>7
<1>9. ASSUME NEW i \in 1 .. Len(l) PROVE l[i] = (r \o e)[i]
  <2>1. i \in 1 .. Len(r) + Len(e) /\ k + i \in 1 .. Len(s) + Len(e) /\ i \in 1 .. Len(t) - k
    BY <1>4, <1>6, <1>8
  <2>2. (r \o e)[i] = IF i <= Len(r) THEN r[i] ELSE e[i - Len(r)]
    BY <2>1, <1>6, ConcatElements
  <2>3. t[k + i] = IF k + i <= Len(s) THEN s[k + i] ELSE e[(k + i) - Len(s)]
    BY <2>1, <1>1, ConcatElements
  <2>4. l[i] = t[k + i]
    BY <2>1, <1>7
  <2>5. (i <= Len(r)) = (k + i <= Len(s)) /\ (k + i) - Len(s) = i - Len(r)
    BY <2>1, <1>6
  <2>6. ASSUME i <= Len(r) PROVE r[i] = s[k + i]
    <3>1. i \in 1 .. Len(s) - k
      BY <2>6, <1>6
    <3> QED BY <3>1, <1>6
  <2> QED BY <2>2, <2>3, <2>4, <2>5, <2>6
<1>10. l = r \o e
  BY <1>7, <1>8, <1>9, SameElements
<1> QED BY <1>1, <1>2, <1>3, <1>10

LEMMA RestEmpty ==
    ASSUME NEW s \in Seq(Nat)
    PROVE  SubSeq(s, Len(s) + 1, Len(s)) = <<>>
OBVIOUS
-----------------------------------------------------------------------------
(* Streams.                                                                *)

LEMMA StreamsElim ==
    ASSUME NEW s \in Streams
    PROVE  /\ DOMAIN s \subseteq Handles
           /\ \A h \in DOMAIN s : s[h] \in Seq(Nat)
           /\ s \in [DOMAIN s -> Seq(Nat)]
BY DEF Streams

LEMMA StreamsIntro ==
    ASSUME NEW S \in SUBSET Handles, NEW s \in [S -> Seq(Nat)]
    PROVE  s \in Streams
BY DEF Streams

LEMMA StreamType ==
    ASSUME NEW s \in Streams, NEW h
    PROVE  Stream(s, h) \in Seq(Nat)
BY StreamsElim DEF Stream

LEMMA NoStreamsType == NoStreams \in Streams /\ DOMAIN NoStreams = {}
<1>1. NoStreams \in [{} -> Seq(Nat)]
  BY DEF NoStreams
<1> QED BY <1>1, StreamsIntro DEF NoStreams

\* Bytes of an endpoint join those that wait, in order.
LEMMA AppendEffect ==
    ASSUME NEW p \in Streams, NEW i \in Streams
    PROVE  /\ AppendPending(p, i) \in Streams
           /\ DOMAIN AppendPending(p, i) = DOMAIN p \cup DOMAIN i
           /\ \A h : Stream(AppendPending(p, i), h) = Stream(p, h) \o Stream(i, h)
<1> DEFINE q == AppendPending(p, i)
<1>1. DOMAIN q = DOMAIN p \cup DOMAIN i
  BY DEF AppendPending
<1>2. \A h : Stream(p, h) \in Seq(Nat) /\ Stream(i, h) \in Seq(Nat)
  BY StreamType
<1>3. \A h \in DOMAIN q : q[h] = Stream(p, h) \o Stream(i, h)
  BY <1>1 DEF AppendPending
<1>4. \A h \in DOMAIN q : q[h] \in Seq(Nat)
  <2>1. SUFFICES ASSUME NEW h \in DOMAIN q PROVE q[h] \in Seq(Nat)
    OBVIOUS
  <2> HIDE DEF q
  <2>2. Stream(p, h) \o Stream(i, h) \in Seq(Nat)
    BY <1>2, ConcatType
  <2> QED BY <2>2, <1>3
<1>5. DOMAIN q \in SUBSET Handles
  BY <1>1, StreamsElim
<1>6. q \in [DOMAIN q -> Seq(Nat)]
  BY <1>4 DEF AppendPending
<1>7. q \in Streams
  BY <1>5, <1>6, StreamsIntro
<1>8. ASSUME NEW h PROVE Stream(q, h) = Stream(p, h) \o Stream(i, h)
  <2>1. CASE h \in DOMAIN q
    <3> HIDE DEF q
    <3> QED BY <2>1, <1>3 DEF Stream
  <2>2. CASE h \notin DOMAIN q
    <3>1. Stream(p, h) = <<>> /\ Stream(i, h) = <<>> /\ Stream(q, h) = <<>>
      BY <2>2, <1>1 DEF Stream
    <3>2. <<>> \o <<>> = <<>>
      OBVIOUS
    <3> QED BY <3>1, <3>2
  <2> QED BY <2>1, <2>2
<1> QED BY <1>1, <1>7, <1>8

\* The newest state of an endpoint replaces the one that waits.
LEMMA ReplaceEffect ==
    ASSUME NEW p \in Streams, NEW i \in Streams
    PROVE  /\ ReplacePending(p, i) \in Streams
           /\ DOMAIN ReplacePending(p, i) = DOMAIN p \cup DOMAIN i
           /\ \A h \in DOMAIN i : ReplacePending(p, i)[h] = i[h]
           /\ \A h \in DOMAIN p \ DOMAIN i : ReplacePending(p, i)[h] = p[h]
<1> DEFINE q == ReplacePending(p, i)
<1>1. DOMAIN q = DOMAIN p \cup DOMAIN i
  BY DEF ReplacePending
<1>2. /\ \A h \in DOMAIN i : q[h] = i[h]
      /\ \A h \in DOMAIN p \ DOMAIN i : q[h] = p[h]
  BY DEF ReplacePending
<1>3. DOMAIN q \in SUBSET Handles
  BY <1>1, StreamsElim
<1>4. \A h \in DOMAIN q : q[h] \in Seq(Nat)
  BY <1>1, <1>2, StreamsElim
<1>5. q \in [DOMAIN q -> Seq(Nat)]
  BY <1>4 DEF ReplacePending
<1> QED BY <1>1, <1>2, <1>3, <1>5, StreamsIntro


-----------------------------------------------------------------------------
(* Endpoints and output.                                                   *)

SameParts(m, n) == m.keyboard = n.keyboard /\ m.mouse = n.mouse /\ m.video = n.video

LEMMA MachineIsSome ==
    ASSUME NEW m \in Machines
    PROVE  m # NoMachine
BY DEF Machines, NoMachine

LEMMA KeysType ==
    ASSUME NEW m \in Machines
    PROVE  Keys(m) \subseteq EndpointKeys /\ Ports \subseteq Keys(m) /\ ETHERNET \in Keys(m)
           /\ (KEYBOARD \in Keys(m)) = m.keyboard /\ (POINTER \in Keys(m)) = m.mouse
           /\ (VIDEO \in Keys(m)) = m.video
BY DEF Keys, EndpointKeys, Ports, Machines, KEYBOARD, POINTER, SERIAL_A, SERIAL_B, ETHERNET, VIDEO

LEMMA CatalogFacts ==
    ASSUME NEW m \in Machines
    PROVE  /\ Catalog(m) \in Catalogs /\ DOMAIN Catalog(m) = Keys(m)
           /\ \A key \in Keys(m) :
                /\ key \in Ports => Catalog(m)[key] = Descriptor("Serial", "Bidirectional")
                /\ key = ETHERNET => Catalog(m)[key] = Descriptor("Ethernet", "Bidirectional")
                /\ key = VIDEO => Catalog(m)[key] = Descriptor("Video", "Output")
                /\ key = KEYBOARD => Catalog(m)[key] = Descriptor("Keyboard", "Input")
                /\ key = POINTER => Catalog(m)[key] = Descriptor("Pointer", "Input")
<1>1. DOMAIN Catalog(m) = Keys(m) /\ Keys(m) \in SUBSET EndpointKeys
  BY KeysType DEF Catalog
<1>2. ASSUME NEW key \in Keys(m)
      PROVE  /\ key \in Ports => Catalog(m)[key] = Descriptor("Serial", "Bidirectional")
             /\ key = ETHERNET => Catalog(m)[key] = Descriptor("Ethernet", "Bidirectional")
             /\ key = VIDEO => Catalog(m)[key] = Descriptor("Video", "Output")
             /\ key = KEYBOARD => Catalog(m)[key] = Descriptor("Keyboard", "Input")
             /\ key = POINTER => Catalog(m)[key] = Descriptor("Pointer", "Input")
  BY <1>2 DEF Catalog, Ports, KEYBOARD, POINTER, SERIAL_A, SERIAL_B, ETHERNET, VIDEO
<1>3. /\ Descriptor("Serial", "Bidirectional") \in Descriptors
      /\ Descriptor("Ethernet", "Bidirectional") \in Descriptors
      /\ Descriptor("Video", "Output") \in Descriptors
      /\ Descriptor("Keyboard", "Input") \in Descriptors
      /\ Descriptor("Pointer", "Input") \in Descriptors
  BY DEF Descriptor, Descriptors
<1>4. \A key \in Keys(m) : Catalog(m)[key] \in Descriptors
  BY <1>1, <1>2, <1>3 DEF EndpointKeys, Ports
<1>5. Catalog(m) \in [Keys(m) -> Descriptors]
  BY <1>4 DEF Catalog
<1> QED BY <1>1, <1>2, <1>5 DEF Catalogs

\* The catalog tells of what is attached, and of nothing a machine does.
LEMMA SameCatalog ==
    ASSUME NEW m \in Machines, NEW n \in Machines, SameParts(m, n)
    PROVE  Catalog(m) = Catalog(n) /\ Keys(m) = Keys(n)
<1>1. Keys(m) = Keys(n)
  BY DEF SameParts, Keys
<1> QED BY <1>1 DEF Catalog

LEMMA OutputsElim ==
    ASSUME NEW o \in Outputs
    PROVE  /\ DOMAIN o \subseteq EndpointKeys
           /\ \A key \in DOMAIN o : o[key] \in OutputEntries
           /\ o \in [DOMAIN o -> OutputEntries]
BY DEF Outputs

LEMMA OutputsIntro ==
    ASSUME NEW S \in SUBSET EndpointKeys, NEW o \in [S -> OutputEntries]
    PROVE  o \in Outputs
BY DEF Outputs

LEMMA NoOutputType == NoOutput \in Outputs /\ DOMAIN NoOutput = {} /\ IsEmpty(NoOutput)
<1>1. NoOutput \in [{} -> OutputEntries]
  BY DEF NoOutput
<1> QED BY <1>1, OutputsIntro DEF NoOutput, IsEmpty

LEMMA EmptyOutput ==
    ASSUME NEW o \in Outputs, IsEmpty(o)
    PROVE  o = NoOutput
<1>1. o \in [{} -> OutputEntries]
  BY OutputsElim DEF IsEmpty
<1>2. NoOutput \in [{} -> OutputEntries]
  BY DEF NoOutput
<1> QED BY <1>1, <1>2

LEMMA DataType ==
    ASSUME NEW o \in Outputs, NEW key
    PROVE  DataOf(o, key) \in Seq(Nat)
<1>1. CASE key \in DOMAIN o
  BY <1>1, OutputsElim DEF DataOf, OutputEntries
<1>2. CASE key \notin DOMAIN o
  BY <1>2 DEF DataOf
<1> QED BY <1>1, <1>2

\* One endpoint gets an entry, the others keep theirs.
LEMMA WithEffect ==
    ASSUME NEW o \in Outputs, NEW key \in EndpointKeys, NEW e \in OutputEntries
    PROVE  /\ With(o, key, e) \in Outputs
           /\ DOMAIN With(o, key, e) = DOMAIN o \cup {key}
           /\ With(o, key, e)[key] = e
           /\ DataOf(With(o, key, e), key) = e.data
           /\ \A k \in DOMAIN o \ {key} : With(o, key, e)[k] = o[k]
           /\ \A k : k # key => DataOf(With(o, key, e), k) = DataOf(o, k)
<1> DEFINE p == With(o, key, e)
<1>1. DOMAIN p = DOMAIN o \cup {key} /\ p[key] = e /\ \A k \in DOMAIN o \ {key} : p[k] = o[k]
  BY DEF With
<1>2. p = [k \in DOMAIN p |-> p[k]]
  BY DEF With
<1> HIDE DEF p
<1>3. DOMAIN p \in SUBSET EndpointKeys /\ \A k \in DOMAIN p : p[k] \in OutputEntries
  BY <1>1, OutputsElim
<1>4. p \in [DOMAIN p -> OutputEntries]
  BY <1>2, <1>3
<1>5. p \in Outputs
  BY <1>3, <1>4, OutputsIntro
<1>6. DataOf(p, key) = e.data /\ \A k : k # key => DataOf(p, k) = DataOf(o, k)
  BY <1>1 DEF DataOf
<1> QED BY <1>1, <1>5, <1>6 DEF p

\* What a machine may put out: on an endpoint it has, of the endpoint's kind.
KindOf(key) ==
    IF key \in Ports THEN "Serial" ELSE IF key = ETHERNET THEN "Ethernet" ELSE "Video"
Tidy(output, m) ==
    \A key \in DOMAIN output :
        key \in Keys(m) /\ key \in Ports \cup {ETHERNET, VIDEO} /\ output[key].kind = KindOf(key)

LEMMA TidyIsDeclared ==
    ASSUME NEW m \in Machines, NEW o \in Outputs, Tidy(o, m)
    PROVE  AllDeclared(Catalog(m), o)
<1>1. SUFFICES ASSUME NEW key \in DOMAIN o PROVE Declared(Catalog(m), key, o[key].kind)
  BY DEF AllDeclared
<1>2. key \in Keys(m) /\ key \in Ports \cup {ETHERNET, VIDEO} /\ o[key].kind = KindOf(key)
  BY <1>1 DEF Tidy
<1>3. key \in DOMAIN Catalog(m)
  BY <1>2, CatalogFacts
<1>4. CASE key \in Ports
  BY <1>2, <1>3, <1>4, CatalogFacts DEF KindOf, Declared, Listed, AcceptsOutput, Descriptor
<1>5. CASE key = ETHERNET
  <2>1. key \notin Ports
    BY <1>5 DEF Ports, ETHERNET, SERIAL_A, SERIAL_B
  <2> QED BY <2>1, <1>2, <1>3, <1>5, CatalogFacts
          DEF KindOf, Declared, Listed, AcceptsOutput, Descriptor
<1>6. CASE key = VIDEO
  <2>1. key \notin Ports /\ key # ETHERNET
    BY <1>6 DEF Ports, ETHERNET, SERIAL_A, SERIAL_B, VIDEO
  <2> QED BY <2>1, <1>2, <1>3, <1>6, CatalogFacts
          DEF KindOf, Declared, Listed, AcceptsOutput, Descriptor
<1> QED BY <1>2, <1>4, <1>5, <1>6

-----------------------------------------------------------------------------
(* Batches of instructions.                                                *)

\* What a worker has collected for a serial port of the machine it runs.
Collected(w, h) ==
    IF h.generation = w.generation /\ h.key \in Ports THEN DataOf(w.output, h.key) ELSE <<>>

SameSession(w, v) ==
    /\ v.alive = w.alive /\ v.panicked = w.panicked /\ v.generation = w.generation
    /\ v.handler = w.handler /\ v.late = w.late

SameMachine(w, v) ==
    /\ w.machine \in Machines /\ v.machine \in Machines /\ SameParts(v.machine, w.machine)
    /\ v.machine.received = w.machine.received

\* Between commands nothing is collected, unless the checkpoint of a Reset failed:
\* then the picture the machine put out last is.
Held(w) ==
    /\ DOMAIN w.output \subseteq {VIDEO}
    /\ VIDEO \in DOMAIN w.output =>
         /\ w.mode = "RecordCompleted" /\ w.machine # NoMachine /\ w.machine.video
         /\ w.output[VIDEO].kind = "Video" /\ w.output[VIDEO].data = <<w.machine.picture>>

\* v is worker w with the output of some instructions collected.
Batched(w, v) ==
    /\ v \in Workers /\ SameSession(w, v) /\ SameMachine(w, v)
    /\ v.sink = w.sink /\ Tidy(v.output, v.machine)
    /\ VIDEO \in DOMAIN w.output => w.machine.video /\ VIDEO \in DOMAIN v.output
    /\ IF VIDEO \in DOMAIN v.output THEN v.output[VIDEO].data = <<v.machine.picture>>
       ELSE w.machine.video => v.machine.picture = w.machine.picture
    /\ \A h \in Handles : Stream(v.emitted, h) = Stream(w.emitted, h) \o Collected(v, h)
    /\ DOMAIN v.emitted \subseteq DOMAIN w.emitted \cup {Handle(w.generation, key) : key \in Ports}

LEMMA HandleType ==
    ASSUME NEW g \in Nat, NEW key \in EndpointKeys
    PROVE  Handle(g, key) \in Handles /\ Handle(g, key).generation = g /\ Handle(g, key).key = key
BY DEF Handle, Handles

LEMMA HandleIs ==
    ASSUME NEW h \in Handles
    PROVE  h = Handle(h.generation, h.key) /\ h.generation \in Nat
BY DEF Handle, Handles

LEMMA PortKeys ==
    /\ SERIAL_A \in Ports /\ SERIAL_B \in Ports /\ Ports \subseteq EndpointKeys /\ SERIAL_A # SERIAL_B
    /\ ETHERNET \in EndpointKeys \ Ports /\ VIDEO \in EndpointKeys \ Ports /\ ETHERNET # VIDEO
    /\ KEYBOARD \in EndpointKeys \ Ports /\ POINTER \in EndpointKeys \ Ports
BY DEF Ports, EndpointKeys, KEYBOARD, POINTER, SERIAL_A, SERIAL_B, ETHERNET, VIDEO

LEMMA TidyWith ==
    ASSUME NEW m \in Machines, NEW o \in Outputs, Tidy(o, m), NEW key \in EndpointKeys,
           NEW e \in OutputEntries, key \in Keys(m), key \in Ports \cup {ETHERNET, VIDEO},
           e.kind = KindOf(key)
    PROVE  Tidy(With(o, key, e), m)
<1>0. /\ DOMAIN With(o, key, e) = DOMAIN o \cup {key} /\ With(o, key, e)[key] = e
      /\ \A k \in DOMAIN o \ {key} : With(o, key, e)[k] = o[k]
  BY WithEffect, ZenonT(40)
<1>1. SUFFICES ASSUME NEW k \in DOMAIN With(o, key, e)
               PROVE  k \in Keys(m) /\ k \in Ports \cup {ETHERNET, VIDEO}
                      /\ With(o, key, e)[k].kind = KindOf(k)
  BY DEF Tidy
<1>2. CASE k = key
  BY <1>0, <1>2
<1>3. CASE k # key
  <2>1. k \in DOMAIN o \ {key} /\ With(o, key, e)[k] = o[k]
    BY <1>0, <1>1, <1>3
  <2> QED BY <2>1 DEF Tidy
<1> QED BY <1>2, <1>3

LEMMA TidySame ==
    ASSUME NEW m \in Machines, NEW n \in Machines, SameParts(m, n), NEW o, Tidy(o, m)
    PROVE  Tidy(o, n)
BY SameCatalog DEF Tidy

LEMMA HeldTidy ==
    ASSUME NEW w \in Workers, w.machine \in Machines, Held(w)
    PROVE  Tidy(w.output, w.machine)
BY KeysType, PortKeys DEF Held, Tidy, KindOf

LEMMA HeldNothing ==
    ASSUME NEW w \in Workers, Held(w), w.mode # "RecordCompleted" \/ w.machine = NoMachine
    PROVE  w.output = NoOutput
<1>1. w.output \in Outputs /\ IsEmpty(w.output)
  BY DEF Workers, Held, IsEmpty
<1> QED BY <1>1, EmptyOutput

\* The bytes of a port join what it has emitted and what is collected of it.
LEMMA EmitSerialBatched ==
    ASSUME NEW w \in Workers, NEW v, Batched(w, v), NEW key \in Ports, NEW byte \in Nat
    PROVE  Batched(w, EmitSerial(v, key, byte))
<1> DEFINE x == EmitSerial(v, key, byte)
           o == PushSerial(v.output, key, byte)
           H == Handle(v.generation, key)
           em == [h \in DOMAIN v.emitted \cup {H} |->
                    IF h = H THEN Append(Stream(v.emitted, h), byte) ELSE v.emitted[h]]
<1>1. /\ v \in Workers /\ SameSession(w, v) /\ SameMachine(w, v)
      /\ v.sink = w.sink /\ Tidy(v.output, v.machine)
      /\ VIDEO \in DOMAIN w.output => w.machine.video /\ VIDEO \in DOMAIN v.output
      /\ IF VIDEO \in DOMAIN v.output THEN v.output[VIDEO].data = <<v.machine.picture>>
         ELSE w.machine.video => v.machine.picture = w.machine.picture
      /\ \A h \in Handles : Stream(v.emitted, h) = Stream(w.emitted, h) \o Collected(v, h)
      /\ DOMAIN v.emitted \subseteq DOMAIN w.emitted \cup {Handle(w.generation, k) : k \in Ports}
      /\ v.machine \in Machines
  BY DEF Batched, SameMachine
<1>2. v.output \in Outputs /\ v.emitted \in Streams /\ v.generation \in Nat /\ v.generation = w.generation
  BY <1>1 DEF Workers, SameSession
<1>3. key \in EndpointKeys /\ key # VIDEO /\ key # ETHERNET
  BY PortKeys
<1> DEFINE e == Entry("Serial", Append(DataOf(v.output, key), byte))
<1>4. e \in OutputEntries /\ e.kind = KindOf(key) /\ e.data = Append(DataOf(v.output, key), byte)
  <2>1. DataOf(v.output, key) \in Seq(Nat)
    BY <1>2, DataType
  <2>2. Append(DataOf(v.output, key), byte) \in Seq(Nat)
    BY <2>1
  <2> QED BY <2>2 DEF Entry, OutputEntries, OutputKinds, KindOf
<1>5. o = With(v.output, key, e)
  BY DEF PushSerial, PushTo
<1> HIDE DEF e
<1>6. /\ o \in Outputs /\ DOMAIN o = DOMAIN v.output \cup {key}
      /\ DataOf(o, key) = e.data /\ \A k : k # key => DataOf(o, k) = DataOf(v.output, k)
      /\ \A k \in DOMAIN v.output \ {key} : o[k] = v.output[k]
  <2>1. LET p == With(v.output, key, e)
        IN  /\ p \in Outputs /\ DOMAIN p = DOMAIN v.output \cup {key}
            /\ DataOf(p, key) = e.data /\ \A k : k # key => DataOf(p, k) = DataOf(v.output, k)
            /\ \A k \in DOMAIN v.output \ {key} : p[k] = v.output[k]
    BY <1>2, <1>3, <1>4, WithEffect, ZenonT(40)
  <2> QED BY <2>1, <1>5
<1>7. Tidy(o, v.machine)
  <2>1. key \in Keys(v.machine)
    BY <1>1, KeysType
  <2> QED BY <2>1, <1>1, <1>2, <1>3, <1>4, <1>5, TidyWith
<1> HIDE DEF o
<1>8. H \in Handles /\ H.generation = v.generation /\ H.key = key
  BY <1>2, <1>3, HandleType
<1> HIDE DEF H
<1>9. em \in Streams /\ DOMAIN em = DOMAIN v.emitted \cup {H}
      /\ \A h : Stream(em, h) = IF h = H THEN Append(Stream(v.emitted, h), byte) ELSE Stream(v.emitted, h)
  <2>1. DOMAIN em = DOMAIN v.emitted \cup {H} /\ DOMAIN em \in SUBSET Handles
    BY <1>2, <1>8, StreamsElim
  <2>2. \A h \in DOMAIN em : em[h] \in Seq(Nat)
    <3>1. Append(Stream(v.emitted, H), byte) \in Seq(Nat)
      <4>1. Stream(v.emitted, H) \in Seq(Nat)
        BY <1>2, StreamType
      <4> QED BY <4>1
    <3> QED BY <3>1, <2>1, <1>2, StreamsElim
  <2>3. em \in [DOMAIN em -> Seq(Nat)]
    BY <2>2
  <2>4. em \in Streams
    BY <2>1, <2>3, StreamsIntro
  <2>5. \A h : Stream(em, h) = IF h = H THEN Append(Stream(v.emitted, h), byte) ELSE Stream(v.emitted, h)
    BY <2>1 DEF Stream
  <2> QED BY <2>1, <2>4, <2>5
<1>10. x = [v EXCEPT !.tokens = byte, !.output = o, !.emitted = em]
  BY DEF EmitSerial, o, H
<1> HIDE DEF em, x
<1>11. /\ x \in Workers /\ x.output = o /\ x.emitted = em /\ SameSession(v, x)
       /\ x.machine = v.machine /\ x.sink = v.sink
  BY <1>1, <1>6, <1>9, <1>10 DEF Workers, SameSession
<1>12. ASSUME NEW h \in Handles
       PROVE  Stream(em, h) = Stream(w.emitted, h) \o Collected(x, h)
  <2>1. Stream(v.emitted, h) = Stream(w.emitted, h) \o Collected(v, h)
    BY <1>1
  <2>2. x.generation = v.generation
    BY <1>11 DEF SameSession
  <2>3. CASE h = H
    <3>1. Collected(v, h) = DataOf(v.output, key) /\ Collected(x, h) = Append(DataOf(v.output, key), byte)
      BY <2>2, <2>3, <1>4, <1>6, <1>8, <1>11 DEF Collected
    <3>2. Stream(w.emitted, h) \in Seq(Nat) /\ DataOf(v.output, key) \in Seq(Nat)
      BY <1>2, StreamType, DataType DEF Workers
    <3>3. \A s, t \in Seq(Nat) : Append(s \o t, byte) = s \o Append(t, byte)
      BY AppendAssociates
    <3> QED BY <3>1, <3>2, <3>3, <2>1, <2>3, <1>9
  <2>4. CASE h # H
    <3>1. ~ (h.generation = v.generation /\ h.key = key)
      BY <2>4, HandleIs DEF H
    <3>2. Collected(x, h) = Collected(v, h)
      BY <3>1, <2>2, <1>6, <1>11 DEF Collected
    <3> QED BY <3>2, <2>1, <2>4, <1>9
  <2> QED BY <2>3, <2>4
<1>13. DOMAIN em \subseteq DOMAIN w.emitted \cup {Handle(w.generation, k) : k \in Ports}
  BY <1>1, <1>2, <1>9 DEF H
<1>14. VIDEO \in DOMAIN o => VIDEO \in DOMAIN v.output /\ o[VIDEO] = v.output[VIDEO]
  BY <1>3, <1>6
<1>15. VIDEO \in DOMAIN v.output => VIDEO \in DOMAIN o
  BY <1>6
<1>16. SameSession(w, x) /\ SameMachine(w, x)
  BY <1>1, <1>11 DEF SameSession, SameMachine
<1>17. Batched(w, x)
  BY <1>1, <1>7, <1>11, <1>12, <1>13, <1>14, <1>15, <1>16 DEF Batched
<1> QED BY <1>17 DEF x

\* What the board drives is put out.
LEMMA QueueBatched ==
    ASSUME NEW w \in Workers, NEW u \in Workers, SameSession(w, u), SameMachine(w, u),
           Tidy(u.output, u.machine), DOMAIN u.output \subseteq {VIDEO},
           VIDEO \in DOMAIN w.output => w.machine.video,
           u.emitted = w.emitted, u.sink = w.sink
    PROVE  /\ Batched(w, QueueCurrent(u))
           /\ w.machine.video => VIDEO \in DOMAIN QueueCurrent(u).output
<1> DEFINE x == QueueCurrent(u)
           o == PublishCurrent(u.machine, u.output)
           m == [u.machine EXCEPT !.picture = u.machine.board]
           e == Entry("Video", <<u.machine.board>>)
<1>1. /\ u.machine \in Machines /\ u.machine # NoMachine /\ u.machine.board \in Nat
      /\ w.machine.video = u.machine.video /\ w.machine \in Machines
      /\ u.machine.received = w.machine.received /\ SameParts(u.machine, w.machine)
      /\ u.output \in Outputs
  BY MachineIsSome DEF SameMachine, SameParts, Machines, Workers
<1>2. x = [u EXCEPT !.output = o, !.machine = m]
  BY <1>1 DEF QueueCurrent, Workers
<1>3. /\ m \in Machines /\ SameParts(m, u.machine) /\ m.received = u.machine.received
      /\ m.picture = u.machine.board /\ m.video = u.machine.video
  BY <1>1 DEF Machines, SameParts
<1>4. e \in OutputEntries /\ e.kind = KindOf(VIDEO) /\ e.data = <<u.machine.board>>
  <2>1. <<u.machine.board>> \in Seq(Nat)
    BY <1>1
  <2> QED BY <2>1, PortKeys DEF Entry, OutputEntries, OutputKinds, KindOf
<1>5. /\ o \in Outputs /\ Tidy(o, u.machine)
      /\ DOMAIN o = IF u.machine.video THEN {VIDEO} ELSE {}
      /\ u.machine.video => o[VIDEO].data = <<u.machine.board>>
  <2>1. CASE u.machine.video
    <3>1. o = With(u.output, VIDEO, e)
      BY <2>1 DEF PublishCurrent, PublishVideo
    <3> HIDE DEF e, o
    <3>2. VIDEO \in EndpointKeys /\ VIDEO \in Keys(u.machine)
      BY <1>1, <2>1, KeysType, PortKeys
    <3>3. /\ With(u.output, VIDEO, e) \in Outputs
          /\ DOMAIN With(u.output, VIDEO, e) = DOMAIN u.output \cup {VIDEO}
          /\ With(u.output, VIDEO, e)[VIDEO] = e
      BY <1>1, <1>4, <3>2, WithEffect, ZenonT(40)
    <3>4. Tidy(With(u.output, VIDEO, e), u.machine)
      BY <1>1, <1>4, <3>2, TidyWith
    <3> QED BY <1>4, <2>1, <3>1, <3>3, <3>4
  <2>2. CASE ~u.machine.video
    <3>1. o = u.output
      BY <2>2 DEF PublishCurrent
    <3>2. VIDEO \notin Keys(u.machine)
      BY <1>1, <2>2, KeysType
    <3>3. DOMAIN u.output = {}
      BY <3>2 DEF Tidy
    <3> HIDE DEF o
    <3> QED BY <1>1, <2>2, <3>1, <3>3
  <2> QED BY <2>1, <2>2
<1> HIDE DEF o, e, m, x
<1>6. /\ x \in Workers /\ SameSession(u, x) /\ x.machine = m /\ x.output = o
      /\ x.emitted = u.emitted /\ x.sink = u.sink /\ x.generation = u.generation
  BY <1>2, <1>3, <1>5 DEF Workers, SameSession
<1>7. ASSUME NEW h \in Handles
      PROVE  Stream(x.emitted, h) = Stream(w.emitted, h) \o Collected(x, h)
  <2>1. Collected(x, h) = <<>>
    BY <1>5, <1>6, PortKeys DEF Collected, DataOf
  <2>2. Stream(w.emitted, h) \in Seq(Nat)
    BY StreamType DEF Workers
  <2> QED BY <1>6, <2>1, <2>2, ConcatEmpty
<1>8. SameSession(w, x) /\ SameMachine(w, x)
  BY <1>1, <1>3, <1>6 DEF SameSession, SameMachine, SameParts
<1>9. IF VIDEO \in DOMAIN x.output THEN x.output[VIDEO].data = <<x.machine.picture>>
      ELSE w.machine.video => x.machine.picture = w.machine.picture
  BY <1>1, <1>3, <1>5, <1>6
<1>10. Tidy(x.output, x.machine)
  <2>1. SameParts(u.machine, m)
    BY <1>3 DEF SameParts
  <2> QED BY <1>1, <1>3, <1>5, <1>6, <2>1, TidySame
<1>11. w.machine.video => VIDEO \in DOMAIN x.output
  BY <1>1, <1>5, <1>6
<1>12. DOMAIN x.emitted \subseteq DOMAIN w.emitted \cup {Handle(w.generation, key) : key \in Ports}
  BY <1>6
<1>13. x.sink = w.sink
  BY <1>6
<1>14. Batched(w, x)
  BY <1>6, <1>7, <1>8, <1>9, <1>10, <1>11, <1>12, <1>13 DEF Batched
<1> QED BY <1>11, <1>14 DEF x

\* What one instruction brings.
LEMMA EmitBatched ==
    ASSUME NEW w \in Workers, NEW v, Batched(w, v), NEW event \in Events
    PROVE  Batched(w, Emit(w, v, event))
<1>1. /\ v \in Workers /\ v.tokens \in Nat /\ v.output \in Outputs /\ v.machine \in Machines
      /\ SameMachine(w, v) /\ SameSession(w, v) /\ Tidy(v.output, v.machine)
      /\ v.sink = w.sink /\ v.emitted \in Streams
      /\ VIDEO \in DOMAIN w.output => w.machine.video /\ VIDEO \in DOMAIN v.output
      /\ IF VIDEO \in DOMAIN v.output THEN v.output[VIDEO].data = <<v.machine.picture>>
         ELSE w.machine.video => v.machine.picture = w.machine.picture
      /\ \A h \in Handles : Stream(v.emitted, h) = Stream(w.emitted, h) \o Collected(v, h)
      /\ DOMAIN v.emitted \subseteq DOMAIN w.emitted \cup {Handle(w.generation, key) : key \in Ports}
  BY DEF Batched, SameMachine, Workers
<1> DEFINE token == v.tokens + 1
<1>2. token \in Nat
  BY <1>1
<1>3. CASE event = "a"
  <2>1. Emit(w, v, event) = EmitSerial(v, SERIAL_A, token)
    BY <1>3 DEF Emit
  <2> HIDE DEF token
  <2> QED BY <2>1, <1>2, EmitSerialBatched, PortKeys
<1>4. CASE event = "b"
  <2>1. Emit(w, v, event) = EmitSerial(v, SERIAL_B, token)
    BY <1>4 DEF Emit
  <2> HIDE DEF token
  <2> QED BY <2>1, <1>2, EmitSerialBatched, PortKeys
<1>5. CASE event = "frame"
  <2> DEFINE x == Emit(w, v, event)
             e == Entry("Ethernet", Append(DataOf(v.output, ETHERNET), token))
  <2>1. x = [v EXCEPT !.tokens = token, !.output = With(v.output, ETHERNET, e)]
    BY <1>5 DEF Emit, PushEthernet, PushTo
  <2> HIDE DEF x, token
  <2>2. e \in OutputEntries /\ e.kind = KindOf(ETHERNET)
    <3>1. DataOf(v.output, ETHERNET) \in Seq(Nat)
      BY <1>1, DataType
    <3>2. Append(DataOf(v.output, ETHERNET), token) \in Seq(Nat)
      BY <3>1, <1>2
    <3> QED BY <3>2, PortKeys DEF Entry, OutputEntries, OutputKinds, KindOf
  <2> HIDE DEF e
  <2> DEFINE o == With(v.output, ETHERNET, e)
  <2>3. /\ o \in Outputs /\ DOMAIN o = DOMAIN v.output \cup {ETHERNET}
        /\ \A k : k # ETHERNET => DataOf(o, k) = DataOf(v.output, k)
        /\ \A k \in DOMAIN v.output \ {ETHERNET} : o[k] = v.output[k]
    <3>1. v.output \in Outputs /\ ETHERNET \in EndpointKeys
      BY <1>1, PortKeys
    <3> QED BY <3>1, <2>2, WithEffect, ZenonT(40)
  <2>4. Tidy(o, v.machine)
    BY <2>2, <1>1, PortKeys, KeysType, TidyWith
  <2> HIDE DEF o
  <2>5. /\ x \in Workers /\ x.output = o /\ x.emitted = v.emitted /\ SameSession(v, x)
        /\ x.machine = v.machine /\ x.sink = v.sink
        /\ x.generation = v.generation
    BY <2>1, <2>3, <1>1, <1>2 DEF o, Workers, SameSession
  <2>6. \A h \in Handles : Collected(x, h) = Collected(v, h)
    BY <2>3, <2>5, PortKeys DEF Collected
  <2>7. /\ VIDEO \in DOMAIN o => VIDEO \in DOMAIN v.output /\ o[VIDEO] = v.output[VIDEO]
        /\ VIDEO \in DOMAIN v.output => VIDEO \in DOMAIN o
    BY <2>3, PortKeys
  <2>8. SameSession(w, x) /\ SameMachine(w, x)
    BY <1>1, <2>5 DEF SameSession, SameMachine
  <2>9. Batched(w, x)
    BY <1>1, <2>4, <2>5, <2>6, <2>7, <2>8 DEF Batched
  <2> QED BY <2>9 DEF x
<1>6. CASE event = "picture"
  <2>1. CASE ~ v.machine.video
    BY <1>6, <2>1 DEF Emit
  <2>2. CASE v.machine.video
    <3> DEFINE x == Emit(w, v, event)
               e == Entry("Video", <<token>>)
    <3>1. x = [v EXCEPT !.tokens = token,
                        !.machine = [v.machine EXCEPT !.picture = token, !.board = token],
                        !.output = With(v.output, VIDEO, e)]
      BY <1>1, <1>6, <2>2 DEF Emit, PublishVideo, Workers
    <3> HIDE DEF x, token
    <3>2. e \in OutputEntries /\ e.kind = KindOf(VIDEO) /\ e.data = <<token>>
      <4>1. <<token>> \in Seq(Nat)
        BY <1>2
      <4> QED BY <4>1, PortKeys DEF Entry, OutputEntries, OutputKinds, KindOf
    <3> HIDE DEF e
    <3> DEFINE o == With(v.output, VIDEO, e)
    <3>3. /\ o \in Outputs /\ DOMAIN o = DOMAIN v.output \cup {VIDEO} /\ o[VIDEO] = e
          /\ \A k : k # VIDEO => DataOf(o, k) = DataOf(v.output, k)
      <4>1. v.output \in Outputs /\ VIDEO \in EndpointKeys
        BY <1>1, PortKeys
      <4> QED BY <4>1, <3>2, WithEffect, ZenonT(40)
    <3>4. Tidy(o, v.machine)
      BY <2>2, <3>2, <1>1, PortKeys, KeysType, TidyWith
    <3> HIDE DEF o
    <3> DEFINE m == [v.machine EXCEPT !.picture = token, !.board = token]
    <3>5. m \in Machines /\ SameParts(v.machine, m) /\ m.received = v.machine.received /\ m.picture = token
      BY <1>1, <1>2 DEF Machines, SameParts
    <3> HIDE DEF m
    <3>6. /\ x \in Workers /\ x.output = o /\ x.emitted = v.emitted /\ SameSession(v, x)
          /\ x.machine = m /\ x.sink = v.sink
          /\ x.generation = v.generation
      BY <3>1, <3>3, <3>5, <1>1, <1>2 DEF o, m, Workers, SameSession
    <3>7. \A h \in Handles : Collected(x, h) = Collected(v, h)
      BY <3>3, <3>6, PortKeys DEF Collected
    <3>8. SameSession(w, x) /\ SameMachine(w, x)
      BY <1>1, <3>5, <3>6 DEF SameSession, SameMachine, SameParts
    <3>9. Tidy(o, m)
      BY <3>4, <3>5, <1>1, TidySame
    <3>10. Batched(w, x)
      BY <1>1, <3>2, <3>3, <3>5, <3>6, <3>7, <3>8, <3>9 DEF Batched
    <3> QED BY <3>10 DEF x
  <2> QED BY <2>1, <2>2
<1>7. CASE event = "reboot"
  <2> DEFINE x == Emit(w, v, event)
             m == [v.machine EXCEPT !.board = 0]
  <2>1. x = [v EXCEPT !.machine = m]
    BY <1>1, <1>7 DEF Emit, Workers
  <2>2. m \in Machines /\ SameParts(v.machine, m) /\ m.received = v.machine.received
        /\ m.picture = v.machine.picture
    BY <1>1 DEF Machines, SameParts
  <2> HIDE DEF x, m
  <2>3. /\ x \in Workers /\ x.output = v.output /\ x.emitted = v.emitted /\ SameSession(v, x)
        /\ x.machine = m /\ x.sink = v.sink /\ x.generation = v.generation
    BY <2>1, <2>2, <1>1 DEF Workers, SameSession
  <2>4. \A h \in Handles : Collected(x, h) = Collected(v, h)
    BY <2>3 DEF Collected
  <2>5. SameSession(w, x) /\ SameMachine(w, x)
    BY <1>1, <2>2, <2>3 DEF SameSession, SameMachine, SameParts
  <2>6. Tidy(x.output, m)
    BY <1>1, <2>2, <2>3, TidySame
  <2>7. Batched(w, x)
    BY <1>1, <2>2, <2>3, <2>4, <2>5, <2>6 DEF Batched
  <2> QED BY <2>7 DEF x
<1>8. CASE event = "reset"
  <2> DEFINE m == [v.machine EXCEPT !.board = 0]
             u == [v EXCEPT !.emitted = w.emitted, !.machine = m, !.output = NoOutput]
  <2>1. Emit(w, v, event) = QueueCurrent(u)
    BY <1>1, <1>8 DEF Emit, ResetMachine, Workers
  <2>2. m \in Machines /\ SameParts(v.machine, m) /\ m.received = v.machine.received
    BY <1>1 DEF Machines, SameParts
  <2> HIDE DEF m
  <2>3. w.emitted \in Streams /\ NoOutput \in Outputs /\ DOMAIN NoOutput = {}
    BY NoOutputType DEF Workers
  <2>4. /\ u \in Workers /\ u.output = NoOutput /\ u.emitted = w.emitted /\ SameSession(v, u)
        /\ u.machine = m /\ u.sink = v.sink
    BY <1>1, <2>2, <2>3 DEF Workers, SameSession
  <2> HIDE DEF u
  <2>5. SameSession(w, u) /\ SameMachine(w, u)
    BY <1>1, <2>2, <2>4 DEF SameSession, SameMachine, SameParts
  <2>6. Tidy(u.output, u.machine) /\ DOMAIN u.output \subseteq {VIDEO}
    BY <2>3, <2>4 DEF Tidy
  <2>7. Batched(w, QueueCurrent(u))
    BY <1>1, <2>4, <2>5, <2>6, QueueBatched
  <2> QED BY <2>1, <2>7
<1> QED BY <1>3, <1>4, <1>5, <1>6, <1>7, <1>8 DEF Events

\* The instructions of a batch, one by one.
LEMMA ExecutedSteps ==
    ASSUME NEW w, NEW events, Len(events) \in Nat
    PROVE  \E g : /\ g[0] = w
                  /\ \A k \in 1 .. Len(events) : g[k] = Emit(w, g[k - 1], events[k])
                  /\ Executed(w, events) = g[Len(events)]
<1> DEFINE F(g, n) == g = [i \in 0..n |-> IF i = 0 THEN w ELSE Emit(w, g[i - 1], events[i])]
           T == {n \in Nat : \E g : F(g, n)}
<1>1. Executed(w, events) = (CHOOSE g : F(g, Len(events)))[Len(events)]
  BY DEF Executed
<1>2. 0 \in T
  <2> DEFINE g == [i \in 0..0 |-> w]
  <2>1. F(g, 0)
    OBVIOUS
  <2> HIDE DEF F
  <2> QED BY <2>1
<1>3. ASSUME NEW n \in Nat, n \in T PROVE n + 1 \in T
  <2>1. PICK g : F(g, n)
    BY <1>3
  <2> DEFINE h == [i \in 0..n + 1 |-> IF i <= n THEN g[i] ELSE Emit(w, g[n], events[n + 1])]
  <2>2. \A i \in 0..n : g[i] = IF i = 0 THEN w ELSE Emit(w, g[i - 1], events[i])
    BY <2>1
  <2>3. \A i \in 0..n + 1 : h[i] = IF i = 0 THEN w ELSE Emit(w, h[i - 1], events[i])
    <3>1. SUFFICES ASSUME NEW i \in 0..n + 1
                   PROVE  h[i] = IF i = 0 THEN w ELSE Emit(w, h[i - 1], events[i])
      OBVIOUS
    <3>2. CASE i = 0
      BY <2>2, <3>2
    <3>3. CASE i \in 1 .. n
      <4>1. h[i] = g[i] /\ h[i - 1] = g[i - 1] /\ i \in 0 .. n /\ i # 0
        BY <3>3
      <4> QED BY <2>2, <4>1
    <3>4. CASE i = n + 1
      <4>1. h[i] = Emit(w, g[n], events[n + 1]) /\ h[i - 1] = g[n] /\ i # 0
        BY <3>4
      <4> QED BY <3>4, <4>1
    <3> QED BY <3>2, <3>3, <3>4
  <2>4. h = [i \in 0..n + 1 |-> h[i]]
    OBVIOUS
  <2> HIDE DEF h
  <2>5. F(h, n + 1)
    BY <2>3, <2>4
  <2> HIDE DEF F
  <2> QED BY <2>5
<1>4. \A n \in Nat : n \in T
  <2> HIDE DEF T
  <2> QED BY <1>2, <1>3, SetInduction
<1>5. \E g : F(g, Len(events))
  BY <1>4
<1> DEFINE f == CHOOSE g : F(g, Len(events))
<1>6. F(f, Len(events))
  <2> HIDE DEF F
  <2> QED BY <1>5
<1>7. Executed(w, events) = f[Len(events)]
  BY <1>1
<1> HIDE DEF f
<1>8. f[0] = w /\ \A k \in 1 .. Len(events) : f[k] = Emit(w, f[k - 1], events[k])
  BY <1>6
<1> QED BY <1>7, <1>8

LEMMA ExecutedBatched ==
    ASSUME NEW w \in Workers, w.machine \in Machines, Held(w), NEW events \in Seq(Events)
    PROVE  Batched(w, Executed(w, events))
<1>1. Batched(w, w)
  <2>1. /\ DOMAIN w.output \subseteq {VIDEO}
        /\ VIDEO \in DOMAIN w.output => w.machine.video /\ w.output[VIDEO].data = <<w.machine.picture>>
    BY DEF Held
  <2>2. Tidy(w.output, w.machine)
    BY HeldTidy
  <2>3. ASSUME NEW h \in Handles
        PROVE  Stream(w.emitted, h) = Stream(w.emitted, h) \o Collected(w, h)
    <3>1. Collected(w, h) = <<>>
      BY <2>1, PortKeys DEF Collected, DataOf
    <3>2. Stream(w.emitted, h) \in Seq(Nat)
      BY StreamType DEF Workers
    <3> QED BY <3>1, <3>2, ConcatEmpty
  <2>4. DOMAIN w.emitted \subseteq DOMAIN w.emitted \cup {Handle(w.generation, key) : key \in Ports}
    OBVIOUS
  <2> QED BY <2>1, <2>2, <2>3, <2>4 DEF Batched, SameSession, SameMachine, SameParts
<1>2. PICK g : /\ g[0] = w
               /\ \A k \in 1 .. Len(events) : g[k] = Emit(w, g[k - 1], events[k])
               /\ Executed(w, events) = g[Len(events)]
  BY ExecutedSteps
<1> DEFINE T == {n \in Nat : n <= Len(events) => Batched(w, g[n])}
<1>3. 0 \in T
  BY <1>1, <1>2
<1>4. ASSUME NEW n \in Nat, n \in T PROVE n + 1 \in T
  <2>1. SUFFICES ASSUME n + 1 <= Len(events) PROVE Batched(w, g[n + 1])
    OBVIOUS
  <2>2. n + 1 \in 1 .. Len(events) /\ (n + 1) - 1 = n /\ events[n + 1] \in Events
    BY <2>1
  <2>3. g[n + 1] = Emit(w, g[n], events[n + 1])
    BY <2>2, <1>2
  <2>4. Batched(w, g[n])
    BY <1>4, <2>1
  <2> QED BY <2>2, <2>3, <2>4, EmitBatched
<1>5. \A n \in Nat : n \in T
  <2> HIDE DEF T
  <2> QED BY <1>3, <1>4, SetInduction
<1> QED BY <1>2, <1>5

-----------------------------------------------------------------------------
(* Delivery.                                                               *)

\* The sink after the worker's handler took everything collected.
Sent(w, sink) ==
    /\ sink.open = w.sink.open
    /\ \A h \in Handles : Stream(sink.serial, h) = Stream(w.sink.serial, h) \o Collected(w, h)
    /\ DOMAIN sink.serial \subseteq DOMAIN w.sink.serial \cup {Handle(w.generation, key) : key \in Ports}
    /\ DOMAIN sink.video = DOMAIN w.sink.video \cup
         (IF VIDEO \in DOMAIN w.output THEN {Handle(w.generation, VIDEO)} ELSE {})
    /\ VIDEO \in DOMAIN w.output => sink.video[Handle(w.generation, VIDEO)] = w.output[VIDEO].data
    /\ \A h \in DOMAIN w.sink.video :
         VIDEO \notin DOMAIN w.output \/ h # Handle(w.generation, VIDEO)
           => sink.video[h] = w.sink.video[h]
    /\ \/ sink = w.sink
       \/ sink.scheduled /\ sink.posted = (w.sink.posted \/ ~w.sink.scheduled)

\* v is worker w once what it collected has gone out.
Delivered(w, v) ==
    /\ v \in Workers /\ SameSession(w, v) /\ v.machine = w.machine
    /\ v.output = NoOutput /\ v.emitted = w.emitted
    /\ IF w.handler THEN Sent(w, v.sink) ELSE v.sink = w.sink

LEMMA SerialItems ==
    ASSUME NEW w \in Workers, w.machine \in Machines, Tidy(w.output, w.machine)
    PROVE  LET items == Items(w, "Serial")
           IN  /\ items \in Streams
               /\ DOMAIN items \subseteq {Handle(w.generation, key) : key \in Ports}
               /\ \A h \in Handles : Stream(items, h) = Collected(w, h)
<1> DEFINE items == Items(w, "Serial")
           K == KeysOf(w.output, {"Serial"})
<1>1. w.output \in Outputs /\ w.generation \in Nat
  BY DEF Workers
<1>2. K \subseteq Ports /\ K \subseteq DOMAIN w.output /\ (Ports \cap DOMAIN w.output) \subseteq K
  <2>1. ASSUME NEW key \in K PROVE key \in Ports
    <3>1. key \in DOMAIN w.output /\ w.output[key].kind = "Serial"
      BY <2>1 DEF KeysOf
    <3>2. key \in Ports \cup {ETHERNET, VIDEO} /\ w.output[key].kind = KindOf(key)
      BY <3>1 DEF Tidy
    <3> QED BY <3>1, <3>2 DEF KindOf
  <2>2. ASSUME NEW key \in Ports, key \in DOMAIN w.output PROVE key \in K
    <3>1. w.output[key].kind = KindOf(key)
      BY <2>2 DEF Tidy
    <3> QED BY <3>1, <2>2 DEF KindOf, KeysOf
  <2>3. K \subseteq DOMAIN w.output
    BY DEF KeysOf
  <2> QED BY <2>1, <2>2, <2>3
<1>3. /\ DOMAIN items = {Handle(w.generation, key) : key \in K}
      /\ \A h \in DOMAIN items : items[h] = w.output[h.key].data
      /\ items = [h \in DOMAIN items |-> items[h]]
  BY DEF Items
<1> HIDE DEF items, K
<1>4. \A key \in EndpointKeys : Handle(w.generation, key) \in Handles
        /\ Handle(w.generation, key).key = key /\ Handle(w.generation, key).generation = w.generation
  BY <1>1, HandleType
<1>5. DOMAIN items \in SUBSET Handles /\ \A h \in DOMAIN items : h.key \in K /\ h.generation = w.generation
  BY <1>2, <1>3, <1>4, PortKeys
<1>6. \A h \in DOMAIN items : items[h] \in Seq(Nat)
  <2>1. SUFFICES ASSUME NEW h \in DOMAIN items PROVE items[h] \in Seq(Nat)
    OBVIOUS
  <2>2. h.key \in DOMAIN w.output
    BY <1>2, <1>5
  <2>3. w.output[h.key] \in OutputEntries
    BY <2>2, <1>1, OutputsElim
  <2> QED BY <2>3, <1>3 DEF OutputEntries
<1>7. items \in [DOMAIN items -> Seq(Nat)]
  BY <1>3, <1>6
<1>8. items \in Streams
  BY <1>5, <1>7, StreamsIntro
<1>9. ASSUME NEW h \in Handles PROVE Stream(items, h) = Collected(w, h)
  <2>1. CASE h \in DOMAIN items
    <3>1. h.key \in Ports /\ h.generation = w.generation /\ h.key \in DOMAIN w.output
      BY <2>1, <1>2, <1>5
    <3> QED BY <2>1, <3>1, <1>3 DEF Stream, Collected, DataOf
  <2>2. CASE h \notin DOMAIN items
    <3>1. ~ (h.generation = w.generation /\ h.key \in K)
      BY <2>2, <1>3, HandleIs
    <3>2. Collected(w, h) = <<>>
      BY <3>1, <1>2 DEF Collected, DataOf
    <3> QED BY <2>2, <3>2 DEF Stream
  <2> QED BY <2>1, <2>2
<1> QED BY <1>2, <1>3, <1>8, <1>9 DEF items

LEMMA VideoItems ==
    ASSUME NEW w \in Workers, w.machine \in Machines, Tidy(w.output, w.machine)
    PROVE  LET items == Items(w, "Video")
           IN  /\ items \in Streams
               /\ DOMAIN items =
                    IF VIDEO \in DOMAIN w.output THEN {Handle(w.generation, VIDEO)} ELSE {}
               /\ VIDEO \in DOMAIN w.output =>
                    items[Handle(w.generation, VIDEO)] = w.output[VIDEO].data
<1> DEFINE items == Items(w, "Video")
           K == KeysOf(w.output, {"Video"})
<1>1. w.output \in Outputs /\ w.generation \in Nat
  BY DEF Workers
<1>2. K = {VIDEO} \cap DOMAIN w.output
  <2>1. ASSUME NEW key \in K PROVE key = VIDEO /\ key \in DOMAIN w.output
    <3>1. key \in DOMAIN w.output /\ w.output[key].kind = "Video"
      BY <2>1 DEF KeysOf
    <3>2. key \in Ports \cup {ETHERNET, VIDEO} /\ w.output[key].kind = KindOf(key)
      BY <3>1 DEF Tidy
    <3> QED BY <3>1, <3>2 DEF KindOf
  <2>2. ASSUME VIDEO \in DOMAIN w.output PROVE VIDEO \in K
    <3>1. w.output[VIDEO].kind = KindOf(VIDEO)
      BY <2>2 DEF Tidy
    <3> QED BY <3>1, <2>2, PortKeys DEF KindOf, KeysOf
  <2> QED BY <2>1, <2>2
<1>3. /\ DOMAIN items = {Handle(w.generation, key) : key \in K}
      /\ \A h \in DOMAIN items : items[h] = w.output[h.key].data
      /\ items = [h \in DOMAIN items |-> items[h]]
  BY DEF Items
<1> HIDE DEF items, K
<1>4. Handle(w.generation, VIDEO) \in Handles /\ Handle(w.generation, VIDEO).key = VIDEO
  BY <1>1, HandleType, PortKeys
<1>5. DOMAIN items = IF VIDEO \in DOMAIN w.output THEN {Handle(w.generation, VIDEO)} ELSE {}
  BY <1>2, <1>3
<1>6. VIDEO \in DOMAIN w.output => items[Handle(w.generation, VIDEO)] = w.output[VIDEO].data
  BY <1>3, <1>4, <1>5
<1>7. VIDEO \in DOMAIN w.output => w.output[VIDEO].data \in Seq(Nat)
  BY <1>1, OutputsElim DEF OutputEntries
<1>8. \A h \in DOMAIN items : items[h] \in Seq(Nat)
  BY <1>5, <1>6, <1>7
<1>9. items \in [DOMAIN items -> Seq(Nat)]
  BY <1>3, <1>8
<1>10. DOMAIN items \in SUBSET Handles
  BY <1>4, <1>5
<1>11. items \in Streams
  BY <1>9, <1>10, StreamsIntro
<1> QED BY <1>5, <1>6, <1>11 DEF items

\* Everything collected goes out, and the first output after a drain posts the
\* next one.
LEMMA DeliverEffect ==
    ASSUME NEW w \in Workers, w.machine \in Machines, Tidy(w.output, w.machine),
           w.handler => w.sink.open
    PROVE  Delivered(w, DeliverOutput(w))
<1>1. /\ w.output \in Outputs /\ w.sink \in Sinks /\ w.generation \in Nat
      /\ w.sink.serial \in Streams /\ w.sink.video \in Streams
  BY DEF Workers, Sinks
<1>2. CASE IsEmpty(w.output)
  <2>1. DeliverOutput(w) = w /\ w.output = NoOutput /\ DOMAIN w.output = {}
    BY <1>1, <1>2, EmptyOutput DEF DeliverOutput, IsEmpty
  <2>2. ASSUME NEW h \in Handles
        PROVE  Stream(w.sink.serial, h) = Stream(w.sink.serial, h) \o Collected(w, h)
    <3>1. Collected(w, h) = <<>>
      BY <2>1 DEF Collected, DataOf
    <3> QED BY <3>1, <1>1, StreamType, ConcatEmpty
  <2>3. Sent(w, w.sink)
    BY <2>1, <2>2 DEF Sent
  <2> QED BY <2>1, <2>3 DEF Delivered, SameSession
<1>3. CASE ~IsEmpty(w.output)
  <2> DEFINE serial == Items(w, "Serial")
             video == Items(w, "Video")
             u == [w EXCEPT !.output = NoOutput]
  <2>1. AllDeclared(Catalog(w.machine), w.output)
    BY <1>1, TidyIsDeclared
  <2>2. DeliverOutput(w) = CallHandler(u, serial, video)
    BY <1>3, <2>1 DEF DeliverOutput
  <2>3. /\ serial \in Streams /\ DOMAIN serial \subseteq {Handle(w.generation, key) : key \in Ports}
        /\ \A h \in Handles : Stream(serial, h) = Collected(w, h)
    BY SerialItems
  <2>4. /\ video \in Streams
        /\ DOMAIN video = IF VIDEO \in DOMAIN w.output THEN {Handle(w.generation, VIDEO)} ELSE {}
        /\ VIDEO \in DOMAIN w.output =>
             video[Handle(w.generation, VIDEO)] = w.output[VIDEO].data
    BY VideoItems
  <2>5. /\ u \in Workers /\ SameSession(w, u) /\ u.machine = w.machine
        /\ u.output = NoOutput /\ u.emitted = w.emitted
        /\ u.sink = w.sink /\ u.handler = w.handler
    BY NoOutputType DEF Workers, SameSession
  <2> HIDE DEF serial, video, u
  <2>6. CASE ~w.handler
    <3>1. CallHandler(u, serial, video) = u
      BY <2>5, <2>6 DEF CallHandler
    <3> QED BY <2>2, <2>5, <2>6, <3>1 DEF Delivered
  <2>7. CASE w.handler /\ DOMAIN serial \cup DOMAIN video = {}
    <3>1. CallHandler(u, serial, video) = u
      BY <2>7 DEF CallHandler
    <3>2. \A h \in Handles : Collected(w, h) = <<>>
      BY <2>3, <2>7 DEF Stream
    <3>3. \A h \in Handles : Stream(w.sink.serial, h) = Stream(w.sink.serial, h) \o Collected(w, h)
      BY <3>2, <1>1, StreamType, ConcatEmpty
    <3>4. VIDEO \notin DOMAIN w.output
      BY <2>4, <2>7
    <3>5. Sent(w, w.sink)
      BY <3>3, <3>4 DEF Sent
    <3> QED BY <2>2, <2>5, <3>1, <3>5 DEF Delivered
  <2>8. CASE w.handler /\ DOMAIN serial \cup DOMAIN video # {}
    <3> DEFINE s == Publish(w.sink, serial, video)
    <3>1. CallHandler(u, serial, video) = [u EXCEPT !.sink = s]
      BY <2>5, <2>8 DEF CallHandler
    <3>2. s = [serial |-> AppendPending(w.sink.serial, serial),
               video |-> ReplacePending(w.sink.video, video), scheduled |-> TRUE,
               posted |-> w.sink.posted \/ ~w.sink.scheduled, open |-> w.sink.open]
      <4> DEFINE p == w.sink.posted \/ ~w.sink.scheduled
                 q == AppendPending(w.sink.serial, serial)
                 r == ReplacePending(w.sink.video, video)
      <4>1. s = [w.sink EXCEPT !.scheduled = TRUE, !.posted = p, !.serial = q, !.video = r]
        BY DEF Publish
      <4> HIDE DEF s, p, q, r
      <4>2. s = [serial |-> q, video |-> r, scheduled |-> TRUE, posted |-> p, open |-> w.sink.open]
        BY <1>1, <4>1 DEF Sinks
      <4> QED BY <4>2 DEF p, q, r
    <3> HIDE DEF s
    <3>3. /\ AppendPending(w.sink.serial, serial) \in Streams
          /\ DOMAIN AppendPending(w.sink.serial, serial) = DOMAIN w.sink.serial \cup DOMAIN serial
          /\ \A h : Stream(AppendPending(w.sink.serial, serial), h)
                      = Stream(w.sink.serial, h) \o Stream(serial, h)
      BY <1>1, <2>3, AppendEffect
    <3>4. LET q == ReplacePending(w.sink.video, video)
          IN  /\ q \in Streams /\ DOMAIN q = DOMAIN w.sink.video \cup DOMAIN video
              /\ \A h \in DOMAIN video : q[h] = video[h]
              /\ \A h \in DOMAIN w.sink.video \ DOMAIN video : q[h] = w.sink.video[h]
      BY <1>1, <2>4, ReplaceEffect
    <3>5. s \in Sinks
      BY <1>1, <3>2, <3>3, <3>4 DEF Sinks
    <3>6. /\ \A h \in Handles : Stream(s.serial, h) = Stream(w.sink.serial, h) \o Collected(w, h)
          /\ DOMAIN s.serial \subseteq DOMAIN w.sink.serial \cup {Handle(w.generation, key) : key \in Ports}
      BY <2>3, <3>2, <3>3
    <3>7. /\ DOMAIN s.video = DOMAIN w.sink.video \cup
               (IF VIDEO \in DOMAIN w.output THEN {Handle(w.generation, VIDEO)} ELSE {})
          /\ VIDEO \in DOMAIN w.output => s.video[Handle(w.generation, VIDEO)] = w.output[VIDEO].data
          /\ \A h \in DOMAIN w.sink.video :
               VIDEO \notin DOMAIN w.output \/ h # Handle(w.generation, VIDEO)
                 => s.video[h] = w.sink.video[h]
      BY <2>4, <3>2, <3>4
    <3>8. s.open = w.sink.open /\ s.scheduled /\ s.posted = (w.sink.posted \/ ~w.sink.scheduled)
      BY <3>2
    <3>9. Sent(w, s)
      BY <3>6, <3>7, <3>8 DEF Sent
    <3>10. /\ [u EXCEPT !.sink = s] \in Workers /\ SameSession(w, [u EXCEPT !.sink = s])
           /\ [u EXCEPT !.sink = s].sink = s /\ [u EXCEPT !.sink = s].machine = u.machine
           /\ [u EXCEPT !.sink = s].output = u.output /\ [u EXCEPT !.sink = s].emitted = u.emitted
      BY <2>5, <3>5 DEF Workers, SameSession
    <3> QED BY <2>2, <2>5, <2>8, <3>1, <3>9, <3>10 DEF Delivered
  <2> QED BY <2>6, <2>7, <2>8
<1> QED BY <1>2, <1>3

\* Frames go to the NAT session, the rest to the handler.
LEMMA FlushEffect ==
    ASSUME NEW w \in Workers, w.machine \in Machines, Tidy(w.output, w.machine), w.alive,
           w.handler => w.sink.open
    PROVE  Delivered(w, Flush(w))
<1>1. w.output \in Outputs /\ w.generation \in Nat
  BY DEF Workers
<1>2. CASE IsEmpty(w.output)
  <2>1. DrainNetwork(w) = w
    BY <1>2 DEF DrainNetwork
  <2>2. Flush(w) = DeliverOutput(w)
    BY <2>1 DEF Flush
  <2> QED BY <2>2, DeliverEffect
<1>3. CASE ~IsEmpty(w.output)
  <2> DEFINE o == WithoutEthernet(w.output)
             y == [w EXCEPT !.output = o]
  <2>1. AllDeclared(Catalog(w.machine), w.output)
    BY <1>1, TidyIsDeclared
  <2>2. AllDeclared(Catalog(w.machine), EthernetOutputs(w.output))
    <3>1. /\ DOMAIN EthernetOutputs(w.output) \subseteq DOMAIN w.output
          /\ \A key \in DOMAIN EthernetOutputs(w.output) : EthernetOutputs(w.output)[key] = w.output[key]
      BY DEF EthernetOutputs, KeysOf
    <3> QED BY <2>1, <3>1 DEF AllDeclared
  <2>3. DrainNetwork(w) = y
    BY <1>3, <2>2 DEF DrainNetwork
  <2>4. /\ DOMAIN o \subseteq DOMAIN w.output /\ \A key \in DOMAIN o : o[key] = w.output[key]
        /\ \A key \in DOMAIN w.output : key \in Ports \cup {VIDEO} => key \in DOMAIN o
        /\ o = [key \in DOMAIN o |-> o[key]]
    <3>1. /\ DOMAIN o = DOMAIN w.output \ KeysOf(w.output, {"Ethernet"})
          /\ \A key \in DOMAIN o : o[key] = w.output[key]
          /\ o = [key \in DOMAIN o |-> o[key]]
      BY DEF WithoutEthernet
    <3>2. ASSUME NEW key \in DOMAIN w.output, key \in Ports \cup {VIDEO}
          PROVE  key \notin KeysOf(w.output, {"Ethernet"})
      <4>1. w.output[key].kind = KindOf(key)
        BY <3>2 DEF Tidy
      <4>2. KindOf(key) # "Ethernet"
        BY <3>2, PortKeys DEF KindOf
      <4> QED BY <4>1, <4>2 DEF KeysOf
    <3> HIDE DEF o
    <3> QED BY <3>1, <3>2
  <2> HIDE DEF o
  <2>5. o \in Outputs
    <3>1. DOMAIN o \in SUBSET EndpointKeys /\ \A key \in DOMAIN o : o[key] \in OutputEntries
      BY <1>1, <2>4, OutputsElim
    <3>2. o \in [DOMAIN o -> OutputEntries]
      BY <2>4, <3>1
    <3> QED BY <3>1, <3>2, OutputsIntro
  <2>6. /\ y \in Workers /\ y.output = o /\ SameSession(w, y) /\ y.machine = w.machine
        /\ y.emitted = w.emitted /\ y.sink = w.sink /\ y.generation = w.generation
        /\ y.handler = w.handler /\ y.alive = w.alive
    BY <2>5 DEF Workers, SameSession
  <2> HIDE DEF y
  <2>7. Tidy(o, w.machine)
    BY <2>4 DEF Tidy
  <2>8. Flush(w) = DeliverOutput(y)
    BY <2>3, <2>6 DEF Flush
  <2>9. Delivered(y, DeliverOutput(y))
    BY <2>6, <2>7, DeliverEffect
  <2>10. \A h \in Handles : Collected(y, h) = Collected(w, h)
    BY <2>4, <2>6 DEF Collected, DataOf
  <2>11. /\ (VIDEO \in DOMAIN o) = (VIDEO \in DOMAIN w.output)
         /\ VIDEO \in DOMAIN o => o[VIDEO] = w.output[VIDEO]
    BY <2>4
  <2>12. ASSUME NEW sink, Sent(y, sink) PROVE Sent(w, sink)
    <3>1. y.output = o /\ y.sink = w.sink /\ y.generation = w.generation
      BY <2>6
    <3>2. /\ sink.open = w.sink.open
          /\ \A h \in Handles : Stream(sink.serial, h) = Stream(w.sink.serial, h) \o Collected(w, h)
          /\ DOMAIN sink.serial \subseteq DOMAIN w.sink.serial \cup {Handle(w.generation, key) : key \in Ports}
      BY <2>10, <2>12, <3>1 DEF Sent
    <3>3. /\ DOMAIN sink.video = DOMAIN w.sink.video \cup
               (IF VIDEO \in DOMAIN w.output THEN {Handle(w.generation, VIDEO)} ELSE {})
          /\ VIDEO \in DOMAIN w.output => sink.video[Handle(w.generation, VIDEO)] = w.output[VIDEO].data
          /\ \A h \in DOMAIN w.sink.video :
               VIDEO \notin DOMAIN w.output \/ h # Handle(w.generation, VIDEO)
                 => sink.video[h] = w.sink.video[h]
      BY <2>11, <2>12, <3>1 DEF Sent
    <3>4. \/ sink = w.sink
          \/ sink.scheduled /\ sink.posted = (w.sink.posted \/ ~w.sink.scheduled)
      BY <2>12, <3>1 DEF Sent
    <3> QED BY <3>2, <3>3, <3>4 DEF Sent
  <2> QED BY <2>6, <2>8, <2>9, <2>12 DEF Delivered, SameSession
<1> QED BY <1>2, <1>3

-----------------------------------------------------------------------------
(* Commands that deliver.                                                  *)

Current(w) == Handle(w.generation, VIDEO)

\* Worker w put out something, and v is the worker once that has gone out: what
\* a port emitted was added to its stream and to what waits for the window, and
\* the picture the machine drives waits if it is new.
Served(w, v) ==
    /\ v \in Workers /\ v.output = NoOutput /\ SameSession(w, v) /\ SameMachine(w, v)
    /\ w.handler \/ v.sink = w.sink
    /\ v.sink.open = w.sink.open
    /\ \A h \in Handles : \E more \in Seq(Nat) :
         /\ Stream(v.emitted, h) = Stream(w.emitted, h) \o more
         /\ w.handler => Stream(v.sink.serial, h) = Stream(w.sink.serial, h) \o more
    /\ DOMAIN v.emitted \subseteq DOMAIN w.emitted \cup {Handle(w.generation, key) : key \in Ports}
    /\ DOMAIN v.sink.serial \subseteq DOMAIN w.sink.serial \cup {Handle(w.generation, key) : key \in Ports}
    /\ DOMAIN w.sink.video \subseteq DOMAIN v.sink.video
    /\ \A h \in DOMAIN v.sink.video :
         \/ h = Current(w) /\ v.sink.video[h] = <<v.machine.picture>>
         \/ h \in DOMAIN w.sink.video /\ v.sink.video[h] = w.sink.video[h]
    /\ w.handler /\ VIDEO \in DOMAIN w.output =>
         Current(w) \in DOMAIN v.sink.video /\ v.sink.video[Current(w)] = <<v.machine.picture>>
    /\ w.handler =>
         \/ Current(w) \in DOMAIN v.sink.video /\ v.sink.video[Current(w)] = <<v.machine.picture>>
         \/ /\ Current(w) \in DOMAIN v.sink.video =>
                 Current(w) \in DOMAIN w.sink.video
                   /\ v.sink.video[Current(w)] = w.sink.video[Current(w)]
            /\ w.machine.video => v.machine.picture = w.machine.picture
    /\ \/ v.sink = w.sink
       \/ v.sink.scheduled /\ v.sink.posted = (w.sink.posted \/ ~w.sink.scheduled)

\* The picture the machine drives waits for the window.
Republished(w) == w.handler /\ w.machine.video => Current(w) \in DOMAIN w.sink.video

LEMMA BatchServed ==
    ASSUME NEW w \in Workers, NEW x, Batched(w, x), NEW v, Delivered(x, v)
    PROVE  /\ Served(w, v)
           /\ (w.machine.video => VIDEO \in DOMAIN x.output) => Republished(v)
<1>1. /\ x \in Workers /\ SameSession(w, x) /\ SameMachine(w, x) /\ x.sink = w.sink
      /\ VIDEO \in DOMAIN w.output => VIDEO \in DOMAIN x.output
      /\ IF VIDEO \in DOMAIN x.output THEN x.output[VIDEO].data = <<x.machine.picture>>
         ELSE w.machine.video => x.machine.picture = w.machine.picture
      /\ \A h \in Handles : Stream(x.emitted, h) = Stream(w.emitted, h) \o Collected(x, h)
      /\ DOMAIN x.emitted \subseteq DOMAIN w.emitted \cup {Handle(w.generation, key) : key \in Ports}
      /\ x.generation = w.generation /\ x.handler = w.handler
  BY DEF Batched, SameSession
<1>2. /\ v \in Workers /\ SameSession(x, v) /\ v.machine = x.machine
      /\ v.output = NoOutput /\ v.emitted = x.emitted
      /\ IF w.handler THEN Sent(x, v.sink) ELSE v.sink = w.sink
  BY <1>1 DEF Delivered
<1>3. SameSession(w, v) /\ SameMachine(w, v)
  BY <1>1, <1>2 DEF SameSession, SameMachine
<1>4. \A h \in Handles : Collected(x, h) \in Seq(Nat)
  BY <1>1, DataType DEF Collected, Workers
<1>5. CASE ~w.handler
  <2>1. v.sink = w.sink
    BY <1>2, <1>5
  <2>2. Served(w, v)
    BY <1>1, <1>2, <1>3, <1>4, <1>5, <2>1 DEF Served
  <2> QED BY <1>3, <1>5, <2>2 DEF Republished, SameSession
<1>6. CASE w.handler
  <2>1. /\ v.sink.open = w.sink.open
        /\ \A h \in Handles : Stream(v.sink.serial, h) = Stream(w.sink.serial, h) \o Collected(x, h)
        /\ DOMAIN v.sink.serial \subseteq DOMAIN w.sink.serial \cup {Handle(w.generation, key) : key \in Ports}
        /\ DOMAIN v.sink.video = DOMAIN w.sink.video \cup
             (IF VIDEO \in DOMAIN x.output THEN {Current(w)} ELSE {})
        /\ VIDEO \in DOMAIN x.output => v.sink.video[Current(w)] = x.output[VIDEO].data
        /\ \A h \in DOMAIN w.sink.video : VIDEO \notin DOMAIN x.output \/ h # Current(w)
             => v.sink.video[h] = w.sink.video[h]
        /\ \/ v.sink = w.sink
           \/ v.sink.scheduled /\ v.sink.posted = (w.sink.posted \/ ~w.sink.scheduled)
    <3>1. Sent(x, v.sink) /\ x.sink = w.sink /\ x.generation = w.generation
      BY <1>1, <1>2, <1>6
    <3> QED BY <3>1 DEF Sent, Current
  <2>2. \A h \in Handles : \E more \in Seq(Nat) :
          /\ Stream(v.emitted, h) = Stream(w.emitted, h) \o more
          /\ w.handler => Stream(v.sink.serial, h) = Stream(w.sink.serial, h) \o more
    BY <1>1, <1>2, <1>4, <2>1
  <2>3. CASE VIDEO \in DOMAIN x.output
    <3>1. Current(w) \in DOMAIN v.sink.video /\ v.sink.video[Current(w)] = <<v.machine.picture>>
      BY <1>1, <1>2, <2>1, <2>3
    <3>2. \A h \in DOMAIN v.sink.video :
            \/ h = Current(w) /\ v.sink.video[h] = <<v.machine.picture>>
            \/ h \in DOMAIN w.sink.video /\ v.sink.video[h] = w.sink.video[h]
      BY <2>1, <2>3, <3>1
    <3>3. DOMAIN w.sink.video \subseteq DOMAIN v.sink.video
      BY <2>1
    <3>4. Served(w, v)
      BY <1>1, <1>2, <1>3, <1>6, <2>1, <2>2, <3>1, <3>2, <3>3 DEF Served
    <3>5. Current(v) = Current(w)
      BY <1>3 DEF Current, SameSession
    <3> QED BY <3>1, <3>4, <3>5 DEF Republished
  <2>4. CASE VIDEO \notin DOMAIN x.output
    <3>1. DOMAIN v.sink.video = DOMAIN w.sink.video
      BY <2>1, <2>4
    <3>2. \A h \in DOMAIN v.sink.video : h \in DOMAIN w.sink.video /\ v.sink.video[h] = w.sink.video[h]
      BY <2>1, <2>4, <3>1
    <3>3. w.machine.video => v.machine.picture = w.machine.picture
      BY <1>1, <1>2, <2>4
    <3>4. Served(w, v)
      BY <1>1, <1>2, <1>3, <1>6, <2>1, <2>2, <3>1, <3>2, <3>3 DEF Served
    <3>5. v.machine.video = w.machine.video
      BY <1>3 DEF SameMachine, SameParts
    <3> QED BY <2>4, <3>4, <3>5 DEF Republished
  <2> QED BY <2>3, <2>4
<1> QED BY <1>5, <1>6

\* A command that queues the current picture and delivers.
LEMMA QueueServed ==
    ASSUME NEW w \in Workers, NEW u \in Workers, SameSession(w, u), SameMachine(w, u),
           Tidy(u.output, u.machine), DOMAIN u.output \subseteq {VIDEO},
           VIDEO \in DOMAIN w.output => w.machine.video,
           u.emitted = w.emitted, u.sink = w.sink,
           w.handler => w.sink.open
    PROVE  /\ Served(w, DeliverOutput(QueueCurrent(u)))
           /\ Republished(DeliverOutput(QueueCurrent(u)))
<1> DEFINE x == QueueCurrent(u)
<1>1. Batched(w, x) /\ (w.machine.video => VIDEO \in DOMAIN x.output)
  BY QueueBatched
<1> HIDE DEF x
<1>2. /\ x \in Workers /\ x.machine \in Machines /\ Tidy(x.output, x.machine)
      /\ x.handler => x.sink.open
  BY <1>1 DEF Batched, SameMachine, SameSession
<1>3. Delivered(x, DeliverOutput(x))
  BY <1>2, DeliverEffect
<1>4. Served(w, DeliverOutput(x)) /\ Republished(DeliverOutput(x))
  BY <1>1, <1>3, BatchServed
<1> QED BY <1>4 DEF x

\* A batch, or a step.
LEMMA ExecutedServed ==
    ASSUME NEW w \in Workers, w.machine \in Machines, Held(w), w.alive,
           w.handler => w.sink.open, NEW events \in Seq(Events),
           NEW state \in {"Running", "Paused"}
    PROVE  /\ Served(w, Flush(Executed(w, events)))
           /\ Served(w, AfterBatch(Executed(w, events), state))
<1>1. PICK x : x = Executed(w, events)
  OBVIOUS
<1>2. Batched(w, x)
  BY <1>1, ExecutedBatched
<1>3. PICK y : y = [x EXCEPT !.state = state]
  OBVIOUS
<1>4. /\ x \in Workers /\ x.machine \in Machines /\ Tidy(x.output, x.machine)
      /\ x.handler => x.sink.open
      /\ x.alive
  BY <1>2 DEF Batched, SameMachine, SameSession
<1>5. /\ y \in Workers /\ y.machine = x.machine /\ y.output = x.output /\ y.sink = x.sink
      /\ y.emitted = x.emitted /\ SameSession(x, y)
  BY <1>3, <1>4 DEF Workers, SameSession
<1>6. \A h : Collected(y, h) = Collected(x, h)
  BY <1>5 DEF Collected, SameSession
<1>7. Batched(w, y)
  BY <1>2, <1>5, <1>6 DEF Batched, SameSession, SameMachine
<1>8. y.alive /\ (y.handler => y.sink.open)
  BY <1>4, <1>5 DEF SameSession
<1>9. Delivered(x, Flush(x)) /\ Delivered(y, Flush(y))
  BY <1>4, <1>5, <1>8, FlushEffect
<1>10. Served(w, Flush(x)) /\ Served(w, Flush(y))
  BY <1>2, <1>7, <1>9, BatchServed
<1> QED BY <1>1, <1>3, <1>10 DEF AfterBatch

-----------------------------------------------------------------------------
(* The inductive invariant, part by part.                                  *)

\* Between commands nothing has gone wrong, and nothing or one picture is collected.
Resting(w) ==
    /\ Held(w) /\ ~w.panicked /\ ~w.late
    /\ w.machine = NoMachine <=> w.generation = 0
    /\ w.state = "Running" => w.machine # NoMachine

\* What waits in the sink has a drain posted, and is of a machine there has been.
Sunk(w) ==
    /\ DOMAIN w.sink.serial \cup DOMAIN w.sink.video # {} => w.sink.scheduled
    /\ w.sink.scheduled => w.sink.posted
    /\ \A h \in DOMAIN w.sink.serial \cup DOMAIN w.emitted \cup DOMAIN w.sink.video :
         h.generation \in 1 .. w.generation
    /\ \A h \in DOMAIN w.sink.video : Len(w.sink.video[h]) = 1

\* What waits for the window of a port is the end of what the port emitted.
Waits(w) ==
    w.handler =>
      \A h \in Handles : \E k \in 0 .. Len(Stream(w.emitted, h)) :
        Stream(w.sink.serial, h) = SubSeq(Stream(w.emitted, h), k + 1, Len(Stream(w.emitted, h)))

\* What a console shows and what waits for it are the end of what its port emitted.
TextIs(w, h, text, from) ==
    /\ from \in 0 .. Len(Stream(w.emitted, h))
    /\ text \o Stream(w.sink.serial, h)
         = SubSeq(Stream(w.emitted, h), from + 1, Len(Stream(w.emitted, h)))
Consoles(w, u) ==
    u.window = "open" /\ w.handler /\ u.panes.generation > 0 =>
      /\ TextIs(w, Handle(u.panes.generation, SERIAL_A), u.panes.a, u.panes.fromA)
      /\ TextIs(w, Handle(u.panes.generation, SERIAL_B), u.panes.b, u.panes.fromB)

\* The picture that waits is the one the machine put out last, unless the worker
\* still has that one.
PictureWaits(w) ==
    /\ w.handler /\ w.machine # NoMachine /\ w.machine.video /\ VIDEO \notin DOMAIN w.output
    /\ Current(w) \in DOMAIN w.sink.video
    => w.sink.video[Current(w)] = <<w.machine.picture>>

\* A window that shows the machine shows the picture it put out last, unless that
\* waits or is with the worker, or the window is about to ask for it; r is what the
\* window waits for.
PictureShown(w, r, u) ==
    /\ w.handler /\ w.machine # NoMachine /\ w.machine.video
    /\ u.window = "open" /\ u.panes.generation = w.generation
    /\ ~(r.op = "refresh" /\ r.reply = "none")
    => \/ Current(w) \in DOMAIN w.sink.video
       \/ VIDEO \in DOMAIN w.output
       \/ u.panes.picture = w.machine.picture

\* A catalog of the machine of a generation.
Cataloged(w, generation, catalog) ==
    /\ generation \in 0 .. w.generation
    /\ generation > 0 => Ports \subseteq DOMAIN catalog
    /\ generation > 0 /\ generation = w.generation => catalog = Catalog(w.machine)

LEMMA ServedResting ==
    ASSUME NEW w \in Workers, NEW v, Served(w, v), Resting(w)
    PROVE  Resting(v)
<1>1. /\ SameSession(w, v) /\ w.machine \in Machines /\ v.machine \in Machines /\ v.output = NoOutput
  BY DEF Served, SameMachine
<1>2. w.machine # NoMachine /\ v.machine # NoMachine
  BY <1>1, MachineIsSome
<1>3. Held(v)
  BY <1>1, NoOutputType DEF Held
<1> QED BY <1>1, <1>2, <1>3 DEF Resting, SameSession

LEMMA ServedSunk ==
    ASSUME NEW w \in Workers, NEW v, Served(w, v), Resting(w), Sunk(w)
    PROVE  Sunk(v)
<1>1. /\ v \in Workers /\ v.generation = w.generation /\ w.generation \in Nat /\ w.generation # 0
      /\ v.machine.picture \in Nat
  BY MachineIsSome DEF Served, SameSession, SameMachine, Resting, Workers, Machines
<1>2. CASE v.sink = w.sink
  <2>1. \A h \in DOMAIN v.sink.serial \cup DOMAIN v.emitted \cup DOMAIN v.sink.video :
          h.generation \in 1 .. v.generation
    <3>1. \A key \in Ports : Handle(w.generation, key).generation \in 1 .. w.generation
      BY <1>1 DEF Handle
    <3>2. DOMAIN v.emitted \subseteq DOMAIN w.emitted \cup {Handle(w.generation, key) : key \in Ports}
      BY DEF Served
    <3> QED BY <3>1, <3>2, <1>1, <1>2 DEF Sunk
  <2> QED BY <1>2, <2>1 DEF Sunk
<1>3. CASE v.sink.scheduled /\ v.sink.posted = (w.sink.posted \/ ~w.sink.scheduled)
  <2>1. v.sink.posted
    BY <1>3 DEF Sunk
  <2>2. \A key \in EndpointKeys : Handle(w.generation, key).generation \in 1 .. w.generation
    BY <1>1 DEF Handle
  <2>3. /\ DOMAIN v.emitted \subseteq DOMAIN w.emitted \cup {Handle(w.generation, key) : key \in Ports}
        /\ DOMAIN v.sink.serial \subseteq DOMAIN w.sink.serial \cup {Handle(w.generation, key) : key \in Ports}
        /\ \A h \in DOMAIN v.sink.video :
             \/ h = Current(w) /\ v.sink.video[h] = <<v.machine.picture>>
             \/ h \in DOMAIN w.sink.video /\ v.sink.video[h] = w.sink.video[h]
    BY DEF Served
  <2>4. \A h \in DOMAIN v.sink.serial \cup DOMAIN v.emitted \cup DOMAIN v.sink.video :
          h.generation \in 1 .. v.generation
    <3>1. \A h \in DOMAIN v.sink.video : h.generation \in 1 .. w.generation
      BY <2>2, <2>3, PortKeys DEF Sunk, Current
    <3>2. \A h \in DOMAIN v.sink.serial \cup DOMAIN v.emitted : h.generation \in 1 .. w.generation
      BY <2>2, <2>3, PortKeys DEF Sunk
    <3> QED BY <1>1, <3>1, <3>2
  <2>5. ASSUME NEW h \in DOMAIN v.sink.video PROVE Len(v.sink.video[h]) = 1
    <3>1. Len(<<v.machine.picture>>) = 1
      OBVIOUS
    <3>2. CASE v.sink.video[h] = <<v.machine.picture>>
      BY <3>1, <3>2
    <3>3. CASE h \in DOMAIN w.sink.video /\ v.sink.video[h] = w.sink.video[h]
      BY <3>3 DEF Sunk
    <3> QED BY <2>3, <3>2, <3>3
  <2> QED BY <1>3, <2>1, <2>4, <2>5 DEF Sunk
<1>4. v.sink = w.sink \/ (v.sink.scheduled /\ v.sink.posted = (w.sink.posted \/ ~w.sink.scheduled))
  BY DEF Served
<1> QED BY <1>2, <1>3, <1>4

LEMMA ServedWaits ==
    ASSUME NEW w \in Workers, NEW v, Served(w, v), Waits(w)
    PROVE  Waits(v)
<1>1. SUFFICES ASSUME w.handler, NEW h \in Handles
               PROVE  \E k \in 0 .. Len(Stream(v.emitted, h)) :
                        Stream(v.sink.serial, h)
                          = SubSeq(Stream(v.emitted, h), k + 1, Len(Stream(v.emitted, h)))
  BY DEF Served, SameSession, Waits
<1>2. PICK more \in Seq(Nat) :
        /\ Stream(v.emitted, h) = Stream(w.emitted, h) \o more
        /\ Stream(v.sink.serial, h) = Stream(w.sink.serial, h) \o more
  BY <1>1 DEF Served
<1>3. PICK k \in 0 .. Len(Stream(w.emitted, h)) :
        Stream(w.sink.serial, h) = SubSeq(Stream(w.emitted, h), k + 1, Len(Stream(w.emitted, h)))
  BY <1>1 DEF Waits
<1>4. PICK s \in Seq(Nat) : s = Stream(w.emitted, h)
  BY StreamType DEF Workers
<1>5. k \in 0 .. Len(s)
  BY <1>3, <1>4
<1>6. SubSeq(s \o more, k + 1, Len(s \o more)) = SubSeq(s, k + 1, Len(s)) \o more
  BY <1>5, RestGrows
<1>7. k \in 0 .. Len(s \o more)
  BY <1>4, <1>5, ConcatType
<1> QED BY <1>2, <1>3, <1>4, <1>6, <1>7

LEMMA ServedText ==
    ASSUME NEW w \in Workers, NEW v, Served(w, v), w.handler, NEW h \in Handles,
           NEW text \in Seq(Nat), NEW from, TextIs(w, h, text, from)
    PROVE  TextIs(v, h, text, from)
<1>1. PICK more \in Seq(Nat) :
        /\ Stream(v.emitted, h) = Stream(w.emitted, h) \o more
        /\ Stream(v.sink.serial, h) = Stream(w.sink.serial, h) \o more
  BY DEF Served
<1>2. PICK s \in Seq(Nat) : s = Stream(w.emitted, h)
  BY StreamType DEF Workers
<1>3. PICK p \in Seq(Nat) : p = Stream(w.sink.serial, h)
  BY StreamType DEF Workers, Sinks
<1>4. from \in 0 .. Len(s) /\ text \o p = SubSeq(s, from + 1, Len(s))
  BY <1>2, <1>3 DEF TextIs
<1>5. SubSeq(s \o more, from + 1, Len(s \o more)) = SubSeq(s, from + 1, Len(s)) \o more
  BY <1>4, RestGrows
<1>6. text \o (p \o more) = (text \o p) \o more
  BY ConcatAssociates
<1>7. from \in 0 .. Len(s \o more)
  BY <1>4, ConcatType
<1> QED BY <1>1, <1>2, <1>3, <1>4, <1>5, <1>6, <1>7 DEF TextIs

LEMMA ServedConsoles ==
    ASSUME NEW w \in Workers, NEW v, Served(w, v), NEW u \in Windows, Consoles(w, u)
    PROVE  Consoles(v, u)
<1>1. SUFFICES ASSUME u.window = "open", w.handler, u.panes.generation > 0
               PROVE  /\ TextIs(v, Handle(u.panes.generation, SERIAL_A), u.panes.a, u.panes.fromA)
                      /\ TextIs(v, Handle(u.panes.generation, SERIAL_B), u.panes.b, u.panes.fromB)
  BY DEF Served, SameSession, Consoles
<1>2. /\ TextIs(w, Handle(u.panes.generation, SERIAL_A), u.panes.a, u.panes.fromA)
      /\ TextIs(w, Handle(u.panes.generation, SERIAL_B), u.panes.b, u.panes.fromB)
  BY <1>1 DEF Consoles
<1>3. u.panes.generation \in Nat /\ u.panes.a \in Seq(Nat) /\ u.panes.b \in Seq(Nat)
  BY DEF Windows, Panes
<1>4. Handle(u.panes.generation, SERIAL_A) \in Handles /\ Handle(u.panes.generation, SERIAL_B) \in Handles
  BY <1>3, HandleType, PortKeys
<1> QED BY <1>1, <1>2, <1>3, <1>4, ServedText

LEMMA ServedPicture ==
    ASSUME NEW w \in Workers, NEW v, Served(w, v), PictureWaits(w)
    PROVE  /\ PictureWaits(v)
           /\ \A r, u : PictureShown(w, r, u) => PictureShown(v, r, u)
           /\ Republished(v) => \A r, u : PictureShown(v, r, u)
<1>1. /\ v.handler = w.handler /\ v.generation = w.generation /\ Current(v) = Current(w)
      /\ v.machine.video = w.machine.video /\ w.machine # NoMachine /\ v.machine # NoMachine
  BY MachineIsSome DEF Served, SameSession, SameMachine, SameParts, Current
<1>2. /\ DOMAIN w.sink.video \subseteq DOMAIN v.sink.video /\ VIDEO \notin DOMAIN v.output
      /\ w.handler /\ VIDEO \in DOMAIN w.output =>
           Current(w) \in DOMAIN v.sink.video /\ v.sink.video[Current(w)] = <<v.machine.picture>>
  BY NoOutputType DEF Served
<1>3. CASE ~w.handler
  BY <1>1, <1>3 DEF PictureWaits, PictureShown
<1>4. CASE w.handler /\ Current(w) \in DOMAIN v.sink.video
           /\ v.sink.video[Current(w)] = <<v.machine.picture>>
  BY <1>1, <1>4 DEF PictureWaits, PictureShown
<1>5. CASE w.handler
           /\ (Current(w) \in DOMAIN v.sink.video =>
                 Current(w) \in DOMAIN w.sink.video
                   /\ v.sink.video[Current(w)] = w.sink.video[Current(w)])
           /\ (w.machine.video => v.machine.picture = w.machine.picture)
           /\ VIDEO \notin DOMAIN w.output
  <2>1. PictureWaits(v)
    BY <1>1, <1>5 DEF PictureWaits
  <2>2. \A r, u : PictureShown(w, r, u) => PictureShown(v, r, u)
    BY <1>1, <1>2, <1>5 DEF PictureShown
  <2>3. Republished(v) => \A r, u : PictureShown(v, r, u)
    BY <1>1 DEF PictureShown, Republished
  <2> QED BY <2>1, <2>2, <2>3
<1>6. \/ ~w.handler
      \/ Current(w) \in DOMAIN v.sink.video /\ v.sink.video[Current(w)] = <<v.machine.picture>>
      \/ /\ Current(w) \in DOMAIN v.sink.video =>
              Current(w) \in DOMAIN w.sink.video
                /\ v.sink.video[Current(w)] = w.sink.video[Current(w)]
         /\ w.machine.video => v.machine.picture = w.machine.picture
  BY DEF Served
<1> QED BY <1>2, <1>3, <1>4, <1>5, <1>6

LEMMA ServedCataloged ==
    ASSUME NEW w \in Workers, NEW v, Served(w, v)
    PROVE  \A generation, catalog :
             Cataloged(w, generation, catalog) => Cataloged(v, generation, catalog)
<1>1. v.generation = w.generation /\ Catalog(v.machine) = Catalog(w.machine)
  BY SameCatalog DEF Served, SameSession, SameMachine
<1> QED BY <1>1 DEF Cataloged

\* The inputs a machine has received were sent to it.
Routing(w) ==
    w.machine # NoMachine =>
      \A i \in 1 .. Len(w.machine.received) :
        LET input == w.machine.received[i]
        IN  /\ input.handle.generation = w.generation
            /\ InputKind(w.machine, input.handle.key) = PayloadKind(input.payload)
            /\ ~IsReplay(input.mode)

Empty(w) == DOMAIN w.sink.serial = {} /\ DOMAIN w.sink.video = {}

\* How far the window is, with what it waits for, and the handler of its sink.
Opened(w, cl, u) ==
    /\ u.window = "new" =>
         ~w.handler /\ Empty(w) /\ cl["ui"].op = "idle" /\ u.panes.generation = 0
    /\ u.window \in {"new", "open", "detached"} => w.alive
    /\ u.window \in {"new", "open"} => w.sink.open
    /\ cl["ui"].op = "attach" =>
         /\ u.window = "open"
         /\ cl["ui"].reply = "none" => ~w.handler /\ Empty(w) /\ u.panes.generation = 0
    /\ u.window = "open" =>
         /\ cl["ui"].op \notin {"detach", "shutdown"}
         /\ w.handler \/ (cl["ui"].op = "attach" /\ cl["ui"].reply = "none")
    /\ u.window = "closing" => cl["ui"].op \in {"detach", "shutdown"}
    /\ cl["ui"].op = "shutdown" => u.window = "closing" /\ ~w.handler
    /\ cl["ui"].op = "detach" =>
         u.window = "closing" /\ w.sink.open /\ w.alive /\ (cl["ui"].reply # "none" => ~w.handler)
    /\ u.window \in {"detached", "closed"} => ~w.handler /\ cl["ui"].op = "idle"
    /\ ~w.sink.open \/ ~w.alive => ~w.handler
    /\ w.alive \/ u.window = "closed" \/ (cl["ui"].op = "shutdown" /\ cl["ui"].reply # "none")
    /\ cl["task"].op \in {"idle", "configure"} /\ cl["ui"].op # "configure"

\* The catalogs the window has are of machines there have been.
Known(w, r, u) ==
    /\ Cataloged(w, u.panes.generation, u.panes.catalog)
    /\ Cataloged(w, r.generation, r.catalog)

\* The commands in the channel are those the clients wait for, one of each.
Expected(w, ch, cl) ==
    /\ \A i \in 1 .. Len(ch) :
         /\ cl[ch[i].client].op = ch[i].op /\ cl[ch[i].client].reply = "none"
         /\ (ch[i].op = "configure") = (ch[i].client = "task")
         /\ ch[i].op = "configure" => ch[i].mode \in Modes /\ ch[i].topology \in Topologies
         /\ ch[i].op = "input" => ch[i].payload \in Payloads
    /\ \A i, j \in 1 .. Len(ch) : ch[i].client = ch[j].client => i = j
    /\ \A c \in Clients : cl[c].op # "idle" /\ cl[c].reply = "none" =>
         w.alive /\ \E i \in 1 .. Len(ch) : ch[i].client = c
    /\ cl["ui"].op = "resolve" => cl["ui"].payload \in Payloads

Inv(w, ch, cl, u) ==
    /\ w \in Workers /\ ch \in Seq(Commands) /\ cl \in [Clients -> Requests] /\ u \in Windows
    /\ Resting(w) /\ Sunk(w) /\ Waits(w) /\ PictureWaits(w) /\ Routing(w)
    /\ Consoles(w, u) /\ PictureShown(w, cl["ui"], u)
    /\ Opened(w, cl, u) /\ Known(w, cl["ui"], u) /\ Expected(w, ch, cl)

\* What holds of worker w with the window holds of v.
Carries(w, v) ==
    /\ v \in Workers /\ SameSession(w, v) /\ v.sink.open = w.sink.open
    /\ w.handler \/ v.sink = w.sink
    /\ Resting(v) /\ Sunk(v) /\ Waits(v) /\ PictureWaits(v)
    /\ \A u \in Windows : Consoles(w, u) => Consoles(v, u)
    /\ \A r, u : PictureShown(w, r, u) => PictureShown(v, r, u)
    /\ \A generation, catalog : Cataloged(w, generation, catalog) => Cataloged(v, generation, catalog)

LEMMA ServedCarries ==
    ASSUME NEW w \in Workers, NEW v, Served(w, v), Resting(w), Sunk(w), Waits(w), PictureWaits(w)
    PROVE  Carries(w, v)
<1>1. /\ v \in Workers /\ SameSession(w, v) /\ v.sink.open = w.sink.open
      /\ w.handler \/ v.sink = w.sink
  BY DEF Served
<1>2. Resting(v) /\ Sunk(v) /\ Waits(v) /\ PictureWaits(v)
  BY ServedResting, ServedSunk, ServedWaits, ServedPicture
<1>3. \A u \in Windows : Consoles(w, u) => Consoles(v, u)
  BY ServedConsoles
<1>4. \A r, u : PictureShown(w, r, u) => PictureShown(v, r, u)
  BY ServedPicture
<1>5. \A generation, catalog :
        Cataloged(w, generation, catalog) => Cataloged(v, generation, catalog)
  BY ServedCataloged
<1> QED BY <1>1, <1>2, <1>3, <1>4, <1>5 DEF Carries

LEMMA InputKindOfBoard ==
    ASSUME NEW m, NEW n, SameParts(m, n), NEW key
    PROVE  InputKind(m, key) = InputKind(n, key)
BY DEF SameParts, InputKind

LEMMA ServedRouting ==
    ASSUME NEW w \in Workers, NEW v, Served(w, v), Routing(w)
    PROVE  Routing(v)
<1>1. /\ v.generation = w.generation /\ v.machine.received = w.machine.received
      /\ w.machine # NoMachine /\ \A key : InputKind(v.machine, key) = InputKind(w.machine, key)
  BY MachineIsSome, InputKindOfBoard DEF Served, SameSession, SameMachine
<1> QED BY <1>1 DEF Routing

\* A command that puts out nothing.
Quiet(w, v) ==
    /\ v \in Workers /\ SameSession(w, v) /\ v.sink = w.sink /\ v.emitted = w.emitted
    /\ v.output = w.output /\ (w.mode = "RecordCompleted" => v.mode = "RecordCompleted")
    /\ \/ v.machine = w.machine
       \/ /\ w.machine \in Machines /\ v.machine \in Machines /\ SameParts(v.machine, w.machine)
          /\ v.machine.picture = w.machine.picture
    /\ v.state = "Running" => v.machine # NoMachine

LEMMA QuietCarries ==
    ASSUME NEW w \in Workers, NEW v, Quiet(w, v), Resting(w), Sunk(w), Waits(w), PictureWaits(w)
    PROVE  Carries(w, v)
<1>1. /\ v \in Workers /\ SameSession(w, v) /\ v.sink = w.sink /\ v.emitted = w.emitted
      /\ v.generation = w.generation /\ v.handler = w.handler /\ Current(v) = Current(w)
      /\ v.output = w.output
  BY DEF Quiet, SameSession, Current
<1>2. (v.machine = NoMachine) = (w.machine = NoMachine)
  BY MachineIsSome DEF Quiet
<1>3. w.machine # NoMachine => /\ v.machine.video = w.machine.video
                               /\ v.machine.picture = w.machine.picture
                               /\ Catalog(v.machine) = Catalog(w.machine)
  BY SameCatalog DEF Quiet, SameParts
<1>4. Resting(v)
  <2>1. Held(v)
    BY <1>1, <1>2, <1>3 DEF Quiet, Resting, Held
  <2> QED BY <1>1, <1>2, <2>1 DEF Quiet, Resting, SameSession
<1>5. Sunk(v) /\ Waits(v)
  BY <1>1 DEF Sunk, Waits
<1>6. PictureWaits(v) /\ \A r, u : PictureShown(w, r, u) => PictureShown(v, r, u)
  BY <1>1, <1>2, <1>3 DEF PictureWaits, PictureShown
<1>7. \A u \in Windows : Consoles(w, u) => Consoles(v, u)
  BY <1>1 DEF Consoles, TextIs
<1>8. \A generation, catalog :
        Cataloged(w, generation, catalog) => Cataloged(v, generation, catalog)
  <2>1. w.machine = NoMachine => w.generation = 0
    BY DEF Resting
  <2> QED BY <2>1, <1>1, <1>3 DEF Cataloged
<1> QED BY <1>1, <1>4, <1>5, <1>6, <1>7, <1>8 DEF Carries

\* What the board drives is put out, and stays with the worker.
LEMMA WithheldCarries ==
    ASSUME NEW w \in Workers, w.machine \in Machines, w.mode # "RecordCompleted",
           NEW u \in Workers, SameSession(w, u), SameMachine(w, u), u.emitted = w.emitted,
           u.sink = w.sink, u.output = NoOutput, u.mode = "RecordCompleted", u.state = "Paused",
           Resting(w), Sunk(w), Waits(w), PictureWaits(w), Routing(w)
    PROVE  Carries(w, QueueCurrent(u)) /\ Routing(QueueCurrent(u))
<1> DEFINE v == QueueCurrent(u)
<1>1. w.output = NoOutput
  BY HeldNothing DEF Resting
<1>2. Batched(w, v) /\ (w.machine.video => VIDEO \in DOMAIN v.output)
  <2>1. Tidy(u.output, u.machine) /\ DOMAIN u.output \subseteq {VIDEO}
    BY NoOutputType DEF Tidy
  <2>2. VIDEO \notin DOMAIN w.output
    BY <1>1, NoOutputType
  <2> QED BY <2>1, <2>2, QueueBatched
<1>3. /\ v.mode = "RecordCompleted" /\ v.state = "Paused" /\ v.emitted = w.emitted
      /\ DOMAIN v.output \subseteq {VIDEO}
  <2>1. u.machine # NoMachine
    BY MachineIsSome DEF SameMachine
  <2>2. DOMAIN PublishCurrent(u.machine, NoOutput) \subseteq {VIDEO}
    BY NoOutputType DEF PublishCurrent, PublishVideo, With
  <2>3. /\ v.output = PublishCurrent(u.machine, NoOutput) /\ v.mode = u.mode /\ v.state = u.state
        /\ v.emitted = u.emitted
    BY <2>1 DEF QueueCurrent, Workers
  <2> QED BY <2>2, <2>3
<1> HIDE DEF v
<1>4. /\ v \in Workers /\ SameSession(w, v) /\ SameMachine(w, v) /\ v.sink = w.sink
      /\ Tidy(v.output, v.machine) /\ v.machine \in Machines
      /\ v.generation = w.generation /\ v.handler = w.handler /\ Current(v) = Current(w)
      /\ v.machine.video = w.machine.video /\ v.machine.received = w.machine.received
      /\ Catalog(v.machine) = Catalog(w.machine)
      /\ w.machine # NoMachine /\ v.machine # NoMachine
  BY <1>2, MachineIsSome, SameCatalog DEF Batched, SameSession, SameMachine, SameParts, Current
<1>5. ASSUME VIDEO \in DOMAIN v.output
      PROVE  /\ v.machine.video /\ v.output[VIDEO].kind = "Video"
             /\ v.output[VIDEO].data = <<v.machine.picture>>
  <2>1. VIDEO \in Keys(v.machine) /\ v.output[VIDEO].kind = KindOf(VIDEO)
    BY <1>4, <1>5 DEF Tidy
  <2>2. v.output[VIDEO].data = <<v.machine.picture>>
    BY <1>2, <1>5 DEF Batched
  <2> QED BY <1>4, <2>1, <2>2, KeysType, PortKeys DEF KindOf
<1>6. Resting(v)
  <2>1. Held(v)
    BY <1>3, <1>4, <1>5 DEF Held
  <2> QED BY <1>3, <1>4, <2>1 DEF Resting, SameSession
<1>7. Sunk(v) /\ Waits(v)
  BY <1>3, <1>4 DEF Sunk, Waits
<1>8. PictureWaits(v) /\ \A r, q : PictureShown(w, r, q) => PictureShown(v, r, q)
  BY <1>2, <1>4 DEF PictureWaits, PictureShown
<1>9. \A q \in Windows : Consoles(w, q) => Consoles(v, q)
  BY <1>3, <1>4 DEF Consoles, TextIs
<1>10. \A generation, catalog :
         Cataloged(w, generation, catalog) => Cataloged(v, generation, catalog)
  BY <1>4 DEF Cataloged
<1>11. Routing(v)
  <2>1. \A key : InputKind(v.machine, key) = InputKind(w.machine, key)
    BY <1>4, InputKindOfBoard DEF SameMachine
  <2> QED BY <1>4, <2>1 DEF Routing
<1>12. Carries(w, v)
  BY <1>4, <1>6, <1>7, <1>8, <1>9, <1>10 DEF Carries
<1> QED BY <1>11, <1>12 DEF v

-----------------------------------------------------------------------------
(* The channel.                                                            *)

CatalogOf(w) == IF w.machine = NoMachine THEN NoCatalog ELSE Catalog(w.machine)

LEMMA CatalogOfType ==
    ASSUME NEW w \in Workers, Resting(w)
    PROVE  CatalogOf(w) \in Catalogs /\ Cataloged(w, w.generation, CatalogOf(w))
<1>1. CASE w.machine = NoMachine
  <2>1. w.generation = 0
    BY <1>1 DEF Resting
  <2>2. NoCatalog \in [{} -> Descriptors]
    BY DEF NoCatalog
  <2>3. NoCatalog \in Catalogs
    BY <2>2 DEF Catalogs
  <2> QED BY <1>1, <2>1, <2>3 DEF CatalogOf, Cataloged
<1>2. CASE w.machine # NoMachine
  <2>1. w.machine \in Machines /\ w.generation \in Nat
    BY <1>2 DEF Workers
  <2>2. Catalog(w.machine) \in Catalogs /\ Ports \subseteq DOMAIN Catalog(w.machine)
    BY <2>1, CatalogFacts, KeysType
  <2> QED BY <1>2, <2>1, <2>2 DEF CatalogOf, Cataloged
<1> QED BY <1>1, <1>2

LEMMA IdleType ==
    /\ Idle \in Requests /\ Idle.op = "idle" /\ Idle.reply = "none" /\ Idle.generation = 0
    /\ Handle(0, "") \in Handles
<1>1. NoCatalog \in [{} -> Descriptors]
  BY DEF NoCatalog
<1>2. NoCatalog \in Catalogs
  BY <1>1 DEF Catalogs
<1>3. Handle(0, "") \in Handles
  BY DEF Handle, Handles
<1> QED BY <1>2, <1>3 DEF Idle, Requests

\* A client that waits for nothing sends a command, or learns that the worker is gone.
LEMMA RequestEffect ==
    ASSUME NEW c \in Clients, NEW command \in Commands,
           rt \in Workers, channel \in Seq(Commands), clients \in [Clients -> Requests],
           Expected(rt, channel, clients),
           clients[c].op = "idle" \/ clients[c].reply # "none",
           command.client = c, (command.op = "configure") = (c = "task"),
           command.op = "configure" => command.mode \in Modes /\ command.topology \in Topologies,
           command.op \in {"input", "resolve"} => command.payload \in Payloads,
           Request(c, command)
    PROVE  /\ channel' \in Seq(Commands) /\ clients' \in [Clients -> Requests]
           /\ Expected(rt, channel', clients')
           /\ clients'[c].op = command.op /\ clients'[c].generation = 0
           /\ clients'[c].reply = IF rt.alive THEN "none" ELSE "unavailable"
           /\ \A d \in Clients \ {c} : clients'[d] = clients[d]
<1> DEFINE pending == [Idle EXCEPT !.op = command.op, !.handle = command.handle,
                                   !.payload = command.payload]
           gone == [pending EXCEPT !.reply = "unavailable"]
<1>1. /\ pending \in Requests /\ pending.op = command.op /\ pending.reply = "none"
      /\ pending.generation = 0 /\ pending.payload = command.payload
      /\ gone \in Requests /\ gone.op = command.op /\ gone.reply = "unavailable"
      /\ gone.generation = 0 /\ gone.payload = command.payload
  BY IdleType DEF Commands, Requests, Operations, Replies
<1>2. /\ channel' = IF rt.alive THEN Append(channel, command) ELSE channel
      /\ clients' = [clients EXCEPT ![c] = IF rt.alive THEN pending ELSE gone]
  BY DEF Request
<1> HIDE DEF pending, gone
<1>3. \A i \in 1 .. Len(channel) : channel[i] \in Commands /\ channel[i].client \in Clients
  <2>1. \A i \in 1 .. Len(channel) : channel[i] \in Commands
    OBVIOUS
  <2>2. \A q \in Commands : q.client \in Clients
    BY DEF Commands
  <2> QED BY <2>1, <2>2
<1>4. /\ clients' \in [Clients -> Requests] /\ \A d \in Clients \ {c} : clients'[d] = clients[d]
      /\ clients'[c] = IF rt.alive THEN pending ELSE gone
  BY <1>1, <1>2
<1>5. command.op # "idle"
  BY DEF Commands, Operations, UiOperations
<1>6. \A i \in 1 .. Len(channel) : channel[i].client # c
  <2>1. \A i \in 1 .. Len(channel) : clients[channel[i].client].op = channel[i].op
          /\ clients[channel[i].client].reply = "none" /\ channel[i].op # "idle"
    BY <1>3 DEF Expected, Commands, Operations, UiOperations
  <2> QED BY <2>1
<1>7. \A i \in 1 .. Len(channel) : clients'[channel[i].client] = clients[channel[i].client]
  BY <1>3, <1>4, <1>6
<1>8. clients'["ui"].op = "resolve" => clients'["ui"].payload \in Payloads
  <2>1. CASE c = "ui"
    BY <1>1, <1>4, <2>1
  <2>2. CASE c # "ui"
    BY <1>4, <2>2 DEF Expected, Clients
  <2> QED BY <2>1, <2>2
<1>9. CASE rt.alive
  <2>1. channel' = Append(channel, command) /\ channel' \in Seq(Commands)
        /\ Len(channel') = Len(channel) + 1 /\ channel'[Len(channel) + 1] = command
        /\ \A i \in 1 .. Len(channel) : channel'[i] = channel[i]
    BY <1>2, <1>9
  <2>2. \A i \in 1 .. Len(channel') : i = Len(channel) + 1 \/ i \in 1 .. Len(channel)
    BY <2>1
  <2>3. ASSUME NEW i \in 1 .. Len(channel')
        PROVE  /\ clients'[channel'[i].client].op = channel'[i].op
               /\ clients'[channel'[i].client].reply = "none"
               /\ (channel'[i].op = "configure") = (channel'[i].client = "task")
               /\ channel'[i].op = "configure" =>
                    channel'[i].mode \in Modes /\ channel'[i].topology \in Topologies
               /\ channel'[i].op = "input" => channel'[i].payload \in Payloads
    <3>1. CASE i = Len(channel) + 1
      BY <3>1, <2>1, <1>1, <1>4, <1>9
    <3>2. CASE i \in 1 .. Len(channel)
      BY <3>2, <2>1, <1>7 DEF Expected
    <3> QED BY <2>2, <3>1, <3>2
  <2>4. ASSUME NEW i \in 1 .. Len(channel'), NEW j \in 1 .. Len(channel'),
               channel'[i].client = channel'[j].client
        PROVE  i = j
    <3>1. CASE i \in 1 .. Len(channel) /\ j \in 1 .. Len(channel)
      BY <3>1, <2>1, <2>4 DEF Expected
    <3>2. CASE ~ (i \in 1 .. Len(channel)) \/ ~ (j \in 1 .. Len(channel))
      BY <3>2, <2>1, <2>2, <2>4, <1>6
    <3> QED BY <3>1, <3>2
  <2>5. ASSUME NEW d \in Clients, clients'[d].op # "idle", clients'[d].reply = "none"
        PROVE  rt.alive /\ \E i \in 1 .. Len(channel') : channel'[i].client = d
    <3>1. CASE d = c
      <4>1. Len(channel) + 1 \in 1 .. Len(channel')
        BY <2>1
      <4> QED BY <3>1, <4>1, <2>1, <1>9
    <3>2. CASE d # c
      <4>1. \E i \in 1 .. Len(channel) : channel[i].client = d
        BY <3>2, <2>5, <1>4 DEF Expected
      <4>2. \A i \in 1 .. Len(channel) : i \in 1 .. Len(channel')
        BY <2>1
      <4> QED BY <4>1, <4>2, <2>1, <1>9
    <3> QED BY <3>1, <3>2
  <2>6. Expected(rt, channel', clients')
    BY <2>3, <2>4, <2>5, <1>8 DEF Expected
  <2> QED BY <2>1, <2>6, <1>1, <1>4, <1>9
<1>10. CASE ~rt.alive
  <2>1. channel' = channel
    BY <1>2, <1>10
  <2>2. \A d \in Clients : ~ (clients'[d].op # "idle" /\ clients'[d].reply = "none")
    BY <1>1, <1>4, <1>10 DEF Expected
  <2>3. Expected(rt, channel', clients')
    BY <2>1, <2>2, <1>7, <1>8 DEF Expected
  <2> QED BY <2>1, <2>3, <1>1, <1>4, <1>10
<1> QED BY <1>9, <1>10

\* The command a worker receives is what its client waits for.
LEMMA ReceivedFacts ==
    ASSUME NEW op, Received(op), channel \in Seq(Commands), Expected(rt, channel, clients)
    PROVE  /\ rt.alive /\ Head(channel) = channel[1] /\ 1 \in 1 .. Len(channel)
           /\ Head(channel) \in Commands /\ Head(channel).op = op
           /\ clients[Head(channel).client].op = op /\ clients[Head(channel).client].reply = "none"
           /\ op # "configure" => Head(channel).client = "ui"
           /\ op = "configure" => Head(channel).client = "task"
<1>1. rt.alive /\ channel # <<>> /\ Head(channel).op = op
  BY DEF Received
<1>2. Head(channel) = channel[1] /\ 1 \in 1 .. Len(channel) /\ Head(channel) \in Commands
  BY <1>1
<1>3. Head(channel).client \in {"ui", "task"}
  BY <1>2 DEF Commands, Clients
<1> QED BY <1>1, <1>2, <1>3 DEF Expected

\* The worker became v and replied: the client has the reply, and when the worker
\* has ended every other client that waited has an error.
LEMMA RepliedEffect ==
    ASSUME NEW op, Received(op), NEW v \in Workers, Resting(v), NEW reply \in Replies,
           rt \in Workers, channel \in Seq(Commands), clients \in [Clients -> Requests],
           Expected(rt, channel, clients), Replied(v, reply)
    PROVE  /\ rt' = v /\ ui' = ui
           /\ channel' \in Seq(Commands) /\ clients' \in [Clients -> Requests]
           /\ Expected(v, channel', clients')
           /\ \A c \in Clients : clients'[c].op = clients[c].op
           /\ op # "configure" =>
                /\ clients'["ui"].reply = reply
                /\ clients'["ui"].generation = v.generation
                /\ clients'["ui"].catalog = CatalogOf(v)
           /\ op = "configure" /\ v.alive => clients'["ui"] = clients["ui"]
<1> DEFINE c == Head(channel).client
           rest == Tail(channel)
           r == [clients[c] EXCEPT !.reply = reply, !.generation = v.generation,
                                   !.catalog = CatalogOf(v)]
           answered == [clients EXCEPT ![c] = r]
<1>1. /\ rt.alive /\ Head(channel) = channel[1] /\ 1 \in 1 .. Len(channel)
      /\ Head(channel) \in Commands /\ clients[c].op = op /\ clients[c].reply = "none"
      /\ op # "configure" => c = "ui"
      /\ op = "configure" => c = "task"
      /\ c \in Clients
  BY ReceivedFacts DEF Commands
<1>2. ~v.panicked /\ v.generation \in Nat
  BY DEF Resting, Workers
<1>3. /\ rt' = v /\ ui' = ui /\ channel' = QueueOf(v, rest)
      /\ clients' = IF QueueOf(v, rest) = rest THEN answered ELSE DropReplies(answered, rest)
  BY <1>2 DEF Replied, CatalogOf
<1>4. CatalogOf(v) \in Catalogs
  BY CatalogOfType
<1>5. /\ r \in Requests /\ r.op = clients[c].op /\ r.reply = reply /\ r.payload = clients[c].payload
      /\ r.generation = v.generation /\ r.catalog = CatalogOf(v)
  BY <1>1, <1>2, <1>4, ZenonT(40) DEF Requests
<1> HIDE DEF r
<1>6. /\ answered \in [Clients -> Requests] /\ answered[c] = r
      /\ \A d \in Clients \ {c} : answered[d] = clients[d]
  BY <1>1, <1>5
<1> HIDE DEF answered
<1>7. /\ rest \in Seq(Commands) /\ Len(rest) = Len(channel) - 1
      /\ \A i \in 1 .. Len(rest) : rest[i] = channel[i + 1] /\ i + 1 \in 1 .. Len(channel)
  BY <1>1
<1>8. \A i \in 2 .. Len(channel) : i - 1 \in 1 .. Len(rest) /\ rest[i - 1] = channel[i]
  BY <1>7
<1>9. \A i \in 1 .. Len(rest) : rest[i].client \in Clients \ {c}
  <2>1. SUFFICES ASSUME NEW i \in 1 .. Len(rest) PROVE rest[i].client \in Clients \ {c}
    OBVIOUS
  <2>2. rest[i] \in Commands
    BY <1>7
  <2>3. rest[i].client \in Clients
    BY <2>2 DEF Commands
  <2>4. i + 1 # 1 /\ i + 1 \in 1 .. Len(channel) /\ rest[i] = channel[i + 1]
    BY <1>7
  <2>5. channel[i + 1].client # channel[1].client
    BY <2>4, <1>1 DEF Expected
  <2> QED BY <2>3, <2>4, <2>5, <1>1
<1> HIDE DEF rest, c
<1>10. \A d \in Clients \ {c} : clients[d].op # "idle" /\ clients[d].reply = "none" =>
          \E i \in 1 .. Len(rest) : rest[i].client = d
  <2>1. SUFFICES ASSUME NEW d \in Clients \ {c}, clients[d].op # "idle", clients[d].reply = "none"
                 PROVE  \E i \in 1 .. Len(rest) : rest[i].client = d
    OBVIOUS
  <2>2. PICK i \in 1 .. Len(channel) : channel[i].client = d
    BY <2>1 DEF Expected
  <2>3. i # 1
    BY <2>1, <2>2, <1>1 DEF c
  <2>4. i \in 2 .. Len(channel)
    BY <2>3
  <2> QED BY <2>2, <2>4, <1>8
<1>11. reply # "none"
  BY DEF Replies
<1>12. \A d \in Clients : answered[d].op = clients[d].op
  BY <1>5, <1>6
<1>13. answered["ui"].op = "resolve" => answered["ui"].payload \in Payloads
  <2>1. "ui" \in Clients
    BY DEF Clients
  <2> QED BY <2>1, <1>5, <1>6 DEF Expected
<1>14. ASSUME NEW i \in 1 .. Len(rest)
       PROVE  /\ answered[rest[i].client].op = rest[i].op
              /\ answered[rest[i].client].reply = "none"
              /\ (rest[i].op = "configure") = (rest[i].client = "task")
              /\ rest[i].op = "configure" => rest[i].mode \in Modes /\ rest[i].topology \in Topologies
              /\ rest[i].op = "input" => rest[i].payload \in Payloads
  <2>1. answered[rest[i].client] = clients[rest[i].client]
    BY <1>6, <1>9
  <2> QED BY <2>1, <1>7 DEF Expected
<1>15. ASSUME NEW i \in 1 .. Len(rest), NEW j \in 1 .. Len(rest), rest[i].client = rest[j].client
       PROVE  i = j
  <2>1. channel[i + 1].client = channel[j + 1].client
        /\ i + 1 \in 1 .. Len(channel) /\ j + 1 \in 1 .. Len(channel)
    BY <1>7, <1>15
  <2>2. i + 1 = j + 1
    BY <2>1 DEF Expected
  <2> QED BY <2>2
<1>16. CASE v.alive
  <2>1. channel' = rest /\ clients' = answered
    BY <1>3, <1>16 DEF QueueOf
  <2>2. \A d \in Clients : answered[d].op # "idle" /\ answered[d].reply = "none" =>
          v.alive /\ \E i \in 1 .. Len(rest) : rest[i].client = d
    BY <1>5, <1>6, <1>10, <1>11, <1>16
  <2>3. Expected(v, rest, answered)
    BY <2>2, <1>13, <1>14, <1>15 DEF Expected
  <2>4. op # "configure" => answered["ui"] = r
    BY <1>1, <1>6 DEF c
  <2>5. op = "configure" => answered["ui"] = clients["ui"]
    <3>1. ASSUME op = "configure" PROVE "ui" \in Clients \ {c}
      BY <3>1, <1>1 DEF c, Clients
    <3> QED BY <3>1, <1>6
  <2> QED BY <2>1, <2>3, <2>4, <2>5, <1>3, <1>5, <1>6, <1>7, <1>12
<1>17. CASE ~v.alive
  <2>1. channel' = <<>> /\ clients' = IF <<>> = rest THEN answered ELSE DropReplies(answered, rest)
    BY <1>3, <1>17 DEF QueueOf
  <2>2. /\ clients' \in [Clients -> Requests]
        /\ \A d \in Clients : clients'[d].op = answered[d].op /\ clients'[d].payload = answered[d].payload
        /\ clients'[c] = r
        /\ \A d \in Clients : ~ (clients'[d].op # "idle" /\ clients'[d].reply = "none")
    <3>1. CASE rest = <<>>
      <4>1. clients' = answered
        BY <2>1, <3>1
      <4>2. ~ \E i \in 1 .. Len(rest) : TRUE
        BY <3>1
      <4> QED BY <4>1, <4>2, <1>5, <1>6, <1>10, <1>11
    <3>2. CASE rest # <<>>
      <4>1. clients' = [d \in Clients |->
                          IF \E i \in 1 .. Len(rest) : rest[i].client = d
                          THEN [answered[d] EXCEPT !.reply = "unavailable"] ELSE answered[d]]
        BY <2>1, <3>2 DEF DropReplies
      <4>2. \A q \in Requests : /\ [q EXCEPT !.reply = "unavailable"] \in Requests
                                /\ [q EXCEPT !.reply = "unavailable"].op = q.op
                                /\ [q EXCEPT !.reply = "unavailable"].payload = q.payload
                                /\ [q EXCEPT !.reply = "unavailable"].reply = "unavailable"
        BY DEF Requests, Replies
      <4>3. \A d \in Clients : answered[d] \in Requests
        BY <1>6
      <4>4. clients' \in [Clients -> Requests]
        BY <4>1, <4>2, <4>3
      <4>5. \A d \in Clients : clients'[d].op = answered[d].op /\ clients'[d].payload = answered[d].payload
        BY <4>1, <4>2, <4>3
      <4>6. c \in Clients /\ ~ \E i \in 1 .. Len(rest) : rest[i].client = c
        BY <1>1, <1>9 DEF c
      <4>7. clients'[c] = r
        BY <4>1, <4>6, <1>6
      <4>8. ASSUME NEW d \in Clients PROVE ~ (clients'[d].op # "idle" /\ clients'[d].reply = "none")
        <5>1. CASE \E i \in 1 .. Len(rest) : rest[i].client = d
          <6>1. clients'[d].reply = "unavailable"
            BY <5>1, <4>1, <4>2, <4>3
          <6> QED BY <6>1
        <5>2. CASE ~ \E i \in 1 .. Len(rest) : rest[i].client = d
          <6>1. clients'[d] = answered[d]
            BY <5>2, <4>1
          <6>2. d # c => ~ (clients[d].op # "idle" /\ clients[d].reply = "none")
            BY <5>2, <1>10
          <6> QED BY <6>1, <6>2, <1>5, <1>6, <1>11
        <5> QED BY <5>1, <5>2
      <4> QED BY <4>4, <4>5, <4>7, <4>8
    <3> QED BY <3>1, <3>2
  <2>3. clients'["ui"].op = "resolve" => clients'["ui"].payload \in Payloads
    BY <2>2, <1>13 DEF Clients
  <2>4. channel' \in Seq(Commands) /\ Len(channel') = 0
    BY <2>1
  <2>5. Expected(v, channel', clients')
    BY <2>2, <2>3, <2>4 DEF Expected
  <2>6. op # "configure" => clients'["ui"] = r
    BY <2>2, <1>1 DEF c
  <2> QED BY <2>2, <2>4, <2>5, <2>6, <1>3, <1>5, <1>12, <1>17
<1> QED BY <1>16, <1>17

-----------------------------------------------------------------------------
(* The worker's commands.                                                  *)

Standing == Inv(rt, channel, clients, ui)
Stood == Inv(rt', channel', clients', ui')

LEMMA StandingParts ==
    ASSUME Standing
    PROVE  /\ rt \in Workers /\ channel \in Seq(Commands) /\ clients \in [Clients -> Requests]
           /\ ui \in Windows /\ Resting(rt) /\ Sunk(rt) /\ Waits(rt) /\ PictureWaits(rt) /\ Routing(rt)
           /\ Consoles(rt, ui) /\ PictureShown(rt, clients["ui"], ui)
           /\ Opened(rt, clients, ui) /\ Known(rt, clients["ui"], ui)
           /\ Expected(rt, channel, clients)
           /\ rt.handler => rt.sink.open
BY DEF Standing, Inv, Opened

\* A command that leaves the window where it is.
LEMMA AnsweredInv ==
    ASSUME Standing, NEW op, Received(op), op \notin {"attach", "detach", "shutdown", "configure"},
           NEW v, Carries(rt, v), Routing(v), NEW reply \in Replies, Replied(v, reply),
           op = "refresh" => \A r, u : PictureShown(v, r, u)
    PROVE  Stood
<1> USE StandingParts
<1>1. /\ v \in Workers /\ SameSession(rt, v) /\ Resting(v) /\ Sunk(v) /\ Waits(v) /\ PictureWaits(v)
      /\ Consoles(v, ui) /\ v.sink.open = rt.sink.open /\ (rt.handler \/ v.sink = rt.sink)
  BY DEF Carries
<1>2. /\ rt.alive /\ clients["ui"].op = op /\ clients["ui"].reply = "none"
  BY ReceivedFacts
<1>3. /\ rt' = v /\ ui' = ui
      /\ channel' \in Seq(Commands) /\ clients' \in [Clients -> Requests]
      /\ Expected(v, channel', clients')
      /\ \A c \in Clients : clients'[c].op = clients[c].op
      /\ clients'["ui"].reply = reply
      /\ clients'["ui"].generation = v.generation
      /\ clients'["ui"].catalog = CatalogOf(v)
  BY <1>1, RepliedEffect
<1>4. /\ v.alive = rt.alive /\ v.handler = rt.handler /\ reply # "none"
      /\ clients'["ui"].op = op /\ clients'["task"].op = clients["task"].op
  BY <1>1, <1>2, <1>3 DEF SameSession, Replies, Clients
<1>5. Opened(v, clients', ui)
  BY <1>1, <1>2, <1>3, <1>4 DEF Opened, Empty
<1>6. Known(v, clients'["ui"], ui)
  <2>1. Cataloged(v, ui.panes.generation, ui.panes.catalog)
    BY DEF Carries, Known
  <2>2. Cataloged(v, v.generation, CatalogOf(v))
    BY <1>1, CatalogOfType
  <2> QED BY <2>1, <2>2, <1>3 DEF Known
<1>7. PictureShown(v, clients'["ui"], ui)
  <2>1. CASE op = "refresh"
    BY <2>1
  <2>2. CASE op # "refresh"
    <3>1. PictureShown(v, clients["ui"], ui)
      BY DEF Carries
    <3> QED BY <3>1, <2>2, <1>2, <1>4 DEF PictureShown
  <2> QED BY <2>1, <2>2
<1> QED BY <1>1, <1>3, <1>5, <1>6, <1>7 DEF Stood, Inv

LEMMA QuietInv ==
    ASSUME Standing, NEW op, Received(op), op \notin {"attach", "detach", "shutdown", "configure", "refresh"},
           NEW v, Quiet(rt, v), Routing(v), NEW reply \in Replies, Replied(v, reply)
    PROVE  Stood
<1>1. Carries(rt, v)
  BY StandingParts, QuietCarries
<1> QED BY <1>1, AnsweredInv

LEMMA QuietSame ==
    ASSUME Standing
    PROVE  Quiet(rt, rt)
BY StandingParts DEF Quiet, SameSession, Resting

LEMMA RejectedInv ==
    ASSUME Standing, NEW op, Received(op), op \notin {"attach", "detach", "shutdown", "configure", "refresh"},
           NEW reply \in Replies, Replied(rt, reply)
    PROVE  Stood
BY StandingParts, QuietSame, QuietInv

LEMMA RunInv ==
    ASSUME Standing, Run \/ Pause
    PROVE  Stood
<1> USE StandingParts
<1>1. PICK op \in {"run", "pause"} :
        /\ Received(op)
        /\ IF rt.machine = NoMachine THEN Replied(rt, "rejected")
           ELSE \E state \in {"Running", "Paused"} : Replied([rt EXCEPT !.state = state], "ok")
  BY DEF Run, Pause
<1>2. CASE rt.machine = NoMachine
  BY <1>1, <1>2, RejectedInv DEF Replies
<1>3. CASE rt.machine # NoMachine
  <2>1. PICK state \in {"Running", "Paused"} : Replied([rt EXCEPT !.state = state], "ok")
    BY <1>1, <1>3
  <2> DEFINE v == [rt EXCEPT !.state = state]
  <2>2. /\ v \in Workers /\ v.machine = rt.machine /\ v.sink = rt.sink /\ v.emitted = rt.emitted
        /\ v.output = rt.output /\ SameSession(rt, v) /\ v.generation = rt.generation
        /\ v.mode = rt.mode
    BY DEF Workers, SameSession
  <2> HIDE DEF v
  <2>3. Quiet(rt, v) /\ Routing(v)
    BY <2>2, <1>3 DEF Quiet, Routing
  <2> QED BY <1>1, <2>1, <2>3, QuietInv DEF v, Replies
<1> QED BY <1>2, <1>3

LEMMA SampleInv ==
    ASSUME Standing, Sample
    PROVE  Stood
<1>1. PICK op \in {"sample", "catalog", "resolve"} : Received(op) /\ Replied(rt, "ok")
  BY DEF Sample
<1> QED BY <1>1, RejectedInv DEF Replies

LEMMA ServedInv ==
    ASSUME Standing, NEW op, Received(op), op \notin {"attach", "detach", "shutdown", "configure"},
           NEW v, Served(rt, v), NEW reply \in Replies, Replied(v, reply),
           op = "refresh" => Republished(v)
    PROVE  Stood
<1>1. Carries(rt, v) /\ Routing(v)
  BY StandingParts, ServedCarries, ServedRouting
<1>2. op = "refresh" => \A r, u : PictureShown(v, r, u)
  BY StandingParts, ServedPicture
<1> QED BY <1>1, <1>2, AnsweredInv

\* A reset that is delivered, one that was refused, and one that was not delivered
\* because the checkpoint of the Record failed.
LEMMA ResetInv ==
    ASSUME Standing, Reset
    PROVE  Stood
<1> USE StandingParts
<1>1. Received("reset") /\ "ok" \in Replies /\ "rejected" \in Replies
  BY DEF Reset, Replies
<1>2. CASE rt.machine = NoMachine \/ IsReplay(rt.mode)
  <2>1. Replied(rt, "rejected")
    BY <1>2 DEF Reset
  <2> QED BY <1>1, <2>1, RejectedInv
<1>3. CASE ~ (rt.machine = NoMachine \/ IsReplay(rt.mode))
  <2> DEFINE paused == [rt EXCEPT !.state = "Paused"]
             ended == [rt EXCEPT !.state = "Paused", !.mode = RecordEnded(rt.mode)]
             m == [rt.machine EXCEPT !.board = 0]
             u(mode) == [rt EXCEPT !.state = "Paused", !.mode = mode, !.machine = m, !.output = NoOutput]
  <2>1. \/ Replied(DeliverOutput(ResetMachine(paused)), "ok")
        \/ Replied(ended, "rejected")
        \/ rt.mode = "Recording" /\ Replied(ResetMachine(ended), "rejected")
    BY <1>3 DEF Reset
  <2>2. rt.machine \in Machines /\ rt.mode \in SessionModes /\ RecordEnded(rt.mode) \in SessionModes
        /\ (rt.mode = "Recording" => RecordEnded(rt.mode) = "RecordCompleted")
        /\ (rt.mode = "RecordCompleted" => RecordEnded(rt.mode) = "RecordCompleted")
    BY <1>3 DEF Workers, RecordEnded, SessionModes
  <2>3. m \in Machines /\ SameParts(m, rt.machine) /\ m.received = rt.machine.received
        /\ m.board = 0
    BY <2>2 DEF Machines, SameParts
  <2>4. /\ ResetMachine(paused) = QueueCurrent(u(rt.mode))
        /\ ResetMachine(ended) = QueueCurrent(u(RecordEnded(rt.mode)))
    <3>1. paused = [rt EXCEPT !.state = "Paused", !.mode = rt.mode]
      BY DEF Workers
    <3>2. ASSUME NEW mode
          PROVE  [[rt EXCEPT !.state = "Paused", !.mode = mode]
                    EXCEPT !.machine.board = 0, !.output = NoOutput] = u(mode)
      BY DEF Workers
    <3> HIDE DEF paused, u
    <3> QED BY <3>1, <3>2 DEF ResetMachine
  <2> HIDE DEF m
  <2>5. ASSUME NEW mode \in SessionModes
        PROVE  /\ u(mode) \in Workers /\ SameSession(rt, u(mode)) /\ u(mode).machine = m
               /\ u(mode).output = NoOutput /\ u(mode).emitted = rt.emitted /\ u(mode).sink = rt.sink
               /\ u(mode).mode = mode /\ u(mode).state = "Paused"
    BY <2>3, NoOutputType DEF Workers, SameSession
  <2> HIDE DEF u
  <2>6. ASSUME NEW mode \in SessionModes
        PROVE  /\ SameMachine(rt, u(mode))
               /\ Tidy(u(mode).output, u(mode).machine) /\ DOMAIN u(mode).output \subseteq {VIDEO}
               /\ VIDEO \in DOMAIN rt.output => rt.machine.video
    <3>1. SameMachine(rt, u(mode))
      BY <2>2, <2>3, <2>5 DEF SameMachine
    <3>2. Tidy(u(mode).output, u(mode).machine) /\ DOMAIN u(mode).output \subseteq {VIDEO}
      BY <2>5, NoOutputType DEF Tidy
    <3>3. VIDEO \in DOMAIN rt.output => rt.machine.video
      BY DEF Resting, Held
    <3> QED BY <3>1, <3>2, <3>3
  <2>7. CASE Replied(DeliverOutput(ResetMachine(paused)), "ok")
    <3> DEFINE x == u(rt.mode)
    <3>1. /\ x \in Workers /\ SameSession(rt, x) /\ SameMachine(rt, x)
          /\ Tidy(x.output, x.machine) /\ DOMAIN x.output \subseteq {VIDEO}
          /\ VIDEO \in DOMAIN rt.output => rt.machine.video
          /\ x.emitted = rt.emitted /\ x.sink = rt.sink
      BY <2>2, <2>5, <2>6
    <3>2. Replied(DeliverOutput(QueueCurrent(x)), "ok")
      BY <2>4, <2>7
    <3> HIDE DEF x
    <3>3. Served(rt, DeliverOutput(QueueCurrent(x)))
      BY <3>1, QueueServed
    <3> QED BY <1>1, <3>2, <3>3, ServedInv
  <2>8. CASE Replied(ended, "rejected")
    <3>1. /\ ended \in Workers /\ SameSession(rt, ended) /\ ended.machine = rt.machine
          /\ ended.output = rt.output /\ ended.emitted = rt.emitted /\ ended.sink = rt.sink
          /\ ended.mode = RecordEnded(rt.mode) /\ ended.state = "Paused"
          /\ ended.generation = rt.generation
      BY <2>2 DEF Workers, SameSession
    <3> HIDE DEF ended
    <3>2. Quiet(rt, ended) /\ Routing(ended)
      BY <2>2, <3>1 DEF Quiet, Routing
    <3> QED BY <1>1, <2>8, <3>2, QuietInv
  <2>9. CASE rt.mode = "Recording" /\ Replied(ResetMachine(ended), "rejected")
    <3> DEFINE x == u("RecordCompleted")
               v == QueueCurrent(x)
    <3>1. "RecordCompleted" \in SessionModes /\ RecordEnded(rt.mode) = "RecordCompleted"
      BY <2>2, <2>9 DEF SessionModes
    <3>2. Replied(v, "rejected")
      BY <2>4, <2>9, <3>1
    <3>3. /\ x \in Workers /\ SameSession(rt, x) /\ SameMachine(rt, x) /\ x.machine = m
          /\ Tidy(x.output, x.machine) /\ DOMAIN x.output \subseteq {VIDEO}
          /\ VIDEO \in DOMAIN rt.output => rt.machine.video
          /\ x.emitted = rt.emitted /\ x.sink = rt.sink /\ x.mode = "RecordCompleted"
          /\ x.state = "Paused" /\ x.output = NoOutput
      BY <3>1, <2>5, <2>6
    <3> HIDE DEF x
    <3>4. Carries(rt, v) /\ Routing(v)
      BY <2>2, <2>9, <3>3, WithheldCarries
    <3> HIDE DEF v
    <3> QED BY <1>1, <3>2, <3>4, AnsweredInv
  <2> QED BY <2>1, <2>7, <2>8, <2>9
<1> QED BY <1>2, <1>3

LEMMA RefreshInv ==
    ASSUME Standing, RefreshOutputs
    PROVE  Stood
<1> USE StandingParts
<1>1. Received("refresh") /\ Replied(DeliverOutput(QueueCurrent(rt)), "ok")
  BY DEF RefreshOutputs
<1>2. CASE rt.machine = NoMachine
  <2>1. rt.output = NoOutput
    BY <1>2, HeldNothing DEF Resting
  <2>2. DeliverOutput(QueueCurrent(rt)) = rt
    BY <1>2, <2>1, NoOutputType DEF QueueCurrent, DeliverOutput
  <2>3. Carries(rt, rt)
    BY QuietSame, QuietCarries
  <2>4. \A r, u : PictureShown(rt, r, u)
    BY <1>2 DEF PictureShown
  <2> QED BY <1>1, <2>2, <2>3, <2>4, AnsweredInv DEF Replies
<1>3. CASE rt.machine # NoMachine
  <2>1. SameSession(rt, rt) /\ SameMachine(rt, rt) /\ rt.machine \in Machines
    BY <1>3 DEF SameSession, SameMachine, SameParts, Workers
  <2>2. /\ Tidy(rt.output, rt.machine) /\ DOMAIN rt.output \subseteq {VIDEO}
        /\ VIDEO \in DOMAIN rt.output => rt.machine.video
    BY <2>1, HeldTidy DEF Resting, Held
  <2>3. /\ Served(rt, DeliverOutput(QueueCurrent(rt)))
        /\ Republished(DeliverOutput(QueueCurrent(rt)))
    BY <2>1, <2>2, QueueServed
  <2> QED BY <1>1, <2>3, ServedInv DEF Replies
<1> QED BY <1>2, <1>3

LEMMA StepInv ==
    ASSUME Standing, Step
    PROVE  Stood
<1> USE StandingParts
<1>1. Received("step")
  BY DEF Step
<1>2. CASE rt.machine = NoMachine \/ rt.state = "Running"
  <2>1. Replied(rt, "rejected")
    BY <1>2 DEF Step
  <2> QED BY <1>1, <2>1, RejectedInv DEF Replies
<1>3. CASE ~ (rt.machine = NoMachine \/ rt.state = "Running")
  <2>1. PICK events \in {<<>>} \cup {<<e>> : e \in Events} \cup {<<e, "reset">> : e \in Events} :
          Replied(Flush(Executed(rt, events)), "ok")
    BY <1>3 DEF Step
  <2>2. events \in Seq(Events)
    <3>1. CASE events = <<>>
      BY <3>1
    <3>2. ASSUME NEW e \in Events, events = <<e>> PROVE events \in Seq(Events)
      BY <3>2
    <3>3. ASSUME NEW e \in Events, events = <<e, "reset">> PROVE events \in Seq(Events)
      <4>1. "reset" \in Events
        BY DEF Events
      <4> QED BY <3>3, <4>1
    <3> QED BY <3>1, <3>2, <3>3
  <2>3. rt.machine \in Machines /\ Held(rt) /\ rt.alive
    BY <1>1, <1>3, ReceivedFacts DEF Workers, Resting
  <2>4. Served(rt, Flush(Executed(rt, events)))
    BY <2>2, <2>3, ExecutedServed
  <2> QED BY <1>1, <2>1, <2>4, ServedInv DEF Replies
<1> QED BY <1>2, <1>3

LEMMA BatchInv ==
    ASSUME Standing, ExecuteBatch
    PROVE  Stood
<1> USE StandingParts
<1>1. PICK events \in Batches, state \in {"Running", "Paused"} :
        rt' = AfterBatch(Executed(rt, events), state)
  BY DEF ExecuteBatch
<1>2. rt.alive /\ rt.state = "Running" /\ channel' = channel /\ clients' = clients /\ ui' = ui
  BY DEF ExecuteBatch
<1>3. rt.machine \in Machines /\ Held(rt) /\ events \in Seq(Events)
  BY <1>2, ClientsAssumption DEF Workers, Resting
<1>4. Served(rt, rt')
  BY <1>1, <1>2, <1>3, ExecutedServed
<1>5. Carries(rt, rt') /\ Routing(rt')
  BY <1>4, ServedCarries, ServedRouting
<1>6. Opened(rt', clients, ui)
  BY <1>5 DEF Carries, SameSession, Opened, Empty
<1>7. Expected(rt', channel, clients)
  BY <1>5 DEF Carries, SameSession, Expected
<1>8. Known(rt', clients["ui"], ui)
  BY <1>5 DEF Carries, Known
<1> QED BY <1>2, <1>5, <1>6, <1>7, <1>8 DEF Stood, Inv, Carries

\* The routing knows every endpoint the machine takes input on.
LEMMA RoutedKinds ==
    ASSUME NEW m, NEW key, NEW payload \in Payloads, InputKind(m, key) = PayloadKind(payload)
    PROVE  Routed(key, payload)
<1>1. payload \in {"SerialByte", "Keyboard", "PointerMotion", "PointerButton", "EthernetFrame"}
  BY ClientsAssumption
<1>2. /\ InputKind(m, key) = "Serial" => key \in {SERIAL_A, SERIAL_B}
      /\ InputKind(m, key) = "Keyboard" => key = KEYBOARD
      /\ InputKind(m, key) = "Pointer" => key = POINTER
      /\ InputKind(m, key) = "Ethernet" => key = ETHERNET
  BY DEF InputKind
<1> QED BY <1>1, <1>2 DEF PayloadKind, Routed

LEMMA InputInv ==
    ASSUME Standing, MachineInput
    PROVE  Stood
<1> USE StandingParts
<1> DEFINE handle == Head(channel).handle
           payload == Head(channel).payload
<1>1. Received("input")
  BY DEF MachineInput
<1>2. /\ Head(channel) = channel[1] /\ 1 \in 1 .. Len(channel) /\ Head(channel) \in Commands
      /\ Head(channel).op = "input"
  BY <1>1, ReceivedFacts
<1>3. payload \in Payloads /\ handle \in Handles
  <2>1. channel[1].payload \in Payloads
    BY <1>2 DEF Expected
  <2>2. Head(channel).handle \in Handles
    BY <1>2 DEF Commands
  <2> QED BY <1>2, <2>1, <2>2
<1>4. CASE rt.machine = NoMachine \/ IsReplay(rt.mode)
  <2>1. Replied(rt, "rejected")
    BY <1>4 DEF MachineInput
  <2> QED BY <1>1, <2>1, RejectedInv DEF Replies
<1>5. CASE ~ (rt.machine = NoMachine \/ IsReplay(rt.mode)) /\ HandleError(handle, payload) # "none"
  <2>1. Replied(rt, HandleError(handle, payload))
    BY <1>5 DEF MachineInput
  <2>2. HandleError(handle, payload) \in Replies
    BY <1>5 DEF HandleError, Replies
  <2> QED BY <1>1, <2>1, <2>2, RejectedInv
<1>6. CASE ~ (rt.machine = NoMachine \/ IsReplay(rt.mode)) /\ HandleError(handle, payload) = "none"
  <2>1. Consume(handle, payload)
    BY <1>6 DEF MachineInput
  <2>2. handle.generation = rt.generation /\ rt.machine \in Machines
    BY <1>6 DEF HandleError, Workers
  <2> HIDE DEF handle, payload
  <2>3. CASE InputError(rt.machine, handle.key, payload) # "none"
    <3>1. Replied(rt, "rejected")
      BY <2>1, <2>3 DEF Consume
    <3> QED BY <1>1, <3>1, RejectedInv DEF Replies
  <2>4. CASE InputError(rt.machine, handle.key, payload) = "none"
    <3> DEFINE input == [handle |-> handle, payload |-> payload, mode |-> rt.mode]
               m == Receive(rt.machine, input)
               v == [rt EXCEPT !.machine = m]
    <3>1. InputKind(rt.machine, handle.key) = PayloadKind(payload)
      BY <2>4 DEF InputError
    <3>2. Routed(handle.key, payload)
      BY <3>1, <1>3, RoutedKinds
    <3>3. Replied(v, "ok")
      BY <2>1, <2>4, <3>2 DEF Consume
    <3>4. input \in Inputs
      BY <1>3 DEF Inputs, Workers
    <3>5. m = [rt.machine EXCEPT !.received = Append(@, input)]
      BY DEF Receive
    <3> HIDE DEF m
    <3>6. /\ m \in Machines /\ SameParts(m, rt.machine) /\ m.picture = rt.machine.picture
          /\ m.received = Append(rt.machine.received, input)
      <4>1. rt.machine.received \in Seq(Inputs)
        BY <2>2 DEF Machines
      <4>2. Append(rt.machine.received, input) \in Seq(Inputs)
        BY <3>4, <4>1
      <4> HIDE DEF input
      <4> QED BY <2>2, <3>5, <4>2 DEF Machines, SameParts
    <3>7. /\ v \in Workers /\ SameSession(rt, v) /\ v.sink = rt.sink /\ v.emitted = rt.emitted
          /\ v.mode = rt.mode /\ v.output = rt.output /\ v.machine = m /\ v.generation = rt.generation
      BY <3>6 DEF Workers, SameSession
    <3> HIDE DEF v
    <3>8. Quiet(rt, v)
      BY <2>2, <3>6, <3>7, MachineIsSome DEF Quiet
    <3>9. Routing(v)
      <4>1. SUFFICES ASSUME NEW i \in 1 .. Len(m.received)
                     PROVE  /\ m.received[i].handle.generation = rt.generation
                            /\ InputKind(m, m.received[i].handle.key) = PayloadKind(m.received[i].payload)
                            /\ ~IsReplay(m.received[i].mode)
        BY <3>7 DEF Routing
      <4>2. \A key : InputKind(m, key) = InputKind(rt.machine, key)
        BY <3>6, InputKindOfBoard
      <4>3. PICK s \in Seq(Inputs) : s = rt.machine.received
        BY <2>2 DEF Machines
      <4>4. CASE i \in 1 .. Len(s)
        <5>1. m.received[i] = s[i]
          BY <3>4, <3>6, <4>3, <4>4
        <5>2. rt.machine # NoMachine
          BY <2>2, MachineIsSome
        <5> QED BY <4>2, <4>3, <4>4, <5>1, <5>2 DEF Routing
      <4>5. CASE i = Len(s) + 1
        <5>1. m.received[i] = input
          BY <3>4, <3>6, <4>3, <4>5
        <5> QED BY <1>6, <2>2, <3>1, <4>2, <5>1
      <4>6. i \in 1 .. Len(s) \/ i = Len(s) + 1
        BY <3>4, <3>6, <4>1, <4>3
      <4> QED BY <4>4, <4>5, <4>6
    <3> QED BY <1>1, <3>3, <3>8, <3>9, QuietInv DEF Replies
  <2> QED BY <2>3, <2>4
<1> QED BY <1>4, <1>5, <1>6

\* The handler of the window's sink is set: nothing waits yet, and the window
\* shows no machine.
LEMMA AttachInv ==
    ASSUME Standing, SetOutputHandler
    PROVE  Stood
<1> USE StandingParts
<1> DEFINE v == [rt EXCEPT !.handler = TRUE]
<1>1. Received("attach") /\ Replied(v, "ok")
  BY DEF SetOutputHandler
<1>2. /\ rt.alive /\ clients["ui"].op = "attach" /\ clients["ui"].reply = "none"
  BY <1>1, ReceivedFacts
<1>3. ui.window = "open" /\ Empty(rt) /\ ui.panes.generation = 0 /\ rt.sink.open
  BY <1>2 DEF Opened
<1>4. /\ v \in Workers /\ v.handler /\ v.sink = rt.sink /\ v.emitted = rt.emitted
      /\ v.machine = rt.machine /\ v.generation = rt.generation /\ v.alive = rt.alive
      /\ v.output = rt.output /\ v.panicked = rt.panicked /\ v.late = rt.late /\ v.state = rt.state /\ v.mode = rt.mode
      /\ Current(v) = Current(rt)
  BY DEF Workers, Current
<1> HIDE DEF v
<1>5. Resting(v) /\ Sunk(v) /\ Routing(v)
  BY <1>4 DEF Resting, Held, Sunk, Routing
<1>6. Waits(v)
  <2>1. SUFFICES ASSUME NEW h \in Handles
                 PROVE  \E k \in 0 .. Len(Stream(v.emitted, h)) :
                          Stream(v.sink.serial, h)
                            = SubSeq(Stream(v.emitted, h), k + 1, Len(Stream(v.emitted, h)))
    BY DEF Waits
  <2>2. PICK s \in Seq(Nat) : s = Stream(v.emitted, h)
    BY <1>4, StreamType DEF Workers
  <2>3. Stream(v.sink.serial, h) = <<>>
    BY <1>3, <1>4 DEF Empty, Stream
  <2>4. Len(s) \in 0 .. Len(s)
    OBVIOUS
  <2>5. SubSeq(s, Len(s) + 1, Len(s)) = <<>>
    BY RestEmpty
  <2> QED BY <2>2, <2>3, <2>4, <2>5
<1>7. PictureWaits(v)
  BY <1>3, <1>4 DEF PictureWaits, Empty
<1>8. Consoles(v, ui)
  BY <1>3 DEF Consoles
<1>9. /\ rt' = v /\ ui' = ui
      /\ channel' \in Seq(Commands) /\ clients' \in [Clients -> Requests]
      /\ Expected(v, channel', clients')
      /\ \A c \in Clients : clients'[c].op = clients[c].op
      /\ clients'["ui"].reply = "ok"
      /\ clients'["ui"].generation = v.generation
      /\ clients'["ui"].catalog = CatalogOf(v)
  <2>1. "ok" \in Replies
    BY DEF Replies
  <2> QED BY <1>1, <1>4, <1>5, <2>1, RepliedEffect
<1>10. clients'["ui"].op = "attach" /\ clients'["task"].op = clients["task"].op
  BY <1>2, <1>9 DEF Clients
<1>11. PictureShown(v, clients'["ui"], ui)
  BY <1>3, <1>4 DEF PictureShown, Resting
<1>12. Opened(v, clients', ui)
  BY <1>2, <1>3, <1>4, <1>9, <1>10 DEF Opened
<1>13. Known(v, clients'["ui"], ui)
  <2>1. Cataloged(v, ui.panes.generation, ui.panes.catalog)
    BY <1>4 DEF Known, Cataloged
  <2>2. Cataloged(v, v.generation, CatalogOf(v))
    BY <1>4, <1>5, CatalogOfType
  <2> QED BY <2>1, <2>2, <1>9 DEF Known
<1> QED BY <1>4, <1>5, <1>6, <1>7, <1>8, <1>9, <1>11, <1>12, <1>13 DEF Stood, Inv

\* The handler is gone: so is everything said of what it delivers.
LEMMA DetachInv ==
    ASSUME Standing, ClearOutputHandler \/ Shutdown
    PROVE  Stood
<1> USE StandingParts
<1>1. PICK op \in {"detach", "shutdown"} : Received(op) /\
        Replied([rt EXCEPT !.handler = FALSE, !.alive = (op = "detach")], "ok")
  <2>1. CASE ClearOutputHandler
    <3>1. Received("detach") /\ Replied([rt EXCEPT !.handler = FALSE], "ok") /\ rt.alive
      BY <2>1 DEF ClearOutputHandler, Cleared, Received
    <3>2. [rt EXCEPT !.handler = FALSE] = [rt EXCEPT !.handler = FALSE, !.alive = ("detach" = "detach")]
      BY <3>1 DEF Workers
    <3> QED BY <3>1, <3>2
  <2>2. CASE Shutdown
    <3>1. Received("shutdown") /\ Replied([rt EXCEPT !.alive = FALSE, !.handler = FALSE], "ok")
      BY <2>2 DEF Shutdown
    <3>2. [rt EXCEPT !.alive = FALSE, !.handler = FALSE]
            = [rt EXCEPT !.handler = FALSE, !.alive = ("shutdown" = "detach")]
      BY DEF Workers
    <3> QED BY <3>1, <3>2
  <2> QED BY <2>1, <2>2
<1> DEFINE v == [rt EXCEPT !.handler = FALSE, !.alive = (op = "detach")]
<1>2. /\ rt.alive /\ clients["ui"].op = op /\ clients["ui"].reply = "none"
  BY <1>1, ReceivedFacts
<1>3. /\ v \in Workers /\ ~v.handler /\ v.sink = rt.sink /\ v.emitted = rt.emitted
      /\ v.machine = rt.machine /\ v.generation = rt.generation /\ v.alive = (op = "detach")
      /\ v.output = rt.output /\ v.panicked = rt.panicked /\ v.late = rt.late /\ v.state = rt.state /\ v.mode = rt.mode
  BY DEF Workers
<1> HIDE DEF v
<1>4. Resting(v) /\ Sunk(v) /\ Routing(v)
  BY <1>3 DEF Resting, Held, Sunk, Routing
<1>5. /\ Waits(v) /\ PictureWaits(v) /\ Consoles(v, ui) /\ \A r : PictureShown(v, r, ui)
  BY <1>3 DEF Waits, PictureWaits, Consoles, PictureShown
<1>6. /\ rt' = v /\ ui' = ui
      /\ channel' \in Seq(Commands) /\ clients' \in [Clients -> Requests]
      /\ Expected(v, channel', clients')
      /\ \A c \in Clients : clients'[c].op = clients[c].op
      /\ clients'["ui"].reply = "ok"
      /\ clients'["ui"].generation = v.generation
      /\ clients'["ui"].catalog = CatalogOf(v)
  <2>1. "ok" \in Replies /\ op # "configure" /\ Replied(v, "ok")
    BY <1>1 DEF Replies, v
  <2> QED BY <1>1, <1>3, <1>4, <2>1, RepliedEffect
<1>7. clients'["ui"].op = op /\ clients'["task"].op = clients["task"].op
  BY <1>2, <1>6 DEF Clients
<1>8. ui.window = "closing"
  BY <1>2 DEF Opened
<1>9. Opened(v, clients', ui)
  BY <1>2, <1>3, <1>6, <1>7, <1>8 DEF Opened
<1>10. Known(v, clients'["ui"], ui)
  <2>1. Cataloged(v, ui.panes.generation, ui.panes.catalog)
    BY <1>3 DEF Known, Cataloged
  <2>2. Cataloged(v, v.generation, CatalogOf(v))
    BY <1>3, <1>4, CatalogOfType
  <2> QED BY <2>1, <2>2, <1>6 DEF Known
<1> QED BY <1>3, <1>4, <1>5, <1>6, <1>9, <1>10 DEF Stood, Inv

\* A new machine: what waits and what the window shows is of earlier ones.
LEMMA ConfigureInv ==
    ASSUME Standing, Configure
    PROVE  Stood
<1> USE StandingParts
<1> DEFINE command == Head(channel)
<1>1. Received("configure")
  BY DEF Configure
<1>2. /\ rt.alive /\ command = channel[1] /\ 1 \in 1 .. Len(channel) /\ command \in Commands
      /\ command.op = "configure"
  BY <1>1, ReceivedFacts
<1>3. command.mode \in Modes /\ command.topology \in Topologies
  <2>1. channel[1].mode \in Modes /\ channel[1].topology \in Topologies
    BY <1>2 DEF Expected
  <2> QED BY <1>2, <2>1
<1>4. \A v : v \in Workers /\ Resting(v) /\ v.alive = rt.alive /\ (\E reply \in Replies : Replied(v, reply)) =>
        /\ rt' = v /\ ui' = ui
        /\ channel' \in Seq(Commands) /\ clients' \in [Clients -> Requests]
        /\ Expected(v, channel', clients') /\ clients'["ui"] = clients["ui"]
        /\ clients'["task"].op = clients["task"].op
  <2>1. SUFFICES ASSUME NEW v \in Workers, Resting(v), v.alive = rt.alive,
                        NEW reply \in Replies, Replied(v, reply)
                 PROVE  /\ rt' = v /\ ui' = ui
                        /\ channel' \in Seq(Commands) /\ clients' \in [Clients -> Requests]
                        /\ Expected(v, channel', clients') /\ clients'["ui"] = clients["ui"]
                        /\ clients'["task"].op = clients["task"].op
    OBVIOUS
  <2>2. /\ rt' = v /\ ui' = ui
        /\ channel' \in Seq(Commands) /\ clients' \in [Clients -> Requests]
        /\ Expected(v, channel', clients')
        /\ \A c \in Clients : clients'[c].op = clients[c].op
        /\ "configure" = "configure" /\ v.alive => clients'["ui"] = clients["ui"]
    BY <1>1, <2>1, RepliedEffect
  <2> QED BY <1>2, <2>1, <2>2 DEF Clients
<1>5. CASE ~MayConfigure(command.mode)
  <2>1. Replied(rt, "rejected")
    BY <1>5 DEF Configure
  <2>2. "rejected" \in Replies
    BY DEF Replies
  <2>3. /\ rt' = rt /\ ui' = ui
        /\ channel' \in Seq(Commands) /\ clients' \in [Clients -> Requests]
        /\ Expected(rt, channel', clients') /\ clients'["ui"] = clients["ui"]
        /\ clients'["task"].op = clients["task"].op
    BY <1>4, <2>1, <2>2
  <2>4. Opened(rt, clients', ui)
    BY <2>3 DEF Opened
  <2> QED BY <2>3, <2>4 DEF Stood, Inv
<1>6. CASE MayConfigure(command.mode)
  <2>1. PICK picture \in FirstPictures(command.mode) :
          Replied(DeliverOutput(QueueCurrent(Installed(command, picture))), "ok")
    BY <1>6 DEF Configure
  <2> DEFINE w == Installed(command, picture)
             m == ColdMachine(command.topology, picture)
             v == DeliverOutput(QueueCurrent(w))
  <2>2. picture \in Nat
    BY DEF FirstPictures, RestoredPicture
  <2>3. m \in Machines /\ m.received = <<>>
    <3>1. command.topology \in [keyboard : BOOLEAN, mouse : BOOLEAN, video : BOOLEAN]
      BY <1>3, ClientsAssumption
    <3>2. <<>> \in Seq(Inputs)
      OBVIOUS
    <3> QED BY <2>2, <3>1, <3>2 DEF ColdMachine, Machines
  <2>4. w = [rt EXCEPT !.machine = m, !.generation = @ + 1, !.state = "Paused",
                       !.mode = command.mode, !.output = NoOutput]
    BY DEF Installed
  <2> HIDE DEF m, w
  <2>5. /\ w \in Workers /\ w.machine = m /\ w.generation = rt.generation + 1 /\ w.output = NoOutput
        /\ w.alive = rt.alive /\ w.panicked = rt.panicked /\ w.late = rt.late
        /\ w.handler = rt.handler /\ w.sink = rt.sink /\ w.emitted = rt.emitted /\ w.state = "Paused"
    <3>1. PICK mode \in SessionModes : mode = command.mode
      BY <1>3 DEF SessionModes
    <3>2. PICK g \in Nat : g = rt.generation + 1
      BY DEF Workers
    <3>3. w = [rt EXCEPT !.machine = m, !.generation = g, !.state = "Paused",
                         !.mode = mode, !.output = NoOutput]
      BY <2>4, <3>1, <3>2
    <3>4. NoOutput \in Outputs
      BY NoOutputType
    <3> QED BY <2>3, <3>2, <3>3, <3>4 DEF Workers
  <2>6. rt.generation \in Nat /\ m # NoMachine
    BY <2>3, MachineIsSome DEF Workers
  <2>7. Resting(w) /\ DOMAIN w.output = {}
    BY <2>5, <2>6, NoOutputType DEF Resting, Held
  <2>8. Sunk(w)
    BY <2>5, <2>6 DEF Sunk
  <2>9. Waits(w)
    BY <2>5 DEF Waits
  <2>10. Current(w) \notin DOMAIN rt.sink.video
    <3>1. Current(w).generation = rt.generation + 1
      BY <2>5 DEF Current, Handle
    <3> QED BY <2>6, <3>1 DEF Sunk
  <2>11. PictureWaits(w)
    BY <2>5, <2>10 DEF PictureWaits
  <2>12. Routing(w)
    BY <2>3, <2>5 DEF Routing
  <2>13. Consoles(w, ui)
    BY <2>5 DEF Consoles, TextIs
  <2>14. \A generation, catalog :
           Cataloged(rt, generation, catalog) => Cataloged(w, generation, catalog)
    BY <2>5, <2>6 DEF Cataloged
  <2>15. PictureShown(w, clients["ui"], ui)
    <3>1. ui.panes.generation \in 0 .. rt.generation
      BY DEF Known, Cataloged
    <3>2. ui.panes.generation # w.generation
      BY <2>5, <2>6, <3>1
    <3> QED BY <3>2 DEF PictureShown
  <2>16. /\ SameSession(w, w) /\ SameMachine(w, w) /\ (w.handler => w.sink.open)
         /\ Tidy(w.output, w.machine) /\ DOMAIN w.output \subseteq {VIDEO}
         /\ VIDEO \in DOMAIN w.output => w.machine.video
    BY <2>3, <2>5, <2>7 DEF SameSession, SameMachine, SameParts, Tidy
  <2>17. Served(w, v)
    BY <2>5, <2>16, QueueServed
  <2>18. Carries(w, v) /\ Routing(v)
    BY <2>5, <2>7, <2>8, <2>9, <2>11, <2>12, <2>17, ServedCarries, ServedRouting
  <2>19. Replied(v, "ok") /\ "ok" \in Replies
    BY <2>1 DEF w, Replies
  <2> HIDE DEF v
  <2>20. /\ v \in Workers /\ Resting(v) /\ Sunk(v) /\ Waits(v) /\ PictureWaits(v)
         /\ v.alive = rt.alive /\ v.handler = rt.handler /\ v.sink.open = rt.sink.open
         /\ rt.handler \/ v.sink = rt.sink
    BY <2>5, <2>18 DEF Carries, SameSession
  <2>21. /\ rt' = v /\ ui' = ui
         /\ channel' \in Seq(Commands) /\ clients' \in [Clients -> Requests]
         /\ Expected(v, channel', clients') /\ clients'["ui"] = clients["ui"]
         /\ clients'["task"].op = clients["task"].op
    BY <1>4, <2>19, <2>20
  <2>22. Opened(v, clients', ui)
    BY <2>20, <2>21 DEF Opened, Empty
  <2>23. Known(v, clients["ui"], ui)
    BY <2>14, <2>18 DEF Known, Carries
  <2>24. Consoles(v, ui) /\ PictureShown(v, clients["ui"], ui)
    BY <2>13, <2>15, <2>18 DEF Carries
  <2> QED BY <2>18, <2>20, <2>21, <2>22, <2>23, <2>24 DEF Stood, Inv
<1> QED BY <1>5, <1>6

-----------------------------------------------------------------------------
(* The window and the preparation thread.                                  *)

LEMMA CommandType ==
    ASSUME NEW c \in Clients, NEW op \in Operations
    PROVE  /\ Command(c, op) \in Commands /\ Command(c, op).client = c /\ Command(c, op).op = op
           /\ Command(c, op).payload = ""
BY IdleType DEF Command, Commands, SessionModes

LEMMA InputCommandType ==
    ASSUME NEW op \in Operations, NEW handle \in Handles, NEW payload \in Payloads
    PROVE  LET q == InputCommand(op, handle, payload)
           IN  q \in Commands /\ q.client = "ui" /\ q.op = op /\ q.payload = payload
<1>1. "ui" \in Clients
  BY DEF Clients
<1>2. PICK c \in Commands : c = Command("ui", op) /\ c.client = "ui" /\ c.op = op
  <2>1. Command("ui", op) \in Commands /\ Command("ui", op).client = "ui" /\ Command("ui", op).op = op
    BY <1>1, CommandType
  <2> QED BY <2>1
<1>3. InputCommand(op, handle, payload) = [c EXCEPT !.handle = handle, !.payload = payload]
  BY <1>2 DEF InputCommand
<1> QED BY <1>2, <1>3 DEF Commands

\* The window sends a command, with what it shows then.
LEMMA UiSends ==
    ASSUME Standing, clients["ui"].op = "idle" \/ clients["ui"].reply # "none",
           NEW command \in Commands, command.client = "ui", command.op # "configure",
           command.op \in {"input", "resolve"} => command.payload \in Payloads,
           Request("ui", command), rt' = rt, NEW u \in Windows, ui' = u,
           Consoles(rt, u), Cataloged(rt, u.panes.generation, u.panes.catalog),
           PictureShown(rt, clients'["ui"], u),
           (/\ clients'["ui"].op = command.op
            /\ clients'["ui"].reply = (IF rt.alive THEN "none" ELSE "unavailable")
            /\ clients'["task"] = clients["task"])
             => Opened(rt, clients', u)
    PROVE  Stood
<1> USE StandingParts
<1>1. /\ channel' \in Seq(Commands) /\ clients' \in [Clients -> Requests]
      /\ Expected(rt, channel', clients')
      /\ clients'["ui"].op = command.op /\ clients'["ui"].generation = 0
      /\ clients'["ui"].reply = IF rt.alive THEN "none" ELSE "unavailable"
      /\ \A d \in Clients \ {"ui"} : clients'[d] = clients[d]
  <2>1. "ui" \in Clients /\ (command.op = "configure") = ("ui" = "task")
    BY DEF Clients
  <2> QED BY <2>1, RequestEffect
<1>2. clients'["task"] = clients["task"]
  BY <1>1 DEF Clients
<1>3. Opened(rt, clients', u)
  BY <1>1, <1>2
<1>4. Cataloged(rt, 0, clients'["ui"].catalog)
  BY DEF Cataloged, Workers
<1>5. Known(rt, clients'["ui"], u)
  BY <1>1, <1>4 DEF Known
<1> QED BY <1>1, <1>3, <1>5 DEF Stood, Inv

\* A window that stays open.
LEMMA UserInv ==
    ASSUME Standing, UserCommand \/ PollStatus \/ UserInput
    PROVE  Stood
<1> USE StandingParts
<1>1. clients["ui"].op = "idle" /\ ui.window = "open" /\ rt' = rt /\ ui' = ui
  BY DEF UserCommand, PollStatus, UserInput, GuiIdle
<1>2. PICK command \in Commands :
        /\ command.client = "ui" /\ command.op \in {"run", "pause", "step", "reset", "sample", "resolve"}
        /\ command.op = "resolve" => command.payload \in Payloads
        /\ Request("ui", command)
  <2>1. "ui" \in Clients
    BY DEF Clients
  <2>2. CASE UserCommand
    <3>1. PICK op \in {"run", "pause", "step", "reset"} : UiCommand(op)
      BY <2>2 DEF UserCommand
    <3>2. op \in Operations
      BY DEF Operations, UiOperations
    <3>3. Command("ui", op) \in Commands /\ Command("ui", op).client = "ui" /\ Command("ui", op).op = op
      BY <2>1, <3>2, CommandType
    <3> QED BY <3>1, <3>3 DEF UiCommand
  <2>3. CASE PollStatus
    <3>1. "sample" \in Operations /\ UiCommand("sample")
      BY <2>3 DEF PollStatus, Operations, UiOperations
    <3>2. /\ Command("ui", "sample") \in Commands /\ Command("ui", "sample").client = "ui"
          /\ Command("ui", "sample").op = "sample"
      BY <2>1, <3>1, CommandType
    <3> QED BY <3>1, <3>2 DEF UiCommand
  <2>4. CASE UserInput
    <3>1. PICK key \in DOMAIN ui.panes.catalog, payload \in Payloads :
            Request("ui", InputCommand("resolve", Handle(ui.panes.generation, key), payload))
      BY <2>4 DEF UserInput
    <3>2. ui.panes.catalog \in Catalogs /\ ui.panes.generation \in Nat
      BY DEF Windows, Panes
    <3>3. Handle(ui.panes.generation, key) \in Handles
      BY <3>2, HandleType DEF Catalogs
    <3>4. "resolve" \in Operations
      BY DEF Operations, UiOperations
    <3> DEFINE q == InputCommand("resolve", Handle(ui.panes.generation, key), payload)
    <3>5. q \in Commands /\ q.client = "ui" /\ q.op = "resolve" /\ q.payload = payload
      BY <3>3, <3>4, InputCommandType
    <3> QED BY <3>1, <3>5
  <2> QED BY <2>2, <2>3, <2>4
<1>3. rt.handler /\ rt.alive
  BY <1>1 DEF Opened
<1>4. Consoles(rt, ui) /\ Cataloged(rt, ui.panes.generation, ui.panes.catalog)
  BY DEF Known
<1>5. PictureShown(rt, clients'["ui"], ui)
  BY <1>1 DEF PictureShown
<1>6. ASSUME clients'["ui"].op = command.op,
             clients'["ui"].reply = (IF rt.alive THEN "none" ELSE "unavailable"),
             clients'["task"] = clients["task"]
      PROVE  Opened(rt, clients', ui)
  BY <1>1, <1>2, <1>3, <1>6 DEF Opened
<1>7. command.op # "configure" /\ command.op # "input"
  BY <1>2
<1> QED BY <1>1, <1>2, <1>4, <1>5, <1>6, <1>7, UiSends

\* The window opens, closes, and the application shuts the runtime down.
LEMMA WindowInv ==
    ASSUME Standing, OpenWindow \/ CloseWindow \/ ShutdownRuntime
    PROVE  Stood
<1> USE StandingParts
<1>1. PICK command \in Commands, window \in {"open", "closing"} :
        /\ command.client = "ui" /\ Request("ui", command) /\ ui' = [ui EXCEPT !.window = window]
        /\ rt' = rt /\ clients["ui"].op = "idle"
        /\ \/ ui.window = "new" /\ command.op = "attach" /\ window = "open"
           \/ ui.window = "open" /\ command.op = "detach" /\ window = "closing"
           \/ ui.window = "detached" /\ command.op = "shutdown" /\ window = "closing"
  <2>1. "ui" \in Clients
    BY DEF Clients
  <2>2. PICK op \in {"attach", "detach", "shutdown"}, window \in {"open", "closing"} :
          /\ UiCommand(op) /\ ui' = [ui EXCEPT !.window = window]
          /\ rt' = rt /\ clients["ui"].op = "idle"
          /\ \/ ui.window = "new" /\ op = "attach" /\ window = "open"
             \/ ui.window = "open" /\ op = "detach" /\ window = "closing"
             \/ ui.window = "detached" /\ op = "shutdown" /\ window = "closing"
    BY DEF OpenWindow, CloseWindow, ShutdownRuntime, GuiIdle
  <2>3. op \in Operations
    BY DEF Operations, UiOperations
  <2>4. Command("ui", op) \in Commands /\ Command("ui", op).client = "ui" /\ Command("ui", op).op = op
    BY <2>1, <2>3, CommandType
  <2> QED BY <2>2, <2>4 DEF UiCommand
<1> DEFINE u == [ui EXCEPT !.window = window]
<1>2. u \in Windows /\ u.panes = ui.panes /\ u.window = window
  BY DEF Windows
<1> HIDE DEF u
<1>3. rt.alive /\ (ui.window = "new" => ~rt.handler /\ Empty(rt) /\ ui.panes.generation = 0)
  BY <1>1 DEF Opened
<1>4. Consoles(rt, u)
  BY <1>1, <1>2, <1>3 DEF Consoles
<1>5. PictureShown(rt, clients'["ui"], u)
  BY <1>1, <1>2, <1>3 DEF PictureShown
<1>6. Cataloged(rt, u.panes.generation, u.panes.catalog)
  BY <1>2 DEF Known
<1>7. ASSUME clients'["ui"].op = command.op,
             clients'["ui"].reply = (IF rt.alive THEN "none" ELSE "unavailable"),
             clients'["task"] = clients["task"]
      PROVE  Opened(rt, clients', u)
  <2>1. clients'["ui"].reply = "none"
    BY <1>3, <1>7
  <2>2. CASE ui.window = "new" /\ command.op = "attach" /\ window = "open"
    BY <1>1, <1>2, <1>3, <1>7, <2>1, <2>2 DEF Opened
  <2>3. CASE ui.window = "open" /\ command.op = "detach" /\ window = "closing"
    BY <1>1, <1>2, <1>3, <1>7, <2>1, <2>3 DEF Opened
  <2>4. CASE ui.window = "detached" /\ command.op = "shutdown" /\ window = "closing"
    BY <1>1, <1>2, <1>3, <1>7, <2>1, <2>4 DEF Opened
  <2> QED BY <1>1, <2>2, <2>3, <2>4
<1>8. command.op # "configure" /\ command.op # "input" /\ command.op # "resolve" /\ ui' = u
  BY <1>1 DEF u
<1> QED BY <1>1, <1>2, <1>4, <1>5, <1>6, <1>7, <1>8, UiSends

\* Of an emitted stream, what does not wait for the window is gone.
LEMMA GoneRest ==
    ASSUME Standing, rt.handler, NEW h \in Handles
    PROVE  TextIs(rt, h, <<>>, Gone(h))
<1>1. PICK s \in Seq(Nat) : s = Stream(rt.emitted, h)
  BY StandingParts, StreamType DEF Workers
<1>2. PICK p \in Seq(Nat) : p = Stream(rt.sink.serial, h)
  BY StandingParts, StreamType DEF Workers, Sinks
<1>3. PICK k \in 0 .. Len(s) : p = SubSeq(s, k + 1, Len(s))
  BY <1>1, <1>2, StandingParts DEF Waits
<1>4. Len(p) = Len(s) - k
  BY <1>3, RestType
<1>5. Gone(h) = Len(s) - Len(p)
  BY <1>1, <1>2 DEF Gone, EmittedFor, PendingFor
<1>6. Gone(h) = k
  BY <1>3, <1>4, <1>5
<1>7. <<>> \o p = p
  BY ConcatEmpty
<1> QED BY <1>1, <1>2, <1>3, <1>6, <1>7 DEF TextIs

\* The thread goes on with a reply while the window is open.
LEMMA UiContinuesInv ==
    ASSUME Standing, UiContinues
    PROVE  Stood
<1> USE StandingParts
<1> DEFINE r == clients["ui"]
<1>1. r.reply # "none" /\ ui.window = "open" /\ rt' = rt
  BY DEF UiContinues
<1>2. rt.alive /\ rt.handler
  BY <1>1 DEF Opened
<1>3. "ui" \in Clients /\ r \in Requests /\ "catalog" \in Operations /\ "refresh" \in Operations
      /\ "input" \in Operations
  BY DEF Clients, Operations, UiOperations
<1>4. ASSUME NEW command \in Commands, command.client = "ui",
             command.op \in {"catalog", "refresh", "input"},
             command.op = "input" => command.payload \in Payloads,
             Request("ui", command), NEW u \in Windows, ui' = u, u.window = "open",
             Consoles(rt, u), Cataloged(rt, u.panes.generation, u.panes.catalog),
             command.op = "refresh" \/ u = ui
      PROVE  Stood
  <2>1. command.op # "configure" /\ command.op # "resolve"
    BY <1>4
  <2>2. /\ clients'["ui"].op = command.op
        /\ clients'["ui"].reply = "none"
    <3>1. (command.op = "configure") = ("ui" = "task")
      BY <1>4
    <3> QED BY <1>1, <1>2, <1>3, <1>4, <2>1, <3>1, RequestEffect
  <2>3. PictureShown(rt, clients'["ui"], u)
    <3>1. CASE command.op = "refresh"
      BY <2>2, <3>1 DEF PictureShown
    <3>2. CASE command.op # "refresh"
      <4>1. u = ui
        BY <1>4, <3>2
      <4> QED BY <1>1, <2>2, <3>2, <4>1 DEF PictureShown
    <3> QED BY <3>1, <3>2
  <2>4. ASSUME clients'["ui"].op = command.op,
               clients'["ui"].reply = (IF rt.alive THEN "none" ELSE "unavailable"),
               clients'["task"] = clients["task"]
        PROVE  Opened(rt, clients', u)
    BY <1>1, <1>2, <1>4, <2>4 DEF Opened
  <2> QED BY <1>1, <1>4, <2>1, <2>3, <2>4, UiSends
<1>5. CASE NewMachineSeen(r)
  <2>1. UiCommand("catalog") /\ ui' = ui
    BY <1>5 DEF UiContinues
  <2>2. Command("ui", "catalog") \in Commands /\ Command("ui", "catalog").client = "ui"
        /\ Command("ui", "catalog").op = "catalog"
    BY <1>3, CommandType
  <2> QED BY <1>1, <1>4, <2>1, <2>2 DEF UiCommand, Known
<1>6. CASE ~NewMachineSeen(r) /\ r.op = "catalog" /\ r.reply = "ok"
  <2> DEFINE p == Shown(r.catalog, r.generation)
             u == [ui EXCEPT !.panes = p]
  <2>1. UiCommand("refresh") /\ ui' = u
    BY <1>6 DEF UiContinues, AfterRebuild
  <2>2. r.generation \in Nat /\ r.catalog \in Catalogs
    BY <1>3 DEF Requests
  <2>3. Handle(r.generation, SERIAL_A) \in Handles /\ Handle(r.generation, SERIAL_B) \in Handles
    BY <2>2, HandleType, PortKeys
  <2>4. \A h \in Handles : Gone(h) \in Int
    <3>1. \A h : EmittedFor(h) \in Seq(Nat) /\ PendingFor(h) \in Seq(Nat)
      BY StreamType DEF EmittedFor, PendingFor, Workers, Sinks
    <3> QED BY <3>1 DEF Gone
  <2>5. /\ p \in Panes /\ p.generation = r.generation /\ p.catalog = r.catalog
        /\ p.a = <<>> /\ p.b = <<>> /\ p.fromA = Gone(Handle(r.generation, SERIAL_A))
        /\ p.fromB = Gone(Handle(r.generation, SERIAL_B))
    <3>1. <<>> \in Seq(Nat)
      OBVIOUS
    <3> QED BY <2>2, <2>3, <2>4, <3>1 DEF Shown, Panes
  <2> HIDE DEF p
  <2>6. u \in Windows /\ u.panes = p /\ u.window = "open"
    BY <1>1, <2>5 DEF Windows
  <2> HIDE DEF u
  <2>7. Consoles(rt, u)
    <3>1. /\ TextIs(rt, Handle(r.generation, SERIAL_A), <<>>, Gone(Handle(r.generation, SERIAL_A)))
          /\ TextIs(rt, Handle(r.generation, SERIAL_B), <<>>, Gone(Handle(r.generation, SERIAL_B)))
      BY <1>2, <2>3, GoneRest
    <3> QED BY <2>5, <2>6, <3>1 DEF Consoles
  <2>8. Cataloged(rt, u.panes.generation, u.panes.catalog)
    BY <2>5, <2>6 DEF Known
  <2>9. Command("ui", "refresh") \in Commands /\ Command("ui", "refresh").client = "ui"
        /\ Command("ui", "refresh").op = "refresh"
    BY <1>3, CommandType
  <2> QED BY <1>4, <2>1, <2>6, <2>7, <2>8, <2>9 DEF UiCommand
<1>7. CASE ~NewMachineSeen(r) /\ ~(r.op = "catalog" /\ r.reply = "ok") /\ r.op = "resolve" /\ Resolves(r)
  <2>1. Request("ui", InputCommand("input", r.handle, r.payload)) /\ ui' = ui
    BY <1>7 DEF UiContinues
  <2>2. r.payload \in Payloads /\ r.handle \in Handles
    BY <1>3, <1>7 DEF Expected, Requests
  <2> DEFINE q == InputCommand("input", r.handle, r.payload)
  <2>3. q \in Commands /\ q.client = "ui" /\ q.op = "input" /\ q.payload = r.payload
    BY <1>3, <2>2, InputCommandType
  <2> HIDE DEF q
  <2>4. Request("ui", q)
    BY <2>1 DEF q
  <2> HIDE DEF r
  <2> QED BY <1>1, <1>4, <2>1, <2>2, <2>3, <2>4 DEF Known
<1>8. CASE clients' = [clients EXCEPT !["ui"] = Idle] /\ ui' = ui /\ channel' = channel
           /\ ~(r.op = "refresh" /\ r.reply = "none")
  <2>1. /\ clients' \in [Clients -> Requests] /\ clients'["ui"] = Idle
        /\ \A d \in Clients \ {"ui"} : clients'[d] = clients[d]
    BY <1>3, <1>8, IdleType
  <2>2. clients'["ui"].op = "idle" /\ clients'["ui"].reply = "none" /\ clients'["ui"].generation = 0
        /\ clients'["task"] = clients["task"]
    BY <2>1, IdleType DEF Clients
  <2>3. Opened(rt, clients', ui)
    BY <1>1, <1>2, <2>2 DEF Opened
  <2>4. Known(rt, clients'["ui"], ui)
    BY <2>2 DEF Known, Cataloged, Workers
  <2>5. PictureShown(rt, clients'["ui"], ui)
    BY <1>1, <1>8, <2>2 DEF PictureShown
  <2>6. Expected(rt, channel, clients')
    <3>1. \A i \in 1 .. Len(channel) : channel[i].client \in Clients
      <4>1. \A i \in 1 .. Len(channel) : channel[i] \in Commands
        OBVIOUS
      <4> QED BY <4>1 DEF Commands
    <3>2. \A i \in 1 .. Len(channel) : channel[i].client # "ui"
      BY <1>1 DEF Expected
    <3>3. \A i \in 1 .. Len(channel) : clients'[channel[i].client] = clients[channel[i].client]
      BY <2>1, <3>1, <3>2
    <3>4. \A d \in Clients : clients'[d].op # "idle" /\ clients'[d].reply = "none" =>
            rt.alive /\ \E i \in 1 .. Len(channel) : channel[i].client = d
      BY <2>1, <2>2 DEF Expected
    <3> QED BY <2>2, <3>3, <3>4 DEF Expected
  <2> QED BY <1>1, <1>8, <2>1, <2>3, <2>4, <2>5, <2>6 DEF Stood, Inv
<1> QED BY <1>1, <1>5, <1>6, <1>7, <1>8 DEF UiContinues

\* A client that had its reply waits for nothing.
LEMMA IdleExpected ==
    ASSUME Standing, NEW c \in Clients, clients[c].reply # "none",
           clients' = [clients EXCEPT ![c] = Idle]
    PROVE  /\ clients' \in [Clients -> Requests] /\ Expected(rt, channel, clients')
           /\ clients'[c] = Idle /\ \A d \in Clients \ {c} : clients'[d] = clients[d]
<1> USE StandingParts
<1>1. /\ clients' \in [Clients -> Requests] /\ clients'[c] = Idle
      /\ \A d \in Clients \ {c} : clients'[d] = clients[d]
  BY IdleType
<1>2. \A i \in 1 .. Len(channel) : channel[i].client \in Clients
  <2>1. \A i \in 1 .. Len(channel) : channel[i] \in Commands
    OBVIOUS
  <2> QED BY <2>1 DEF Commands
<1>3. \A i \in 1 .. Len(channel) : channel[i].client # c
  BY DEF Expected
<1>4. \A i \in 1 .. Len(channel) : clients'[channel[i].client] = clients[channel[i].client]
  BY <1>1, <1>2, <1>3
<1>5. \A d \in Clients : clients'[d].op # "idle" /\ clients'[d].reply = "none" =>
        rt.alive /\ \E i \in 1 .. Len(channel) : channel[i].client = d
  BY <1>1, IdleType DEF Expected
<1>6. clients'["ui"].op = "resolve" => clients'["ui"].payload \in Payloads
  BY <1>1, IdleType DEF Expected, Clients
<1>7. Expected(rt, channel, clients')
  BY <1>4, <1>5, <1>6 DEF Expected
<1> QED BY <1>1, <1>7

\* The destructor goes on: the sink is destroyed, or the worker has been joined.
LEMMA CloseInv ==
    ASSUME Standing, CloseContinues
    PROVE  Stood
<1> USE StandingParts
<1> DEFINE detached == clients["ui"].op = "detach"
           v == [rt EXCEPT !.sink.open = rt.sink.open /\ ~detached]
           u == [ui EXCEPT !.window = IF detached THEN "detached" ELSE "closed"]
<1>1. /\ clients["ui"].reply # "none" /\ ui.window = "closing" /\ rt' = v /\ ui' = u
      /\ clients' = [clients EXCEPT !["ui"] = Idle] /\ channel' = channel
  BY DEF CloseContinues
<1>2. "ui" \in Clients
  BY DEF Clients
<1>3. /\ clients' \in [Clients -> Requests] /\ Expected(rt, channel, clients')
      /\ clients'["ui"] = Idle /\ clients'["task"] = clients["task"]
  <2>1. \A d \in Clients \ {"ui"} : clients'[d] = clients[d]
    BY <1>1, <1>2, IdleExpected
  <2> QED BY <1>1, <1>2, <2>1, IdleExpected DEF Clients
<1>4. /\ ~rt.handler /\ clients["ui"].op \in {"detach", "shutdown"}
      /\ detached => rt.alive
  BY <1>1 DEF Opened
<1>5. PICK open \in BOOLEAN : open = (rt.sink.open /\ ~detached)
  OBVIOUS
<1>6. u \in Windows /\ u.panes = ui.panes /\ u.window = IF detached THEN "detached" ELSE "closed"
  BY DEF Windows
<1> HIDE DEF u
<1>7. v = [rt EXCEPT !.sink = [rt.sink EXCEPT !.open = open]]
  BY <1>5 DEF Workers, Sinks
<1> HIDE DEF v
<1>8. /\ [rt.sink EXCEPT !.open = open] \in Sinks
      /\ [rt.sink EXCEPT !.open = open].serial = rt.sink.serial
      /\ [rt.sink EXCEPT !.open = open].video = rt.sink.video
      /\ [rt.sink EXCEPT !.open = open].scheduled = rt.sink.scheduled
      /\ [rt.sink EXCEPT !.open = open].posted = rt.sink.posted
  BY DEF Workers, Sinks
<1>9. /\ v \in Workers /\ ~v.handler /\ v.emitted = rt.emitted /\ v.machine = rt.machine
      /\ v.generation = rt.generation /\ v.alive = rt.alive /\ v.output = rt.output
      /\ v.panicked = rt.panicked /\ v.late = rt.late /\ v.state = rt.state /\ v.mode = rt.mode
      /\ v.sink.serial = rt.sink.serial /\ v.sink.video = rt.sink.video
      /\ v.sink.scheduled = rt.sink.scheduled /\ v.sink.posted = rt.sink.posted
  BY <1>4, <1>7, <1>8 DEF Workers
<1>10. Resting(v) /\ Sunk(v) /\ Routing(v)
  BY <1>9 DEF Resting, Held, Sunk, Routing
<1>11. Waits(v) /\ PictureWaits(v) /\ Consoles(v, u) /\ PictureShown(v, clients'["ui"], u)
  BY <1>9 DEF Waits, PictureWaits, Consoles, PictureShown
<1>12. Opened(v, clients', u)
  <2>1. clients'["ui"].op = "idle" /\ clients'["ui"].reply = "none" /\ clients'["task"].op = clients["task"].op
    BY <1>3, IdleType
  <2>2. CASE detached
    BY <1>4, <1>6, <1>9, <2>1, <2>2 DEF Opened
  <2>3. CASE ~detached
    BY <1>4, <1>6, <1>9, <2>1, <2>3 DEF Opened
  <2> QED BY <2>2, <2>3
<1>13. Known(v, clients'["ui"], u)
  <2>1. Cataloged(v, u.panes.generation, u.panes.catalog)
    BY <1>6, <1>9 DEF Known, Cataloged
  <2>2. Cataloged(v, clients'["ui"].generation, clients'["ui"].catalog)
    <3>1. clients'["ui"].generation = 0 /\ v.generation \in Nat
      BY <1>3, <1>9, IdleType DEF Workers
    <3> QED BY <3>1 DEF Cataloged
  <2> QED BY <2>1, <2>2 DEF Known
<1>14. Expected(v, channel, clients')
  BY <1>3, <1>9 DEF Expected
<1> QED BY <1>1, <1>3, <1>6, <1>9, <1>10, <1>11, <1>12, <1>13, <1>14 DEF Stood, Inv

\* The window takes what waits.
LEMMA DrainInv ==
    ASSUME Standing, Drain
    PROVE  Stood
<1> USE StandingParts
<1> DEFINE P == ui.panes
           a == Fed(P.a, P, rt.sink.serial, SERIAL_A)
           b == Fed(P.b, P, rt.sink.serial, SERIAL_B)
           picture == Presented(P.picture, P, rt.sink.video)
           s == [Drained(rt.sink) EXCEPT !.posted = FALSE]
           v == [rt EXCEPT !.sink = s]
           p == [P EXCEPT !.a = a, !.b = b, !.picture = picture]
           u == [ui EXCEPT !.panes = p]
<1>1. /\ clients["ui"].op = "idle" /\ ui.window = "open" /\ channel' = channel /\ clients' = clients
      /\ rt' = v /\ ui' = u
  <2>1. /\ clients["ui"].op = "idle" /\ ui.window = "open" /\ channel' = channel
        /\ clients' = clients /\ rt' = v
    BY DEF Drain, GuiIdle
  <2>2. ui' = [ui EXCEPT !.panes = [P EXCEPT !.a = Fed(@, P, rt.sink.serial, SERIAL_A),
                                             !.b = Fed(@, P, rt.sink.serial, SERIAL_B),
                                             !.picture = Presented(@, P, rt.sink.video)]]
    BY DEF Drain
  <2>3. p = [P EXCEPT !.a = Fed(@, P, rt.sink.serial, SERIAL_A),
                      !.b = Fed(@, P, rt.sink.serial, SERIAL_B),
                      !.picture = Presented(@, P, rt.sink.video)]
    OBVIOUS
  <2>4. ui' = u
    <3> HIDE DEF p
    <3> QED BY <2>2, <2>3
  <2> QED BY <2>1, <2>4
<1>2. rt.handler /\ rt.alive /\ rt.sink.open
  BY <1>1 DEF Opened
<1>3. /\ rt.sink \in Sinks /\ rt.sink.serial \in Streams /\ rt.sink.video \in Streams
      /\ P \in Panes /\ P.a \in Seq(Nat) /\ P.b \in Seq(Nat) /\ P.picture \in Nat
      /\ P.generation \in Nat
  BY DEF Workers, Sinks, Windows, Panes
<1>4. a \in Seq(Nat) /\ b \in Seq(Nat)
  <2>1. ASSUME NEW text \in Seq(Nat), NEW key PROVE Fed(text, P, rt.sink.serial, key) \in Seq(Nat)
    <3>1. Stream(rt.sink.serial, Handle(P.generation, key)) \in Seq(Nat)
      BY <1>3, StreamType
    <3>2. text \o Stream(rt.sink.serial, Handle(P.generation, key)) \in Seq(Nat)
      BY <3>1, ConcatType
    <3> QED BY <3>2 DEF Fed
  <2> QED BY <1>3, <2>1
<1>5. picture \in Nat
  <2>1. ASSUME NEW h \in DOMAIN rt.sink.video PROVE rt.sink.video[h][1] \in Nat
    <3>1. rt.sink.video[h] \in Seq(Nat) /\ Len(rt.sink.video[h]) = 1
      BY <1>3, StreamsElim DEF Sunk
    <3> QED BY <3>1
  <2> QED BY <1>3, <2>1 DEF Presented
<1>6. /\ s \in Sinks /\ s.serial = NoStreams /\ s.video = NoStreams /\ ~s.scheduled /\ s.open = rt.sink.open
  BY <1>3, NoStreamsType DEF Drained, Sinks
<1> HIDE DEF s
<1>7. /\ v \in Workers /\ v.handler /\ v.emitted = rt.emitted /\ v.machine = rt.machine
      /\ v.generation = rt.generation /\ v.alive = rt.alive /\ v.output = rt.output
      /\ v.panicked = rt.panicked /\ v.late = rt.late /\ v.state = rt.state /\ v.mode = rt.mode /\ v.sink = s
      /\ Current(v) = Current(rt)
  BY <1>2, <1>6 DEF Workers, Current
<1> HIDE DEF v
<1>8. /\ p \in Panes /\ p.generation = P.generation /\ p.catalog = P.catalog
      /\ p.a = a /\ p.b = b /\ p.picture = picture /\ p.fromA = P.fromA /\ p.fromB = P.fromB
  <2> HIDE DEF a, b, picture
  <2> QED BY <1>3, <1>4, <1>5 DEF Panes
<1> HIDE DEF p
<1>9. u \in Windows /\ u.window = "open" /\ u.panes = p
  BY <1>1, <1>8 DEF Windows
<1> HIDE DEF u
<1>10. DOMAIN s.serial = {} /\ DOMAIN s.video = {} /\ \A h : Stream(s.serial, h) = <<>>
  BY <1>6, NoStreamsType DEF Stream
<1>11. Resting(v) /\ Sunk(v) /\ Routing(v)
  BY <1>6, <1>7, <1>10 DEF Resting, Held, Sunk, Routing
<1>12. Waits(v)
  <2>1. SUFFICES ASSUME NEW h \in Handles
                 PROVE  \E k \in 0 .. Len(Stream(v.emitted, h)) :
                          Stream(v.sink.serial, h)
                            = SubSeq(Stream(v.emitted, h), k + 1, Len(Stream(v.emitted, h)))
    BY DEF Waits
  <2>2. PICK t \in Seq(Nat) : t = Stream(v.emitted, h)
    BY <1>7, StreamType DEF Workers
  <2>3. Len(t) \in 0 .. Len(t) /\ SubSeq(t, Len(t) + 1, Len(t)) = <<>>
    BY RestEmpty
  <2> QED BY <1>7, <1>10, <2>2, <2>3
<1>13. PictureWaits(v)
  BY <1>7, <1>10 DEF PictureWaits
<1>14. Consoles(v, u)
  <2>1. SUFFICES ASSUME P.generation > 0
                 PROVE  /\ TextIs(v, Handle(P.generation, SERIAL_A), a, P.fromA)
                        /\ TextIs(v, Handle(P.generation, SERIAL_B), b, P.fromB)
    BY <1>8, <1>9 DEF Consoles
  <2>2. SERIAL_A \in DOMAIN P.catalog /\ SERIAL_B \in DOMAIN P.catalog
    BY <2>1, PortKeys DEF Known, Cataloged
  <2>3. /\ a = P.a \o Stream(rt.sink.serial, Handle(P.generation, SERIAL_A))
        /\ b = P.b \o Stream(rt.sink.serial, Handle(P.generation, SERIAL_B))
    BY <2>2 DEF Fed, Listed
  <2>4. /\ TextIs(rt, Handle(P.generation, SERIAL_A), P.a, P.fromA)
        /\ TextIs(rt, Handle(P.generation, SERIAL_B), P.b, P.fromB)
    BY <1>1, <1>2, <2>1 DEF Consoles
  <2>5. ASSUME NEW h, NEW text \in Seq(Nat), NEW from, TextIs(rt, h, text, from)
        PROVE  TextIs(v, h, text \o Stream(rt.sink.serial, h), from)
    <3>1. PICK t \in Seq(Nat) : t = text \o Stream(rt.sink.serial, h)
      BY <1>3, StreamType, ConcatType
    <3>2. t \o Stream(v.sink.serial, h) = t
      BY <1>7, <1>10, ConcatEmpty
    <3> QED BY <1>7, <2>5, <3>1, <3>2 DEF TextIs
  <2> QED BY <1>3, <2>3, <2>4, <2>5
<1>15. PictureShown(v, clients["ui"], u)
  <2>1. SUFFICES ASSUME rt.machine # NoMachine, rt.machine.video, P.generation = rt.generation,
                        VIDEO \notin DOMAIN rt.output
                 PROVE  picture = rt.machine.picture
    BY <1>7, <1>8, <1>9 DEF PictureShown
  <2>2. rt.machine \in Machines /\ rt.generation \in Nat \ {0}
    BY <2>1 DEF Workers, Resting
  <2>3. VIDEO \in DOMAIN P.catalog
    <3>1. P.catalog = Catalog(rt.machine)
      BY <2>1, <2>2 DEF Known, Cataloged
    <3> QED BY <2>1, <2>2, <3>1, CatalogFacts, KeysType
  <2>4. CASE Current(rt) \in DOMAIN rt.sink.video
    <3>1. rt.sink.video[Current(rt)] = <<rt.machine.picture>>
      BY <1>2, <2>1, <2>4 DEF PictureWaits
    <3>2. picture = rt.sink.video[Current(rt)][1]
      BY <2>1, <2>3, <2>4 DEF Presented, Listed, Current
    <3> QED BY <3>1, <3>2
  <2>5. CASE Current(rt) \notin DOMAIN rt.sink.video
    <3>1. P.picture = rt.machine.picture
      BY <1>1, <1>2, <2>1, <2>5 DEF PictureShown
    <3>2. picture = P.picture
      BY <2>1, <2>5 DEF Presented, Current
    <3> QED BY <3>1, <3>2
  <2> QED BY <2>4, <2>5
<1>16. Opened(v, clients, u)
  BY <1>1, <1>2, <1>6, <1>7, <1>9 DEF Opened
<1>17. Known(v, clients["ui"], u)
  BY <1>7, <1>8, <1>9 DEF Known, Cataloged
<1>18. Expected(v, channel, clients)
  BY <1>7 DEF Expected
<1> QED BY <1>1, <1>7, <1>9, <1>11, <1>12, <1>13, <1>14, <1>15, <1>16, <1>17, <1>18 DEF Stood, Inv

\* The preparation thread asks for a machine, and goes on with the reply.
LEMMA TaskInv ==
    ASSUME Standing, TaskConfigures \/ TaskContinues
    PROVE  Stood
<1> USE StandingParts
<1>1. rt' = rt /\ ui' = ui
  BY DEF TaskConfigures, TaskContinues
<1>2. "ui" \in Clients /\ "task" \in Clients /\ "ui" # "task"
  BY DEF Clients
<1>3. /\ channel' \in Seq(Commands) /\ clients' \in [Clients -> Requests]
      /\ Expected(rt, channel', clients') /\ clients'["ui"] = clients["ui"]
      /\ clients'["task"].op \in {"idle", "configure"}
  <2>1. CASE TaskConfigures
    <3>1. PICK mode \in Modes, topology \in Topologies :
            Request("task", [Command("task", "configure") EXCEPT !.mode = mode, !.topology = topology])
      BY <2>1 DEF TaskConfigures
    <3>2. clients["task"].op = "idle"
      BY <2>1 DEF TaskConfigures
    <3>3. PICK c \in Commands : c = Command("task", "configure") /\ c.client = "task" /\ c.op = "configure"
      <4>1. "configure" \in Operations
        BY DEF Operations
      <4>2. /\ Command("task", "configure") \in Commands /\ Command("task", "configure").client = "task"
            /\ Command("task", "configure").op = "configure"
        BY <1>2, <4>1, CommandType
      <4> QED BY <4>2
    <3> DEFINE q == [c EXCEPT !.mode = mode, !.topology = topology]
    <3>4. q \in Commands /\ q.client = "task" /\ q.op = "configure" /\ q.mode = mode /\ q.topology = topology
      BY <3>3 DEF Commands, SessionModes
    <3>5. Request("task", q)
      BY <3>1, <3>3
    <3> HIDE DEF q
    <3>6. /\ channel' \in Seq(Commands) /\ clients' \in [Clients -> Requests]
          /\ Expected(rt, channel', clients') /\ clients'["task"].op = q.op
          /\ \A d \in Clients \ {"task"} : clients'[d] = clients[d]
      BY <1>2, <3>2, <3>4, <3>5, RequestEffect
    <3> QED BY <1>2, <3>4, <3>6
  <2>2. CASE TaskContinues
    <3>1. clients["task"].reply # "none" /\ clients' = [clients EXCEPT !["task"] = Idle] /\ channel' = channel
      BY <2>2 DEF TaskContinues
    <3>2. /\ clients' \in [Clients -> Requests] /\ Expected(rt, channel, clients')
          /\ clients'["task"] = Idle /\ \A d \in Clients \ {"task"} : clients'[d] = clients[d]
      BY <1>2, <3>1, IdleExpected
    <3> QED BY <1>2, <3>1, <3>2, IdleType
  <2> QED BY <2>1, <2>2
<1>4. Opened(rt, clients', ui)
  BY <1>3 DEF Opened
<1> QED BY <1>1, <1>3, <1>4 DEF Stood, Inv

-----------------------------------------------------------------------------
(* The invariant.                                                          *)

LEMMA InitInv ==
    ASSUME Init
    PROVE  Standing
<1>1. NoOutput \in Outputs
  <2>1. NoOutput \in [{} -> OutputEntries]
    BY DEF NoOutput
  <2> QED BY <2>1 DEF Outputs
<1>2. EmptySink \in Sinks /\ NoStreams \in Streams
  BY NoStreamsType DEF EmptySink, Sinks
<1>3. /\ ~rt.panicked /\ ~rt.late /\ rt.alive /\ ~rt.handler /\ rt.state = "Unconfigured"
      /\ rt.generation = 0 /\ rt.machine = NoMachine /\ rt.output = NoOutput /\ rt.sink = EmptySink
      /\ rt.emitted = NoStreams
  BY DEF Init
<1>4. rt \in Workers
  BY <1>1, <1>2 DEF Init, Workers, SessionModes
<1>5. /\ channel = <<>> /\ channel \in Seq(Commands) /\ clients \in [Clients -> Requests]
      /\ \A c \in Clients : clients[c].op = "idle"
      /\ clients["ui"] = Idle /\ clients["task"].op = "idle"
  <2>1. channel = <<>> /\ clients = [c \in Clients |-> Idle]
    BY DEF Init
  <2>2. "ui" \in Clients /\ "task" \in Clients
    BY DEF Clients
  <2>3. <<>> \in Seq(Commands)
    OBVIOUS
  <2>4. Idle \in Requests /\ Idle.op = "idle"
    BY IdleType
  <2> QED BY <2>1, <2>2, <2>3, <2>4
<1>6. NoCatalog \in Catalogs
  BY IdleType DEF Idle, Requests
<1>7. NoPanes \in Panes /\ NoPanes.generation = 0
  BY <1>6 DEF NoPanes, Panes
<1>8. ui \in Windows /\ ui.window = "new" /\ ui.panes.generation = 0
  BY <1>7 DEF Init, Windows
<1>9. /\ rt.sink.open /\ ~rt.sink.scheduled /\ rt.sink.serial = NoStreams /\ rt.sink.video = NoStreams
      /\ DOMAIN NoStreams = {}
  BY <1>3, NoStreamsType DEF EmptySink
<1>10. Resting(rt) /\ Sunk(rt) /\ Waits(rt) /\ PictureWaits(rt) /\ Routing(rt)
  BY <1>3, <1>9, NoOutputType DEF Resting, Held, Sunk, Waits, PictureWaits, Routing
<1>11. Consoles(rt, ui) /\ PictureShown(rt, clients["ui"], ui)
  BY <1>3 DEF Consoles, PictureShown
<1>12. Opened(rt, clients, ui)
  BY <1>3, <1>5, <1>8, <1>9, IdleType DEF Opened, Empty
<1>13. Known(rt, clients["ui"], ui)
  <2>1. clients["ui"].generation = 0
    BY <1>5, IdleType
  <2> QED BY <1>3, <1>8, <2>1 DEF Known, Cataloged
<1>14. Expected(rt, channel, clients)
  <2>1. Len(channel) = 0 /\ \A i \in 1 .. Len(channel) : FALSE
    BY <1>5
  <2>2. "ui" \in Clients
    BY DEF Clients
  <2>3. clients["ui"].op # "resolve"
    BY <1>5, <2>2
  <2> QED BY <1>5, <2>1, <2>3 DEF Expected
<1> QED BY <1>4, <1>5, <1>8, <1>10, <1>11, <1>12, <1>13, <1>14 DEF Standing, Inv

LEMMA NextInv ==
    ASSUME Standing, [Next]_vars
    PROVE  Stood
<1>1. CASE Worker
  BY <1>1, ConfigureInv, RunInv, StepInv, ResetInv, SampleInv, RefreshInv, AttachInv, DetachInv, InputInv
     DEF Worker
<1>2. CASE ExecuteBatch
  BY <1>2, BatchInv
<1>3. CASE Window
  BY <1>3, WindowInv, UserInv DEF Window
<1>4. CASE UiContinues
  BY <1>4, UiContinuesInv
<1>5. CASE CloseContinues
  BY <1>5, CloseInv
<1>6. CASE Drain
  BY <1>6, DrainInv
<1>7. CASE TaskConfigures \/ TaskContinues
  BY <1>7, TaskInv
<1>8. CASE UNCHANGED vars
  BY <1>8 DEF vars, Standing, Stood
<1> QED BY <1>1, <1>2, <1>3, <1>4, <1>5, <1>6, <1>7, <1>8 DEF Next

\* The worker, its clients and the window are always in a state that the invariant
\* describes: the types of all that is kept, and the parts above, which relate
\* what se_runtime's worker holds and what the window of se_ui shows and awaits.
\* What waits in the sink is the end of what a port emitted, less what a Replay's
\* Reset has discarded (runtime.rs:1462); nothing waits with the worker between two
\* commands, but the picture of a Reset whose checkpoint failed (886).
THEOREM InvHolds == Spec => []Standing
<1>1. Init => Standing
  BY InitInv
<1>2. Standing /\ [Next]_vars => Standing'
  BY NextInv DEF Standing, Stood
<1> QED BY <1>1, <1>2, PTL DEF Spec

-----------------------------------------------------------------------------
(* The properties the run checks.                                          *)

LEMMA ServedAll ==
    ASSUME Standing
    PROVE  ClientsServed
<1> USE StandingParts
<1>1. WorkerNeverPanics
  BY DEF WorkerNeverPanics, Resting
<1>2. \A c \in Clients : Waiting(c) =>
         rt.alive /\ \E i \in 1 .. Len(channel) : channel[i].client = c
  BY DEF Waiting, Expected
<1>3. DOMAIN rt.sink.serial \cup DOMAIN rt.sink.video # {} => rt.sink.posted
  BY DEF Sunk
<1> QED BY <1>1, <1>2, <1>3 DEF ClientsServed, NoLostWakeup

\* The worker never panics; a client that waits for a reply has its command in
\* the channel of a live worker, also when the worker ends or panics with commands
\* unread; and output in the sink has a drain posted, whatever came between.
THEOREM ClientsAreServed == Spec => []ClientsServed
<1>1. Standing => ClientsServed
  BY ServedAll
<1> QED BY <1>1, InvHolds, PTL

LEMMA ShownAll ==
    ASSUME Standing
    PROVE  OutputShown
<1> USE StandingParts
<1>1. HandlerGone
  BY DEF HandlerGone, Resting
<1>2. ConsoleExact
  <2>1. SUFFICES ASSUME ui.window = "open", rt.handler, ui.panes.generation > 0, NEW key \in {SERIAL_A, SERIAL_B}
                 PROVE  ConsoleText(key)
                          = SubSeq(EmittedFor(Handle(ui.panes.generation, key)), ConsoleStart(key) + 1,
                                   Len(EmittedFor(Handle(ui.panes.generation, key))))
    BY DEF ConsoleExact
  <2>2. /\ TextIs(rt, Handle(ui.panes.generation, SERIAL_A), ui.panes.a, ui.panes.fromA)
        /\ TextIs(rt, Handle(ui.panes.generation, SERIAL_B), ui.panes.b, ui.panes.fromB)
    BY <2>1 DEF Consoles
  <2>3. SERIAL_A # SERIAL_B
    BY DEF SERIAL_A, SERIAL_B
  <2>4. CASE key = SERIAL_A
    BY <2>2, <2>4 DEF TextIs, ConsoleText, ConsoleStart, EmittedFor, PendingFor
  <2>5. CASE key = SERIAL_B
    BY <2>2, <2>3, <2>5 DEF TextIs, ConsoleText, ConsoleStart, EmittedFor, PendingFor
  <2> QED BY <2>1, <2>4, <2>5
<1>3. PictureCurrent
  <2>1. SUFFICES ASSUME clients["ui"].op = "idle", ui.window = "open", ui.panes.generation = rt.generation,
                        rt.machine # NoMachine, rt.machine.video
                 PROVE  \/ Handle(rt.generation, VIDEO) \in DOMAIN rt.sink.video
                        \/ rt.mode = "RecordCompleted" /\ VIDEO \in DOMAIN rt.output
                        \/ ui.panes.picture = rt.machine.picture
    BY DEF PictureCurrent, GuiIdle
  <2>2. rt.handler
    BY <2>1 DEF Opened
  <2>3. VIDEO \in DOMAIN rt.output => rt.mode = "RecordCompleted"
    BY DEF Resting, Held
  <2> QED BY <2>1, <2>2, <2>3 DEF PictureShown, Current
<1> QED BY <1>1, <1>2, <1>3 DEF OutputShown

\* What a console shows with what waits for it is what its port emitted since the
\* console was built, without what a Replay emitted in a batch or step before a Reset
\* in it (reset_machine clears frontend_output); a display with nothing waiting shows
\* the picture the machine put out last, unless a Reset's checkpoint failed and the
\* worker still has it; and no output reaches the sink once its handler is removed.
THEOREM OutputIsShown == Spec => []OutputShown
<1>1. Standing => OutputShown
  BY ShownAll
<1> QED BY <1>1, InvHolds, PTL

-----------------------------------------------------------------------------
(* Keys.                                                                   *)

\* The codes of each class of keys.
Letters == {10, 35, 27, 17, 16, 18, 25, 26, 39, 33, 34, 41, 43, 36, 40, 47, 9, 23, 11, 24, 32, 28,
            15, 20, 31, 19}
Digits == {45, 7, 13, 14, 21, 22, 29, 30, 37, 38}
KeypadDigits == {58, 57, 63, 64, 62, 68, 69, 66, 67, 74}
Functions == 86 .. 97
Named == {2, 85, 5, 4, 83, 84, 3, 6, 8, 50, 60, 61, 82, 72, 79, 80, 73, 101, 102, 104, 103, 105, 98, 99,
          100, 106, 42, 44, 46, 48, 55, 49, 51, 52, 53, 54, 56, 65, 75, 109, 107, 108, 81}

LEMMA LetterKeys ==
    /\ \A i \in 0 .. 25 : LetterCodes[i + 1] \in Letters
    /\ \A i, j \in 0 .. 25 : LetterCodes[i + 1] = LetterCodes[j + 1] => i = j
BY DEF LetterCodes, Letters

LEMMA DigitKeys ==
    /\ \A i \in 0 .. 9 : DigitCodes[i + 1] \in Digits /\ KeypadCodes[i + 1] \in KeypadDigits
    /\ \A i, j \in 0 .. 9 : DigitCodes[i + 1] = DigitCodes[j + 1] => i = j
    /\ \A i, j \in 0 .. 9 : KeypadCodes[i + 1] = KeypadCodes[j + 1] => i = j
BY DEF DigitCodes, KeypadCodes, Digits, KeypadDigits

LEMMA NamedKeyCodes ==
    /\ \A n \in DOMAIN NamedCodes : NamedCodes[n] \in Named
    /\ \A n, m \in DOMAIN NamedCodes : NamedCodes[n] = NamedCodes[m] => n = m
BY DEF NamedCodes, Named

LEMMA ClassesDisjoint ==
    /\ Letters \cap (Digits \cup KeypadDigits \cup Functions \cup Named) = {}
    /\ Digits \cap (KeypadDigits \cup Functions \cup Named) = {}
    /\ KeypadDigits \cap (Functions \cup Named) = {}
    /\ Functions \cap Named = {}
    /\ Letters \cup Digits \cup KeypadDigits \cup Functions \cup Named \subseteq SgiKeyCodes
BY DEF Letters, Digits, KeypadDigits, Functions, Named, SgiKeyCodes

\* A key of the keyboard, by its class.
IsLetter(key) == \E i \in 0 .. 25 : key = <<"Letter", i>> /\ KeyCode(key) = LetterCodes[i + 1]
IsDigit(key) == \E i \in 0 .. 9 : key = <<"Digit", i>> /\ KeyCode(key) = DigitCodes[i + 1]
IsKeypad(key) == \E i \in 0 .. 9 : key = <<"KeypadDigit", i>> /\ KeyCode(key) = KeypadCodes[i + 1]
IsFunction(key) == \E i \in 1 .. 12 : key = <<"Function", i>> /\ KeyCode(key) = 85 + i
IsNamed(key) == \E n \in DOMAIN NamedCodes : key = <<"Named", n>> /\ KeyCode(key) = NamedCodes[n]

LEMMA KeyClasses ==
    ASSUME NEW key \in KeyboardKeys
    PROVE  IsLetter(key) \/ IsDigit(key) \/ IsKeypad(key) \/ IsFunction(key) \/ IsNamed(key)
<1>1. CASE key \in {"Letter"} \X (0 .. 25)
  <2>1. PICK i \in 0 .. 25 : key = <<"Letter", i>>
    BY <1>1
  <2> QED BY <2>1 DEF KeyCode, IsLetter
<1>2. CASE key \in {"Digit", "KeypadDigit"} \X (0 .. 9)
  <2>1. PICK c \in {"Digit", "KeypadDigit"}, i \in 0 .. 9 : key = <<c, i>>
    BY <1>2
  <2>2. CASE c = "Digit"
    BY <2>1, <2>2 DEF KeyCode, IsDigit
  <2>3. CASE c = "KeypadDigit"
    BY <2>1, <2>3 DEF KeyCode, IsKeypad
  <2> QED BY <2>1, <2>2, <2>3
<1>3. CASE key \in {"Function"} \X (1 .. 12)
  <2>1. PICK i \in 1 .. 12 : key = <<"Function", i>>
    BY <1>3
  <2> QED BY <2>1 DEF KeyCode, IsFunction
<1>4. CASE key \in {"Named"} \X DOMAIN NamedCodes
  <2>1. PICK n \in DOMAIN NamedCodes : key = <<"Named", n>>
    BY <1>4
  <2> QED BY <2>1 DEF KeyCode, IsNamed
<1> QED BY <1>1, <1>2, <1>3, <1>4 DEF KeyboardKeys, NumberedKeys, NamedKeys

\* Every key of the frontend is a key of the keyboard, and no other key is.
THEOREM KeysAreDistinct == KeysDistinct
<1>1. \A key \in KeyboardKeys : IsLetter(key) \/ IsDigit(key) \/ IsKeypad(key) \/ IsFunction(key) \/ IsNamed(key)
  BY KeyClasses
<1>2. \A key :  /\ IsLetter(key) => KeyCode(key) \in Letters
                /\ IsDigit(key) => KeyCode(key) \in Digits
                /\ IsKeypad(key) => KeyCode(key) \in KeypadDigits
                /\ IsFunction(key) => KeyCode(key) \in Functions
                /\ IsNamed(key) => KeyCode(key) \in Named
  <2>1. \A i \in 1 .. 12 : 85 + i \in Functions
    BY DEF Functions
  <2> QED BY <2>1, LetterKeys, DigitKeys, NamedKeyCodes DEF IsLetter, IsDigit, IsKeypad, IsFunction, IsNamed
<1>3. \A p, q : /\ IsLetter(p) /\ IsLetter(q) /\ KeyCode(p) = KeyCode(q) => p = q
                /\ IsDigit(p) /\ IsDigit(q) /\ KeyCode(p) = KeyCode(q) => p = q
                /\ IsKeypad(p) /\ IsKeypad(q) /\ KeyCode(p) = KeyCode(q) => p = q
                /\ IsFunction(p) /\ IsFunction(q) /\ KeyCode(p) = KeyCode(q) => p = q
                /\ IsNamed(p) /\ IsNamed(q) /\ KeyCode(p) = KeyCode(q) => p = q
  BY LetterKeys, DigitKeys, NamedKeyCodes DEF IsLetter, IsDigit, IsKeypad, IsFunction, IsNamed
<1>4. \A code : /\ code \in Letters => code \notin Digits \cup KeypadDigits \cup Functions \cup Named
                /\ code \in Digits => code \notin KeypadDigits \cup Functions \cup Named
                /\ code \in KeypadDigits => code \notin Functions \cup Named
                /\ code \in Functions => code \notin Named
                /\ code \in Letters \cup Digits \cup KeypadDigits \cup Functions \cup Named
                     => code \in SgiKeyCodes
  BY ClassesDisjoint
<1>5. ASSUME NEW key \in KeyboardKeys PROVE KeyCode(key) \in SgiKeyCodes
  BY <1>1, <1>2, <1>4
<1>6. ASSUME NEW p \in KeyboardKeys, NEW q \in KeyboardKeys, KeyCode(p) = KeyCode(q)
      PROVE  p = q
  <2>1. CASE IsLetter(p)
    BY <1>1, <1>2, <1>3, <1>4, <1>6, <2>1
  <2>2. CASE IsDigit(p)
    BY <1>1, <1>2, <1>3, <1>4, <1>6, <2>2
  <2>3. CASE IsKeypad(p)
    BY <1>1, <1>2, <1>3, <1>4, <1>6, <2>3
  <2>4. CASE IsFunction(p)
    BY <1>1, <1>2, <1>3, <1>4, <1>6, <2>4
  <2>5. CASE IsNamed(p)
    BY <1>1, <1>2, <1>3, <1>4, <1>6, <2>5
  <2> QED BY <1>1, <2>1, <2>2, <2>3, <2>4, <2>5
<1> QED BY <1>5, <1>6 DEF KeysDistinct

LEMMA RoutedAll ==
    ASSUME Standing
    PROVE  InputRouted
BY StandingParts, KeysAreDistinct DEF InputRouted, Routing

\* Every input a device received was sent to the machine it is part of, to an
\* endpoint of its kind, outside a Replay, and a key as the key it is.
THEOREM InputIsRouted == Spec => []InputRouted
<1>1. Standing => InputRouted
  BY RoutedAll
<1> QED BY <1>1, InvHolds, PTL
===============================================================================
