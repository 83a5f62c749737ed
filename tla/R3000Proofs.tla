---------------------------- MODULE R3000Proofs ----------------------------
(***************************************************************************)
(* Proofs about the R3000 (module R3000), for every size of the address    *)
(* space, of the translation buffer and of the lookup caches, every        *)
(* program and every schedule of interrupts and bus answers.               *)
(***************************************************************************)
EXTENDS R3000, TLAPS, WellFoundedInduction

-----------------------------------------------------------------------------
(* The inductive invariant, as predicates of a processor state: most of    *)
(* what a step calls takes a state and leaves one.                         *)

(* A lookup cache answers for the present entries: what it holds of its    *)
(* own generation is what the scan finds, and nothing is of a later one.   *)
Answers(c, lc, entries) ==
    /\ c.generation <= lc.generation
    /\ c.generation = lc.generation => c.result = match_entries(entries, c.vpn, c.asid)
CacheCurrent(lc, entries) ==
    /\ Answers(lc.hot, lc, entries)
    /\ \A l \in LookupSlots : Answers(lc.lines[l], lc, entries)

WriteApplied(view, w) == IF w = NoWrite THEN view ELSE [view EXCEPT ![w.index] = w.entry]

MmuOK(m) ==
    /\ m \in MmuType
    /\ CacheCurrent(m.main, m.entries)
    /\ CacheCurrent(m.fetch, m.instruction_entries)
    /\ m.entries = WriteApplied(WriteApplied(m.instruction_entries, m.pending[1]), m.pending[2])

(* The interrupt enables in effect and in flight are granted by Status.    *)
EnablesGranted(c) ==
    /\ c.effective.iec => c.status.ie[1]
    /\ c.pending # NoFunctional => (c.pending.iec => c.status.ie[1])
Cp0OK(c) == c \in Cp0 /\ EnablesGranted(c)

(* The cache mode ends at the control `status` has once the write in       *)
(* flight lands, and a suspended context's at the control it saved.        *)
Final(mode) == IF mode.transition = None THEN mode.effective ELSE mode.transition.target
WrittenControl(pending_cp0, control) ==
    IF pending_cp0 # None /\ pending_cp0.index = 12
    THEN CacheControl(Reading(12, pending_cp0.value)) ELSE control
ContextOK(x) == x \in Context /\ Final(x.mode) = x.status_bits
ModeFollows(s) ==
    /\ Final(s.cache_mode) = WrittenControl(s.pending_cp0, CacheControl(s.cp0.status))
    /\ \A k \in 1 .. Len(s.contexts) : Final(s.contexts[k].mode) = s.contexts[k].status_bits

StateOK(s) ==
    /\ s \in StateType
    /\ MmuOK(s.mmu)
    /\ EnablesGranted(s.cp0)
    /\ ModeFollows(s)

FloatLine(s) == (CP1_INTERRUPT_LINE \in s.cp0.cause.hw) <=> interrupt_asserted(s.cp1)

(* The value a register has once the load in flight lands.                 *)
Landed(s, r) ==
    IF s.pending_gpr # None /\ s.pending_gpr.index = r THEN s.pending_gpr.value ELSE s.gpr[r]

SameFloat(s, u) == u.cp1 = s.cp1 /\ u.cp0.cause = s.cp0.cause
SameGpr(s, u) == u.gpr = s.gpr /\ u.pending_gpr = s.pending_gpr

-----------------------------------------------------------------------------
(* The translation buffer.                                                 *)

(* A nonempty set of entries has a first one.                              *)
LEMMA FirstEntry ==
    ASSUME NEW S \in SUBSET TlbIndexes, S # {}
    PROVE  \E i \in S : \A j \in S : i <= j
<1>1. S \subseteq Nat
  BY MmuAssumption DEF TlbIndexes
<1>2. PICK i \in S : \A j \in S : ~ (<<j, i>> \in OpToRel(<, Nat))
  BY <1>1, WFMin, NatLessThanWellFounded
<1>3. \A j \in S : ~ (j < i)
  BY <1>1, <1>2 DEF OpToRel
<1>4. QED
  BY <1>1, <1>3

LEMMA MatchType ==
    ASSUME NEW entries, NEW vpn, NEW asid
    PROVE  match_entries(entries, vpn, asid) \in ProbeResult
<1> DEFINE hits == {i \in TlbIndexes : tag_matches(entries[i], vpn, asid)}
           first == CHOOSE i \in hits : \A j \in hits : i <= j
<1>1. hits # {} => first \in TlbIndexes
  BY FirstEntry
<1>2. QED
  BY <1>1 DEF match_entries, ProbeResult

LEMMA NewCacheCurrent ==
    ASSUME NEW entries
    PROVE  NewLookupCache \in LookupCache /\ CacheCurrent(NewLookupCache, entries)
<1>1. EMPTY \in Cached
  BY MmuAssumption DEF EMPTY, Cached, Asids, ProbeResult
<1>2. QED
  BY <1>1, MmuAssumption DEF NewLookupCache, LookupCache, CacheCurrent, Answers, EMPTY

LEMMA InvalidateCurrent ==
    ASSUME NEW lc \in LookupCache, NEW entries, NEW old, CacheCurrent(lc, old)
    PROVE  invalidate(lc) \in LookupCache /\ CacheCurrent(invalidate(lc), entries)
<1>1. CASE lc.generation < MaxGeneration
  <2>1. invalidate(lc) = [lc EXCEPT !.generation = lc.generation + 1]
    BY <1>1 DEF invalidate
  <2>2. lc.generation \in 1 .. MaxGeneration /\ lc.hot \in Cached /\ lc.lines \in [LookupSlots -> Cached]
    BY DEF LookupCache
  <2>3. lc.generation + 1 \in 1 .. MaxGeneration
    BY <1>1, <2>2, MmuAssumption
  <2>4. lc.hot.generation \in Nat /\ \A l \in LookupSlots : lc.lines[l].generation \in Nat
    BY <2>2, MmuAssumption DEF Cached
  <2>5. invalidate(lc) \in LookupCache
    BY <2>1, <2>3 DEF LookupCache
  <2>6. /\ invalidate(lc).generation = lc.generation + 1
        /\ invalidate(lc).hot = lc.hot /\ invalidate(lc).lines = lc.lines
    BY <2>1 DEF LookupCache
  <2>7. QED
    BY <2>2, <2>4, <2>5, <2>6, MmuAssumption DEF CacheCurrent, Answers
<1>2. CASE ~ (lc.generation < MaxGeneration)
  BY <1>2, NewCacheCurrent DEF invalidate
<1>3. QED
  BY <1>1, <1>2

(* A lookup through the cache answers what the scan of the entries does,   *)
(* and leaves a cache that answers for them.                               *)
LEMMA ResolveCurrent ==
    ASSUME NEW lc \in LookupCache, NEW entries, CacheCurrent(lc, entries),
           NEW va \in Word, NEW asid \in Asids
    PROVE  LET r == resolve(lc, entries, Page(va), asid)
           IN /\ r.result = match_entries(entries, Page(va), asid)
              /\ r.lc \in LookupCache /\ CacheCurrent(r.lc, entries)
<1> DEFINE vpn == Page(va)
           slt == LookupSlot(vpn, asid)
           line == lc.lines[slt]
           fresh == [generation |-> lc.generation, vpn |-> vpn, asid |-> asid,
                     result |-> match_entries(entries, vpn, asid)]
           r == resolve(lc, entries, vpn, asid)
<1>1. slt \in LookupSlots /\ vpn \in Nat
  <2>1. slt \in LookupSlots
    BY LayoutAssumption
  <2>2. vpn \in Nat
    BY MmuAssumption DEF Word, Page, AddressSpace
  <2>3. QED
    BY <2>1, <2>2
<1>2. lc.generation \in 1 .. MaxGeneration /\ lc.hot \in Cached /\ lc.lines \in [LookupSlots -> Cached]
  BY DEF LookupCache
<1>3. fresh \in Cached
  BY <1>1, <1>2, MatchType DEF Cached
<1>4. CASE CachedMatches(lc.hot, lc.generation, vpn, asid)
  <2>1. r = [lc |-> lc, result |-> lc.hot.result]
    BY <1>4 DEF resolve
  <2>2. QED
    BY <1>4, <2>1 DEF CachedMatches, CacheCurrent, Answers
<1>5. CASE ~CachedMatches(lc.hot, lc.generation, vpn, asid) /\ CachedMatches(line, lc.generation, vpn, asid)
  <2>1. r = [lc |-> [lc EXCEPT !.hot = line], result |-> line.result]
    BY <1>5 DEF resolve
  <2>2. line \in Cached /\ Answers(line, lc, entries)
    BY <1>1, <1>2 DEF CacheCurrent
  <2>3. /\ r.lc \in LookupCache /\ r.lc.generation = lc.generation
        /\ r.lc.hot = line /\ r.lc.lines = lc.lines
    BY <2>1, <2>2 DEF LookupCache
  <2>4. QED
    BY <1>5, <2>1, <2>2, <2>3 DEF CachedMatches, CacheCurrent, Answers
<1>6. CASE ~CachedMatches(lc.hot, lc.generation, vpn, asid) /\ ~CachedMatches(line, lc.generation, vpn, asid)
  <2>1. r = [lc |-> [lc EXCEPT !.hot = fresh, !.lines[slt] = fresh], result |-> fresh.result]
    BY <1>6 DEF resolve
  <2>2. Answers(fresh, lc, entries)
    BY <1>2, MmuAssumption DEF Answers
  <2>3. /\ r.lc \in LookupCache /\ r.lc.generation = lc.generation
        /\ r.lc.hot = fresh /\ r.lc.lines = [lc.lines EXCEPT ![slt] = fresh]
    <3> HIDE DEF fresh, slt
    <3>1. [lc.lines EXCEPT ![slt] = fresh] \in [LookupSlots -> Cached]
      BY <1>1, <1>2, <1>3
    <3>2. r.lc = [lc EXCEPT !.hot = fresh, !.lines = [lc.lines EXCEPT ![slt] = fresh]]
      BY <2>1
    <3>3. QED
      BY <1>3, <3>1, <3>2 DEF LookupCache
  <2>4. \A l \in LookupSlots : Answers(r.lc.lines[l], lc, entries)
    BY <1>1, <1>2, <2>2, <2>3 DEF CacheCurrent
  <2>5. QED
    BY <2>1, <2>2, <2>3, <2>4 DEF CacheCurrent, Answers
<1>7. QED
  BY <1>4, <1>5, <1>6

(* What a translation answers: an address, or the fault of the access.     *)
Translation(tr) ==
    \/ tr.ok = TRUE /\ tr.address \in Nat /\ tr.cached \in BOOLEAN
    \/ tr.ok = FALSE /\ tr.fault \in {"Miss", "Shutdown", "Invalid", "Modified", "AddressError"}

LEMMA FinishType ==
    ASSUME NEW entries \in [TlbIndexes -> Entry], NEW va \in Word, NEW access,
           NEW r \in ProbeResult
    PROVE  Translation(finish_mapped_translation(entries, va, access, r))
<1>1. CASE r.t # "Match"
  BY <1>1 DEF ProbeResult, finish_mapped_translation, Translation
<1>2. CASE r.t = "Match"
  <2>1. entries[r.index] \in Entry
    BY <1>2 DEF ProbeResult
  <2>2. entries[r.index].pfn \in Nat
    BY <2>1 DEF Entry
  <2>3. (entries[r.index].pfn * PageBytes) + (va % PageBytes) \in Nat
    <3>1. entries[r.index].pfn * PageBytes \in Nat
      BY <2>2, MmuAssumption
    <3>2. va % PageBytes \in Nat
      BY MmuAssumption DEF Word, AddressSpace
    <3>3. QED
      BY <3>1, <3>2
  <2>4. QED
    BY <1>2, <2>3 DEF finish_mapped_translation, Translation
<1>3. QED
  BY <1>1, <1>2

(* Mmu::translate answers as Mmu::translate_readonly does, and keeps the   *)
(* lookup caches coherent.                                                 *)
LEMMA TranslateOK ==
    ASSUME NEW m, MmuOK(m), NEW va \in Word, NEW asid \in Asids, NEW kernel,
           NEW access
    PROVE  LET x == translate(m, va, asid, kernel, access)
           IN /\ MmuOK(x.mmu)
              /\ Translation(x.tr)
              /\ x.tr = translate_readonly(m, va, asid, kernel, access)
<1> DEFINE x == translate(m, va, asid, kernel, access)
<1>0. /\ m \in MmuType /\ m.main \in LookupCache /\ m.fetch \in LookupCache
      /\ m.entries \in [TlbIndexes -> Entry]
      /\ m.instruction_entries \in [TlbIndexes -> Entry]
  BY DEF MmuOK, MmuType
<1>1. CASE ~Mapped(va, kernel)
  <2>1. Translation(Unmapped(va, kernel))
    <3>1. va % SegBytes \in Nat
      BY MmuAssumption DEF Word, AddressSpace
    <3>2. (va < KSEG1_START) \in BOOLEAN
      OBVIOUS
    <3>3. CASE kernel
      BY <3>1, <3>2, <3>3, Zenon DEF Unmapped, Translation
    <3>4. CASE ~kernel
      BY <3>4 DEF Unmapped, Translation
    <3>5. QED
      BY <3>3, <3>4
  <2>2. QED
    BY <1>1, <2>1 DEF translate, translate_readonly
<1>2. CASE Mapped(va, kernel) /\ access = "Instruction"
  <2> DEFINE r == resolve(m.fetch, m.instruction_entries, Page(va), asid)
  <2>1. /\ r.result = match_entries(m.instruction_entries, Page(va), asid)
        /\ r.lc \in LookupCache /\ CacheCurrent(r.lc, m.instruction_entries)
    BY <1>0, ResolveCurrent DEF MmuOK
  <2>2. /\ x.mmu = [m EXCEPT !.fetch = r.lc]
        /\ x.tr = finish_mapped_translation(m.instruction_entries, va, access, r.result)
    BY <1>2 DEF translate, translate_mapped
  <2> HIDE DEF r, x
  <2>3. MmuOK(x.mmu)
    BY <1>0, <2>1, <2>2 DEF MmuOK, MmuType
  <2>4. Translation(x.tr)
    BY <1>0, <2>1, <2>2, MatchType, FinishType
  <2>5. x.tr = translate_readonly(m, va, asid, kernel, access)
    BY <1>2, <2>1, <2>2 DEF translate_readonly, translate_mapped_readonly
  <2>6. QED
    BY <2>3, <2>4, <2>5 DEF x
<1>3. CASE Mapped(va, kernel) /\ access # "Instruction"
  <2> DEFINE r == resolve(m.main, m.entries, Page(va), asid)
  <2>1. /\ r.result = match_entries(m.entries, Page(va), asid)
        /\ r.lc \in LookupCache /\ CacheCurrent(r.lc, m.entries)
    BY <1>0, ResolveCurrent DEF MmuOK
  <2>2. /\ x.mmu = [m EXCEPT !.main = r.lc]
        /\ x.tr = finish_mapped_translation(m.entries, va, access, r.result)
    BY <1>3 DEF translate, translate_mapped
  <2> HIDE DEF r, x
  <2>3. MmuOK(x.mmu)
    BY <1>0, <2>1, <2>2 DEF MmuOK, MmuType
  <2>4. Translation(x.tr)
    BY <1>0, <2>1, <2>2, MatchType, FinishType
  <2>5. x.tr = translate_readonly(m, va, asid, kernel, access)
    BY <1>3, <2>1, <2>2 DEF translate_readonly, translate_mapped_readonly
  <2>6. QED
    BY <2>3, <2>4, <2>5 DEF x
<1>4. QED
  BY <1>1, <1>2, <1>3

(* The oldest queued write reaches the view of the instruction fetch.      *)
LEMMA AdvanceViewOK ==
    ASSUME NEW m \in MmuType, NEW w \in QueuedWrite,
           CacheCurrent(m.main, m.entries),
           CacheCurrent(m.fetch, m.instruction_entries),
           m.entries = WriteApplied(WriteApplied(WriteApplied(
                           m.instruction_entries, m.pending[1]), m.pending[2]), w)
    PROVE  MmuOK(advance_instruction_view_with(m, w))
<1> DEFINE n == advance_instruction_view_with(m, w)
           due == m.pending[1]
<1>0. /\ due \in QueuedWrite /\ m.pending[2] \in QueuedWrite
      /\ m.fetch \in LookupCache /\ m.instruction_entries \in [TlbIndexes -> Entry]
  BY DEF MmuType
<1>1. <<m.pending[2], w>> \in QueuedWrite \X QueuedWrite
  BY <1>0
<1>2. CASE due = NoWrite
  <2>1. n = [m EXCEPT !.pending = <<m.pending[2], w>>]
    BY <1>2 DEF advance_instruction_view_with
  <2>2. /\ n \in MmuType /\ n.pending = <<m.pending[2], w>>
        /\ n.main = m.main /\ n.entries = m.entries /\ n.fetch = m.fetch
        /\ n.instruction_entries = m.instruction_entries
    BY <1>1, <2>1 DEF MmuType
  <2>3. WriteApplied(m.instruction_entries, due) = m.instruction_entries
    BY <1>2 DEF WriteApplied
  <2>4. QED
    BY <2>2, <2>3 DEF MmuOK
<1>3. CASE due # NoWrite
  <2> DEFINE view == [m.instruction_entries EXCEPT ![due.index] = due.entry]
  <2>1. n = [m EXCEPT !.pending = <<m.pending[2], w>>, !.instruction_entries = view,
                      !.fetch = invalidate(m.fetch)]
    BY <1>0, <1>3 DEF advance_instruction_view_with, MmuType
  <2>2. view \in [TlbIndexes -> Entry]
    BY <1>0, <1>3 DEF QueuedWrite
  <2>3. invalidate(m.fetch) \in LookupCache /\ CacheCurrent(invalidate(m.fetch), view)
    BY <1>0, InvalidateCurrent
  <2> HIDE DEF view
  <2>4. /\ n \in MmuType /\ n.pending = <<m.pending[2], w>>
        /\ n.main = m.main /\ n.entries = m.entries /\ n.fetch = invalidate(m.fetch)
        /\ n.instruction_entries = view
    BY <1>1, <2>1, <2>2, <2>3 DEF MmuType
  <2>5. WriteApplied(m.instruction_entries, due) = view
    BY <1>3 DEF WriteApplied, view
  <2>6. QED
    BY <2>3, <2>4, <2>5 DEF MmuOK
<1>4. QED
  BY <1>2, <1>3

LEMMA AdvanceOK ==
    ASSUME NEW m, MmuOK(m)
    PROVE  MmuOK(advance_instruction_view(m))
<1>1. NoWrite \in QueuedWrite
  BY DEF QueuedWrite
<1>2. QED
  BY <1>1, AdvanceViewOK DEF MmuOK, advance_instruction_view, WriteApplied

(* tlbwi, tlbwr: the entry is in the buffer at once, and in the view of    *)
(* the instruction fetch after the two instructions that follow.           *)
LEMMA CompleteWriteOK ==
    ASSUME NEW m, MmuOK(m), NEW index \in TlbIndexes, NEW entry \in Entry
    PROVE  MmuOK(complete_write(m, index, entry))
<1> DEFINE w == [index |-> index, entry |-> entry]
           written == [m.entries EXCEPT ![index] = entry]
           n == [m EXCEPT !.entries = written, !.main = invalidate(m.main)]
<1>0. m \in MmuType /\ m.main \in LookupCache /\ m.entries \in [TlbIndexes -> Entry]
  BY DEF MmuOK, MmuType
<1>1. w \in QueuedWrite
  BY DEF QueuedWrite
<1>2. written \in [TlbIndexes -> Entry]
  BY <1>0
<1>3. invalidate(m.main) \in LookupCache /\ CacheCurrent(invalidate(m.main), written)
  BY <1>0, InvalidateCurrent DEF MmuOK
<1>4. complete_write(m, index, entry) = advance_instruction_view_with(n, w)
  BY <1>0 DEF complete_write, MmuType
<1>5. w # NoWrite
  <2>1. TLB_ENTRY_COUNT \notin TlbIndexes
    BY MmuAssumption DEF TlbIndexes
  <2>2. w.index = index /\ NoWrite.index = TLB_ENTRY_COUNT
    BY DEF NoWrite
  <2>3. QED
    BY <2>1, <2>2
<1>6. written = WriteApplied(m.entries, w)
  BY <1>5 DEF WriteApplied
<1> HIDE DEF w, written
<1>7. /\ n \in MmuType /\ n.pending = m.pending /\ n.fetch = m.fetch
      /\ n.main = invalidate(m.main) /\ n.entries = written
      /\ n.instruction_entries = m.instruction_entries
  BY <1>0, <1>2, <1>3 DEF MmuType
<1> HIDE DEF n
<1>8. QED
  BY <1>1, <1>3, <1>4, <1>6, <1>7, AdvanceViewOK DEF MmuOK

LEMMA ResetMmuOK ==
    ASSUME NEW m, MmuOK(m)
    PROVE  MmuOK(ResetMmu(m))
<1>0. m \in MmuType /\ m.main \in LookupCache /\ m.fetch \in LookupCache
  BY DEF MmuOK, MmuType
<1>1. /\ invalidate(m.main) \in LookupCache /\ CacheCurrent(invalidate(m.main), m.entries)
      /\ invalidate(m.fetch) \in LookupCache /\ CacheCurrent(invalidate(m.fetch), m.entries)
  BY <1>0, InvalidateCurrent DEF MmuOK
<1>2. <<NoWrite, NoWrite>> \in QueuedWrite \X QueuedWrite
  BY DEF QueuedWrite
<1>3. QED
  BY <1>0, <1>1, <1>2 DEF ResetMmu, MmuOK, MmuType, WriteApplied

LEMMA CloneMmuOK ==
    ASSUME NEW m, MmuOK(m)
    PROVE  MmuOK(CloneMmu(m))
BY NewCacheCurrent DEF CloneMmu, MmuOK, MmuType

LEMMA NewMmuOK == MmuOK(NewMmu)
<1>1. INITIAL_INVALID \in Entry
  <2>1. Page(KSEG0_START) \in Nat
    BY MmuAssumption DEF Page, KSEG0_START
  <2>2. QED
    BY <2>1 DEF INITIAL_INVALID, Entry, Asids
<1>2. <<NoWrite, NoWrite>> \in QueuedWrite \X QueuedWrite
  BY DEF QueuedWrite
<1>3. QED
  BY <1>1, <1>2, NewCacheCurrent DEF NewMmu, MmuOK, MmuType, WriteApplied

-----------------------------------------------------------------------------
(* The system control coprocessor.                                         *)

LEMMA Cp0Fields ==
    ASSUME NEW c, Cp0OK(c)
    PROVE  /\ c \in Cp0 /\ c.status \in Status /\ c.cause \in Cause
           /\ c.effective \in Functional /\ c.pending \in Functional \cup {NoFunctional}
           /\ c.status.ie \in Triple /\ c.status.user \in Triple
           /\ c.status.ie[1] \in BOOLEAN /\ c.effective.iec \in BOOLEAN
BY DEF Cp0OK, Cp0, Status, Functional, Triple

LEMMA WriteStatusOK ==
    ASSUME NEW c, Cp0OK(c), NEW value \in Status
    PROVE  /\ Cp0OK(write_status(c, value))
           /\ CacheControl(write_status(c, value).status) = CacheControl(value)
           /\ write_status(c, value).cause = c.cause
           /\ write_status(c, value).asid = c.asid
<1> DEFINE status == status_after_write(c, value)
           effective == [c.effective EXCEPT !.iec = c.effective.iec /\ status.ie[1]]
           pending == [effective EXCEPT !.cu = status.cu, !.im = status.im, !.iec = status.ie[1]]
<1>0. c.status \in Status /\ c.effective \in Functional /\ c.effective.iec \in BOOLEAN
  BY Cp0Fields
<1>1. /\ status \in Status /\ status.ie = value.ie /\ status.isc = value.isc
      /\ status.swc = value.swc /\ status.cu \in SUBSET Nat /\ status.im \in SUBSET Nat
      /\ status.ie[1] \in BOOLEAN
  BY <1>0 DEF status_after_write, Status, Triple
<1>2. write_status(c, value) = [c EXCEPT !.status = status, !.effective = effective, !.pending = pending]
  BY <1>0 DEF write_status, Functional
<1> HIDE DEF status
<1>3. effective \in Functional /\ (effective.iec => status.ie[1])
  BY <1>0, <1>1 DEF Functional
<1> HIDE DEF effective
<1>4. pending \in Functional /\ pending.iec = status.ie[1]
  BY <1>1, <1>3 DEF Functional
<1> HIDE DEF pending
<1> DEFINE n == write_status(c, value)
<1>5. /\ n \in Cp0 /\ n.status = status /\ n.effective = effective /\ n.pending = pending
      /\ n.cause = c.cause /\ n.asid = c.asid
  BY <1>1, <1>2, <1>3, <1>4 DEF Cp0OK, Cp0
<1>6. QED
  BY <1>1, <1>3, <1>4, <1>5 DEF Cp0OK, EnablesGranted, CacheControl

LEMMA WriteCauseOK ==
    ASSUME NEW c, Cp0OK(c), NEW sw \in SUBSET Nat
    PROVE  /\ Cp0OK(write_cause(c, sw))
           /\ write_cause(c, sw).status = c.status
           /\ write_cause(c, sw).cause.hw = c.cause.hw
           /\ write_cause(c, sw).asid = c.asid
<1> DEFINE cause == [c.cause EXCEPT !.sw = sw]
           pending == [c.effective EXCEPT !.sw = sw]
           n == write_cause(c, sw)
<1>0. c.cause \in Cause /\ c.effective \in Functional
  BY Cp0Fields
<1>1. cause \in Cause /\ cause.hw = c.cause.hw
  BY <1>0 DEF Cause
<1>2. pending \in Functional /\ pending.iec = c.effective.iec
  BY <1>0 DEF Functional
<1>3. n = [c EXCEPT !.cause = cause, !.pending = pending]
  BY DEF write_cause
<1> HIDE DEF cause, pending
<1>4. /\ n \in Cp0 /\ n.status = c.status /\ n.effective = c.effective
      /\ n.pending = pending /\ n.cause = cause /\ n.asid = c.asid
  BY <1>1, <1>2, <1>3 DEF Cp0OK, Cp0
<1>5. QED
  BY <1>1, <1>2, <1>4 DEF Cp0OK, EnablesGranted

(* A delayed mtc0 lands; only one to Status changes the cache control.     *)
LEMMA WriteRegisterOK ==
    ASSUME NEW c, Cp0OK(c), NEW register \in Nat, NEW value \in Word
    PROVE  LET n == write_register(c, register, Reading(register, value))
           IN /\ Cp0OK(n)
              /\ n.cause.hw = c.cause.hw
              /\ CacheControl(n.status) = IF register = 12 THEN CacheControl(Reading(12, value))
                                          ELSE CacheControl(c.status)
<1> DEFINE n == write_register(c, register, Reading(register, value))
<1>1. CASE register = 0
  <2>1. n = [c EXCEPT !.index = Reading(0, value)]
    BY <1>1 DEF write_register
  <2>2. /\ n \in Cp0 /\ n.status = c.status /\ n.effective = c.effective
        /\ n.pending = c.pending /\ n.cause = c.cause
    BY <2>1, ReadingAssumption DEF Cp0OK, Cp0
  <2>3. QED
    BY <1>1, <2>2 DEF Cp0OK, EnablesGranted
<1>2. CASE register = 2
  <2>1. n = [c EXCEPT !.lo = Reading(2, value)]
    BY <1>2 DEF write_register
  <2>2. /\ n \in Cp0 /\ n.status = c.status /\ n.effective = c.effective
        /\ n.pending = c.pending /\ n.cause = c.cause
    BY <2>1, ReadingAssumption DEF Cp0OK, Cp0
  <2>3. QED
    BY <1>2, <2>2 DEF Cp0OK, EnablesGranted
<1>3. CASE register = 10
  <2>1. n = [c EXCEPT !.vpn = Reading(10, value).vpn, !.asid = Reading(10, value).asid]
    BY <1>3 DEF write_register
  <2>2. Reading(10, value).vpn \in Nat /\ Reading(10, value).asid \in Asids
    BY ReadingAssumption DEF Asids
  <2>3. /\ n \in Cp0 /\ n.status = c.status /\ n.effective = c.effective
        /\ n.pending = c.pending /\ n.cause = c.cause
    BY <2>1, <2>2 DEF Cp0OK, Cp0
  <2>4. QED
    BY <1>3, <2>3 DEF Cp0OK, EnablesGranted
<1>4. CASE register = 12
  <2>1. n = write_status(c, Reading(12, value))
    BY <1>4 DEF write_register
  <2>2. QED
    BY <1>4, <2>1, WriteStatusOK, ReadingAssumption
<1>5. CASE register = 13
  <2>1. n = write_cause(c, Reading(13, value))
    BY <1>5 DEF write_register
  <2>2. QED
    BY <1>5, <2>1, WriteCauseOK, ReadingAssumption
<1>6. CASE register = 14
  <2>1. n = [c EXCEPT !.epc = Reading(14, value)]
    BY <1>6 DEF write_register
  <2>2. /\ n \in Cp0 /\ n.status = c.status /\ n.effective = c.effective
        /\ n.pending = c.pending /\ n.cause = c.cause
    BY <2>1, ReadingAssumption DEF Cp0OK, Cp0
  <2>3. QED
    BY <1>6, <2>2 DEF Cp0OK, EnablesGranted
<1>7. CASE register \notin {0, 2, 10, 12, 13, 14}
  <2>1. n = c
    BY <1>7 DEF write_register
  <2>2. QED
    BY <1>7, <2>1
<1>8. QED
  BY <1>1, <1>2, <1>3, <1>4, <1>5, <1>6, <1>7

LEMMA CommitFunctionalOK ==
    ASSUME NEW c, Cp0OK(c)
    PROVE  LET n == commit_pending_functional(c)
           IN Cp0OK(n) /\ n.status = c.status /\ n.cause = c.cause /\ n.asid = c.asid
<1> DEFINE n == commit_pending_functional(c)
<1>1. CASE c.pending = NoFunctional
  BY <1>1 DEF commit_pending_functional
<1>2. CASE c.pending # NoFunctional
  <2>1. n = [c EXCEPT !.effective = c.pending, !.pending = NoFunctional]
    BY <1>2 DEF commit_pending_functional
  <2>2. c.pending \in Functional
    BY <1>2, Cp0Fields
  <2>3. /\ n \in Cp0 /\ n.status = c.status /\ n.effective = c.pending
        /\ n.pending = NoFunctional /\ n.cause = c.cause /\ n.asid = c.asid
    BY <2>1, <2>2 DEF Cp0OK, Cp0
  <2>4. QED
    BY <1>2, <2>3 DEF Cp0OK, EnablesGranted
<1>3. QED
  BY <1>1, <1>2

LineSets == SUBSET Nat
LinesAfter(hw, lines, asserted) == (hw \ lines) \cup (asserted \cap lines)

LEMMA SetLinesOK ==
    ASSUME NEW c, Cp0OK(c), NEW lines \in LineSets, NEW asserted \in LineSets
    PROVE  LET n == set_hardware_interrupt_lines(c, lines, asserted)
           IN /\ Cp0OK(n)
              /\ n.status = c.status /\ n.asid = c.asid
              /\ n.cause.hw = LinesAfter(c.cause.hw, lines, asserted)
<1> DEFINE cause == [c.cause EXCEPT !.hw = (c.cause.hw \ lines) \cup (asserted \cap lines)]
           n == set_hardware_interrupt_lines(c, lines, asserted)
<1>1. cause \in Cause /\ cause.hw = LinesAfter(c.cause.hw, lines, asserted)
  <2>1. c.cause \in Cause
    BY Cp0Fields
  <2>2. QED
    BY <2>1 DEF Cause, LineSets, LinesAfter
<1>2. n = [c EXCEPT !.cause = cause]
  BY DEF set_hardware_interrupt_lines
<1> HIDE DEF cause
<1>3. /\ n \in Cp0 /\ n.status = c.status /\ n.effective = c.effective
      /\ n.pending = c.pending /\ n.cause = cause /\ n.asid = c.asid
  BY <1>1, <1>2 DEF Cp0OK, Cp0
<1>4. QED
  BY <1>1, <1>3 DEF Cp0OK, EnablesGranted

LEMMA SetStatusControlOK ==
    ASSUME NEW c, Cp0OK(c), NEW control \in Control
    PROVE  LET n == set_status_cache_control(c, control)
           IN /\ Cp0OK(n) /\ CacheControl(n.status) = control
              /\ n.cause = c.cause /\ n.asid = c.asid
<1> DEFINE status == [c.status EXCEPT !.isc = control.isc, !.swc = control.swc]
           n == set_status_cache_control(c, control)
<1>1. /\ status \in Status /\ status.ie = c.status.ie
      /\ status.isc = control.isc /\ status.swc = control.swc
  <2>1. c.status \in Status
    BY Cp0Fields
  <2>2. QED
    BY <2>1 DEF Status, Control
<1>2. n = [c EXCEPT !.status = status]
  BY DEF set_status_cache_control, Cp0OK, Cp0
<1> HIDE DEF status
<1>3. /\ n \in Cp0 /\ n.status = status /\ n.effective = c.effective
      /\ n.pending = c.pending /\ n.cause = c.cause /\ n.asid = c.asid
  BY <1>1, <1>2 DEF Cp0OK, Cp0
<1>4. CacheControl(n.status) = control
  BY <1>1, <1>3 DEF CacheControl, Control
<1>5. QED
  BY <1>1, <1>3, <1>4 DEF Cp0OK, EnablesGranted

LEMMA AdvanceRandomOK ==
    ASSUME NEW c, Cp0OK(c)
    PROVE  LET n == advance_random(c)
           IN Cp0OK(n) /\ n.status = c.status /\ n.cause = c.cause /\ n.asid = c.asid
<1> DEFINE random == IF c.random <= RandomWired THEN RandomTop ELSE c.random - 1
           n == advance_random(c)
<1>1. c.random \in TlbIndexes
  BY DEF Cp0OK, Cp0
<1>2. random \in TlbIndexes
  BY <1>1, MmuAssumption, Cp0Assumption, LayoutAssumption DEF TlbIndexes
<1>3. n = [c EXCEPT !.random = random]
  BY DEF advance_random
<1> HIDE DEF random
<1>4. /\ n \in Cp0 /\ n.status = c.status /\ n.effective = c.effective
      /\ n.pending = c.pending /\ n.cause = c.cause /\ n.asid = c.asid
  BY <1>2, <1>3 DEF Cp0OK, Cp0
<1>5. QED
  BY <1>4 DEF Cp0OK, EnablesGranted

(* rfe: the enable that the popped stack exposes is at once in effect.     *)
LEMMA RestoreStatusOK ==
    ASSUME NEW c, Cp0OK(c), NEW user, NEW ie,
           user[1] \in BOOLEAN, user[2] \in BOOLEAN, ie[1] \in BOOLEAN, ie[2] \in BOOLEAN
    PROVE  LET n == restore_status(c, user, ie)
           IN /\ Cp0OK(n) /\ CacheControl(n.status) = CacheControl(c.status)
              /\ n.cause = c.cause /\ n.asid = c.asid
<1> DEFINE stack == <<ie[1], ie[2], c.status.ie[3]>>
           modes == <<user[1], user[2], c.status.user[3]>>
           status == [c.status EXCEPT !.user = modes, !.ie = stack]
           effective == [c.effective EXCEPT !.iec = ie[1]]
           pending == IF c.pending = NoFunctional THEN c.pending
                      ELSE [c.pending EXCEPT !.iec = ie[1]]
           n == restore_status(c, user, ie)
<1>0. /\ c.status \in Status /\ c.effective \in Functional
      /\ c.pending \in Functional \cup {NoFunctional}
      /\ c.status.ie \in Triple /\ c.status.user \in Triple
  BY Cp0Fields
<1>1. stack \in Triple /\ modes \in Triple /\ stack[1] = ie[1]
  BY <1>0 DEF Triple
<1>2. n = [c EXCEPT !.status = status, !.effective = effective, !.pending = pending]
  BY <1>0 DEF restore_status, Cp0OK, Cp0, Status
<1> HIDE DEF stack, modes
<1>3. /\ status \in Status /\ status.ie = stack
      /\ status.isc = c.status.isc /\ status.swc = c.status.swc
  BY <1>0, <1>1 DEF Status
<1>4. effective \in Functional /\ effective.iec = ie[1]
  BY <1>0 DEF Functional
<1>5. /\ pending \in Functional \cup {NoFunctional}
      /\ pending # NoFunctional => pending.iec = ie[1]
  BY <1>0 DEF Functional
<1> HIDE DEF status, effective, pending
<1>6. /\ n \in Cp0 /\ n.status = status /\ n.effective = effective
      /\ n.pending = pending /\ n.cause = c.cause /\ n.asid = c.asid
  BY <1>2, <1>3, <1>4, <1>5 DEF Cp0OK, Cp0
<1>7. QED
  BY <1>1, <1>3, <1>4, <1>5, <1>6 DEF Cp0OK, EnablesGranted, CacheControl

(* An exception, with the address or the unit its recognition records.     *)
ExceptionKinds ==
    {"Interrupt", "InstructionBusError", "DataBusError", "Syscall", "Breakpoint",
     "ReservedInstruction", "CoprocessorUnusable", "Overflow"}
        \cup AddressExceptions \cup TlbExceptions
IsException(e) ==
    /\ e.t \in ExceptionKinds
    /\ e.t \in AddressExceptions \cup TlbExceptions => e.address \in Word
    /\ e.t \in TlbExceptions => e.vpn \in Nat
    /\ e.t = "CoprocessorUnusable" => e.unit \in Nat

LEMMA TakeExceptionOK ==
    ASSUME NEW c, Cp0OK(c), NEW e, IsException(e), NEW epc \in Word, NEW slt \in BOOLEAN
    PROVE  LET n == take_exception(c, e, epc, slt)
           IN /\ Cp0OK(n) /\ CacheControl(n.status) = CacheControl(c.status)
              /\ n.asid = c.asid
<1> DEFINE stack == <<FALSE, c.status.ie[1], c.status.ie[2]>>
           modes == <<FALSE, c.status.user[1], c.status.user[2]>>
           status == [c.status EXCEPT !.user = modes, !.ie = stack]
           cause == [c.cause EXCEPT !.bd = slt, !.code = ExceptionCode(e),
                         !.ce = IF e.t = "CoprocessorUnusable" THEN e.unit ELSE 0]
           bad == IF e.t \in AddressExceptions \cup TlbExceptions THEN e.address ELSE c.bad_vaddr
           vpn == IF e.t \in TlbExceptions THEN e.vpn ELSE c.vpn
           effective == [c.effective EXCEPT !.iec = FALSE]
           pending == IF c.pending = NoFunctional THEN c.pending
                      ELSE [c.pending EXCEPT !.iec = FALSE]
           n == take_exception(c, e, epc, slt)
<1>0. /\ c.status \in Status /\ c.effective \in Functional /\ c.cause \in Cause
      /\ c.pending \in Functional \cup {NoFunctional}
      /\ c.status.ie \in Triple /\ c.status.user \in Triple
  BY Cp0Fields
<1>1. stack \in Triple /\ modes \in Triple
  BY <1>0 DEF Triple
<1>2. n = [c EXCEPT !.status = status, !.cause = cause, !.epc = epc, !.bad_vaddr = bad,
                    !.vpn = vpn, !.effective = effective, !.pending = pending]
  BY DEF take_exception
<1> HIDE DEF stack, modes
<1>3. /\ status \in Status /\ status.isc = c.status.isc /\ status.swc = c.status.swc
  BY <1>0, <1>1 DEF Status
<1>4. ExceptionCode(e) \in Nat
  BY DEF ExceptionCode, IsException, ExceptionKinds, AddressExceptions, TlbExceptions
<1>5. cause \in Cause
  BY <1>0, <1>4 DEF Cause, IsException
<1>6. bad \in Word /\ vpn \in Nat
  <2>1. c.bad_vaddr \in Word /\ c.vpn \in Nat
    BY DEF Cp0OK, Cp0
  <2>2. QED
    BY <2>1 DEF IsException
<1>7. effective \in Functional /\ effective.iec = FALSE
  BY <1>0 DEF Functional
<1>8. /\ pending \in Functional \cup {NoFunctional}
      /\ pending # NoFunctional => pending.iec = FALSE
  BY <1>0 DEF Functional
<1> HIDE DEF status, cause, bad, vpn, effective, pending
<1>9. /\ n \in Cp0 /\ n.status = status /\ n.effective = effective
      /\ n.pending = pending /\ n.asid = c.asid
  BY <1>2, <1>3, <1>5, <1>6, <1>7, <1>8 DEF Cp0OK, Cp0
<1>10. QED
  BY <1>3, <1>7, <1>8, <1>9 DEF Cp0OK, EnablesGranted, CacheControl

LEMMA ResetCp0OK ==
    ASSUME NEW c, Cp0OK(c), NEW pc \in Word
    PROVE  Cp0OK(ResetCp0(c, pc))
<1> DEFINE status == [c.status EXCEPT !.bev = TRUE, !.ts = FALSE,
                                      !.user = <<FALSE, c.status.user[2], c.status.user[3]>>,
                                      !.ie = <<FALSE, c.status.ie[2], c.status.ie[3]>>]
           n == ResetCp0(c, pc)
<1>0. /\ c.status \in Status /\ c.cause \in Cause
      /\ c.status.ie \in Triple /\ c.status.user \in Triple
  BY Cp0Fields
<1>1. /\ <<FALSE, c.status.user[2], c.status.user[3]>> \in Triple
      /\ <<FALSE, c.status.ie[2], c.status.ie[3]>> \in Triple
      /\ <<FALSE, c.status.ie[2], c.status.ie[3]>>[1] = FALSE
  BY <1>0 DEF Triple
<1>2. status \in Status /\ status.ie[1] = FALSE
  BY <1>0, <1>1 DEF Status
<1>3. n = [c EXCEPT !.status = status, !.epc = pc, !.random = RandomTop,
                    !.effective = from_registers(status, c.cause), !.pending = NoFunctional]
  BY <1>0 DEF ResetCp0, Status
<1> HIDE DEF status
<1>4. /\ from_registers(status, c.cause) \in Functional
      /\ from_registers(status, c.cause).iec = status.ie[1]
  BY <1>0, <1>2 DEF from_registers, Functional, Status, Cause, Triple
<1>5. RandomTop \in TlbIndexes
  BY LayoutAssumption, MmuAssumption, Cp0Assumption DEF TlbIndexes
<1>6. /\ n \in Cp0 /\ n.status = status /\ n.effective = from_registers(status, c.cause)
      /\ n.pending = NoFunctional
  BY <1>2, <1>3, <1>4, <1>5 DEF Cp0OK, Cp0
<1>7. QED
  BY <1>2, <1>4, <1>6 DEF Cp0OK, EnablesGranted

LEMMA NewCp0OK == Cp0OK(NewCp0)
<1>1. BootStatus \in Status /\ NoCause \in Cause
  BY DEF BootStatus, NoCause, Status, Cause, Triple
<1>2. from_registers(BootStatus, NoCause) \in Functional /\ ~from_registers(BootStatus, NoCause).iec
  BY DEF from_registers, Functional, BootStatus, NoCause
<1>3. RandomTop \in TlbIndexes /\ 0 \in TlbIndexes /\ 0 \in Word /\ 0 \in Asids
  BY LayoutAssumption, MmuAssumption, Cp0Assumption DEF TlbIndexes, Word, AddressSpace, Asids
<1>4. [pfn |-> 0, n |-> FALSE, d |-> FALSE, v |-> FALSE, g |-> FALSE] \in LowHalf
  BY DEF LowHalf
<1>5. NewCp0 \in Cp0
  BY <1>1, <1>2, <1>3, <1>4 DEF NewCp0, Cp0
<1>6. QED
  BY <1>2, <1>5 DEF Cp0OK, EnablesGranted, NewCp0

-----------------------------------------------------------------------------
(* One field of the state at a time.                                       *)

Gprs == [Registers -> Word]
PendingGpr == {None} \cup [index : Register, value : Word, bypass : BOOLEAN]
Resume == {None} \cup [origin : Word, resume : Word]
Banks == [Instruction : Bank, Data : Bank]
WithGpr(s, g, w) == [s EXCEPT !.gpr = g, !.pending_gpr = w]
WithCp1(s, f, w) == [s EXCEPT !.pending_cp1 = w, !.cp1 = f]
WithPc(s, pc, d) == [s EXCEPT !.pc = pc, !.delay_slot = d]
GprAfter(g, r, value) == IF r \in {0, NoReg} THEN g ELSE [g EXCEPT ![r] = value]

LEMMA StateFields ==
    ASSUME NEW s, StateOK(s)
    PROVE  /\ s \in StateType /\ s.gpr \in Gprs /\ s.pc \in Word
           /\ s.delay_slot \in Resume /\ Cp0OK(s.cp0) /\ s.cp0.asid \in Asids
           /\ s.cp1 \in Fcr31 /\ MmuOK(s.mmu) /\ s.caches \in Banks
           /\ s.pending_gpr \in PendingGpr
           /\ s.cache_mode \in Mode /\ s.cache_mode.effective \in Control
           /\ s.contexts \in Seq(Context)
<1>1. s \in StateType
  BY DEF StateOK
<1>2. /\ s.gpr \in Gprs /\ s.pc \in Word
      /\ s.delay_slot \in Resume /\ s.cp0 \in Cp0
      /\ s.cp1 \in Fcr31 /\ s.caches \in Banks
      /\ s.pending_gpr \in PendingGpr
      /\ s.cache_mode \in Mode /\ s.contexts \in Seq(Context)
  BY <1>1 DEF StateType, Resume, Banks, PendingGpr, Gprs
<1>3. s.cp0.asid \in Asids
  BY <1>2 DEF Cp0
<1>4. s.cache_mode.effective \in Control
  BY <1>2 DEF Mode
<1>5. QED
  BY <1>1, <1>2, <1>3, <1>4 DEF StateOK, Cp0OK

LEMMA SetCp0 ==
    ASSUME NEW s, StateOK(s), NEW c, Cp0OK(c),
           CacheControl(c.status) = CacheControl(s.cp0.status)
    PROVE  LET u == [s EXCEPT !.cp0 = c]
           IN /\ StateOK(u) /\ u.cp0 = c /\ SameGpr(s, u)
              /\ u.cp1 = s.cp1 /\ u.pc = s.pc /\ u.delay_slot = s.delay_slot
              /\ u.pending_cp0 = s.pending_cp0 /\ u.pending_cp1 = s.pending_cp1
              /\ u.mmu = s.mmu /\ u.cache_mode = s.cache_mode /\ u.contexts = s.contexts
              /\ u.caches = s.caches /\ u.inputs = s.inputs
<1> DEFINE u == [s EXCEPT !.cp0 = c]
<1>1. /\ u \in StateType /\ u.cp0 = c /\ SameGpr(s, u)
      /\ u.cp1 = s.cp1 /\ u.pc = s.pc /\ u.delay_slot = s.delay_slot
      /\ u.pending_cp0 = s.pending_cp0 /\ u.pending_cp1 = s.pending_cp1
      /\ u.mmu = s.mmu /\ u.cache_mode = s.cache_mode /\ u.contexts = s.contexts
      /\ u.caches = s.caches /\ u.inputs = s.inputs
  BY DEF StateOK, StateType, Cp0OK, SameGpr
<1> HIDE DEF u
<1>2. StateOK(u)
  BY <1>1 DEF StateOK, Cp0OK, ModeFollows
<1>3. QED
  BY <1>1, <1>2 DEF u

LEMMA SetMmu ==
    ASSUME NEW s, StateOK(s), NEW m, MmuOK(m)
    PROVE  LET u == [s EXCEPT !.mmu = m]
           IN /\ StateOK(u) /\ u.mmu = m /\ SameGpr(s, u) /\ SameFloat(s, u)
              /\ u.cp0 = s.cp0 /\ u.pc = s.pc /\ u.delay_slot = s.delay_slot
              /\ u.cache_mode = s.cache_mode /\ u.caches = s.caches
              /\ u.inputs = s.inputs
<1> DEFINE u == [s EXCEPT !.mmu = m]
<1>1. /\ u \in StateType /\ u.cp0 = s.cp0 /\ SameGpr(s, u) /\ SameFloat(s, u)
      /\ u.mmu = m /\ u.cache_mode = s.cache_mode /\ u.contexts = s.contexts
      /\ u.pending_cp0 = s.pending_cp0 /\ u.pc = s.pc /\ u.delay_slot = s.delay_slot
      /\ u.caches = s.caches /\ u.inputs = s.inputs
  BY DEF StateOK, StateType, MmuOK, SameGpr, SameFloat
<1> HIDE DEF u
<1>2. StateOK(u)
  BY <1>1 DEF StateOK, ModeFollows
<1>3. QED
  BY <1>1, <1>2 DEF u

LEMMA SetCaches ==
    ASSUME NEW s, StateOK(s), NEW b \in Banks
    PROVE  LET u == [s EXCEPT !.caches = b]
           IN StateOK(u) /\ SameGpr(s, u) /\ SameFloat(s, u)
<1> DEFINE u == [s EXCEPT !.caches = b]
<1>1. /\ u \in StateType /\ u.cp0 = s.cp0 /\ SameGpr(s, u) /\ SameFloat(s, u)
      /\ u.mmu = s.mmu /\ u.cache_mode = s.cache_mode /\ u.contexts = s.contexts
      /\ u.pending_cp0 = s.pending_cp0
  BY DEF StateOK, StateType, Banks, SameGpr, SameFloat
<1> HIDE DEF u
<1>2. StateOK(u)
  BY <1>1 DEF StateOK, ModeFollows
<1>3. QED
  BY <1>1, <1>2 DEF u

LEMMA SetGpr ==
    ASSUME NEW s, StateOK(s), NEW g \in Gprs, NEW w \in PendingGpr
    PROVE  LET u == WithGpr(s, g, w)
           IN /\ StateOK(u) /\ u.gpr = g /\ u.pending_gpr = w /\ SameFloat(s, u)
              /\ u.cp0 = s.cp0 /\ u.pc = s.pc /\ u.delay_slot = s.delay_slot
              /\ u.pending_cp0 = s.pending_cp0 /\ u.pending_cp1 = s.pending_cp1
              /\ u.cache_mode = s.cache_mode /\ u.contexts = s.contexts /\ u.mmu = s.mmu
<1> DEFINE u == WithGpr(s, g, w)
<1>1. /\ u \in StateType /\ u.cp0 = s.cp0 /\ u.gpr = g /\ u.pending_gpr = w /\ SameFloat(s, u)
      /\ u.mmu = s.mmu /\ u.cache_mode = s.cache_mode /\ u.contexts = s.contexts
      /\ u.pending_cp0 = s.pending_cp0 /\ u.pc = s.pc /\ u.delay_slot = s.delay_slot
      /\ u.pending_cp1 = s.pending_cp1
  BY DEF StateOK, StateType, PendingGpr, Gprs, SameFloat, WithGpr
<1> HIDE DEF u
<1>2. StateOK(u)
  BY <1>1 DEF StateOK, ModeFollows
<1>3. QED
  BY <1>1, <1>2 DEF u

LEMMA SetCp1 ==
    ASSUME NEW s, StateOK(s), NEW f \in Fcr31, NEW w \in {None} \cup Cp1Write
    PROVE  LET u == WithCp1(s, f, w)
           IN /\ StateOK(u) /\ u.cp1 = f /\ u.pending_cp1 = w /\ SameGpr(s, u)
              /\ u.cp0 = s.cp0 /\ u.pc = s.pc /\ u.delay_slot = s.delay_slot
              /\ u.pending_cp0 = s.pending_cp0
              /\ u.cache_mode = s.cache_mode /\ u.contexts = s.contexts /\ u.mmu = s.mmu
<1> DEFINE u == WithCp1(s, f, w)
<1>1. /\ u \in StateType /\ u.cp0 = s.cp0 /\ SameGpr(s, u) /\ u.cp1 = f /\ u.pending_cp1 = w
      /\ u.mmu = s.mmu /\ u.cache_mode = s.cache_mode /\ u.contexts = s.contexts
      /\ u.pending_cp0 = s.pending_cp0 /\ u.pc = s.pc /\ u.delay_slot = s.delay_slot
  BY DEF StateOK, StateType, SameGpr, WithCp1
<1> HIDE DEF u
<1>2. StateOK(u)
  BY <1>1 DEF StateOK, ModeFollows
<1>3. QED
  BY <1>1, <1>2 DEF u

(* Where the next instruction is, and where a branch resumes.              *)
LEMMA SetPc ==
    ASSUME NEW s, StateOK(s), NEW pc \in Word, NEW d \in Resume
    PROVE  LET u == WithPc(s, pc, d)
           IN /\ StateOK(u) /\ SameGpr(s, u) /\ SameFloat(s, u) /\ u.cp0 = s.cp0 /\ u.mmu = s.mmu
<1> DEFINE u == WithPc(s, pc, d)
<1>1. /\ u \in StateType /\ u.cp0 = s.cp0 /\ SameGpr(s, u) /\ SameFloat(s, u)
      /\ u.mmu = s.mmu /\ u.cache_mode = s.cache_mode /\ u.contexts = s.contexts
      /\ u.pending_cp0 = s.pending_cp0
  BY DEF StateOK, StateType, Resume, SameGpr, SameFloat, WithPc
<1> HIDE DEF u
<1>2. StateOK(u)
  BY <1>1 DEF StateOK, ModeFollows
<1>3. QED
  BY <1>1, <1>2 DEF u

-----------------------------------------------------------------------------
(* What every step does before its instruction and after it.               *)

LEMMA AdvanceTransitionOK ==
    ASSUME NEW s, StateOK(s)
    PROVE  LET u == advance_cache_transition(s)
           IN StateOK(u) /\ SameGpr(s, u) /\ SameFloat(s, u) /\ u.inputs = s.inputs
<1> DEFINE u == advance_cache_transition(s)
           tr == s.cache_mode.transition
<1>1. CASE tr = None
  BY <1>1 DEF advance_cache_transition, SameGpr, SameFloat
<1>2. CASE tr # None
  <2>0. s.cache_mode \in Mode /\ tr \in [target : Control, age : Nat]
    BY <1>2, StateFields DEF Mode
  <2>1. PICK mode \in Mode : u = [s EXCEPT !.cache_mode = mode] /\ Final(mode) = tr.target
    <3>1. CASE tr.age + 1 < CACHE_TRANSITION_PERIODS
      <4> DEFINE older == [tr EXCEPT !.age = tr.age + 1]
                 mode == [s.cache_mode EXCEPT !.transition = older]
      <4>1. older \in [target : Control, age : Nat] /\ older.target = tr.target
        BY <2>0
      <4>2. older # None
        BY <4>1 DEF None
      <4>3. mode \in Mode /\ mode.transition = older
        BY <2>0, <4>1 DEF Mode
      <4>4. u = [s EXCEPT !.cache_mode = mode]
        BY <1>2, <3>1 DEF advance_cache_transition, StateOK, StateType
      <4> HIDE DEF mode, older
      <4>5. QED
        BY <4>1, <4>2, <4>3, <4>4 DEF Final
    <3>2. CASE ~ (tr.age + 1 < CACHE_TRANSITION_PERIODS)
      <4>1. u = [s EXCEPT !.cache_mode = settled(tr.target)]
        BY <1>2, <3>2 DEF advance_cache_transition
      <4>2. settled(tr.target) \in Mode /\ Final(settled(tr.target)) = tr.target
        BY <2>0 DEF settled, Mode, Final
      <4>3. QED
        BY <4>1, <4>2
    <3>3. QED
      BY <3>1, <3>2
  <2>2. /\ u \in StateType /\ u.cp0 = s.cp0 /\ SameGpr(s, u) /\ SameFloat(s, u)
        /\ u.mmu = s.mmu /\ u.cache_mode = mode /\ u.contexts = s.contexts
        /\ u.pending_cp0 = s.pending_cp0 /\ u.inputs = s.inputs
    BY <2>1 DEF StateOK, StateType, SameGpr, SameFloat
  <2>3. Final(mode) = Final(s.cache_mode)
    BY <1>2, <2>1 DEF Final
  <2> HIDE DEF u
  <2>4. StateOK(u)
    BY <2>2, <2>3 DEF StateOK, ModeFollows
  <2>5. QED
    BY <2>2, <2>4 DEF u
<1>3. QED
  BY <1>1, <1>2

LEMMA AdvanceInputsOK ==
    ASSUME NEW s, StateOK(s)
    PROVE  LET u == advance_machine_interrupt_inputs(s)
           IN StateOK(u) /\ SameGpr(s, u) /\ (FloatLine(s) => FloatLine(u))
<1> DEFINE u == advance_machine_interrupt_inputs(s)
           c == set_hardware_interrupt_lines(s.cp0, MachineInputs, s.inputs.sampled)
           v == [s EXCEPT !.cp0 = c]
           inputs == [s.inputs EXCEPT !.sampled = s.inputs.asserted]
<1>0. s.inputs \in [asserted : SUBSET MachineInputs, sampled : SUBSET MachineInputs]
  BY StateFields DEF StateType
<1>1. MachineInputs \in LineSets /\ s.inputs.sampled \in LineSets
  BY <1>0 DEF MachineInputs, LineSets
<1>2. /\ Cp0OK(c) /\ c.status = s.cp0.status
      /\ c.cause.hw = LinesAfter(s.cp0.cause.hw, MachineInputs, s.inputs.sampled)
  <2>1. Cp0OK(s.cp0)
    BY StateFields
  <2>2. QED
    BY <1>1, <2>1, SetLinesOK
<1>3. /\ StateOK(v) /\ v.cp0 = c /\ v.cp1 = s.cp1 /\ SameGpr(s, v) /\ v.inputs = s.inputs
  <2> HIDE DEF c
  <2>1. QED
    BY <1>2, SetCp0
<1>4. u = [v EXCEPT !.inputs = inputs]
  BY DEF advance_machine_interrupt_inputs, StateOK, StateType
<1>5. inputs \in [asserted : SUBSET MachineInputs, sampled : SUBSET MachineInputs]
  BY <1>0
<1>6. 2 \notin MachineInputs
  BY DEF MachineInputs
<1> HIDE DEF v, c, inputs
<1>7. /\ u \in StateType /\ u.cp0 = v.cp0 /\ SameGpr(v, u) /\ u.cp1 = v.cp1
      /\ u.mmu = v.mmu /\ u.cache_mode = v.cache_mode /\ u.contexts = v.contexts
      /\ u.pending_cp0 = v.pending_cp0
  BY <1>3, <1>4, <1>5, ZenonT(40) DEF StateOK, StateType, SameGpr
<1> HIDE DEF u
<1>8. StateOK(u)
  BY <1>3, <1>7 DEF StateOK, ModeFollows
<1>9. FloatLine(s) => FloatLine(u)
  BY <1>2, <1>3, <1>6, <1>7 DEF FloatLine, CP1_INTERRUPT_LINE, LinesAfter
<1>10. QED
  BY <1>3, <1>7, <1>8, <1>9 DEF u, SameGpr

LEMMA SynchronizeOK ==
    ASSUME NEW s, StateOK(s)
    PROVE  LET u == synchronize_cp1_interrupt(s)
           IN StateOK(u) /\ SameGpr(s, u) /\ FloatLine(u)
<1> DEFINE asserted == IF interrupt_asserted(s.cp1) THEN {CP1_INTERRUPT_LINE} ELSE {}
           c == set_hardware_interrupt_lines(s.cp0, {CP1_INTERRUPT_LINE}, asserted)
           u == synchronize_cp1_interrupt(s)
<1>1. asserted \in LineSets /\ {CP1_INTERRUPT_LINE} \in LineSets
  BY DEF CP1_INTERRUPT_LINE, LineSets
<1>2. /\ Cp0OK(c) /\ c.status = s.cp0.status
      /\ c.cause.hw = LinesAfter(s.cp0.cause.hw, {CP1_INTERRUPT_LINE}, asserted)
  <2> HIDE DEF asserted
  <2>1. Cp0OK(s.cp0)
    BY StateFields
  <2>2. QED
    BY <1>1, <2>1, SetLinesOK
<1>3. u = [s EXCEPT !.cp0 = c]
  BY DEF synchronize_cp1_interrupt
<1> HIDE DEF c
<1>4. StateOK(u) /\ SameGpr(s, u) /\ u.cp0 = c /\ u.cp1 = s.cp1
  BY <1>2, <1>3, SetCp0
<1>5. FloatLine(u)
  BY <1>2, <1>4 DEF FloatLine, LinesAfter
<1>6. QED
  BY <1>4, <1>5

(* Older writes land.                                                      *)
LEMMA WriteGprOK ==
    ASSUME NEW s, StateOK(s), NEW r, NEW value \in Word
    PROVE  LET u == write_gpr_direct(s, r, value)
           IN /\ StateOK(u) /\ SameFloat(s, u) /\ u.cp0 = s.cp0
              /\ u.pending_gpr = s.pending_gpr /\ u.pc = s.pc /\ u.delay_slot = s.delay_slot
              /\ u.pending_cp0 = s.pending_cp0 /\ u.pending_cp1 = s.pending_cp1
              /\ u.cache_mode = s.cache_mode /\ u.contexts = s.contexts /\ u.mmu = s.mmu
              /\ u.gpr = GprAfter(s.gpr, r, value)
<1> DEFINE u == write_gpr_direct(s, r, value)
           g == GprAfter(s.gpr, r, value)
<1>1. g \in Gprs /\ s.pending_gpr \in PendingGpr
  BY StateFields DEF Gprs, GprAfter
<1>2. u = WithGpr(s, g, s.pending_gpr)
  BY DEF write_gpr_direct, StateOK, StateType, WithGpr, GprAfter
<1> HIDE DEF g
<1>3. /\ StateOK(u) /\ u.gpr = g /\ u.pending_gpr = s.pending_gpr /\ SameFloat(s, u)
      /\ u.cp0 = s.cp0 /\ u.pc = s.pc /\ u.delay_slot = s.delay_slot
      /\ u.pending_cp0 = s.pending_cp0 /\ u.pending_cp1 = s.pending_cp1
      /\ u.cache_mode = s.cache_mode /\ u.contexts = s.contexts /\ u.mmu = s.mmu
  BY <1>1, <1>2, SetGpr
<1>4. QED
  BY <1>3 DEF g

LEMMA CommitGprOK ==
    ASSUME NEW s, StateOK(s)
    PROVE  LET u == commit_pending_gpr_write(s)
           IN /\ StateOK(u) /\ SameFloat(s, u) /\ u.cp0 = s.cp0
              /\ u.pending_gpr = None /\ u.pc = s.pc /\ u.delay_slot = s.delay_slot
              /\ u.pending_cp0 = s.pending_cp0 /\ u.pending_cp1 = s.pending_cp1
              /\ u.cache_mode = s.cache_mode /\ u.contexts = s.contexts /\ u.mmu = s.mmu
              /\ \A r \in Registers \ {0} : u.gpr[r] = Landed(s, r)
<1> DEFINE u == commit_pending_gpr_write(s)
<1>1. CASE s.pending_gpr = None
  BY <1>1 DEF commit_pending_gpr_write, Landed, SameFloat
<1>2. CASE s.pending_gpr # None
  <2> DEFINE p == s.pending_gpr
             v == WithGpr(s, s.gpr, None)
  <2>0. p.index \in Register /\ p.value \in Word /\ s.gpr \in Gprs /\ None \in PendingGpr
    BY <1>2, StateFields DEF PendingGpr
  <2>1. /\ StateOK(v) /\ v.gpr = s.gpr /\ v.pending_gpr = None /\ SameFloat(s, v)
        /\ v.cp0 = s.cp0 /\ v.pc = s.pc /\ v.delay_slot = s.delay_slot
        /\ v.pending_cp0 = s.pending_cp0 /\ v.pending_cp1 = s.pending_cp1
        /\ v.cache_mode = s.cache_mode /\ v.contexts = s.contexts /\ v.mmu = s.mmu
    BY <2>0, SetGpr
  <2>2. u = write_gpr_direct(v, p.index, p.value)
    BY <1>2 DEF commit_pending_gpr_write, StateOK, StateType, WithGpr
  <2> HIDE DEF v, p
  <2>3. /\ StateOK(u) /\ SameFloat(v, u) /\ u.cp0 = v.cp0
        /\ u.pending_gpr = None /\ u.pc = s.pc /\ u.delay_slot = s.delay_slot
        /\ u.pending_cp0 = s.pending_cp0 /\ u.pending_cp1 = s.pending_cp1
        /\ u.cache_mode = s.cache_mode /\ u.contexts = s.contexts /\ u.mmu = s.mmu
        /\ u.gpr = GprAfter(s.gpr, p.index, p.value)
    BY <2>0, <2>1, <2>2, WriteGprOK
  <2>4. \A r \in Registers \ {0} : u.gpr[r] = Landed(s, r)
    BY <1>2, <2>0, <2>3, LayoutAssumption DEF Landed, p, Register, NoReg, Gprs, GprAfter
  <2>5. QED
    BY <2>1, <2>3, <2>4 DEF SameFloat
<1>3. QED
  BY <1>1, <1>2

LEMMA CommitCp0OK ==
    ASSUME NEW s, StateOK(s)
    PROVE  LET u == commit_pending_cp0_write(s)
           IN /\ StateOK(u) /\ SameGpr(s, u) /\ u.cp1 = s.cp1
              /\ u.pending_cp0 = None /\ u.pending_cp1 = s.pending_cp1
              /\ u.pc = s.pc /\ u.delay_slot = s.delay_slot
<1> DEFINE u == commit_pending_cp0_write(s)
           p == s.pending_cp0
           c == write_register(s.cp0, p.index, Reading(p.index, p.value))
<1>1. CASE p = None
  BY <1>1 DEF commit_pending_cp0_write, SameGpr
<1>2. CASE p # None
  <2>1. p.index \in Nat /\ p.value \in Word
    BY <1>2 DEF StateOK, StateType
  <2>2. /\ Cp0OK(c) /\ CacheControl(c.status) = WrittenControl(p, CacheControl(s.cp0.status))
    <3>1. Cp0OK(s.cp0)
      BY StateFields
    <3>2. QED
      BY <1>2, <2>1, <3>1, WriteRegisterOK DEF WrittenControl
  <2>3. u = [s EXCEPT !.pending_cp0 = None, !.cp0 = c]
    BY <1>2 DEF commit_pending_cp0_write, StateOK, StateType
  <2> HIDE DEF c
  <2>4. /\ u \in StateType /\ u.cp0 = c /\ SameGpr(s, u) /\ u.cp1 = s.cp1
        /\ u.mmu = s.mmu /\ u.cache_mode = s.cache_mode /\ u.contexts = s.contexts
        /\ u.pending_cp0 = None /\ u.pc = s.pc /\ u.delay_slot = s.delay_slot
        /\ u.pending_cp1 = s.pending_cp1
    BY <2>2, <2>3 DEF StateOK, StateType, SameGpr, Cp0OK
  <2> HIDE DEF u
  <2>5. ModeFollows(u)
    BY <2>2, <2>4 DEF StateOK, ModeFollows, WrittenControl
  <2>6. QED
    BY <2>2, <2>4, <2>5 DEF StateOK, Cp0OK, u
<1>3. QED
  BY <1>1, <1>2

LEMMA CommitCp1OK ==
    ASSUME NEW s, StateOK(s)
    PROVE  LET u == commit_pending_cp1_write(s)
           IN /\ StateOK(u) /\ SameGpr(s, u) /\ u.cp0 = s.cp0
              /\ u.pending_cp0 = s.pending_cp0 /\ u.pending_cp1 = None
              /\ u.pc = s.pc /\ u.delay_slot = s.delay_slot
<1> DEFINE u == commit_pending_cp1_write(s)
           p == s.pending_cp1
           f == CASE p.t = "General" -> s.cp1
                  [] p.t = "Control" -> write_control_status(s.cp1, p.value)
                  [] p.t = "Condition" -> write_condition(s.cp1, p.condition)
<1>1. CASE p = None
  BY <1>1 DEF commit_pending_cp1_write, SameGpr
<1>2. CASE p # None
  <2>1. p \in Cp1Write /\ s.cp1 \in Fcr31
    BY <1>2 DEF StateOK, StateType
  <2>2. f \in Fcr31
    BY <2>1 DEF Cp1Write, Fcr31, write_control_status, write_condition
  <2>3. u = WithCp1(s, f, None)
    BY <1>2 DEF commit_pending_cp1_write, WithCp1
  <2> HIDE DEF f, u
  <2>4. None \in {None} \cup Cp1Write
    OBVIOUS
  <2>5. QED
    BY <2>2, <2>3, <2>4, SetCp1 DEF u
<1>3. QED
  BY <1>1, <1>2

LEMMA CommitPendingOK ==
    ASSUME NEW s, StateOK(s)
    PROVE  LET u == CommitPending(s)
           IN /\ StateOK(u)
              /\ u.pending_gpr = None /\ u.pending_cp0 = None
              /\ u.pc = s.pc /\ u.delay_slot = s.delay_slot
              /\ \A r \in Registers \ {0} : u.gpr[r] = Landed(s, r)
<1> DEFINE c == commit_pending_functional(s.cp0)
           a == [s EXCEPT !.cp0 = c]
           b == commit_pending_gpr_write(a)
           d == commit_pending_cp0_write(b)
           u == commit_pending_cp1_write(d)
<1>0. CommitPending(s) = u
  BY DEF CommitPending
<1>1. Cp0OK(c) /\ c.status = s.cp0.status
  <2>1. Cp0OK(s.cp0)
    BY StateFields
  <2>2. QED
    BY <2>1, CommitFunctionalOK
<1> HIDE DEF c
<1>2. StateOK(a) /\ SameGpr(s, a) /\ a.pc = s.pc /\ a.delay_slot = s.delay_slot
  BY <1>1, SetCp0
<1> HIDE DEF a
<1>3. /\ StateOK(b) /\ b.pc = s.pc /\ b.delay_slot = s.delay_slot /\ b.pending_gpr = None
      /\ \A r \in Registers \ {0} : b.gpr[r] = Landed(a, r)
  BY <1>2, CommitGprOK
<1> HIDE DEF b
<1>4. /\ StateOK(d) /\ d.pc = s.pc /\ d.delay_slot = s.delay_slot /\ SameGpr(b, d)
      /\ d.pending_cp0 = None
  BY <1>3, CommitCp0OK
<1> HIDE DEF d
<1>5. /\ StateOK(u) /\ u.pc = s.pc /\ u.delay_slot = s.delay_slot /\ SameGpr(d, u)
      /\ u.pending_cp0 = None
  BY <1>4, CommitCp1OK
<1> HIDE DEF u
<1>6. \A r \in Registers \ {0} : Landed(a, r) = Landed(s, r)
  BY <1>2 DEF Landed, SameGpr
<1>7. QED
  BY <1>0, <1>3, <1>4, <1>5, <1>6 DEF SameGpr

-----------------------------------------------------------------------------
(* The effect an instruction leaves to its completion.                     *)

IsEffect(e) ==
    \/ e.t = "None"
    \/ e.t = "Gpr" /\ e.index \in Register /\ e.value \in Word /\ e.bypass \in BOOLEAN
    \/ e.t = "Cp0" /\ e.index \in Nat /\ e.value \in Word
    \/ e.t = "Cp1" /\ e.write \in Cp1Write
    \/ e.t = "TlbRead" /\ e.entry \in Entry
    \/ e.t = "TlbProbe" /\ e.index \in TlbIndexes /\ e.failed \in BOOLEAN
    \/ e.t = "TlbWrite" /\ e.index \in TlbIndexes /\ e.entry \in Entry
    \/ /\ e.t = "RestoreStatus"
       /\ e.user[1] \in BOOLEAN /\ e.user[2] \in BOOLEAN
       /\ e.ie[1] \in BOOLEAN /\ e.ie[2] \in BOOLEAN

(* A transfer to Status that changes the cache bits starts a transition to *)
(* them, so the mode still ends where Status will.                         *)
LEMMA TransferOK ==
    ASSUME NEW s, StateOK(s), s.pending_cp0 = None, NEW register \in Nat, NEW value \in Word
    PROVE  LET u == [note_status_transfer(s, register, value) EXCEPT !.pending_cp0 =
                        [index |-> register, value |-> value]]
           IN StateOK(u) /\ SameGpr(s, u)
<1> DEFINE control == CacheControl(status_after_write(s.cp0, Reading(12, value)))
           p == [index |-> register, value |-> value]
           v == note_status_transfer(s, register, value)
           u == [v EXCEPT !.pending_cp0 = p]
<1>0. s \in StateType /\ s.cache_mode \in Mode /\ Final(s.cache_mode) = CacheControl(s.cp0.status)
  BY DEF StateOK, StateType, ModeFollows, WrittenControl
<1>1. p \in [index : Nat, value : Word] /\ p # None /\ p.index = register /\ p.value = value
  BY DEF None
<1>2. control = CacheControl(Reading(12, value)) /\ control \in Control
  <2>1. Reading(12, value) \in Status
    BY ReadingAssumption
  <2>2. QED
    BY <2>1 DEF CacheControl, status_after_write, Status, Control
<1>3. WrittenControl(p, CacheControl(s.cp0.status))
        = IF register = 12 THEN control ELSE CacheControl(s.cp0.status)
  BY <1>1, <1>2 DEF WrittenControl
<1>4. PICK mode \in Mode :
        /\ v = [s EXCEPT !.cache_mode = mode]
        /\ Final(mode) = IF register = 12 THEN control ELSE CacheControl(s.cp0.status)
  <2>1. CASE register # 12 \/ control = CacheControl(s.cp0.status)
    <3>1. v = s
      BY <2>1 DEF note_status_transfer
    <3>2. s = [s EXCEPT !.cache_mode = s.cache_mode]
      BY <1>0 DEF StateType
    <3>3. QED
      BY <1>0, <2>1, <3>1, <3>2
  <2>2. CASE register = 12 /\ control # CacheControl(s.cp0.status)
    <3> DEFINE tr == [target |-> control, age |-> 0]
               mode == [s.cache_mode EXCEPT !.transition = tr]
    <3>1. v = [s EXCEPT !.cache_mode = mode]
      BY <2>2 DEF note_status_transfer
    <3> HIDE DEF control
    <3>2. tr \in [target : Control, age : Nat] /\ tr.target = control
      BY <1>2
    <3>3. tr # None
      BY DEF None
    <3> HIDE DEF tr
    <3>4. mode \in Mode /\ mode.transition = tr
      BY <1>0, <3>2 DEF Mode
    <3> HIDE DEF mode
    <3>5. Final(mode) = control
      BY <3>2, <3>3, <3>4 DEF Final
    <3>6. QED
      BY <2>2, <3>1, <3>4, <3>5
  <2>3. QED
    BY <2>1, <2>2
<1> HIDE DEF v, p, control
<1>5. /\ u \in StateType /\ u.cp0 = s.cp0 /\ SameGpr(s, u)
      /\ u.mmu = s.mmu /\ u.cache_mode = mode /\ u.contexts = s.contexts
      /\ u.pending_cp0 = p
  BY <1>0, <1>1, <1>4, ZenonT(40) DEF StateType, SameGpr
<1> HIDE DEF u
<1>6. ModeFollows(u)
  BY <1>3, <1>4, <1>5 DEF StateOK, ModeFollows
<1>7. StateOK(u)
  BY <1>5, <1>6 DEF StateOK
<1>8. QED
  BY <1>5, <1>7 DEF u, v, p

Saved(levels) ==
    /\ levels \in Seq(Context)
    /\ \A k \in 1 .. Len(levels) : Final(levels[k].mode) = levels[k].status_bits

LEMMA PopOK ==
    ASSUME NEW levels, Saved(levels), levels # <<>>
    PROVE  /\ Saved(Tail(levels)) /\ Head(levels) \in Context
           /\ Final(Head(levels).mode) = Head(levels).status_bits
<1>1. levels \in Seq(Context) /\ Len(levels) \in Nat /\ Len(levels) > 0
  BY DEF Saved
<1>2. Head(levels) = levels[1] /\ 1 \in 1 .. Len(levels)
  BY <1>1
<1>3. Tail(levels) \in Seq(Context) /\ Len(Tail(levels)) = Len(levels) - 1
  BY <1>1
<1>4. ASSUME NEW k \in 1 .. Len(Tail(levels))
      PROVE  Tail(levels)[k] = levels[k + 1] /\ k + 1 \in 1 .. Len(levels)
  BY <1>1, <1>3
<1>5. QED
  BY <1>1, <1>2, <1>3, <1>4 DEF Saved

LEMMA PushOK ==
    ASSUME NEW levels, Saved(levels), NEW x, ContextOK(x)
    PROVE  Saved(PushContext(levels, x))
<1> DEFINE all == <<x>> \o levels
           n == IF Len(levels) < SAVED_CACHE_CONTEXT_LEVELS THEN Len(levels) + 1
                ELSE SAVED_CACHE_CONTEXT_LEVELS
<1>1. levels \in Seq(Context) /\ Len(levels) \in Nat /\ x \in Context
  BY DEF Saved, ContextOK
<1>2. all \in Seq(Context) /\ Len(all) = Len(levels) + 1
  BY <1>1
<1>3. n \in 0 .. Len(all)
  BY <1>1, <1>2 DEF SAVED_CACHE_CONTEXT_LEVELS
<1>4. all[1] = x /\ \A k \in 2 .. Len(all) : all[k] = levels[k - 1] /\ k - 1 \in 1 .. Len(levels)
  BY <1>1, <1>2
<1>5. \A k \in 1 .. Len(all) : Final(all[k].mode) = all[k].status_bits
  <2>1. \A k \in 1 .. Len(all) : k = 1 \/ k \in 2 .. Len(all)
    BY <1>1, <1>2
  <2> HIDE DEF all
  <2>2. QED
    BY <1>4, <2>1 DEF Saved, ContextOK
<1> HIDE DEF all, n
<1>6. /\ SubSeq(all, 1, n) \in Seq(Context) /\ Len(SubSeq(all, 1, n)) = n
      /\ \A k \in 1 .. n : SubSeq(all, 1, n)[k] = all[k] /\ k \in 1 .. Len(all)
  BY <1>1, <1>2, <1>3
<1>7. QED
  BY <1>5, <1>6 DEF Saved, PushContext, all, n

LEMMA RestoreOK ==
    ASSUME NEW s, StateOK(s), s.pending_cp0 = None, NEW e, e.t = "RestoreStatus", IsEffect(e)
    PROVE  StateOK(ApplyEffect(s, e)) /\ SameGpr(s, ApplyEffect(s, e))
<1> DEFINE c == restore_status(s.cp0, e.user, e.ie)
           r == [s EXCEPT !.cp0 = c]
           u == ApplyEffect(s, e)
<1>1. Cp0OK(c) /\ CacheControl(c.status) = CacheControl(s.cp0.status)
  <2>1. Cp0OK(s.cp0)
    BY StateFields
  <2>2. QED
    BY <2>1, RestoreStatusOK DEF IsEffect
<1>2. /\ StateOK(r) /\ r.cp0 = c /\ SameGpr(s, r) /\ r.mmu = s.mmu
      /\ r.pending_cp0 = None /\ r.contexts = s.contexts
  <2> HIDE DEF c
  <2>1. QED
    BY <1>1, SetCp0
<1>3. CASE s.contexts = <<>>
  <2>1. u = r
    BY <1>3 DEF ApplyEffect
  <2>2. QED
    BY <1>2, <2>1
<1>4. CASE s.contexts # <<>>
  <2> DEFINE x == Head(s.contexts)
             d == set_status_cache_control(c, x.status_bits)
  <2>1. Saved(s.contexts)
    BY StateFields DEF StateOK, ModeFollows, Saved
  <2>2. Saved(Tail(s.contexts)) /\ x \in Context /\ Final(x.mode) = x.status_bits
    BY <1>4, <2>1, PopOK
  <2>3. x.status_bits \in Control /\ x.mode \in Mode
    BY <2>2 DEF Context
  <2>4. Cp0OK(d) /\ CacheControl(d.status) = x.status_bits
    BY <1>1, <2>3, SetStatusControlOK
  <2>5. u = [r EXCEPT !.cache_mode = x.mode, !.cp0 = d, !.contexts = Tail(s.contexts)]
    BY <1>2, <1>4 DEF ApplyEffect, StateOK, StateType
  <2> HIDE DEF r, x, d, u, c
  <2>6. /\ u \in StateType /\ u.cp0 = d /\ SameGpr(r, u)
        /\ u.mmu = r.mmu /\ u.cache_mode = x.mode /\ u.contexts = Tail(s.contexts)
        /\ u.pending_cp0 = None
    BY <1>2, <2>2, <2>3, <2>4, <2>5 DEF StateOK, StateType, Cp0OK, Saved, SameGpr
  <2>7. ModeFollows(u)
    BY <2>2, <2>4, <2>6 DEF ModeFollows, WrittenControl, Saved
  <2>8. QED
    BY <1>2, <2>4, <2>6, <2>7 DEF StateOK, Cp0OK, SameGpr, u
<1>5. QED
  BY <1>3, <1>4

LEMMA ApplyEffectOK ==
    ASSUME NEW s, StateOK(s), s.pending_cp0 = None, NEW e, IsEffect(e)
    PROVE  LET u == ApplyEffect(s, e)
           IN /\ StateOK(u)
              /\ u.gpr = s.gpr
              /\ u.pending_gpr = IF e.t = "Gpr"
                                 THEN [index |-> e.index, value |-> e.value, bypass |-> e.bypass]
                                 ELSE s.pending_gpr
<1> DEFINE u == ApplyEffect(s, e)
<1>0. s \in StateType /\ s.gpr \in Gprs /\ s.cp1 \in Fcr31 /\ Cp0OK(s.cp0) /\ MmuOK(s.mmu)
  BY StateFields
<1>1. CASE e.t = "None"
  BY <1>1 DEF ApplyEffect
<1>2. CASE e.t = "Gpr"
  <2> DEFINE p == [index |-> e.index, value |-> e.value, bypass |-> e.bypass]
  <2>1. p \in PendingGpr
    BY <1>2 DEF IsEffect, PendingGpr
  <2>2. u = WithGpr(s, s.gpr, p)
    BY <1>0, <1>2 DEF ApplyEffect, WithGpr, StateType
  <2> HIDE DEF p, u
  <2>3. StateOK(u) /\ u.gpr = s.gpr /\ u.pending_gpr = p
    BY <1>0, <2>1, <2>2, SetGpr
  <2>4. QED
    BY <1>2, <2>3 DEF p, u
<1>3. CASE e.t = "Cp0"
  <2>1. e.index \in Nat /\ e.value \in Word
    BY <1>3 DEF IsEffect
  <2>2. u = [note_status_transfer(s, e.index, e.value) EXCEPT !.pending_cp0 =
                [index |-> e.index, value |-> e.value]]
    BY <1>3 DEF ApplyEffect
  <2>3. StateOK(u) /\ SameGpr(s, u)
    BY <2>1, <2>2, TransferOK
  <2>4. QED
    BY <1>3, <2>3 DEF SameGpr
<1>4. CASE e.t = "Cp1"
  <2>1. e.write \in {None} \cup Cp1Write
    BY <1>4 DEF IsEffect
  <2>2. u = WithCp1(s, s.cp1, e.write)
    BY <1>0, <1>4 DEF ApplyEffect, WithCp1, StateType
  <2> HIDE DEF u
  <2>3. StateOK(u) /\ SameGpr(s, u)
    BY <1>0, <2>1, <2>2, SetCp1
  <2>4. QED
    BY <1>4, <2>3 DEF SameGpr, u
<1>5. CASE e.t = "TlbRead"
  <2> DEFINE c == [s.cp0 EXCEPT !.vpn = e.entry.vpn, !.asid = e.entry.asid, !.lo = EntryLo(e.entry)]
  <2>1. e.entry.vpn \in Nat /\ e.entry.asid \in Asids /\ EntryLo(e.entry) \in LowHalf
    BY <1>5 DEF IsEffect, Entry, EntryLo, LowHalf
  <2>2. u = [s EXCEPT !.cp0 = c]
    BY <1>0, <1>5 DEF ApplyEffect, StateType, Cp0
  <2>3. /\ c \in Cp0 /\ c.status = s.cp0.status /\ c.effective = s.cp0.effective
        /\ c.pending = s.cp0.pending
    BY <1>0, <2>1 DEF Cp0OK, Cp0
  <2> HIDE DEF c, u
  <2>4. Cp0OK(c)
    BY <1>0, <2>3 DEF Cp0OK, EnablesGranted
  <2>5. StateOK(u) /\ SameGpr(s, u)
    BY <2>2, <2>3, <2>4, SetCp0
  <2>6. QED
    BY <1>5, <2>5 DEF SameGpr, u
<1>6. CASE e.t = "TlbProbe"
  <2> DEFINE c == [s.cp0 EXCEPT !.index = e.index, !.failed = e.failed]
  <2>1. e.index \in TlbIndexes /\ e.failed \in BOOLEAN
    BY <1>6 DEF IsEffect
  <2>2. u = [s EXCEPT !.cp0 = c]
    BY <1>0, <1>6 DEF ApplyEffect, StateType, Cp0
  <2>3. /\ c \in Cp0 /\ c.status = s.cp0.status /\ c.effective = s.cp0.effective
        /\ c.pending = s.cp0.pending
    BY <1>0, <2>1 DEF Cp0OK, Cp0
  <2> HIDE DEF c, u
  <2>4. Cp0OK(c)
    BY <1>0, <2>3 DEF Cp0OK, EnablesGranted
  <2>5. StateOK(u) /\ SameGpr(s, u)
    BY <2>2, <2>3, <2>4, SetCp0
  <2>6. QED
    BY <1>6, <2>5 DEF SameGpr, u
<1>7. CASE e.t = "TlbWrite"
  <2> DEFINE m == complete_write(s.mmu, e.index, e.entry)
  <2>1. e.index \in TlbIndexes /\ e.entry \in Entry
    BY <1>7 DEF IsEffect
  <2>2. MmuOK(m)
    BY <1>0, <2>1, CompleteWriteOK
  <2>3. u = [s EXCEPT !.mmu = m]
    BY <1>7 DEF ApplyEffect
  <2> HIDE DEF m, u
  <2>4. StateOK(u) /\ SameGpr(s, u)
    BY <2>2, <2>3, SetMmu
  <2>5. QED
    BY <1>7, <2>4 DEF SameGpr, u
<1>8. CASE e.t = "RestoreStatus"
  BY <1>8, RestoreOK DEF SameGpr
<1>9. QED
  BY <1>1, <1>2, <1>3, <1>4, <1>5, <1>6, <1>7, <1>8 DEF IsEffect

LEMMA SpaceWord ==
    /\ AddressSpace \in Nat \ {0}
    /\ \A a \in Int : a % AddressSpace \in Word
BY MmuAssumption DEF AddressSpace, Word

(* Completion: older writes land, the effect is taken, the pc advances.    *)
LEMMA CompleteOK ==
    ASSUME NEW s, StateOK(s), NEW resume \in Word \cup {NoResume}, NEW e, IsEffect(e)
    PROVE  LET u == complete_instruction(s, resume, e)
           IN /\ StateOK(u)
              /\ \A r \in Registers \ {0} :
                   Landed(u, r) = IF e.t = "Gpr" /\ e.index = r THEN e.value ELSE Landed(s, r)
<1> DEFINE a == CommitPending(s)
           b == ApplyEffect(a, e)
           m == IF e.t = "TlbWrite" THEN b.mmu ELSE advance_instruction_view(b.mmu)
           v == [b EXCEPT !.mmu = m]
           pc == IF s.delay_slot = None THEN (s.pc + 4) % AddressSpace ELSE s.delay_slot.resume
           d == IF resume = NoResume THEN None ELSE [origin |-> s.pc, resume |-> resume]
           w == WithPc(v, pc, d)
           c == advance_random(w.cp0)
           u == complete_instruction(s, resume, e)
<1>1. /\ StateOK(a) /\ a.pending_cp0 = None /\ a.pending_gpr = None
      /\ \A r \in Registers \ {0} : a.gpr[r] = Landed(s, r)
  BY CommitPendingOK
<1>2. /\ StateOK(b) /\ b.gpr = a.gpr
      /\ b.pending_gpr = IF e.t = "Gpr"
                         THEN [index |-> e.index, value |-> e.value, bypass |-> e.bypass]
                         ELSE a.pending_gpr
  <2> HIDE DEF a
  <2>1. QED
    BY <1>1, ApplyEffectOK
<1>3. u = [w EXCEPT !.cp0 = c]
  <2> HIDE DEF a
  <2>1. QED
    BY <1>2 DEF complete_instruction, WithPc, StateOK, StateType, a
<1> HIDE DEF a, b
<1>4. MmuOK(m)
  BY <1>2, StateFields, AdvanceOK
<1> HIDE DEF m
<1>5. StateOK(v) /\ SameGpr(b, v) /\ v.cp0 = b.cp0
  BY <1>2, <1>4, SetMmu
<1> HIDE DEF v
<1>6. pc \in Word /\ d \in Resume
  <2>1. s.pc \in Word /\ s.delay_slot \in Resume
    BY StateFields
  <2>2. (s.pc + 4) % AddressSpace \in Word
    BY <2>1, SpaceWord DEF Word
  <2>3. QED
    BY <2>1, <2>2 DEF Resume
<1> HIDE DEF pc, d
<1>7. StateOK(w) /\ SameGpr(v, w)
  BY <1>5, <1>6, SetPc
<1> HIDE DEF w
<1>8. Cp0OK(c) /\ c.status = w.cp0.status
  <2>1. Cp0OK(w.cp0)
    BY <1>7, StateFields
  <2>2. QED
    BY <2>1, AdvanceRandomOK
<1> HIDE DEF c
<1>9. StateOK(u) /\ SameGpr(w, u)
  BY <1>3, <1>7, <1>8, SetCp0
<1> HIDE DEF u
<1>10. /\ u.gpr = a.gpr
       /\ e.t = "Gpr" => u.pending_gpr = [index |-> e.index, value |-> e.value, bypass |-> e.bypass]
       /\ e.t # "Gpr" => u.pending_gpr = None
  BY <1>1, <1>2, <1>5, <1>7, <1>9 DEF SameGpr
<1>11. \A r \in Registers \ {0} :
         Landed(u, r) = IF e.t = "Gpr" /\ e.index = r THEN e.value ELSE Landed(s, r)
  <2>1. CASE e.t = "Gpr"
    <3>1. /\ u.pending_gpr # None /\ u.pending_gpr.index = e.index
          /\ u.pending_gpr.value = e.value
      BY <1>10, <2>1 DEF None
    <3>2. QED
      BY <1>1, <1>10, <2>1, <3>1 DEF Landed
  <2>2. CASE e.t # "Gpr"
    BY <1>1, <1>10, <2>2 DEF Landed
  <2>3. QED
    BY <2>1, <2>2
<1>12. QED
  BY <1>9, <1>11 DEF u

LEMMA VectorWord ==
    ASSUME NEW c, NEW e
    PROVE  VectorAddress(ExceptionVector(c, e)) \in Word
<1> DEFINE v == ExceptionVector(c, e)
<1>1. /\ KSEG0_START \in Word /\ KSEG0_START + PageBytes \in Word
      /\ KSEG1_START + 4 \in Word /\ KSEG1_START + PageBytes \in Word
  BY MmuAssumption, LayoutAssumption DEF KSEG0_START, KSEG1_START, Word, AddressSpace
<1>2. v \in {<<"ram", "refill">>, <<"ram", "general">>, <<"boot", "refill">>, <<"boot", "general">>}
  BY DEF ExceptionVector
<1>3. QED
  BY <1>1, <1>2 DEF VectorAddress

(* An exception leaves the handler the effective cache control and saves   *)
(* the mode of the context it interrupts.                                  *)
LEMMA RecognizeOK ==
    ASSUME NEW s, StateOK(s), NEW e, IsException(e)
    PROVE  LET u == RecognizeException(s, e)
           IN StateOK(u) /\ \A r \in Registers \ {0} : Landed(u, r) = Landed(s, r)
<1> DEFINE a == CommitPending(s)
           control == a.cache_mode.effective
           x == [status_bits |-> CacheControl(a.cp0.status), mode |-> a.cache_mode]
           slt == s.delay_slot # None
           epc == IF slt THEN s.delay_slot.origin ELSE s.pc
           c1 == set_status_cache_control(a.cp0, control)
           c2 == take_exception(c1, e, epc, slt)
           c3 == advance_random(c2)
           levels == PushContext(a.contexts, x)
           vector == VectorAddress(ExceptionVector(a.cp0, e))
           m == advance_instruction_view(a.mmu)
           u == RecognizeException(s, e)
<1>1. /\ StateOK(a) /\ a.pending_cp0 = None /\ a.pending_gpr = None
      /\ \A r \in Registers \ {0} : a.gpr[r] = Landed(s, r)
  BY CommitPendingOK
<1>2. u = [a EXCEPT !.contexts = levels, !.cache_mode = settled(control), !.delay_slot = None,
                    !.cp0 = c3, !.pc = vector, !.mmu = m]
  <2> HIDE DEF a
  <2>1. QED
    BY <1>1 DEF RecognizeException, StateOK, StateType, a
<1> HIDE DEF a
<1>3. /\ Cp0OK(a.cp0) /\ MmuOK(a.mmu) /\ control \in Control /\ a.cache_mode \in Mode
      /\ a.cp0.status \in Status
  <2>1. Cp0OK(a.cp0) /\ MmuOK(a.mmu) /\ control \in Control /\ a.cache_mode \in Mode
    BY <1>1, StateFields
  <2>2. QED
    BY <2>1, Cp0Fields
<1>4. ContextOK(x)
  <2>1. CacheControl(a.cp0.status) \in Control
    BY <1>3 DEF CacheControl, Status, Control
  <2>2. Final(a.cache_mode) = CacheControl(a.cp0.status)
    BY <1>1 DEF StateOK, ModeFollows, WrittenControl
  <2>3. QED
    BY <1>3, <2>1, <2>2 DEF ContextOK, Context
<1> HIDE DEF x
<1>5. Saved(levels)
  <2>1. Saved(a.contexts)
    BY <1>1, StateFields DEF StateOK, ModeFollows, Saved
  <2>2. QED
    BY <1>4, <2>1, PushOK
<1>6. epc \in Word /\ slt \in BOOLEAN
  <2>1. s.pc \in Word /\ s.delay_slot \in Resume
    BY StateFields
  <2>2. QED
    BY <2>1 DEF Resume
<1> HIDE DEF epc, slt, levels
<1>7. Cp0OK(c1) /\ CacheControl(c1.status) = control
  BY <1>3, SetStatusControlOK
<1> HIDE DEF c1
<1>8. Cp0OK(c2) /\ CacheControl(c2.status) = control
  BY <1>6, <1>7, TakeExceptionOK
<1> HIDE DEF c2
<1>9. Cp0OK(c3) /\ CacheControl(c3.status) = control
  BY <1>8, AdvanceRandomOK
<1> HIDE DEF c3
<1>10. MmuOK(m) /\ vector \in Word
  BY <1>3, AdvanceOK, VectorWord
<1>11. settled(control) \in Mode /\ Final(settled(control)) = control
  BY <1>3 DEF settled, Mode, Final
<1> HIDE DEF m, vector, control
<1>12. /\ u \in StateType /\ u.cp0 = c3 /\ u.mmu = m /\ u.cache_mode = settled(control)
       /\ u.contexts = levels /\ u.pending_cp0 = None /\ SameGpr(a, u)
  <2>1. c3 \in Cp0 /\ m \in MmuType /\ levels \in Seq(Context) /\ a \in StateType
    BY <1>1, <1>5, <1>9, <1>10 DEF StateOK, Cp0OK, MmuOK, Saved
  <2>2. u \in StateType
    <3> DEFINE w == [a EXCEPT !.contexts = levels, !.cache_mode = settled(control),
                              !.delay_slot = None]
    <3>1. w \in StateType
      BY <1>11, <2>1 DEF StateType
    <3>2. u = [w EXCEPT !.cp0 = c3, !.pc = vector, !.mmu = m]
      BY <1>2
    <3> HIDE DEF w
    <3>3. QED
      BY <1>10, <2>1, <3>1, <3>2, ZenonT(40) DEF StateType
  <2>3. QED
    BY <1>1, <1>2, <2>1, <2>2 DEF StateType, SameGpr
<1> HIDE DEF u
<1>13. ModeFollows(u)
  BY <1>5, <1>9, <1>11, <1>12 DEF ModeFollows, WrittenControl, Saved
<1>14. StateOK(u)
  BY <1>9, <1>10, <1>12, <1>13 DEF StateOK, Cp0OK
<1>15. QED
  BY <1>1, <1>12, <1>14 DEF u, Landed, SameGpr

LEMMA TakeOK ==
    ASSUME NEW s, StateOK(s), NEW e, IsException(e)
    PROVE  LET u == TakeException(s, e)
           IN /\ StateOK(u) /\ FloatLine(u)
              /\ \A r \in Registers \ {0} : Landed(u, r) = Landed(s, r)
<1> DEFINE v == RecognizeException(s, e)
<1>1. StateOK(v) /\ \A r \in Registers \ {0} : Landed(v, r) = Landed(s, r)
  BY RecognizeOK
<1>2. TakeException(s, e) = synchronize_cp1_interrupt(v)
  BY DEF TakeException
<1> HIDE DEF v
<1>3. QED
  BY <1>1, <1>2, SynchronizeOK DEF Landed, SameGpr

LEMMA ResetOK ==
    ASSUME NEW s, StateOK(s)
    PROVE  LET u == ResetState(s)
           IN StateOK(u) /\ u.gpr = s.gpr /\ u.pending_gpr = None
<1> DEFINE c == ResetCp0(s.cp0, s.pc)
           m == ResetMmu(s.mmu)
           mode == settled(CacheControl(c.status))
           u == ResetState(s)
<1>0. s \in StateType /\ Cp0OK(s.cp0) /\ s.pc \in Word /\ MmuOK(s.mmu)
  BY StateFields
<1>1. Cp0OK(c) /\ MmuOK(m)
  BY <1>0, ResetCp0OK, ResetMmuOK
<1>2. u = [s EXCEPT !.cp0 = c, !.mmu = m, !.pc = RESET_PC, !.delay_slot = None,
                    !.pending_gpr = None, !.pending_cp0 = None, !.pending_cp1 = None,
                    !.cache_mode = mode, !.contexts = <<>>]
  BY <1>0 DEF ResetState, StateType
<1> HIDE DEF c, m
<1>3. mode \in Mode /\ Final(mode) = CacheControl(c.status)
  <2>1. c.status \in Status
    BY <1>1, Cp0Fields
  <2>2. CacheControl(c.status) \in Control
    BY <2>1 DEF CacheControl, Status, Control
  <2>3. QED
    BY <2>2 DEF settled, Mode, Final
<1>4. RESET_PC \in Word
  BY MmuAssumption DEF RESET_PC, KSEG1_START, Word, AddressSpace
<1> HIDE DEF mode
<1>5. /\ u \in StateType /\ u.cp0 = c /\ u.mmu = m /\ u.cache_mode = mode
      /\ u.contexts = <<>> /\ u.pending_cp0 = None /\ u.gpr = s.gpr /\ u.pending_gpr = None
  <2>1. c \in Cp0 /\ m \in MmuType
    BY <1>1 DEF Cp0OK, MmuOK
  <2>2. u \in StateType
    <3> DEFINE v == [s EXCEPT !.cp0 = c, !.mmu = m, !.pc = RESET_PC]
               w == [v EXCEPT !.delay_slot = None, !.pending_gpr = None, !.pending_cp0 = None]
    <3>1. v \in StateType
      BY <1>0, <1>4, <2>1 DEF StateType
    <3>2. u = [w EXCEPT !.pending_cp1 = None, !.cache_mode = mode, !.contexts = <<>>]
      BY <1>2
    <3> HIDE DEF v
    <3>3. w \in StateType
      BY <3>1 DEF StateType
    <3> HIDE DEF w
    <3>4. <<>> \in Seq(Context)
      OBVIOUS
    <3> DEFINE x == [w EXCEPT !.pending_cp1 = None, !.cache_mode = mode]
    <3>5. x \in StateType
      BY <1>3, <3>3 DEF StateType
    <3>6. u = [x EXCEPT !.contexts = <<>>]
      BY <3>2
    <3> HIDE DEF x
    <3>7. QED
      BY <3>4, <3>5, <3>6 DEF StateType
  <2>3. QED
    BY <1>0, <1>2, <2>1, <2>2 DEF StateType
<1> HIDE DEF u
<1>6. ModeFollows(u)
  BY <1>3, <1>5 DEF ModeFollows, WrittenControl
<1>7. QED
  BY <1>1, <1>5, <1>6 DEF StateOK, Cp0OK, u

LEMMA NewStateOK == StateOK(NewState) /\ FloatLine(NewState)
<1>1. Cp0OK(NewCp0) /\ MmuOK(NewMmu)
  BY NewCp0OK, NewMmuOK
<1>2. NewCp1 \in Fcr31 /\ ~interrupt_asserted(NewCp1)
  BY DEF NewCp1, Fcr31, interrupt_asserted
<1>3. [i \in Slots |-> INVALID] \in Bank
  BY SpaceWord DEF Bank, INVALID, Word
<1>4. RESET_PC \in Word /\ 0 \in Word
  BY MmuAssumption DEF RESET_PC, KSEG1_START, Word, AddressSpace
<1>5. /\ settled(CacheControl(BootStatus)) \in Mode
      /\ Final(settled(CacheControl(BootStatus))) = CacheControl(BootStatus)
  BY DEF settled, CacheControl, BootStatus, Mode, Control, Final
<1>6. NewCp0.status = BootStatus /\ NewCp0.cause.hw = {}
  BY DEF NewCp0, NoCause
<1> DEFINE s == NewState
<1>7. /\ s \in StateType /\ s.cp0 = NewCp0 /\ s.mmu = NewMmu /\ s.contexts = <<>>
      /\ s.cache_mode = settled(CacheControl(BootStatus)) /\ s.pending_cp0 = None
      /\ s.cp1 = NewCp1
  BY <1>1, <1>2, <1>3, <1>4, <1>5 DEF NewState, StateType, NewCache, Cp0OK, MmuOK
<1> HIDE DEF s
<1>8. ModeFollows(s)
  BY <1>5, <1>6, <1>7 DEF ModeFollows, WrittenControl
<1>9. QED
  BY <1>1, <1>2, <1>6, <1>7, <1>8 DEF StateOK, Cp0OK, FloatLine, s

-----------------------------------------------------------------------------
(* Memory.  An access changes lookup caches, caches and Status flags, and  *)
(* neither general registers nor what drives the floating-point line.      *)

Accessed(s, u) == StateOK(u) /\ SameGpr(s, u) /\ SameFloat(s, u)

LEMMA AccessedTrans ==
    ASSUME NEW s, NEW u, NEW v, Accessed(s, u), Accessed(u, v)
    PROVE  Accessed(s, v)
BY DEF Accessed, SameGpr, SameFloat

LEMMA FlagOK ==
    ASSUME NEW s, StateOK(s), NEW b \in BOOLEAN
    PROVE  /\ Accessed(s, [s EXCEPT !.cp0.status.ts = b])
           /\ Accessed(s, [s EXCEPT !.cp0.status.cm = b])
<1>0. Cp0OK(s.cp0) /\ s.cp0 \in Cp0 /\ s.cp0.status \in Status
  BY StateFields, Cp0Fields
<1>1. ASSUME NEW status \in Status, status.ie = s.cp0.status.ie,
             status.isc = s.cp0.status.isc, status.swc = s.cp0.status.swc
      PROVE  Accessed(s, [s EXCEPT !.cp0 = [s.cp0 EXCEPT !.status = status]])
  <2> DEFINE c == [s.cp0 EXCEPT !.status = status]
             u == [s EXCEPT !.cp0 = c]
  <2>1. /\ c \in Cp0 /\ c.status = status /\ c.effective = s.cp0.effective
        /\ c.pending = s.cp0.pending /\ c.cause = s.cp0.cause
    BY <1>0 DEF Cp0
  <2> HIDE DEF c
  <2>2. Cp0OK(c) /\ CacheControl(c.status) = CacheControl(s.cp0.status)
    BY <1>0, <1>1, <2>1 DEF Cp0OK, EnablesGranted, CacheControl
  <2>3. StateOK(u) /\ u.cp0 = c /\ SameGpr(s, u) /\ u.cp1 = s.cp1
    BY <2>2, SetCp0
  <2> HIDE DEF u
  <2>4. Accessed(s, u)
    BY <2>1, <2>3 DEF Accessed, SameFloat
  <2>5. QED
    BY <2>4 DEF u, c
<1>2. /\ [s.cp0.status EXCEPT !.ts = b] \in Status
      /\ [s.cp0.status EXCEPT !.ts = b].ie = s.cp0.status.ie
      /\ [s.cp0.status EXCEPT !.ts = b].isc = s.cp0.status.isc
      /\ [s.cp0.status EXCEPT !.ts = b].swc = s.cp0.status.swc
      /\ [s.cp0.status EXCEPT !.cm = b] \in Status
      /\ [s.cp0.status EXCEPT !.cm = b].ie = s.cp0.status.ie
      /\ [s.cp0.status EXCEPT !.cm = b].isc = s.cp0.status.isc
      /\ [s.cp0.status EXCEPT !.cm = b].swc = s.cp0.status.swc
  BY <1>0 DEF Status
<1>3. QED
  BY <1>1, <1>2

LEMMA TranslationExceptionOK ==
    ASSUME NEW va \in Word, NEW access \in {"Instruction", "Load", "Store"},
           NEW fault \in {"Miss", "Invalid", "Modified", "AddressError"}
    PROVE  IsException(translation_exception(va, access, fault))
<1> DEFINE e == translation_exception(va, access, fault)
<1>0. Page(va) \in Nat
  BY MmuAssumption DEF Page, Word, AddressSpace
<1>1. CASE fault = "AddressError"
  <2>1. e.t \in AddressExceptions /\ e.address = va
    BY <1>1 DEF translation_exception, AddressExceptions
  <2>2. QED
    BY <2>1 DEF IsException, ExceptionKinds, AddressExceptions, TlbExceptions
<1>2. CASE fault \in {"Miss", "Invalid"}
  <2>1. e.t \in {"TlbStore", "TlbLoad"} /\ e.address = va /\ e.vpn = Page(va)
    BY <1>2 DEF translation_exception
  <2>2. QED
    BY <1>0, <2>1 DEF IsException, ExceptionKinds, AddressExceptions, TlbExceptions
<1>3. CASE fault = "Modified"
  <2>1. e.t = "TlbModified" /\ e.address = va /\ e.vpn = Page(va)
    BY <1>3 DEF translation_exception
  <2>2. QED
    BY <1>0, <2>1 DEF IsException, ExceptionKinds, AddressExceptions, TlbExceptions
<1>4. QED
  BY <1>1, <1>2, <1>3

LEMMA TranslateAddressOK ==
    ASSUME NEW s, StateOK(s), NEW va \in Word,
           NEW access \in {"Instruction", "Load", "Store"}
    PROVE  LET x == translate_address(s, va, access)
           IN /\ x.t \in {"ok", "err", "exc"}
              /\ Accessed(s, x.st)
              /\ x.t = "ok" => x.tr.address \in Nat /\ x.tr.cached \in BOOLEAN
              /\ x.t = "exc" => IsException(x.exc)
<1> DEFINE r == translate(s.mmu, va, s.cp0.asid, is_kernel_mode(s.cp0), access)
           st == [s EXCEPT !.mmu = r.mmu]
           x == translate_address(s, va, access)
<1>1. MmuOK(r.mmu) /\ Translation(r.tr)
  <2>1. MmuOK(s.mmu) /\ s.cp0.asid \in Asids
    BY StateFields
  <2>2. QED
    BY <2>1, TranslateOK
<1>2. /\ r.tr.ok => x = [t |-> "ok", st |-> st, tr |-> r.tr]
      /\ ~r.tr.ok /\ r.tr.fault = "Shutdown" =>
           x = [t |-> "err", st |-> [st EXCEPT !.cp0.status.ts = TRUE], error |-> "TlbShutdown"]
      /\ ~r.tr.ok /\ r.tr.fault # "Shutdown" =>
           x = [t |-> "exc", st |-> st, exc |-> translation_exception(va, access, r.tr.fault)]
  BY DEF translate_address
<1> HIDE DEF r, x
<1>3. Accessed(s, st) /\ StateOK(st)
  BY <1>1, SetMmu DEF Accessed
<1> HIDE DEF st
<1>4. Accessed(s, [st EXCEPT !.cp0.status.ts = TRUE])
  <2>1. Accessed(st, [st EXCEPT !.cp0.status.ts = TRUE])
    BY <1>3, FlagOK
  <2>2. QED
    BY <1>3, <2>1, AccessedTrans
<1>5. CASE r.tr.ok
  BY <1>1, <1>2, <1>3, <1>5 DEF Translation, x
<1>6. CASE ~r.tr.ok /\ r.tr.fault = "Shutdown"
  <2> DEFINE dead == [st EXCEPT !.cp0.status.ts = TRUE]
  <2>1. x = [t |-> "err", st |-> dead, error |-> "TlbShutdown"]
    BY <1>2, <1>6
  <2>2. Accessed(s, dead)
    BY <1>4
  <2> HIDE DEF dead
  <2>3. QED
    BY <2>1, <2>2 DEF x
<1>7. CASE ~r.tr.ok /\ r.tr.fault # "Shutdown"
  <2>1. r.tr.fault \in {"Miss", "Invalid", "Modified", "AddressError"}
    BY <1>1, <1>7 DEF Translation
  <2>2. IsException(translation_exception(va, access, r.tr.fault))
    BY <2>1, TranslationExceptionOK
  <2>3. QED
    BY <1>2, <1>3, <1>7, <2>2 DEF x
<1>8. QED
  BY <1>5, <1>6, <1>7

LEMMA DivMod ==
    \A a \in Nat, b \in Nat \ {0} :
        /\ a = (a \div b) * b + (a % b)
        /\ (a \div b) * b <= a
        /\ a < (a \div b) * b + b
        /\ a \div b \in Nat
OBVIOUS

LEMMA RefillType ==
    ASSUME NEW cache \in Bank, NEW word \in Nat, program \in Programs,
           NEW bus \in [RefillBlock(word) -> program.words]
    PROVE  refill(cache, word, bus) \in Bank /\ bus[word] \in Word
<1>1. program.words \subseteq Word
  BY ProgramAssumption
<1>2. word \in RefillBlock(word) /\ RefillBlock(word) \subseteq Nat
  <2> DEFINE base == (word \div RefillWords) * RefillWords
  <2>1. base <= word /\ word < base + RefillWords /\ word \div RefillWords \in Nat
    BY CacheAssumption, DivMod
  <2>2. base \in Nat
    BY <2>1, CacheAssumption
  <2>3. RefillBlock(word) = base .. base + RefillWords - 1
    BY DEF RefillBlock
  <2> HIDE DEF base
  <2>4. QED
    BY <2>1, <2>2, <2>3, CacheAssumption
<1>3. ASSUME NEW i \in Slots
      PROVE  refill(cache, word, bus)[i] \in [frame : Nat, data : Word, valid : BOOLEAN]
  <2>1. CASE \E w \in RefillBlock(word) : slot(w) = i
    <3> DEFINE w == CHOOSE x \in RefillBlock(word) : slot(x) = i
    <3>1. w \in RefillBlock(word)
      BY <2>1
    <3>2. refill(cache, word, bus)[i] = [frame |-> frame(w), data |-> bus[w], valid |-> TRUE]
      BY <2>1 DEF refill
    <3> HIDE DEF w
    <3>3. frame(w) \in Nat
      <4>1. w \in Nat
        BY <1>2, <3>1
      <4>2. QED
        BY <4>1, CacheAssumption DEF frame
    <3>4. bus[w] \in Word
      BY <1>1, <3>1
    <3>5. QED
      BY <3>2, <3>3, <3>4
  <2>2. CASE ~ \E w \in RefillBlock(word) : slot(w) = i
    BY <2>2 DEF refill, Bank
  <2>3. QED
    BY <2>1, <2>2
<1>4. refill(cache, word, bus) = [i \in Slots |-> refill(cache, word, bus)[i]]
  BY DEF refill
<1>5. refill(cache, word, bus) \in Bank
  BY <1>3, <1>4 DEF Bank
<1>6. bus[word] \in Word
  BY <1>1, <1>2
<1>7. QED
  BY <1>5, <1>6

BankNames == {"Instruction", "Data"}

LEMMA SetBank ==
    ASSUME NEW s, StateOK(s), NEW bank \in BankNames, NEW b \in Bank
    PROVE  Accessed(s, [s EXCEPT !.caches[bank] = b])
<1> DEFINE caches == [s.caches EXCEPT ![bank] = b]
           u == [s EXCEPT !.caches = caches]
<1>1. s.caches \in Banks /\ s \in StateType
  BY StateFields
<1>2. caches \in Banks
  BY <1>1 DEF Banks, BankNames
<1>3. [s EXCEPT !.caches[bank] = b] = u
  OBVIOUS
<1> HIDE DEF caches
<1>4. StateOK(u) /\ SameGpr(s, u) /\ SameFloat(s, u)
  BY <1>2, SetCaches
<1> HIDE DEF u
<1>5. QED
  BY <1>3, <1>4 DEF Accessed

LEMMA BankFields ==
    ASSUME NEW s, StateOK(s), NEW bank \in BankNames, NEW word \in Nat
    PROVE  /\ s.caches[bank] \in Bank /\ slot(word) \in Slots
           /\ s.caches[bank][slot(word)].data \in Word /\ frame(word) \in Nat
<1>1. s.caches \in Banks
  BY StateFields
<1>2. s.caches[bank] \in Bank
  BY <1>1 DEF Banks, BankNames
<1>3. slot(word) \in Slots
  BY CacheAssumption DEF slot, Slots
<1>4. frame(word) \in Nat
  BY CacheAssumption DEF frame
<1>5. s.caches[bank][slot(word)].data \in Word
  BY <1>2, <1>3 DEF Bank
<1>6. QED
  BY <1>2, <1>3, <1>4, <1>5

(* What a read or a store may return.                                      *)
IsRead(s, r) ==
    /\ r.t \in {"ok", "hardware", "err"}
    /\ Accessed(s, r.st)
    /\ r.t = "ok" => r.data \in Word
IsStore(s, r) == r.t \in {"ok", "err"} /\ Accessed(s, r.st)

LEMMA AccessedSame ==
    ASSUME NEW s, StateOK(s)
    PROVE  Accessed(s, s)
BY DEF Accessed, SameGpr, SameFloat

LEMMA FailuresOK ==
    ASSUME NEW s, StateOK(s), NEW r \in Failures(s)
    PROVE  IsRead(s, r) /\ r.t \in {"hardware", "err"}
BY AccessedSame DEF Failures, IsRead

LEMMA ReadUncachedOK ==
    ASSUME NEW s, StateOK(s), program \in Programs, NEW r \in ReadUncached(s)
    PROVE  IsRead(s, r)
<1>1. CASE r \in Failures(s)
  BY <1>1, FailuresOK
<1>2. CASE \E data \in program.words : r = Got(s, data)
  BY <1>2, AccessedSame, ProgramAssumption DEF Got, IsRead
<1>3. QED
  BY <1>1, <1>2 DEF ReadUncached

LEMMA ReadCachedOK ==
    ASSUME NEW s, StateOK(s), program \in Programs, NEW bank \in BankNames,
           NEW word \in Nat, NEW r \in ReadCached(s, bank, word)
    PROVE  IsRead(s, r)
<1>1. CASE hit(s.caches[bank], word)
  <2>1. r = Got(s, s.caches[bank][slot(word)].data)
    BY <1>1 DEF ReadCached
  <2>2. s.caches[bank][slot(word)].data \in Word
    BY BankFields
  <2>3. QED
    BY <2>1, <2>2, AccessedSame DEF Got, IsRead
<1>2. CASE ~hit(s.caches[bank], word) /\ r \notin Failures(s)
  <2>1. PICK bus \in [RefillBlock(word) -> program.words] :
          r = Got([s EXCEPT !.caches[bank] = refill(s.caches[bank], word, bus)], bus[word])
    BY <1>2 DEF ReadCached
  <2> DEFINE b == refill(s.caches[bank], word, bus)
             u == [s EXCEPT !.caches[bank] = b]
  <2>2. b \in Bank /\ bus[word] \in Word
    BY BankFields, RefillType
  <2>3. r = Got(u, bus[word])
    BY <2>1
  <2> HIDE DEF b
  <2>4. Accessed(s, u)
    BY <2>2, SetBank
  <2> HIDE DEF u
  <2>5. QED
    BY <2>2, <2>3, <2>4 DEF Got, IsRead
<1>3. CASE r \in Failures(s)
  BY <1>3, FailuresOK
<1>4. QED
  BY <1>1, <1>2, <1>3

LEMMA WriteType ==
    ASSUME NEW cache \in Bank, NEW word \in Nat, NEW full, NEW data \in Word
    PROVE  write(cache, word, full, data) \in Bank /\ write_isolated(cache, word, full, data) \in Bank
<1> DEFINE line == [frame |-> frame(word), data |-> data, valid |-> TRUE]
<1>1. slot(word) \in Slots
  BY CacheAssumption DEF slot, Slots
<1>2. frame(word) \in Nat
  BY CacheAssumption DEF frame
<1>3. line \in [frame : Nat, data : Word, valid : BOOLEAN]
  BY <1>2
<1>4. [cache EXCEPT ![slot(word)] = line] \in Bank
  BY <1>1, <1>3 DEF Bank
<1>5. cache[slot(word)] \in [frame : Nat, data : Word, valid : BOOLEAN]
  BY <1>1 DEF Bank
<1>6. [cache EXCEPT ![slot(word)].valid = FALSE] \in Bank
  <2>1. [cache[slot(word)] EXCEPT !.valid = FALSE] \in [frame : Nat, data : Word, valid : BOOLEAN]
    BY <1>5
  <2>2. QED
    BY <1>1, <2>1 DEF Bank
<1>7. [cache EXCEPT ![slot(word)].data = data] \in Bank
  <2>1. [cache[slot(word)] EXCEPT !.data = data] \in [frame : Nat, data : Word, valid : BOOLEAN]
    BY <1>5
  <2>2. QED
    BY <1>1, <2>1 DEF Bank
<1>8. QED
  BY <1>4, <1>6, <1>7 DEF write, write_isolated

IsTranslated(tr) == tr.address \in Nat /\ tr.cached \in BOOLEAN

LEMMA BankName ==
    ASSUME NEW kind, NEW control
    PROVE  cache_bank(kind, control) \in BankNames
BY DEF cache_bank, BankNames

LEMMA WordAddressNat ==
    ASSUME NEW tr, IsTranslated(tr)
    PROVE  WordAddress(tr) \in Nat
BY DEF IsTranslated, WordAddress

LEMMA ReadInstructionOK ==
    ASSUME NEW s, StateOK(s), program \in Programs, NEW tr, IsTranslated(tr),
           NEW r \in read_instruction(s, tr)
    PROVE  IsRead(s, r)
BY ReadCachedOK, ReadUncachedOK, BankName, WordAddressNat DEF read_instruction

LEMMA LoadDataOK ==
    ASSUME NEW s, StateOK(s), program \in Programs, NEW tr, IsTranslated(tr),
           NEW r \in load_data(s, tr)
    PROVE  IsRead(s, r)
<1> DEFINE control == s.cache_mode.effective
           bank == cache_bank("Data", control)
           word == WordAddress(tr)
<1>1. bank \in BankNames /\ word \in Nat
  BY BankName, WordAddressNat
<1>2. CASE control.isc
  <2> DEFINE miss == ~hit(s.caches[bank], word)
             u == [s EXCEPT !.cp0.status.cm = miss]
             data == s.caches[bank][slot(word)].data
  <2>1. r = Got(u, data)
    BY <1>2 DEF load_data
  <2>2. miss \in BOOLEAN
    OBVIOUS
  <2>3. data \in Word
    BY <1>1, BankFields
  <2> HIDE DEF miss, data
  <2>4. Accessed(s, u)
    BY <2>2, FlagOK
  <2> HIDE DEF u
  <2>5. QED
    BY <2>1, <2>3, <2>4 DEF Got, IsRead
<1>3. CASE ~control.isc
  <2>1. r \in ReadCached(s, bank, word) \/ r \in ReadUncached(s)
    BY <1>3 DEF load_data
  <2>2. QED
    BY <1>1, <2>1, ReadCachedOK, ReadUncachedOK
<1>4. QED
  BY <1>2, <1>3

LEMMA StoreMemoryOK ==
    ASSUME NEW s, StateOK(s), program \in Programs, NEW tr, IsTranslated(tr),
           NEW full, NEW value \in Word, NEW r \in store_memory(s, tr, full, value)
    PROVE  IsStore(s, r)
<1> DEFINE control == s.cache_mode.effective
           bank == cache_bank("Data", control)
           at == WordAddress(tr)
           words == IF full THEN {value} ELSE program.words
<1>1. bank \in BankNames /\ at \in Nat
  BY BankName, WordAddressNat
<1>2. words \subseteq Word
  BY ProgramAssumption
<1>3. ASSUME NEW b \in Bank, r = [t |-> "ok", st |-> [s EXCEPT !.caches[bank] = b]]
      PROVE  IsStore(s, r)
  <2> DEFINE u == [s EXCEPT !.caches[bank] = b]
  <2>1. Accessed(s, u)
    BY <1>1, <1>3, SetBank
  <2>2. r = [t |-> "ok", st |-> u]
    BY <1>3
  <2> HIDE DEF u
  <2>3. QED
    BY <2>1, <2>2 DEF IsStore
<1>4. CASE control.isc
  <2>1. r = [t |-> "ok", st |-> [s EXCEPT !.caches[bank] =
                 write_isolated(s.caches[bank], at, full, value)]]
    BY <1>4 DEF store_memory
  <2>2. write_isolated(s.caches[bank], at, full, value) \in Bank
    BY <1>1, BankFields, WriteType
  <2>3. QED
    BY <1>3, <2>1, <2>2
<1>5. CASE ~control.isc
  <2>1. \/ r \in StoreFailures(s)
        \/ r = [t |-> "ok", st |-> s]
        \/ \E word \in words : r = [t |-> "ok", st |-> [s EXCEPT !.caches[bank] =
                                        write(s.caches[bank], at, full, word)]]
    BY <1>5 DEF store_memory
  <2>2. CASE r \in StoreFailures(s)
    BY <2>2, FailuresOK DEF StoreFailures, IsStore, IsRead
  <2>3. CASE r = [t |-> "ok", st |-> s]
    BY <2>3, AccessedSame DEF IsStore
  <2>4. CASE \E word \in words : r = [t |-> "ok", st |-> [s EXCEPT !.caches[bank] =
                                          write(s.caches[bank], at, full, word)]]
    <3>1. PICK word \in words : r = [t |-> "ok", st |-> [s EXCEPT !.caches[bank] =
                                         write(s.caches[bank], at, full, word)]]
      BY <2>4
    <3>2. word \in Word
      BY <1>2
    <3>3. write(s.caches[bank], at, full, word) \in Bank
      BY <1>1, <3>2, BankFields, WriteType
    <3>4. QED
      BY <1>3, <3>1, <3>3
  <2>5. QED
    BY <2>1, <2>2, <2>3, <2>4
<1>6. QED
  BY <1>4, <1>5

-----------------------------------------------------------------------------
(* Execution.                                                              *)

Writers == {"Alu", "Jump", "JumpRegister", "Branch"}
Dest(i) == IF i.t = "Alu" THEN i.dest ELSE i.link

(* The register an outcome writes, at once or by a delayed effect.         *)
WritesGpr(s, i, o) ==
    IF i.t \in Writers
    THEN o.effect.t # "Gpr" /\ \E value \in Word : o.st = write_gpr(s, Dest(i), value)
    ELSE /\ SameGpr(s, o.st)
         /\ o.effect.t = "Gpr" =>
              /\ o.effect.index = i.rt
              /\ o.effect.value = IF Merges(s, i)
                                  THEN Merge(read_gpr_for_load_merge(s, i.rt), o.effect.loaded)
                                  ELSE o.effect.loaded

IsOutcome(s, i, o) ==
    /\ o.t \in {"done", "exc", "err"}
    /\ StateOK(o.st)
    /\ o.t = "err" => SameFloat(s, o.st)
    /\ o.t # "done" => SameGpr(s, o.st)
    /\ o.t = "exc" => IsException(o.exc)
    /\ o.t = "done" => /\ o.resume \in Word \cup {NoResume}
                       /\ IsEffect(o.effect)
                       /\ WritesGpr(s, i, o)

LEMMA ReadGprWord ==
    ASSUME NEW s, StateOK(s), NEW r \in Register
    PROVE  read_gpr(s, r) \in Word /\ read_gpr_for_load_merge(s, r) \in Word
<1>1. s.gpr \in Gprs /\ s.pending_gpr \in PendingGpr
  BY StateFields
<1>2. 0 \in Word
  BY SpaceWord DEF Word
<1>3. read_gpr(s, r) \in Word
  BY <1>1, <1>2 DEF read_gpr, Gprs, Register
<1>4. QED
  BY <1>1, <1>3 DEF read_gpr_for_load_merge, PendingGpr

LEMMA AddressWord ==
    ASSUME NEW s, StateOK(s), NEW i, i.base \in Register, i.offset \in Nat
    PROVE  effective_address(s, i) \in Word
<1>1. read_gpr(s, i.base) \in Word
  BY ReadGprWord
<1>2. read_gpr(s, i.base) + SignExtend(i.offset) \in Int
  BY <1>1, SpaceWord DEF Word, SignExtend
<1>3. QED
  BY <1>2, SpaceWord DEF effective_address

IsLoad(s, r) ==
    /\ r.t \in {"ok", "exc", "err"}
    /\ Accessed(s, r.st)
    /\ r.t = "ok" => r.data \in Word
    /\ r.t = "exc" => IsException(r.exc)

LEMMA PlainExceptions ==
    /\ \A t \in {"Interrupt", "InstructionBusError", "DataBusError", "Syscall", "Breakpoint",
                 "ReservedInstruction", "Overflow"} : IsException([t |-> t])
    /\ \A t \in AddressExceptions, a \in Word : IsException([t |-> t, address |-> a])
    /\ \A unit \in Nat : IsException(Unusable(unit))
BY DEF IsException, ExceptionKinds, AddressExceptions, TlbExceptions, Unusable

LEMMA LoadOK ==
    ASSUME NEW s, StateOK(s), program \in Programs,
           NEW i, i.base \in Register, i.offset \in Nat, NEW r \in load(s, i)
    PROVE  IsLoad(s, r)
<1> DEFINE va == effective_address(s, i)
           x == translate_address(s, va, "Load")
<1>1. va \in Word
  BY AddressWord
<1>2. /\ x.t \in {"ok", "err", "exc"} /\ Accessed(s, x.st)
      /\ x.t = "ok" => IsTranslated(x.tr)
      /\ x.t = "exc" => IsException(x.exc)
  <2> HIDE DEF va
  <2>1. QED
    BY <1>1, TranslateAddressOK DEF IsTranslated
<1>3. \/ r = Raises(s, [t |-> "LoadAddressError", address |-> va])
      \/ x.t # "ok" /\ r = x
      \/ /\ x.t = "ok"
         /\ \E q \in load_data(x.st, x.tr) :
              r = IF q.t = "hardware" THEN Raises(q.st, [t |-> "DataBusError"]) ELSE q
  BY DEF load
<1>4. CASE r = Raises(s, [t |-> "LoadAddressError", address |-> va])
  <2>1. IsException([t |-> "LoadAddressError", address |-> va])
    BY <1>1, PlainExceptions DEF AddressExceptions
  <2>2. r.t = "exc" /\ r.st = s /\ r.exc = [t |-> "LoadAddressError", address |-> va]
    BY <1>4 DEF Raises
  <2>3. QED
    BY <2>1, <2>2, AccessedSame DEF IsLoad
<1> HIDE DEF va, x
<1>5. CASE x.t # "ok" /\ r = x
  BY <1>2, <1>5 DEF IsLoad
<1>6. CASE x.t = "ok" /\ \E q \in load_data(x.st, x.tr) :
              r = IF q.t = "hardware" THEN Raises(q.st, [t |-> "DataBusError"]) ELSE q
  <2>1. PICK q \in load_data(x.st, x.tr) :
              r = IF q.t = "hardware" THEN Raises(q.st, [t |-> "DataBusError"]) ELSE q
    BY <1>6
  <2>2. IsRead(x.st, q)
    BY <1>2, <1>6, LoadDataOK DEF Accessed
  <2>3. Accessed(s, q.st)
    BY <1>2, <2>2, AccessedTrans DEF IsRead
  <2>4. CASE q.t = "hardware"
    <3>1. r.t = "exc" /\ r.st = q.st /\ r.exc = [t |-> "DataBusError"]
      BY <2>1, <2>4 DEF Raises
    <3>2. QED
      BY <2>3, <3>1, PlainExceptions DEF IsLoad
  <2>5. CASE q.t # "hardware"
    BY <2>1, <2>2, <2>3, <2>5 DEF IsLoad, IsRead
  <2>6. QED
    BY <2>4, <2>5
<1>7. QED
  BY <1>3, <1>4, <1>5, <1>6

LEMMA DoneOK ==
    ASSUME NEW s, NEW i, i.t \notin Writers, NEW u, StateOK(u), SameGpr(s, u),
           NEW resume \in Word \cup {NoResume}, NEW e, IsEffect(e), e.t # "Gpr"
    PROVE  IsOutcome(s, i, Completed(u, resume, e))
BY DEF IsOutcome, Completed, WritesGpr

LEMMA RaisesOK ==
    ASSUME NEW s, NEW i, NEW u, StateOK(u), SameGpr(s, u), NEW e, IsException(e)
    PROVE  IsOutcome(s, i, Raises(u, e))
BY DEF IsOutcome, Raises

LEMMA FailsOK ==
    ASSUME NEW s, NEW i, NEW u, Accessed(s, u), NEW error
    PROVE  IsOutcome(s, i, Fails(u, error))
BY DEF IsOutcome, Fails, Accessed

LEMMA NoEffectOK == IsEffect(NoEffect) /\ NoEffect.t # "Gpr"
BY DEF IsEffect, NoEffect

LEMMA StoreOK ==
    ASSUME NEW s, StateOK(s), program \in Programs, NEW i, i.t \notin Writers,
           i.base \in Register, i.offset \in Nat,
           NEW full, NEW value \in Word, NEW r \in store(s, i, full, value)
    PROVE  IsOutcome(s, i, r) /\ (r.t = "done" => r.effect = NoEffect)
<1> DEFINE va == effective_address(s, i)
           x == translate_address(s, va, "Store")
<1>1. va \in Word
  BY AddressWord
<1>2. /\ x.t \in {"ok", "err", "exc"} /\ Accessed(s, x.st)
      /\ x.t = "ok" => IsTranslated(x.tr)
      /\ x.t = "exc" => IsException(x.exc)
  <2> HIDE DEF va
  <2>1. QED
    BY <1>1, TranslateAddressOK DEF IsTranslated
<1>3. \/ r = Raises(s, [t |-> "StoreAddressError", address |-> va])
      \/ x.t # "ok" /\ r = x
      \/ /\ x.t = "ok"
         /\ \E q \in store_memory(x.st, x.tr, full, value) :
              r = IF q.t = "ok" THEN Completed(q.st, NoResume, NoEffect) ELSE q
  BY DEF store
<1>4. CASE r = Raises(s, [t |-> "StoreAddressError", address |-> va])
  <2>1. IsException([t |-> "StoreAddressError", address |-> va])
    BY <1>1, PlainExceptions DEF AddressExceptions
  <2>2. SameGpr(s, s) /\ r.t = "exc"
    BY <1>4 DEF SameGpr, Raises
  <2>3. QED
    BY <1>4, <2>1, <2>2, RaisesOK
<1> HIDE DEF va, x
<1>5. CASE x.t # "ok" /\ r = x
  BY <1>2, <1>5 DEF IsOutcome, Accessed
<1>6. CASE x.t = "ok" /\ \E q \in store_memory(x.st, x.tr, full, value) :
              r = IF q.t = "ok" THEN Completed(q.st, NoResume, NoEffect) ELSE q
  <2>1. PICK q \in store_memory(x.st, x.tr, full, value) :
              r = IF q.t = "ok" THEN Completed(q.st, NoResume, NoEffect) ELSE q
    BY <1>6
  <2>2. IsStore(x.st, q)
    BY <1>2, <1>6, StoreMemoryOK DEF Accessed
  <2>3. Accessed(s, q.st)
    BY <1>2, <2>2, AccessedTrans DEF IsStore
  <2>4. CASE q.t = "ok"
    <3>1. r = Completed(q.st, NoResume, NoEffect)
      BY <2>1, <2>4
    <3>2. QED
      BY <2>3, <3>1, DoneOK, NoEffectOK DEF Accessed, Completed
  <2>5. CASE q.t # "ok"
    BY <2>1, <2>2, <2>3, <2>5 DEF IsOutcome, IsStore, Accessed
  <2>6. QED
    BY <2>4, <2>5
<1>7. QED
  BY <1>3, <1>4, <1>5, <1>6

LEMMA MemoryOK ==
    ASSUME NEW s, StateOK(s), program \in Programs, NEW i, i.t \in MemoryKinds,
           IsInstruction(i), NEW o \in MemoryOutcomes(s, i)
    PROVE  IsOutcome(s, i, o)
<1>1. i.base \in Register /\ i.offset \in Nat /\ i.rt \in Register /\ i.t \notin Writers
  BY DEF IsInstruction, MemoryKinds, Writers
<1>2. CASE i.t \in {"Load", "LoadLeft", "LoadRight"}
  <2>1. PICK r \in load(s, i) :
          o = IF r.t # "ok" THEN r
              ELSE Completed(r.st, NoResume,
                     DelayedGpr(i.rt, IF Merges(s, i)
                                      THEN Merge(read_gpr_for_load_merge(s, i.rt), r.data)
                                      ELSE r.data, TRUE, r.data))
    BY <1>2 DEF MemoryOutcomes, LoadOutcomes
  <2>2. IsLoad(s, r)
    BY <1>1, LoadOK
  <2>3. CASE r.t # "ok"
    BY <2>1, <2>2, <2>3 DEF IsOutcome, IsLoad, Accessed
  <2>4. CASE r.t = "ok"
    <3> DEFINE v == IF Merges(s, i) THEN Merge(read_gpr_for_load_merge(s, i.rt), r.data) ELSE r.data
               e == DelayedGpr(i.rt, v, TRUE, r.data)
    <3>1. r.data \in Word /\ Accessed(s, r.st)
      BY <2>2, <2>4 DEF IsLoad
    <3>2. v \in Word
      BY <1>1, <3>1, ReadGprWord, ProgramAssumption
    <3>3. o = Completed(r.st, NoResume, e)
      BY <2>1, <2>4
    <3>4. v = IF Merges(s, i) THEN Merge(read_gpr_for_load_merge(s, i.rt), r.data) ELSE r.data
      OBVIOUS
    <3> HIDE DEF v
    <3>5. /\ IsEffect(e) /\ e.t = "Gpr" /\ e.index = i.rt /\ e.value = v /\ e.loaded = r.data
      BY <1>1, <3>2 DEF IsEffect, DelayedGpr
    <3> HIDE DEF e
    <3>6. /\ o.t = "done" /\ o.st = r.st /\ o.resume = NoResume /\ o.effect = e
      BY <3>3 DEF Completed
    <3>7. WritesGpr(s, i, o)
      BY <1>1, <3>1, <3>4, <3>5, <3>6 DEF WritesGpr, Accessed
    <3>8. QED
      BY <3>1, <3>5, <3>6, <3>7 DEF IsOutcome, Accessed
  <2>5. QED
    BY <2>3, <2>4
<1>3. CASE i.t \notin {"Load", "LoadLeft", "LoadRight"}
  <2>1. o \in store(s, i, Whole(s, i), read_gpr(s, i.rt))
    BY <1>3 DEF MemoryOutcomes
  <2>2. read_gpr(s, i.rt) \in Word
    BY <1>1, ReadGprWord
  <2>3. QED
    BY <1>1, <2>1, <2>2, StoreOK
<1>4. QED
  BY <1>2, <1>3

LEMMA WriteOK ==
    ASSUME NEW s, StateOK(s), NEW r, NEW value \in Word
    PROVE  StateOK(write_gpr(s, r, value))
<1> DEFINE a == commit_pending_gpr_write(s)
<1>1. StateOK(a)
  BY CommitGprOK
<1> HIDE DEF a
<1>2. StateOK(write_gpr_direct(a, r, value))
  BY <1>1, WriteGprOK
<1>3. QED
  BY <1>2 DEF write_gpr, a

LEMMA WriterDone ==
    ASSUME NEW s, StateOK(s), NEW i, i.t \in Writers, NEW value \in Word,
           NEW resume \in Word \cup {NoResume}
    PROVE  IsOutcome(s, i, Completed(write_gpr(s, Dest(i), value), resume, NoEffect))
<1> DEFINE u == write_gpr(s, Dest(i), value)
           o == Completed(u, resume, NoEffect)
<1>1. StateOK(u)
  BY WriteOK
<1>2. \E v \in Word : u = write_gpr(s, Dest(i), v)
  OBVIOUS
<1> HIDE DEF u
<1>3. o.t = "done" /\ o.st = u /\ o.resume = resume /\ o.effect = NoEffect
  BY DEF Completed
<1>4. WritesGpr(s, i, o)
  BY <1>2, <1>3, NoEffectOK DEF WritesGpr
<1> HIDE DEF o
<1>5. IsOutcome(s, i, o)
  BY <1>1, <1>3, <1>4, NoEffectOK DEF IsOutcome
<1>6. QED
  BY <1>5 DEF o, u

LEMMA SameState ==
    ASSUME NEW s
    PROVE  SameGpr(s, s) /\ SameFloat(s, s)
BY DEF SameGpr, SameFloat

LEMMA AluOK ==
    ASSUME NEW s, StateOK(s), program \in Programs, NEW i, i.t = "Alu", NEW o \in AluOutcomes(s, i)
    PROVE  IsOutcome(s, i, o)
<1>1. CASE \E value \in program.words : o = Completed(write_gpr(s, i.dest, value), NoResume, NoEffect)
  <2>1. PICK value \in program.words : o = Completed(write_gpr(s, i.dest, value), NoResume, NoEffect)
    BY <1>1
  <2>2. value \in Word /\ Dest(i) = i.dest /\ i.t \in Writers
    BY ProgramAssumption DEF Dest, Writers
  <2>3. NoResume \in Word \cup {NoResume}
    OBVIOUS
  <2>4. QED
    BY <2>1, <2>2, <2>3, WriterDone
<1>2. CASE o = Raises(s, [t |-> "Overflow"])
  BY <1>2, PlainExceptions, RaisesOK, SameState
<1>3. QED
  BY <1>1, <1>2 DEF AluOutcomes

(* Where a jump or a branch resumes is an address.                         *)
LEMMA BranchWord ==
    ASSUME NEW pc \in Word, NEW offset \in Nat, NEW taken
    PROVE  branch_resume_pc(pc, offset, taken) \in Word
<1>1. pc \in Int /\ SignExtend(offset) \in Int
  BY SpaceWord DEF Word, SignExtend
<1>2. pc + 4 + 4 * SignExtend(offset) \in Int /\ pc + 8 \in Int
  BY <1>1
<1>3. QED
  BY <1>2, SpaceWord DEF branch_resume_pc

LEMMA RegionStart ==
    \A a \in Nat, j \in Nat \ {0}, k \in Nat :
        a < k * j => (a \div j) * j + j <= k * j
<1> SUFFICES ASSUME NEW a \in Nat, NEW j \in Nat \ {0}, NEW k \in Nat, a < k * j
             PROVE  (a \div j) * j + j <= k * j
  OBVIOUS
<1> DEFINE q == a \div j
<1>1. q \in Nat /\ q * j <= a
  BY DivMod
<1> HIDE DEF q
<1>2. q * j < k * j
  BY <1>1
<1>3. q < k
  <2>1. SUFFICES ASSUME q >= k PROVE FALSE
    BY <1>1
  <2>2. q * j >= k * j
    BY <1>1, <2>1
  <2>3. QED
    BY <1>1, <1>2, <2>2
<1>4. (q + 1) * j <= k * j
  BY <1>1, <1>3
<1>5. (q + 1) * j = q * j + j
  BY <1>1
<1>6. QED
  BY <1>4, <1>5 DEF q

LEMMA JumpWord ==
    ASSUME NEW pc \in Word, NEW x \in Nat
    PROVE  jump_target(pc, x) \in Word
<1> DEFINE a == (pc + 4) % AddressSpace
           base == (a \div JumpRegion) * JumpRegion
           off == (4 * x) % JumpRegion
<1>1. PICK k \in 1 .. AddressSpace : AddressSpace = k * JumpRegion
  BY LayoutAssumption
<1>2. a \in Nat /\ a < AddressSpace /\ k \in Nat /\ JumpRegion \in Nat \ {0}
  BY SpaceWord, LayoutAssumption DEF Word
<1> HIDE DEF a
<1>3. base + JumpRegion <= AddressSpace
  BY <1>1, <1>2, RegionStart
<1>4. base \in Nat
  <2>1. a \div JumpRegion \in Nat
    BY <1>2, DivMod
  <2>2. QED
    BY <1>2, <2>1
<1>5. off \in Nat /\ off < JumpRegion
  BY <1>2
<1> HIDE DEF base, off
<1>6. base + off \in Word
  BY <1>2, <1>3, <1>4, <1>5, SpaceWord DEF Word
<1>7. QED
  BY <1>6 DEF jump_target, base, off, a

LEMMA ControlOK ==
    ASSUME NEW s, StateOK(s), NEW i, IsInstruction(i),
           i.t \in {"Jump", "JumpRegister", "Branch"}, NEW o \in ControlOutcomes(s, i)
    PROVE  IsOutcome(s, i, o)
<1>1. s.pc \in Word
  BY StateFields
<1>2. (s.pc + 8) % AddressSpace \in Word
  BY <1>1, SpaceWord DEF Word
<1>3. i.t \in Writers /\ Dest(i) = i.link
  BY DEF Writers, Dest
<1>4. ASSUME NEW resume \in Word
      PROVE  IsOutcome(s, i, Completed(Link(s, i.link), resume, NoEffect))
  BY <1>2, <1>3, WriterDone DEF Link
<1>5. CASE i.t = "Jump"
  <2>1. jump_target(s.pc, i.target) \in Word
    BY <1>1, <1>5, JumpWord DEF IsInstruction
  <2>2. QED
    BY <1>4, <1>5, <2>1 DEF ControlOutcomes
<1>6. CASE i.t = "JumpRegister"
  <2>1. read_gpr(s, i.rs) \in Word
    BY <1>6, ReadGprWord DEF IsInstruction
  <2>2. QED
    BY <1>4, <1>6, <2>1 DEF ControlOutcomes
<1>7. CASE i.t = "Branch"
  <2>1. PICK taken \in BOOLEAN :
          o = Completed(Link(s, i.link), branch_resume_pc(s.pc, i.offset, taken), NoEffect)
    BY <1>7 DEF ControlOutcomes
  <2>2. branch_resume_pc(s.pc, i.offset, taken) \in Word
    BY <1>1, <1>7, BranchWord DEF IsInstruction
  <2>3. QED
    BY <1>4, <2>1, <2>2
<1>8. QED
  BY <1>5, <1>6, <1>7

(* A move from a coprocessor: the value arrives after the next instruction *)
LEMMA MoveOK ==
    ASSUME NEW s, StateOK(s), NEW i, i.t \notin Writers, i.rt \in Register,
           i.t \notin {"LoadLeft", "LoadRight"}, NEW value \in Word
    PROVE  IsOutcome(s, i, Completed(s, NoResume, DelayedGpr(i.rt, value, FALSE, value)))
<1> DEFINE e == DelayedGpr(i.rt, value, FALSE, value)
           o == Completed(s, NoResume, e)
<1>1. IsEffect(e) /\ e.t = "Gpr" /\ e.index = i.rt /\ e.value = value /\ e.loaded = value
  BY DEF IsEffect, DelayedGpr
<1>2. ~Merges(s, i)
  BY DEF Merges
<1> HIDE DEF e
<1>3. o.t = "done" /\ o.st = s /\ o.resume = NoResume /\ o.effect = e
  BY DEF Completed
<1> HIDE DEF o
<1>4. WritesGpr(s, i, o)
  BY <1>1, <1>2, <1>3, SameState DEF WritesGpr
<1>5. IsOutcome(s, i, o)
  BY <1>1, <1>3, <1>4 DEF IsOutcome
<1>6. QED
  BY <1>5 DEF o, e

LEMMA StagedType ==
    ASSUME NEW c, Cp0OK(c)
    PROVE  StagedEntry(c) \in Entry
<1>1. c.lo \in LowHalf /\ c.vpn \in Nat /\ c.asid \in Asids
  BY DEF Cp0OK, Cp0
<1>2. QED
  BY <1>1 DEF StagedEntry, LowHalf, Entry

LEMMA TlbpOK ==
    ASSUME NEW s, StateOK(s), NEW i, i.t = "Tlbp"
    PROVE  IsOutcome(s, i, tlbp_outcome(s))
<1> DEFINE p == probe(s.mmu, s.cp0.vpn, s.cp0.asid)
           o == tlbp_outcome(s)
<1>1. p \in ProbeResult
  BY MatchType DEF probe
<1>2. i.t \notin Writers /\ NoResume \in Word \cup {NoResume}
  BY DEF Writers
<1> HIDE DEF p
<1>3. CASE p.t = "Miss"
  <2> DEFINE e == [t |-> "TlbProbe", index |-> 0, failed |-> TRUE]
  <2>1. o = Completed(s, NoResume, e)
    BY <1>3 DEF tlbp_outcome, p
  <2>2. IsEffect(e) /\ e.t # "Gpr"
    BY MmuAssumption DEF IsEffect, TlbIndexes
  <2> HIDE DEF e
  <2>3. QED
    BY <1>2, <2>1, <2>2, DoneOK, SameState
<1>4. CASE p.t = "Match"
  <2> DEFINE e == [t |-> "TlbProbe", index |-> p.index, failed |-> FALSE]
  <2>1. o = Completed(s, NoResume, e)
    BY <1>4 DEF tlbp_outcome, p
  <2>2. IsEffect(e) /\ e.t # "Gpr"
    BY <1>1, <1>4 DEF IsEffect, ProbeResult
  <2> HIDE DEF e
  <2>3. QED
    BY <1>2, <2>1, <2>2, DoneOK, SameState
<1>5. CASE p.t = "Shutdown"
  <2> DEFINE u == [s EXCEPT !.cp0.status.ts = TRUE]
  <2>1. o = Fails(u, "TlbShutdown")
    BY <1>5 DEF tlbp_outcome, p
  <2>2. Accessed(s, u)
    BY FlagOK
  <2> HIDE DEF u
  <2>3. QED
    BY <2>1, <2>2, FailsOK
<1>6. QED
  BY <1>1, <1>3, <1>4, <1>5 DEF ProbeResult

LEMMA TailTriple ==
    ASSUME NEW x \in Triple
    PROVE  Tail(x)[1] \in BOOLEAN /\ Tail(x)[2] \in BOOLEAN
BY DEF Triple

LEMMA Cp0OutcomesOK ==
    ASSUME NEW s, StateOK(s), program \in Programs, NEW i, IsInstruction(i),
           i.t \in Cp0Kinds, NEW o \in Cp0Outcomes(s, i)
    PROVE  IsOutcome(s, i, o)
<1>0. /\ Cp0OK(s.cp0) /\ MmuOK(s.mmu) /\ s.pc \in Word
      /\ i.t \notin Writers /\ NoResume \in Word \cup {NoResume}
  BY StateFields DEF Cp0Kinds, Writers
<1>1. ASSUME NEW e, IsEffect(e), e.t # "Gpr", NEW resume \in Word \cup {NoResume}
      PROVE  IsOutcome(s, i, Completed(s, resume, e))
  BY <1>0, <1>1, DoneOK, SameState
<1>2. CASE ~is_usable(s.cp0)
  <2>1. o = Raises(s, Unusable(0))
    BY <1>2 DEF Cp0Outcomes
  <2>2. QED
    BY <2>1, PlainExceptions, RaisesOK, SameState
<1>3. CASE is_usable(s.cp0) /\ i.t = "Mfc0"
  <2>1. PICK value \in program.words : o = Completed(s, NoResume, DelayedGpr(i.rt, value, FALSE, value))
    BY <1>3 DEF Cp0Outcomes
  <2>2. value \in Word
    BY ProgramAssumption
  <2>3. i.rt \in Register
    BY <1>3 DEF IsInstruction
  <2>4. i.t \notin {"LoadLeft", "LoadRight"}
    BY <1>3
  <2>5. QED
    BY <1>0, <2>1, <2>2, <2>3, <2>4, MoveOK
<1>4. CASE is_usable(s.cp0) /\ i.t = "Mtc0"
  <2> DEFINE e == [t |-> "Cp0", index |-> i.rd, value |-> read_gpr(s, i.rt)]
  <2>1. o = Completed(s, NoResume, e)
    BY <1>4 DEF Cp0Outcomes
  <2>2. i.rd \in Nat /\ i.rt \in Register
    BY <1>4 DEF IsInstruction
  <2>3. read_gpr(s, i.rt) \in Word
    BY <2>2, ReadGprWord
  <2>4. IsEffect(e) /\ e.t # "Gpr"
    BY <2>2, <2>3 DEF IsEffect
  <2> HIDE DEF e
  <2>5. QED
    BY <1>0, <1>1, <2>1, <2>4
<1>5. CASE is_usable(s.cp0) /\ i.t = "Bc0"
  <2>1. PICK taken \in BOOLEAN :
          o = Completed(s, branch_resume_pc(s.pc, i.offset, taken), NoEffect)
    BY <1>5 DEF Cp0Outcomes
  <2>2. branch_resume_pc(s.pc, i.offset, taken) \in Word
    BY <1>0, <1>5, BranchWord DEF IsInstruction
  <2>3. QED
    BY <1>1, <2>1, <2>2, NoEffectOK
<1>6. CASE is_usable(s.cp0) /\ i.t = "Tlbr"
  <2> DEFINE e == [t |-> "TlbRead", entry |-> s.mmu.entries[s.cp0.index]]
  <2>1. o = Completed(s, NoResume, e)
    BY <1>6 DEF Cp0Outcomes
  <2>2. s.mmu.entries \in [TlbIndexes -> Entry] /\ s.cp0.index \in TlbIndexes
    BY <1>0 DEF MmuOK, MmuType, Cp0OK, Cp0
  <2>3. IsEffect(e) /\ e.t # "Gpr"
    BY <2>2 DEF IsEffect
  <2> HIDE DEF e
  <2>4. QED
    BY <1>0, <1>1, <2>1, <2>3
<1>7. CASE is_usable(s.cp0) /\ i.t \in {"Tlbwi", "Tlbwr"}
  <2>1. PICK index \in TlbIndexes :
          o = Completed(s, NoResume, [t |-> "TlbWrite", index |-> index, entry |-> StagedEntry(s.cp0)])
    <3>1. s.cp0.index \in TlbIndexes /\ s.cp0.random \in TlbIndexes
      BY <1>0 DEF Cp0OK, Cp0
    <3>2. QED
      BY <1>7, <3>1 DEF Cp0Outcomes
  <2> DEFINE e == [t |-> "TlbWrite", index |-> index, entry |-> StagedEntry(s.cp0)]
  <2>2. StagedEntry(s.cp0) \in Entry
    BY <1>0, StagedType
  <2>3. IsEffect(e) /\ e.t # "Gpr"
    BY <2>2 DEF IsEffect
  <2>4. o = Completed(s, NoResume, e)
    BY <2>1
  <2> HIDE DEF e
  <2>5. QED
    BY <1>0, <1>1, <2>3, <2>4
<1>8. CASE is_usable(s.cp0) /\ i.t = "Tlbp"
  <2>1. o = tlbp_outcome(s)
    BY <1>8 DEF Cp0Outcomes
  <2>2. QED
    BY <1>8, <2>1, TlbpOK
<1>9. CASE is_usable(s.cp0) /\ i.t = "Rfe"
  <2> DEFINE user == Tail(s.cp0.status.user)
             ie == Tail(s.cp0.status.ie)
             e == [t |-> "RestoreStatus", user |-> user, ie |-> ie]
  <2>1. o = Completed(s, NoResume, e)
    BY <1>9 DEF Cp0Outcomes
  <2>2. s.cp0.status.user \in Triple /\ s.cp0.status.ie \in Triple
    BY <1>0, Cp0Fields
  <2>3. /\ user[1] \in BOOLEAN /\ user[2] \in BOOLEAN
        /\ ie[1] \in BOOLEAN /\ ie[2] \in BOOLEAN
    BY <2>2, TailTriple
  <2> HIDE DEF user, ie
  <2>4. IsEffect(e) /\ e.t # "Gpr"
    BY <2>3 DEF IsEffect
  <2> HIDE DEF e
  <2>5. QED
    BY <1>0, <1>1, <2>1, <2>4
<1>10. QED
  BY <1>2, <1>3, <1>4, <1>5, <1>6, <1>7, <1>8, <1>9 DEF Cp0Kinds

(* What the floating-point unit does to FCR31.                             *)
IsUpdate(u) ==
    /\ u.cause \in SUBSET ExceptionFlags /\ u.sticky \in SUBSET ExceptionFlags
    /\ u.unimplemented \in BOOLEAN

LEMMA UpdatesOK ==
    ASSUME NEW f, NEW word, NEW signaling
    PROVE  /\ IsUpdate(unimplemented_update)
           /\ \A u \in ArithmeticUpdates(f) : IsUpdate(u)
           /\ \A u \in ConversionUpdates(f, word) : IsUpdate(u)
           /\ \A u \in CompareUpdates(f, signaling) : IsUpdate(u)
<1>1. IsUpdate(unimplemented_update)
  BY DEF IsUpdate, unimplemented_update, Update
<1>2. IsUpdate(classify_invalid(f))
  BY <1>1 DEF IsUpdate, classify_invalid, Update, ExceptionFlags
<1>3. \A class, any : IsUpdate(classify_operands(f, class, any))
  BY <1>1, <1>2 DEF classify_operands
<1>4. \A flags : IsUpdate(classify_outcome(f, flags))
  <2>1. ASSUME NEW flags, NEW b PROVE
          LET supported == flags \cap {"OVERFLOW", "INEXACT"}
          IN IsUpdate(Update(supported, IF b THEN supported ELSE {}, FALSE, b))
    BY DEF IsUpdate, Update, ExceptionFlags
  <2>2. QED
    BY <1>1, <1>2, <2>1 DEF classify_outcome
<1>5. \A u \in ArithmeticUpdates(f) : IsUpdate(u)
  BY <1>3, <1>4 DEF ArithmeticUpdates
<1>6. \A u \in ConversionUpdates(f, word) : IsUpdate(u)
  BY <1>4, <1>5 DEF ConversionUpdates
<1>7. \A u \in CompareUpdates(f, signaling) : IsUpdate(u)
  BY <1>3, <1>4 DEF CompareUpdates
<1>8. QED
  BY <1>1, <1>5, <1>6, <1>7

LEMMA ArithmeticOK ==
    ASSUME NEW s, StateOK(s), NEW u, IsUpdate(u)
    PROVE  StateOK(Arithmetic(s, u)) /\ SameGpr(s, Arithmetic(s, u))
<1> DEFINE c == commit_pending_cp1_write(s)
           f == apply_fcr31_update(c.cp1, u)
<1>1. StateOK(c) /\ SameGpr(s, c) /\ c.pending_cp1 = None
  BY CommitCp1OK
<1> HIDE DEF c
<1>2. c \in StateType /\ c.cp1 \in Fcr31
  BY <1>1, StateFields
<1>3. f \in Fcr31
  BY <1>2 DEF apply_fcr31_update, Fcr31, IsUpdate
<1>4. Arithmetic(s, u) = WithCp1(c, f, None)
  BY <1>1, <1>2 DEF Arithmetic, WithCp1, StateType, c
<1> HIDE DEF f
<1>5. None \in {None} \cup Cp1Write
  OBVIOUS
<1>6. StateOK(WithCp1(c, f, None)) /\ SameGpr(c, WithCp1(c, f, None))
  BY <1>1, <1>3, <1>5, SetCp1
<1>7. QED
  BY <1>1, <1>4, <1>6 DEF SameGpr

LEMMA Carried ==
    /\ \A a, b, e : \A y \in Cp1Done(a, b, e) : y.o = Completed(a, b, e)
    /\ \A S : \A y \in {[o |-> r, raised |-> FALSE] : r \in S} : y.o \in S
BY DEF Cp1Done

LEMMA Cp1OutcomesOK ==
    ASSUME NEW s, StateOK(s), program \in Programs, NEW i, IsInstruction(i),
           i.t \in {"Mfc1", "Mtc1", "Ctc1", "Bc1", "Lwc1", "Swc1", "FloatMove", "Float",
                    "Convert", "Compare", "UnimplementedOperation"},
           NEW x \in Cp1Outcomes(s, i)
    PROVE  IsOutcome(s, i, x.o)
<1>0. /\ s.pc \in Word /\ i.t \notin Writers /\ NoResume \in Word \cup {NoResume}
      /\ i.t \notin {"LoadLeft", "LoadRight"}
  BY StateFields DEF Writers
<1>1. ASSUME NEW u, StateOK(u), SameGpr(s, u), NEW e, IsEffect(e), e.t # "Gpr",
             NEW resume \in Word \cup {NoResume}, x.o = Completed(u, resume, e)
      PROVE  IsOutcome(s, i, x.o)
  BY <1>0, <1>1, DoneOK
<1>2. ASSUME NEW u, IsUpdate(u), x.o = Completed(Arithmetic(s, u), NoResume, NoEffect)
      PROVE  IsOutcome(s, i, x.o)
  BY <1>0, <1>1, <1>2, ArithmeticOK, NoEffectOK
<1>3. ASSUME NEW w \in Cp1Write
      PROVE  LET e == [t |-> "Cp1", write |-> w] IN IsEffect(e) /\ e.t # "Gpr"
  BY DEF IsEffect
<1>4. [t |-> "General"] \in Cp1Write
  BY DEF Cp1Write
<1>5. CASE ~coprocessor_usable(s.cp0, 1)
  <2>1. x.o = Raises(s, Unusable(1))
    BY <1>5 DEF Cp1Outcomes
  <2>2. QED
    BY <2>1, PlainExceptions, RaisesOK, SameState
<1>6. CASE coprocessor_usable(s.cp0, 1) /\ i.t = "Mfc1"
  <2>1. PICK value \in program.words :
          x.o = Completed(s, NoResume, DelayedGpr(i.rt, value, FALSE, value))
    <3> DEFINE moved(value) == Cp1Done(s, NoResume, DelayedGpr(i.rt, value, FALSE, value))
    <3>1. x \in UNION {moved(value) : value \in program.words}
      BY <1>6 DEF Cp1Outcomes
    <3> HIDE DEF moved
    <3>2. PICK v \in program.words : x \in moved(v)
      BY <3>1
    <3>3. x.o = Completed(s, NoResume, DelayedGpr(i.rt, v, FALSE, v))
      BY <3>2, Carried DEF moved
    <3>4. QED
      BY <3>3
  <2>2. value \in Word
    BY ProgramAssumption
  <2>3. i.rt \in Register
    BY <1>6 DEF IsInstruction
  <2>4. QED
    BY <1>0, <2>1, <2>2, <2>3, MoveOK, ZenonT(40)
<1>7. CASE coprocessor_usable(s.cp0, 1) /\ i.t = "Mtc1"
  <2> DEFINE e == [t |-> "Cp1", write |-> [t |-> "General"]]
  <2>1. x.o = Completed(s, NoResume, e)
    BY <1>7 DEF Cp1Outcomes, Cp1Done
  <2>2. IsEffect(e) /\ e.t # "Gpr"
    BY <1>3, <1>4
  <2> HIDE DEF e
  <2>3. QED
    BY <1>0, <1>1, <2>1, <2>2, SameState
<1>8. CASE coprocessor_usable(s.cp0, 1) /\ i.t = "Ctc1"
  <2> DEFINE w == IF i.rd = 31 THEN [t |-> "Control", value |-> Reading(NoReg, read_gpr(s, i.rt))]
                  ELSE [t |-> "General"]
             e == [t |-> "Cp1", write |-> w]
  <2>1. x.o = Completed(s, NoResume, e)
    BY <1>8 DEF Cp1Outcomes, Cp1Done
  <2>2. read_gpr(s, i.rt) \in Word
    BY <1>8, ReadGprWord DEF IsInstruction
  <2>3. Reading(NoReg, read_gpr(s, i.rt)) \in Fcr31
    BY <2>2, ReadingAssumption
  <2>4. w \in Cp1Write
    BY <1>4, <2>3 DEF Cp1Write
  <2> HIDE DEF w
  <2>5. IsEffect(e) /\ e.t # "Gpr"
    BY <1>3, <2>4
  <2> HIDE DEF e
  <2>6. QED
    BY <1>0, <1>1, <2>1, <2>5, SameState
<1>9. CASE coprocessor_usable(s.cp0, 1) /\ i.t = "Bc1"
  <2> DEFINE resume == branch_resume_pc(s.pc, i.offset, s.cp1.condition = i.on)
  <2>1. x.o = Completed(s, resume, NoEffect)
    BY <1>9 DEF Cp1Outcomes, Cp1Done
  <2>2. resume \in Word
    BY <1>0, <1>9, BranchWord DEF IsInstruction
  <2> HIDE DEF resume
  <2>3. QED
    BY <1>1, <2>1, <2>2, NoEffectOK, SameState
<1>10. CASE coprocessor_usable(s.cp0, 1) /\ i.t = "Lwc1"
  <2> DEFINE e == [t |-> "Cp1", write |-> [t |-> "General"]]
  <2>1. PICK r \in load(s, i) : x.o = IF r.t # "ok" THEN r ELSE Completed(r.st, NoResume, e)
    BY <1>10 DEF Cp1Outcomes
  <2>2. IsLoad(s, r)
    BY <1>10, LoadOK DEF IsInstruction
  <2>3. IsEffect(e) /\ e.t # "Gpr"
    BY <1>3, <1>4
  <2> HIDE DEF e
  <2>4. CASE r.t # "ok"
    BY <2>1, <2>2, <2>4 DEF IsOutcome, IsLoad, Accessed
  <2>5. CASE r.t = "ok"
    BY <1>0, <1>1, <2>1, <2>2, <2>3, <2>5 DEF IsLoad, Accessed
  <2>6. QED
    BY <2>4, <2>5
<1>11. CASE coprocessor_usable(s.cp0, 1) /\ i.t = "Swc1"
  <2>1. PICK value \in program.words : x.o \in store(s, i, TRUE, value)
    <3> DEFINE stored(value) == {[o |-> r, raised |-> FALSE] : r \in store(s, i, TRUE, value)}
    <3>1. x \in UNION {stored(value) : value \in program.words}
      BY <1>11 DEF Cp1Outcomes
    <3> HIDE DEF stored
    <3>2. PICK v \in program.words : x \in stored(v)
      BY <3>1
    <3>3. x.o \in store(s, i, TRUE, v)
      BY <3>2, Carried DEF stored
    <3>4. QED
      BY <3>3
  <2>2. value \in Word
    BY ProgramAssumption
  <2>3. i.base \in Register /\ i.offset \in Nat
    BY <1>11 DEF IsInstruction
  <2>4. QED
    BY <1>0, <2>1, <2>2, <2>3, StoreOK
<1>12. CASE coprocessor_usable(s.cp0, 1) /\ i.t = "FloatMove"
  <2> DEFINE u == commit_pending_cp1_write(s)
  <2>1. x.o = Completed(u, NoResume, NoEffect)
    BY <1>12 DEF Cp1Outcomes, Cp1Done
  <2>2. StateOK(u) /\ SameGpr(s, u)
    BY CommitCp1OK
  <2> HIDE DEF u
  <2>3. QED
    BY <1>0, <1>1, <2>1, <2>2, NoEffectOK
<1>13. CASE coprocessor_usable(s.cp0, 1) /\ i.t = "Float"
  <2>1. PICK u \in ArithmeticUpdates(s.cp1) : x.o = Completed(Arithmetic(s, u), NoResume, NoEffect)
    BY <1>13 DEF Cp1Outcomes
  <2>2. QED
    BY <1>2, <2>1, UpdatesOK
<1>14. CASE coprocessor_usable(s.cp0, 1) /\ i.t = "Convert"
  <2>1. PICK u \in ConversionUpdates(s.cp1, i.word) :
          x.o = Completed(Arithmetic(s, u), NoResume, NoEffect)
    BY <1>14 DEF Cp1Outcomes
  <2>2. QED
    BY <1>2, <2>1, UpdatesOK
<1>15. CASE coprocessor_usable(s.cp0, 1) /\ i.t = "Compare"
  <2>1. PICK u \in CompareUpdates(s.cp1, i.signaling) :
          \/ x.o = Completed(Arithmetic(s, u), NoResume, NoEffect)
          \/ \E b \in BOOLEAN : x.o = Completed(Arithmetic(s, u), NoResume,
                 [t |-> "Cp1", write |-> [t |-> "Condition", condition |-> b]])
    <3> DEFINE set(u) == {[o |-> Completed(Arithmetic(s, u), NoResume, NoEffect), raised |-> TRUE]}
               compared(u) == UNION {Cp1Done(Arithmetic(s, u), NoResume,
                   [t |-> "Cp1", write |-> [t |-> "Condition", condition |-> b]]) : b \in BOOLEAN}
    <3>1. x \in UNION {IF u.writeback THEN compared(u) ELSE set(u) :
                          u \in CompareUpdates(s.cp1, i.signaling)}
      BY <1>15 DEF Cp1Outcomes
    <3> HIDE DEF set, compared
    <3>2. PICK u \in CompareUpdates(s.cp1, i.signaling) : x \in compared(u) \/ x \in set(u)
      BY <3>1
    <3>3. CASE x \in set(u)
      BY <3>3 DEF set
    <3>4. CASE x \in compared(u)
      <4>1. PICK b \in BOOLEAN : x \in Cp1Done(Arithmetic(s, u), NoResume,
                   [t |-> "Cp1", write |-> [t |-> "Condition", condition |-> b]])
        BY <3>4 DEF compared
      <4>2. x.o = Completed(Arithmetic(s, u), NoResume,
                   [t |-> "Cp1", write |-> [t |-> "Condition", condition |-> b]])
        BY <4>1 DEF Cp1Done
      <4>3. QED
        BY <4>2
    <3>5. QED
      BY <3>2, <3>3, <3>4
  <2>2. IsUpdate(u)
    BY UpdatesOK
  <2>3. CASE \E b \in BOOLEAN : x.o = Completed(Arithmetic(s, u), NoResume,
                 [t |-> "Cp1", write |-> [t |-> "Condition", condition |-> b]])
    <3>1. PICK b \in BOOLEAN : x.o = Completed(Arithmetic(s, u), NoResume,
                 [t |-> "Cp1", write |-> [t |-> "Condition", condition |-> b]])
      BY <2>3
    <3> DEFINE w == [t |-> "Condition", condition |-> b]
               e == [t |-> "Cp1", write |-> w]
    <3>2. w \in Cp1Write
      BY DEF Cp1Write
    <3>3. x.o = Completed(Arithmetic(s, u), NoResume, e)
      BY <3>1
    <3> HIDE DEF w
    <3>4. IsEffect(e) /\ e.t # "Gpr"
      BY <1>3, <3>2
    <3> HIDE DEF e
    <3>5. QED
      BY <1>0, <1>1, <2>2, <3>3, <3>4, ArithmeticOK
  <2>4. QED
    BY <1>2, <2>1, <2>2, <2>3
<1>16. CASE coprocessor_usable(s.cp0, 1) /\ i.t = "UnimplementedOperation"
  <2>1. x.o = Completed(Arithmetic(s, unimplemented_update), NoResume, NoEffect)
    BY <1>16 DEF Cp1Outcomes
  <2>2. QED
    BY <1>2, <2>1, UpdatesOK
<1>17. QED
  BY <1>5, <1>6, <1>7, <1>8, <1>9, <1>10, <1>11, <1>12, <1>13, <1>14, <1>15, <1>16

Cp1Kinds == {"Mfc1", "Mtc1", "Ctc1", "Bc1", "Lwc1", "Swc1", "FloatMove", "Float",
             "Convert", "Compare", "UnimplementedOperation"}
Kinds == Writers \cup Cp0Kinds \cup MemoryKinds \cup Cp1Kinds \cup
         {"Syscall", "Breakpoint", "Reserved", "Undefined", "UnsupportedCoprocessor"}

(* Every word decodes to an instruction that some unit executes.           *)
LEMMA DecodeKinds ==
    ASSUME NEW w
    PROVE  decode(w).t \in Kinds
<1> USE DEF Kinds, Writers, Cp0Kinds, MemoryKinds, Cp1Kinds
<1>1. decode_special(w).t \in Kinds
  BY DEF decode_special, Alu, JumpRegister, Plain
<1>2. decode_regimm(w).t \in Kinds
  BY DEF decode_regimm, Branch, Plain
<1>3. decode_cp0(w).t \in Kinds
  BY DEF decode_cp0, Plain
<1>4. decode_cp1_computational(w).t \in Kinds
  BY DEF decode_cp1_computational, Plain
<1>5. decode_cp1(w).t \in Kinds
  BY <1>4 DEF decode_cp1, Plain
<1>6. decode_unsupported_coprocessor(w).t \in Kinds
  BY DEF decode_unsupported_coprocessor, Unsupported, Plain
<1>7. QED
  BY <1>1, <1>2, <1>3, <1>5, <1>6
     DEF decode, Jump, Branch, Alu, Memory, Unsupported, Plain

LEMMA FloatOutcomesOK ==
    ASSUME NEW s, StateOK(s), program \in Programs, NEW i, IsInstruction(i),
           i.t \in Cp1Kinds, NEW o \in FloatOutcomes(s, i)
    PROVE  IsOutcome(s, i, o)
<1>1. PICK x \in Cp1Outcomes(s, i) :
        o = LET st == synchronize_cp1_interrupt(x.o.st)
            IN IF x.o.t = "err" THEN x.o
               ELSE IF x.raised /\ interrupt_requested(st.cp0) THEN Raises(st, [t |-> "Interrupt"])
               ELSE IF x.o.t = "exc" THEN Raises(st, x.o.exc)
               ELSE Completed(st, x.o.resume, x.o.effect)
  BY DEF FloatOutcomes
<1> DEFINE st == synchronize_cp1_interrupt(x.o.st)
<1>2. IsOutcome(s, i, x.o)
  BY Cp1OutcomesOK DEF Cp1Kinds
<1>3. i.t \notin Writers
  BY DEF Cp1Kinds, Writers
<1>4. SameGpr(s, x.o.st) /\ StateOK(x.o.st)
  BY <1>2, <1>3 DEF IsOutcome, WritesGpr
<1>5. StateOK(st) /\ SameGpr(s, st)
  BY <1>4, SynchronizeOK DEF SameGpr
<1> HIDE DEF st
<1>6. CASE x.o.t = "err"
  BY <1>1, <1>2, <1>6
<1>7. CASE o = Raises(st, [t |-> "Interrupt"])
  BY <1>5, <1>7, PlainExceptions, RaisesOK
<1>8. CASE x.o.t = "exc" /\ o = Raises(st, x.o.exc)
  <2>1. IsException(x.o.exc)
    BY <1>2, <1>8 DEF IsOutcome
  <2>2. QED
    BY <1>5, <1>8, <2>1, RaisesOK
<1>9. CASE x.o.t = "done" /\ o = Completed(st, x.o.resume, x.o.effect)
  <2>1. /\ o.t = "done" /\ o.st = st /\ o.resume = x.o.resume /\ o.effect = x.o.effect
    BY <1>9 DEF Completed
  <2>2. WritesGpr(s, i, o)
    BY <1>2, <1>3, <1>5, <1>9, <2>1 DEF IsOutcome, WritesGpr
  <2>3. QED
    BY <1>2, <1>5, <1>9, <2>1, <2>2 DEF IsOutcome
<1>10. QED
  <2>1. x.o.t \in {"done", "exc", "err"}
    BY <1>2 DEF IsOutcome
  <2>2. QED
    BY <1>1, <1>6, <1>7, <1>8, <1>9, <2>1 DEF st

LEMMA OutcomesOK ==
    ASSUME NEW s, StateOK(s), program \in Programs, NEW i, IsInstruction(i), i.t \in Kinds,
           NEW o \in Outcomes(s, i)
    PROVE  IsOutcome(s, i, o)
<1>1. CASE i.t = "Alu"
  <2>1. o \in AluOutcomes(s, i)
    BY <1>1 DEF Outcomes, Cp0Kinds, MemoryKinds
  <2>2. QED
    BY <1>1, <2>1, AluOK
<1>2. CASE i.t \in {"Jump", "JumpRegister", "Branch"}
  <2>1. o \in ControlOutcomes(s, i)
    BY <1>2 DEF Outcomes, Cp0Kinds, MemoryKinds
  <2>2. QED
    BY <1>2, <2>1, ControlOK
<1>3. CASE i.t \in Cp0Kinds
  <2>1. o \in Cp0Outcomes(s, i)
    BY <1>3 DEF Outcomes, Cp0Kinds, MemoryKinds
  <2>2. QED
    BY <1>3, <2>1, Cp0OutcomesOK
<1>4. CASE i.t \in MemoryKinds
  <2>1. o \in MemoryOutcomes(s, i)
    BY <1>4 DEF Outcomes, Cp0Kinds, MemoryKinds
  <2>2. QED
    BY <1>4, <2>1, MemoryOK
<1>5. CASE i.t \in {"Syscall", "Breakpoint"}
  <2>1. o = Raises(s, [t |-> i.t])
    BY <1>5 DEF Outcomes, Cp0Kinds, MemoryKinds
  <2>2. QED
    BY <1>5, <2>1, PlainExceptions, RaisesOK, SameState
<1>6. CASE i.t = "Reserved"
  <2>1. o = Raises(s, [t |-> "ReservedInstruction"])
    BY <1>6 DEF Outcomes, Cp0Kinds, MemoryKinds
  <2>2. QED
    BY <2>1, PlainExceptions, RaisesOK, SameState
<1>7. CASE i.t = "Undefined"
  <2>1. o = Fails(s, "UndefinedInstruction")
    BY <1>7 DEF Outcomes, Cp0Kinds, MemoryKinds
  <2>2. QED
    BY <2>1, FailsOK, AccessedSame
<1>8. CASE i.t = "UnsupportedCoprocessor"
  <2>1. o = Fails(s, "UnsupportedInstruction") \/ o = Raises(s, Unusable(i.unit))
    BY <1>8 DEF Outcomes, Cp0Kinds, MemoryKinds
  <2>2. i.unit \in Nat
    BY <1>8 DEF IsInstruction
  <2>3. QED
    BY <2>1, <2>2, FailsOK, AccessedSame, PlainExceptions, RaisesOK, SameState
<1>9. CASE i.t \in Cp1Kinds
  <2>1. o \in FloatOutcomes(s, i)
    BY <1>9 DEF Outcomes, Cp0Kinds, MemoryKinds, Cp1Kinds
  <2>2. QED
    BY <1>9, <2>1, FloatOutcomesOK
<1>10. QED
  BY <1>1, <1>2, <1>3, <1>4, <1>5, <1>6, <1>7, <1>8, <1>9 DEF Kinds, Writers

-----------------------------------------------------------------------------
(* Program order.                                                          *)

LEMMA LandedWord ==
    ASSUME NEW s, StateOK(s), NEW r \in Registers
    PROVE  Landed(s, r) \in Word
<1>1. s.gpr \in Gprs /\ s.pending_gpr \in PendingGpr
  BY StateFields
<1>2. QED
  BY <1>1 DEF Landed, Gprs, PendingGpr

LEMMA WriterLands ==
    ASSUME NEW s, StateOK(s), NEW d, NEW value \in Word,
           NEW r \in Registers \ {0}
    PROVE  LET u == write_gpr(s, d, value)
           IN /\ d \in {0, NoReg} => Landed(u, r) = Landed(s, r)
              /\ d \notin {0, NoReg} =>
                   Landed(u, r) = IF r = d THEN u.gpr[d] ELSE Landed(s, r)
<1> DEFINE a == commit_pending_gpr_write(s)
           b == write_gpr_direct(a, d, value)
           u == write_gpr(s, d, value)
<1>1. StateOK(a) /\ a.pending_gpr = None /\ a.gpr[r] = Landed(s, r)
  BY CommitGprOK
<1> HIDE DEF a
<1>2. StateOK(b) /\ b.pending_gpr = None /\ b.gpr = GprAfter(a.gpr, d, value)
  BY <1>1, WriteGprOK
<1> HIDE DEF b
<1>3. a.gpr \in Gprs
  BY <1>1, StateFields
<1>4. CASE d = NoReg
  BY <1>4 DEF write_gpr
<1>5. CASE d # NoReg
  <2>1. u = b
    BY <1>5 DEF write_gpr, a, b
  <2>2. Landed(b, r) = b.gpr[r]
    BY <1>2 DEF Landed
  <2>3. QED
    BY <1>1, <1>2, <1>3, <1>5, <2>1, <2>2 DEF GprAfter, Gprs
<1>6. QED
  BY <1>4, <1>5

(* A completed instruction leaves every register the value program order   *)
(* gives it, once what it left in flight lands.                            *)
LEMMA OrderOK ==
    ASSUME NEW s, StateOK(s), NEW i, IsInstruction(i), NEW o, IsOutcome(s, i, o), o.t = "done",
           order \in [Registers -> Word],
           \A r \in Registers \ {0} : order[r] = Landed(s, r),
           NEW u, StateOK(u),
           \A r \in Registers \ {0} :
               Landed(u, r) = IF o.effect.t = "Gpr" /\ o.effect.index = r THEN o.effect.value
                              ELSE Landed(o.st, r)
    PROVE  /\ ProgramOrder(s, i, o) \in [Registers -> Word]
           /\ \A r \in Registers \ {0} : ProgramOrder(s, i, o)[r] = Landed(u, r)
<1> DEFINE po == ProgramOrder(s, i, o)
           e == o.effect
<1>0. WritesGpr(s, i, o) /\ IsEffect(e)
  BY DEF IsOutcome
<1>1. \A r \in Registers : Landed(u, r) \in Word
  BY LandedWord
<1>2. CASE i.t \in Writers
  <2> DEFINE d == Dest(i)
  <2>1. PICK value \in Word : o.st = write_gpr(s, d, value)
    BY <1>0, <1>2 DEF WritesGpr
  <2>2. e.t # "Gpr"
    BY <1>0, <1>2 DEF WritesGpr
  <2>3. po = IF d \in {0, NoReg} THEN order ELSE [order EXCEPT ![d] = o.st.gpr[d]]
    BY <1>2, <2>2 DEF ProgramOrder, Dest, Writers
  <2> HIDE DEF d, po
  <2>4. \A r \in Registers \ {0} : Landed(u, r) = Landed(o.st, r)
    BY <2>2
  <2>5. ASSUME NEW r \in Registers \ {0}
        PROVE  po[r] = Landed(u, r)
    <3>1. /\ d \in {0, NoReg} => Landed(o.st, r) = Landed(s, r)
          /\ d \notin {0, NoReg} =>
               Landed(o.st, r) = IF r = d THEN o.st.gpr[d] ELSE Landed(s, r)
      BY <2>1, WriterLands
    <3>2. QED
      BY <2>3, <2>4, <3>1
  <2>6. po \in [Registers -> Word]
    <3>1. \A r \in Registers : po[r] \in Word
      BY <1>1, <2>3, <2>5
    <3>2. QED
      BY <2>3, <3>1
  <2>7. QED
    BY <2>5, <2>6 DEF po
<1>3. CASE i.t \notin Writers /\ e.t # "Gpr"
  <2>1. po = order
    BY <1>3 DEF ProgramOrder, Writers
  <2>2. \A r \in Registers \ {0} : Landed(u, r) = Landed(s, r)
    BY <1>0, <1>3 DEF WritesGpr, Landed, SameGpr
  <2>3. QED
    BY <2>1, <2>2
<1>4. CASE i.t \notin Writers /\ e.t = "Gpr"
  <2> DEFINE d == i.rt
             unbypassed == s.pending_gpr # None /\ s.pending_gpr.index = d /\ ~s.pending_gpr.bypass
             operand == IF unbypassed THEN s.gpr[d] ELSE order[d]
  <2>1. /\ SameGpr(s, o.st) /\ e.index = d
        /\ e.value = IF Merges(s, i) THEN Merge(read_gpr_for_load_merge(s, d), e.loaded)
                     ELSE e.loaded
        /\ d \in Register
    BY <1>0, <1>4 DEF WritesGpr, IsEffect
  <2>2. po = IF d \in {0, NoReg} THEN order
             ELSE [order EXCEPT ![d] = IF Merges(s, i) THEN Merge(operand, e.loaded) ELSE e.loaded]
    BY <1>4, <2>1 DEF ProgramOrder, Writers
  <2>3. d # 0 => d \in Registers /\ d # NoReg
    BY <2>1, LayoutAssumption DEF Register, NoReg
  <2>4. d # 0 => operand = read_gpr_for_load_merge(s, d)
    BY <2>3 DEF read_gpr_for_load_merge, read_gpr, Landed
  <2>5. ASSUME NEW r \in Registers \ {0}
        PROVE  po[r] = Landed(u, r)
    <3>1. Landed(o.st, r) = Landed(s, r)
      BY <2>1 DEF Landed, SameGpr
    <3> HIDE DEF operand, po
    <3>2. CASE r = d
      BY <1>4, <2>1, <2>2, <2>3, <2>4, <3>2
    <3>3. CASE r # d
      BY <1>4, <2>1, <2>2, <2>3, <3>1, <3>3
    <3>4. QED
      BY <3>2, <3>3
  <2> HIDE DEF operand, po
  <2>6. po \in [Registers -> Word]
    <3>1. \A r \in Registers : po[r] \in Word
      BY <1>1, <2>2, <2>5
    <3>2. QED
      BY <2>2, <3>1
  <2>7. QED
    BY <2>5, <2>6 DEF po
<1>5. QED
  BY <1>2, <1>3, <1>4

-----------------------------------------------------------------------------
(* The steps.                                                              *)

Ordered(values, s) ==
    /\ values \in [Registers -> Word]
    /\ \A r \in Registers \ {0} : values[r] = Landed(s, r)

(* What every reachable state satisfies.                                   *)
Inv ==
    /\ StateOK(state) /\ FloatLine(state)
    /\ program \in Programs /\ steps \in Nat
    /\ Ordered(order, state)

LEMMA SameOrder ==
    ASSUME NEW values, NEW s, Ordered(values, s), NEW u,
           \A r \in Registers \ {0} : Landed(u, r) = Landed(s, r)
    PROVE  Ordered(values, u)
BY DEF Ordered

LEMMA SameLanded ==
    ASSUME NEW s, NEW u, SameGpr(s, u), NEW r
    PROVE  Landed(u, r) = Landed(s, r)
BY DEF SameGpr, Landed

LEMMA SameLine ==
    ASSUME NEW s, NEW u, SameFloat(s, u), FloatLine(s)
    PROVE  FloatLine(u)
BY DEF SameFloat, FloatLine

LEMMA BeginOK ==
    ASSUME StateOK(state), FloatLine(state)
    PROVE  StateOK(Begin) /\ FloatLine(Begin) /\ SameGpr(state, Begin)
<1> DEFINE u == advance_cache_transition(state)
<1>1. StateOK(u) /\ SameGpr(state, u) /\ SameFloat(state, u)
  BY AdvanceTransitionOK
<1>2. FloatLine(u)
  BY <1>1, SameLine
<1> HIDE DEF u
<1>3. LET v == advance_machine_interrupt_inputs(u)
      IN StateOK(v) /\ SameGpr(u, v) /\ (FloatLine(u) => FloatLine(v))
  BY <1>1, AdvanceInputsOK
<1>4. Begin = advance_machine_interrupt_inputs(u)
  BY DEF Begin, u
<1>5. QED
  BY <1>1, <1>2, <1>3, <1>4 DEF SameGpr

LEMMA FetchedOK ==
    ASSUME NEW s, StateOK(s), program \in Programs, NEW r \in Fetched(s)
    PROVE  Accessed(s, r.st) /\ r.data \in Word
<1> DEFINE x == translate_address(s, s.pc, "Instruction")
<1>1. s.pc \in Word
  BY StateFields
<1>2. Accessed(s, x.st) /\ (x.t = "ok" => IsTranslated(x.tr))
  BY <1>1, TranslateAddressOK DEF IsTranslated
<1>3. x.t = "ok" /\ r \in read_instruction(x.st, x.tr) /\ r.t = "ok"
  BY DEF Fetched
<1> HIDE DEF x
<1>4. StateOK(x.st)
  BY <1>2 DEF Accessed
<1>5. IsRead(x.st, r)
  BY <1>2, <1>3, <1>4, ReadInstructionOK
<1>6. QED
  BY <1>2, <1>3, <1>5, AccessedTrans DEF IsRead

LEMMA InitInv ==
    ASSUME Init
    PROVE  Inv
<1>1. StateOK(state) /\ FloatLine(state)
  BY NewStateOK DEF Init
<1>2. program \in Programs /\ steps \in Nat
  BY DEF Init
<1>3. 0 \in Word
  BY SpaceWord DEF Word
<1>4. state.gpr = [r \in Registers |-> 0] /\ state.pending_gpr = None
  BY DEF Init, NewState
<1>5. Ordered(order, state)
  BY <1>3, <1>4 DEF Init, Ordered, Landed
<1>6. QED
  BY <1>1, <1>2, <1>5 DEF Inv

(* A step that returns `u`, whose registers end as those of the present    *)
(* state, keeps the invariant.                                             *)
LEMMA ReturnInv ==
    ASSUME Inv, Calls, NEW u, NEW r, Return(u, r), UNCHANGED order,
           StateOK(u), FloatLine(u),
           \A x \in Registers \ {0} : Landed(u, x) = Landed(state, x)
    PROVE  Inv'
<1>1. program' = program /\ state' = u /\ order' = order /\ steps' \in Nat
  BY DEF Return, Calls, Inv
<1>2. Ordered(order, u)
  BY SameOrder DEF Inv
<1>3. QED
  BY <1>1, <1>2 DEF Inv, StateOK, FloatLine, Ordered, Landed

LEMMA ShutdownInv ==
    ASSUME Inv, StepShutdown
    PROVE  Inv'
BY ReturnInv DEF StepShutdown, Inv

(* An exception taken on a state the fetch reached.                        *)
LEMMA TakeInv ==
    ASSUME Inv, Calls, UNCHANGED order, NEW s, StateOK(s), SameGpr(state, s),
           NEW e, IsException(e), Return(TakeException(s, e), "Ok")
    PROVE  Inv'
<1>1. LET u == TakeException(s, e)
      IN /\ StateOK(u) /\ FloatLine(u)
         /\ \A r \in Registers \ {0} : Landed(u, r) = Landed(s, r)
  BY TakeOK
<1>2. \A r \in Registers \ {0} : Landed(TakeException(s, e), r) = Landed(state, r)
  BY <1>1, SameLanded
<1>3. QED
  BY <1>1, <1>2, ReturnInv

(* An error reported on a state an access reached.                         *)
LEMMA ErrorInv ==
    ASSUME Inv, Calls, UNCHANGED order, NEW s, StateOK(s), SameGpr(state, s), FloatLine(s),
           NEW e, Return(s, e)
    PROVE  Inv'
<1>1. \A r \in Registers \ {0} : Landed(s, r) = Landed(state, r)
  BY SameLanded
<1>2. QED
  BY <1>1, ReturnInv

LEMMA FetchFailsInv ==
    ASSUME Inv, StepFetchFails
    PROVE  Inv'
<1> DEFINE s == Begin
           x == translate_address(s, s.pc, "Instruction")
<1>1. StateOK(s) /\ FloatLine(s) /\ SameGpr(state, s) /\ s.pc \in Word
  BY BeginOK, StateFields DEF Inv
<1>2. Calls /\ UNCHANGED order /\ program \in Programs
  BY DEF StepFetchFails, Inv
<1> HIDE DEF s
<1>3. /\ Accessed(s, x.st)
      /\ x.t = "ok" => IsTranslated(x.tr)
      /\ x.t = "exc" => IsException(x.exc)
  BY <1>1, TranslateAddressOK DEF IsTranslated
<1>4. StateOK(x.st) /\ SameGpr(state, x.st) /\ FloatLine(x.st)
  BY <1>1, <1>3, SameLine DEF Accessed, SameGpr
<1>5. CASE Return(TakeException(s, [t |-> "InstructionAddressError", address |-> s.pc]), "Ok")
  <2>1. IsException([t |-> "InstructionAddressError", address |-> s.pc])
    BY <1>1, PlainExceptions DEF AddressExceptions
  <2>2. QED
    BY <1>1, <1>2, <1>5, <2>1, TakeInv
<1>6. CASE x.t = "exc" /\ Return(TakeException(x.st, x.exc), "Ok")
  <2> HIDE DEF x
  <2> QED
    BY <1>2, <1>3, <1>4, <1>6, TakeInv
<1>7. CASE x.t = "err" /\ Return(x.st, x.error)
  <2> HIDE DEF x
  <2> QED
    BY <1>2, <1>4, <1>7, ErrorInv
<1>8. ASSUME x.t = "ok", NEW r \in read_instruction(x.st, x.tr),
             \/ r.t = "hardware" /\ Return(TakeException(r.st, [t |-> "InstructionBusError"]), "Ok")
             \/ r.t = "err" /\ Return(r.st, r.error)
      PROVE  Inv'
  <2> HIDE DEF x
  <2>1. IsRead(x.st, r)
    BY <1>2, <1>3, <1>4, <1>8, ReadInstructionOK
  <2>2. StateOK(r.st) /\ SameGpr(state, r.st) /\ FloatLine(r.st)
    BY <1>4, <2>1, SameLine DEF IsRead, Accessed, SameGpr
  <2>3. IsException([t |-> "InstructionBusError"])
    BY PlainExceptions
  <2>4. CASE Return(TakeException(r.st, [t |-> "InstructionBusError"]), "Ok")
    BY <1>2, <2>2, <2>3, <2>4, TakeInv
  <2>5. CASE Return(r.st, r.error)
    BY <1>2, <2>2, <2>5, ErrorInv
  <2>6. QED
    BY <1>8, <2>4, <2>5
<1>9. QED
  <2>1. \/ Return(TakeException(s, [t |-> "InstructionAddressError", address |-> s.pc]), "Ok")
        \/ x.t = "exc" /\ Return(TakeException(x.st, x.exc), "Ok")
        \/ x.t = "err" /\ Return(x.st, x.error)
        \/ /\ x.t = "ok"
           /\ \E r \in read_instruction(x.st, x.tr) :
                \/ r.t = "hardware"
                   /\ Return(TakeException(r.st, [t |-> "InstructionBusError"]), "Ok")
                \/ r.t = "err" /\ Return(r.st, r.error)
    BY DEF StepFetchFails, s
  <2> HIDE DEF x
  <2>2. QED
    BY <1>5, <1>6, <1>7, <1>8, <2>1

LEMMA InterruptInv ==
    ASSUME Inv, StepInterrupt
    PROVE  Inv'
<1>1. StateOK(Begin) /\ SameGpr(state, Begin) /\ program \in Programs
  BY BeginOK DEF Inv
<1>2. PICK r \in Fetched(Begin) : Return(TakeException(r.st, [t |-> "Interrupt"]), "Ok")
  BY DEF StepInterrupt
<1>3. Calls /\ UNCHANGED order
  BY DEF StepInterrupt
<1>4. StateOK(r.st) /\ SameGpr(state, r.st)
  BY <1>1, <1>2, FetchedOK DEF Accessed, SameGpr
<1>5. IsException([t |-> "Interrupt"])
  BY PlainExceptions
<1>6. QED
  BY <1>2, <1>3, <1>4, <1>5, TakeInv

LEMMA ExecuteInv ==
    ASSUME Inv, StepExecute
    PROVE  Inv'
<1>1. /\ StateOK(Begin) /\ FloatLine(Begin) /\ SameGpr(state, Begin)
      /\ program \in Programs /\ Ordered(order, state)
  BY BeginOK DEF Inv
<1>2. PICK r \in Fetched(Begin) :
         \E i \in {decode(InstructionOf(r.data))} : \E o \in Outcomes(r.st, i) :
              \/ /\ o.t = "done"
                 /\ Return(synchronize_cp1_interrupt(
                             complete_instruction(o.st, o.resume, o.effect)), "Ok")
                 /\ order' = ProgramOrder(r.st, i, o)
              \/ /\ o.t = "exc"
                 /\ Return(TakeException(o.st, o.exc), "Ok")
                 /\ UNCHANGED order
              \/ /\ o.t = "err"
                 /\ Return(o.st, o.error)
                 /\ UNCHANGED order
  BY DEF StepExecute
<1>3. PICK i \in {decode(InstructionOf(r.data))} : \E o \in Outcomes(r.st, i) :
              \/ /\ o.t = "done"
                 /\ Return(synchronize_cp1_interrupt(
                             complete_instruction(o.st, o.resume, o.effect)), "Ok")
                 /\ order' = ProgramOrder(r.st, i, o)
              \/ /\ o.t = "exc"
                 /\ Return(TakeException(o.st, o.exc), "Ok")
                 /\ UNCHANGED order
              \/ /\ o.t = "err"
                 /\ Return(o.st, o.error)
                 /\ UNCHANGED order
  BY <1>2
<1>4. PICK o \in Outcomes(r.st, i) :
              \/ /\ o.t = "done"
                 /\ Return(synchronize_cp1_interrupt(
                             complete_instruction(o.st, o.resume, o.effect)), "Ok")
                 /\ order' = ProgramOrder(r.st, i, o)
              \/ /\ o.t = "exc"
                 /\ Return(TakeException(o.st, o.exc), "Ok")
                 /\ UNCHANGED order
              \/ /\ o.t = "err"
                 /\ Return(o.st, o.error)
                 /\ UNCHANGED order
  BY <1>3
<1>5. Calls
  BY DEF StepExecute
<1> DEFINE s == r.st
<1>6. Accessed(Begin, s) /\ r.data \in Word
  BY <1>1, FetchedOK
<1> HIDE DEF s
<1>7. StateOK(s) /\ SameGpr(state, s) /\ FloatLine(s)
  BY <1>1, <1>6, SameLine DEF Accessed, SameGpr
<1>8. IsInstruction(i) /\ i.t \in Kinds
  BY <1>6, ProgramAssumption, DecodeKinds
<1>9. IsOutcome(s, i, o)
  BY <1>1, <1>7, <1>8, OutcomesOK DEF s
<1>10. CASE /\ o.t = "exc" /\ Return(TakeException(o.st, o.exc), "Ok") /\ UNCHANGED order
  <2>1. StateOK(o.st) /\ SameGpr(state, o.st) /\ IsException(o.exc)
    BY <1>7, <1>9, <1>10 DEF IsOutcome, SameGpr
  <2>2. QED
    BY <1>5, <1>10, <2>1, TakeInv
<1>11. CASE /\ o.t = "err" /\ Return(o.st, o.error) /\ UNCHANGED order
  <2>1. StateOK(o.st) /\ SameGpr(s, o.st) /\ SameFloat(s, o.st)
    BY <1>9, <1>11 DEF IsOutcome
  <2>2. SameGpr(state, o.st) /\ FloatLine(o.st)
    BY <1>7, <2>1, SameLine DEF SameGpr
  <2>3. QED
    BY <1>5, <1>11, <2>1, <2>2, ErrorInv
<1>12. CASE /\ o.t = "done"
            /\ Return(synchronize_cp1_interrupt(
                         complete_instruction(o.st, o.resume, o.effect)), "Ok")
            /\ order' = ProgramOrder(s, i, o)
  <2> DEFINE c == complete_instruction(o.st, o.resume, o.effect)
             u == synchronize_cp1_interrupt(c)
  <2>1. StateOK(o.st) /\ o.resume \in Word \cup {NoResume} /\ IsEffect(o.effect)
    BY <1>9, <1>12 DEF IsOutcome
  <2>2. /\ StateOK(c)
        /\ \A x \in Registers \ {0} :
             Landed(c, x) = IF o.effect.t = "Gpr" /\ o.effect.index = x THEN o.effect.value
                            ELSE Landed(o.st, x)
    BY <2>1, CompleteOK
  <2> HIDE DEF c
  <2>3. StateOK(u) /\ SameGpr(c, u) /\ FloatLine(u)
    BY <2>2, SynchronizeOK
  <2> HIDE DEF u
  <2>4. \A x \in Registers \ {0} :
             Landed(u, x) = IF o.effect.t = "Gpr" /\ o.effect.index = x THEN o.effect.value
                            ELSE Landed(o.st, x)
    BY <2>2, <2>3, SameLanded
  <2>5. Ordered(order, s)
    BY <1>1, <1>7, SameLanded, SameOrder
  <2>6. /\ order \in [Registers -> Word]
        /\ \A x \in Registers \ {0} : order[x] = Landed(s, x)
    BY <2>5 DEF Ordered
  <2>7. Ordered(ProgramOrder(s, i, o), u)
    BY <1>7, <1>8, <1>9, <1>12, <2>3, <2>4, <2>6, OrderOK DEF Ordered
  <2>8. state' = u /\ program' = program /\ steps' \in Nat /\ order' = ProgramOrder(s, i, o)
    BY <1>5, <1>12 DEF Return, Calls, u, c, Inv
  <2>9. QED
    BY <1>1, <2>3, <2>7, <2>8 DEF Inv, StateOK, FloatLine, Ordered, Landed
<1>13. QED
  BY <1>4, <1>10, <1>11, <1>12 DEF s

LEMMA LinesInv ==
    ASSUME Inv, SetHardwareInterruptLines
    PROVE  Inv'
<1>1. PICK lines \in program.lines : state' = [state EXCEPT !.inputs.asserted = lines]
  BY DEF SetHardwareInterruptLines
<1>2. lines \in SUBSET MachineInputs
  BY ProgramAssumption DEF Inv
<1>3. UNCHANGED <<program, order, steps>>
  BY DEF SetHardwareInterruptLines
<1>4. state \in StateType
  BY DEF Inv, StateOK
<1>5. state.inputs \in [asserted : SUBSET MachineInputs, sampled : SUBSET MachineInputs]
  BY <1>4 DEF StateType
<1> DEFINE n == [state.inputs EXCEPT !.asserted = lines]
<1>6. n \in [asserted : SUBSET MachineInputs, sampled : SUBSET MachineInputs]
  BY <1>2, <1>5
<1>7. state' = [state EXCEPT !.inputs = n]
  BY <1>1, <1>4 DEF StateType
<1> HIDE DEF n
<1>8. state' \in StateType
  BY <1>4, <1>6, <1>7 DEF StateType
<1>9. /\ state'.mmu = state.mmu /\ state'.cp0 = state.cp0 /\ state'.cp1 = state.cp1
      /\ state'.cache_mode = state.cache_mode /\ state'.contexts = state.contexts
      /\ state'.pending_cp0 = state.pending_cp0
      /\ state'.gpr = state.gpr /\ state'.pending_gpr = state.pending_gpr
  BY <1>4, <1>7 DEF StateType
<1>10. StateOK(state)' /\ FloatLine(state)'
  BY <1>8, <1>9 DEF Inv, StateOK, ModeFollows, FloatLine
<1>11. Ordered(order, state)'
  BY <1>3, <1>9 DEF Inv, Ordered, Landed
<1>12. QED
  BY <1>3, <1>10, <1>11 DEF Inv

LEMMA ResetInv ==
    ASSUME Inv, Reset
    PROVE  Inv'
<1> DEFINE z == ResetState(state)
           u == synchronize_cp1_interrupt(z)
<1>1. StateOK(state) /\ program \in Programs /\ steps \in Nat
  BY DEF Inv
<1>2. StateOK(z) /\ z.gpr = state.gpr /\ z.pending_gpr = None
  BY <1>1, ResetOK
<1> HIDE DEF z
<1>3. StateOK(u) /\ SameGpr(z, u) /\ FloatLine(u)
  BY <1>2, SynchronizeOK
<1>4. state' = u /\ program' = program /\ steps' \in Nat /\ order' = state.gpr
  BY <1>1 DEF Reset, Return, Calls, z
<1> HIDE DEF u
<1>5. Ordered(state.gpr, u)
  <2>1. state.gpr \in [Registers -> Word]
    BY <1>1, StateFields DEF Gprs
  <2>2. u.gpr = state.gpr /\ u.pending_gpr = None
    BY <1>2, <1>3 DEF SameGpr
  <2>3. QED
    BY <2>1, <2>2 DEF Ordered, Landed
<1>6. QED
  BY <1>1, <1>3, <1>4, <1>5 DEF Inv, StateOK, FloatLine, Ordered, Landed

LEMMA RestoreInv ==
    ASSUME Inv, RestoreSnapshot
    PROVE  Inv'
<1> DEFINE m == CloneMmu(state.mmu)
           u == [state EXCEPT !.mmu = m]
<1>1. StateOK(state) /\ FloatLine(state)
  BY DEF Inv
<1>2. MmuOK(m)
  BY <1>1, StateFields, CloneMmuOK
<1>3. Calls /\ Return(u, "Ok") /\ UNCHANGED order
  BY DEF RestoreSnapshot
<1> HIDE DEF m
<1>4. StateOK(u) /\ SameGpr(state, u) /\ SameFloat(state, u)
  BY <1>1, <1>2, SetMmu
<1>5. FloatLine(u)
  BY <1>1, <1>4, SameLine
<1> HIDE DEF u
<1>6. QED
  BY <1>3, <1>4, <1>5, ErrorInv

LEMMA StepInv ==
    ASSUME Inv, [Next]_vars
    PROVE  Inv'
<1>1. CASE UNCHANGED vars
  BY <1>1 DEF vars, Inv, StateOK, FloatLine, Ordered, Landed
<1>2. QED
  BY <1>1, ShutdownInv, FetchFailsInv, InterruptInv, ExecuteInv, LinesInv, ResetInv,
     RestoreInv DEF Next

-----------------------------------------------------------------------------
(* The results.                                                            *)

(* Every reachable state of the processor satisfies the inductive          *)
(* invariant (R3000::step, set_hardware_interrupt_lines, reset and the     *)
(* restore of a snapshot).                                                 *)
THEOREM InvHolds == Spec => []Inv
<1>1. Init => Inv
  BY InitInv
<1>2. Inv /\ [Next]_vars => Inv'
  BY StepInv
<1>3. QED
  BY <1>1, <1>2, PTL DEF Spec

(* The processor's registers hold words, its translation buffer and caches *)
(* entries, and whatever is in flight is something that may land.          *)
THEOREM R3000Types == Spec => []TypeOK
<1>1. Inv => TypeOK
  BY DEF Inv, StateOK, Ordered, TypeOK
<1>2. QED
  BY <1>1, InvHolds, PTL

LEMMA PageInSpace ==
    ASSUME NEW p \in 0 .. (AddressSpace \div PageBytes) - 1
    PROVE  p * PageBytes \in Word
<1>1. AddressSpace \in Nat /\ PageBytes \in Nat \ {0}
  BY MmuAssumption, SpaceWord
<1>2. (AddressSpace \div PageBytes) * PageBytes <= AddressSpace /\ AddressSpace \div PageBytes \in Nat
  BY <1>1, DivMod
<1> DEFINE q == AddressSpace \div PageBytes
<1> HIDE DEF q
<1>3. q \in Nat /\ q * PageBytes <= AddressSpace /\ p \in Nat /\ p + 1 <= q
  BY <1>2 DEF q
<1>4. \A a, b, k \in Nat : a + 1 <= b => a * k + k <= b * k
  <2>1. SUFFICES ASSUME NEW a \in Nat, NEW b \in Nat, NEW k \in Nat, a + 1 <= b
                 PROVE  a * k + k <= b * k
    OBVIOUS
  <2>2. (b - (a + 1)) * k >= 0
    BY <2>1
  <2>3. QED
    BY <2>1, <2>2
<1>5. p * PageBytes + PageBytes <= q * PageBytes
  BY <1>1, <1>3, <1>4
<1>6. p * PageBytes \in Nat /\ q * PageBytes \in Nat
  BY <1>1, <1>3
<1>7. QED
  BY <1>1, <1>3, <1>5, <1>6 DEF Word

(* The lookup caches never answer with a stale translation, for every      *)
(* address, and the view of an instruction fetch lags by the writes in     *)
(* flight alone (Mmu::translate, translate_readonly, complete_write).      *)
THEOREM R3000Translations == Spec => []TranslationsAgree
<1>1. Inv => TranslationCoherent
  <2>1. SUFFICES ASSUME Inv,
                        NEW p \in 0 .. (AddressSpace \div PageBytes) - 1,
                        NEW access \in {"Instruction", "Load", "Store"}
                 PROVE  translate(state.mmu, p * PageBytes, state.cp0.asid,
                                  is_kernel_mode(state.cp0), access).tr
                          = translate_readonly(state.mmu, p * PageBytes, state.cp0.asid,
                                               is_kernel_mode(state.cp0), access)
    BY DEF TranslationCoherent
  <2>2. MmuOK(state.mmu) /\ state.cp0.asid \in Asids
    BY <2>1, StateFields DEF Inv
  <2>3. p * PageBytes \in Word
    BY PageInSpace
  <2>4. QED
    BY <2>2, <2>3, TranslateOK
<1>2. Inv => InstructionViewLags
  BY DEF Inv, StateOK, MmuOK, WriteApplied, InstructionViewLags
<1>3. Inv => TranslationsAgree
  BY <1>1, <1>2 DEF TranslationsAgree
<1>4. QED
  BY <1>3, InvHolds, PTL

(* The pipeline obeys Status and FCR31: no interrupt is enabled behind     *)
(* Status's back, the caches end up in the mode Status names, and the      *)
(* floating-point line of Cause is the level FCR31 drives (Cp0::           *)
(* write_status, take_exception, restore_status; synchronize_cp1_interrupt).*)
THEOREM R3000Control == Spec => []ControlFollowed
<1>1. Inv => InterruptEnableTracksStatus
  BY DEF Inv, StateOK, EnablesGranted, InterruptEnableTracksStatus
<1>2. Inv => CacheModeFollowsStatus
  BY DEF Inv, StateOK, ModeFollows, Final, WrittenControl, CacheModeFollowsStatus
<1>3. Inv => FloatLineTracksFcr31
  BY DEF Inv, FloatLine, FloatLineTracksFcr31
<1>4. Inv => ControlFollowed
  BY <1>1, <1>2, <1>3 DEF ControlFollowed
<1>5. QED
  BY <1>4, InvHolds, PTL

(* A load in flight never undoes a younger write, and lwl and lwr merge    *)
(* into the value program order gives the register (write_gpr,             *)
(* read_gpr_for_load_merge, commit_pending_gpr_write).                     *)
THEOREM R3000ProgramOrder == Spec => []LastWriteWins
<1>1. Inv => LastWriteWins
  BY DEF Inv, Ordered, Landed, LastWriteWins
<1>2. QED
  BY <1>1, InvHolds, PTL
=============================================================================
