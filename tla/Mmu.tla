--------------------------------- MODULE Mmu ----------------------------------
(***************************************************************************)
(* The R3000 memory management unit (se_cpu/src/mips1/r3000/mmu.rs): the   *)
(* translation buffer, the older view of it that instruction fetches see,  *)
(* and the lookup cache in front of each view.                             *)
(*                                                                         *)
(* Addresses are integers of a scaled address space: four segments of      *)
(* SegBytes bytes each (kuseg, kseg0, kseg1, kseg2), pages of PageBytes    *)
(* bytes.  An entry is kept by fields, its EntryLo half being everything   *)
(* but the page and the ASID.                                              *)
(***************************************************************************)
EXTENDS Naturals, Sequences, FiniteSets

CONSTANTS
    PageBytes,        \* bytes of a page
    SegBytes,         \* bytes of a segment
    TLB_ENTRY_COUNT,  \* entries of the translation buffer
    LookupSlots,      \* lines of a lookup cache
    LookupSlot(_, _), \* lookup_cache_index: the line of a page and an ASID
    MaxGeneration     \* the largest generation of a lookup cache (u32::MAX)

ASSUME MmuAssumption ==
    /\ PageBytes \in Nat \ {0} /\ SegBytes \in Nat \ {0}
    /\ TLB_ENTRY_COUNT \in Nat \ {0}
    /\ MaxGeneration \in Nat \ {0}

KSEG0_START == SegBytes
KSEG1_START == 2 * SegBytes
KSEG2_START == 3 * SegBytes
AddressSpace == 4 * SegBytes

TlbIndexes == 0 .. TLB_ENTRY_COUNT - 1
Page(va) == va \div PageBytes

NoWrite == [index |-> TLB_ENTRY_COUNT]   \* None

(* TlbEntry::INITIAL_INVALID: a page of kseg0, which is never looked up.   *)
INITIAL_INVALID ==
    [vpn |-> Page(KSEG0_START), asid |-> 0, pfn |-> 0,
     n |-> FALSE, d |-> FALSE, v |-> FALSE, g |-> FALSE]

EntryLo(e) == [pfn |-> e.pfn, n |-> e.n, d |-> e.d, v |-> e.v, g |-> e.g]

tag_matches(e, vpn, asid) == e.vpn = vpn /\ (e.g \/ e.asid = asid)

(* Two entries that match with different EntryLo halves shut the buffer    *)
(* down; entries that agree count as the first of them.                    *)
match_entries(entries, vpn, asid) ==
    LET hits == {i \in TlbIndexes : tag_matches(entries[i], vpn, asid)}
        first == CHOOSE i \in hits : \A j \in hits : i <= j
    IN IF hits = {} THEN [t |-> "Miss"]
       ELSE IF \E i \in hits : EntryLo(entries[i]) # EntryLo(entries[first])
            THEN [t |-> "Shutdown"]
            ELSE [t |-> "Match", index |-> first]

EMPTY == [generation |-> 0, vpn |-> 0, asid |-> 0, result |-> [t |-> "Miss"]]

CachedMatches(c, generation, vpn, asid) ==
    c.generation = generation /\ c.vpn = vpn /\ c.asid = asid

NewLookupCache ==
    [generation |-> 1, hot |-> EMPTY, lines |-> [l \in LookupSlots |-> EMPTY]]

(* TlbLookupCache::resolve: the result and the cache it leaves.            *)
resolve(lc, entries, vpn, asid) ==
    LET slot == LookupSlot(vpn, asid)
        line == lc.lines[slot]
        fresh == [generation |-> lc.generation, vpn |-> vpn, asid |-> asid,
                  result |-> match_entries(entries, vpn, asid)]
    IN IF CachedMatches(lc.hot, lc.generation, vpn, asid)
       THEN [lc |-> lc, result |-> lc.hot.result]
       ELSE IF CachedMatches(line, lc.generation, vpn, asid)
       THEN [lc |-> [lc EXCEPT !.hot = line], result |-> line.result]
       ELSE [lc |-> [lc EXCEPT !.hot = fresh, !.lines[slot] = fresh],
             result |-> fresh.result]

invalidate(lc) ==
    IF lc.generation < MaxGeneration
    THEN [lc EXCEPT !.generation = @ + 1]
    ELSE NewLookupCache

NewMmu ==
    [entries |-> [i \in TlbIndexes |-> INITIAL_INVALID],
     instruction_entries |-> [i \in TlbIndexes |-> INITIAL_INVALID],
     pending |-> <<NoWrite, NoWrite>>,
     main |-> NewLookupCache, fetch |-> NewLookupCache]

(* Clone for Mmu, and the serde(skip) fields: a snapshot has cold caches.  *)
CloneMmu(m) == [m EXCEPT !.main = NewLookupCache, !.fetch = NewLookupCache]

ResetMmu(m) ==
    [m EXCEPT !.instruction_entries = m.entries,
              !.pending = <<NoWrite, NoWrite>>,
              !.main = invalidate(@), !.fetch = invalidate(@)]

finish_mapped_translation(entries, va, access, result) ==
    IF result.t # "Match"
    THEN [ok |-> FALSE, fault |-> result.t]
    ELSE LET e == entries[result.index]
         IN IF ~e.v THEN [ok |-> FALSE, fault |-> "Invalid"]
            ELSE IF access = "Store" /\ ~e.d
            THEN [ok |-> FALSE, fault |-> "Modified"]
            ELSE [ok |-> TRUE, address |-> (e.pfn * PageBytes) + (va % PageBytes),
                  cached |-> ~e.n]

(* The view and the lookup cache an access goes through.                   *)
translate_mapped(m, va, asid, access) ==
    LET view == IF access = "Instruction" THEN m.instruction_entries ELSE m.entries
        r == resolve(IF access = "Instruction" THEN m.fetch ELSE m.main,
                     view, Page(va), asid)
    IN [mmu |-> IF access = "Instruction" THEN [m EXCEPT !.fetch = r.lc]
                                          ELSE [m EXCEPT !.main = r.lc],
        tr |-> finish_mapped_translation(view, va, access, r.result)]

translate_mapped_readonly(m, va, asid, access) ==
    LET view == IF access = "Instruction" THEN m.instruction_entries ELSE m.entries
    IN finish_mapped_translation(view, va, access,
                                 match_entries(view, Page(va), asid))

Mapped(va, kernel) == va < KSEG0_START \/ (va >= KSEG2_START /\ kernel)

Unmapped(va, kernel) ==
    IF ~kernel THEN [ok |-> FALSE, fault |-> "AddressError"]
    ELSE [ok |-> TRUE, address |-> va % SegBytes, cached |-> va < KSEG1_START]

translate(m, va, asid, kernel, access) ==
    IF Mapped(va, kernel) THEN translate_mapped(m, va, asid, access)
    ELSE [mmu |-> m, tr |-> Unmapped(va, kernel)]

translate_readonly(m, va, asid, kernel, access) ==
    IF Mapped(va, kernel) THEN translate_mapped_readonly(m, va, asid, access)
    ELSE Unmapped(va, kernel)

probe(m, vpn, asid) == match_entries(m.entries, vpn, asid)

(* advance_instruction_view_with: the oldest write reaches the view that   *)
(* instruction fetches use, and the new one (or None) queues behind.       *)
advance_instruction_view_with(m, write) ==
    LET due == m.pending[1]
        queued == [m EXCEPT !.pending = <<m.pending[2], write>>]
    IN IF due = NoWrite THEN queued
       ELSE [queued EXCEPT !.instruction_entries[due.index] = due.entry,
                           !.fetch = invalidate(@)]

advance_instruction_view(m) == advance_instruction_view_with(m, NoWrite)

\* Mutant: the lookup cache of loads and stores is not invalidated.
CompleteWriteUncached(m, index, entry) ==
    advance_instruction_view_with([m EXCEPT !.entries[index] = entry],
                                  [index |-> index, entry |-> entry])

complete_write(m, index, entry) ==
    advance_instruction_view_with(
        [m EXCEPT !.entries[index] = entry, !.main = invalidate(@)],
        [index |-> index, entry |-> entry])

-----------------------------------------------------------------------------
(***************************************************************************)
(* The instruction and data caches (se_cpu/src/mips1/r3000/cache.rs):      *)
(* direct mapped, one word an entry, refilled in blocks, written through.  *)
(* Physical addresses are in words; the bytes of a word are not told       *)
(* apart, so a partial store leaves some word of `data` behind.            *)
(***************************************************************************)

CONSTANTS
    CacheWords,           \* entries of a cache, a power of two
    RefillWords,          \* words of a refill block
    FrameWords,           \* words of a page frame
    PartialStoreEnabled   \* R3000Config::partial_store_enabled

ASSUME CacheAssumption ==
    /\ CacheWords \in Nat \ {0} /\ RefillWords \in Nat \ {0} /\ FrameWords \in Nat \ {0}
    /\ PartialStoreEnabled \in BOOLEAN

Slots == 0 .. CacheWords - 1
INVALID == [frame |-> 0, data |-> 0, valid |-> FALSE]
NewCache == [i \in Slots |-> INVALID]

slot(word) == word % CacheWords
frame(word) == word \div FrameWords
hit(cache, word) == cache[slot(word)].valid /\ cache[slot(word)].frame = frame(word)

RefillBlock(word) ==
    LET base == (word \div RefillWords) * RefillWords IN base .. base + RefillWords - 1

(* Cache::read on a hit, and the refill of a whole block on a miss: `bus`  *)
(* gives the words read, and nothing is stored unless every read succeeds. *)
refill(cache, word, bus) ==
    [i \in Slots |->
        IF \E w \in RefillBlock(word) : slot(w) = i
        THEN LET w == CHOOSE x \in RefillBlock(word) : slot(x) = i
             IN [frame |-> frame(w), data |-> bus[w], valid |-> TRUE]
        ELSE cache[i]]

(* Cache::write after the bus accepted the store.                          *)
write(cache, word, full, data) ==
    IF full
    THEN [cache EXCEPT ![slot(word)] =
             [frame |-> frame(word), data |-> data, valid |-> TRUE]]
    ELSE IF ~PartialStoreEnabled
    THEN [cache EXCEPT ![slot(word)].valid = FALSE]
    ELSE IF hit(cache, word) THEN [cache EXCEPT ![slot(word)].data = data] ELSE cache

write_isolated(cache, word, full, data) ==
    IF full
    THEN [cache EXCEPT ![slot(word)] =
             [frame |-> frame(word), data |-> data, valid |-> TRUE]]
    ELSE [cache EXCEPT ![slot(word)].valid = FALSE]
=============================================================================
