------------------------------ MODULE MCR3000 ------------------------------
(***************************************************************************)
(* The R3000 with a six-bit word: two pages a segment, three TLB entries,  *)
(* one lookup-cache line, so that every lookup collides, and a generation  *)
(* counter that wraps after two invalidations.  Each program is a handful  *)
(* of words, each of which is at once an instruction, a register image and *)
(* an address; the programs exercise translation, delayed writes and mode  *)
(* changes, floating point, and the instructions that cannot execute.      *)
(***************************************************************************)
EXTENDS R3000

W(op, rs, rt, rd, sa, fn) ==
    [op |-> op, rs |-> rs, rt |-> rt, rd |-> rd, sa |-> sa, fn |-> fn]

MCInstructionOf(w) ==
    CASE w = 1 -> W(8, 0, 1, 0, 0, 0)        \* addi  r1
      [] w = 2 -> W(16, 4, 1, 10, 0, 0)      \* mtc0  r1, EntryHi
      [] w = 3 -> W(16, 4, 1, 2, 0, 0)       \* mtc0  r1, EntryLo
      [] w = 4 -> W(16, 16, 0, 0, 0, 2)      \* tlbwi
      [] w = 5 -> W(16, 16, 0, 0, 0, 6)      \* tlbwr
      [] w = 6 -> W(16, 16, 0, 0, 0, 8)      \* tlbp
      [] w = 7 -> W(16, 16, 0, 0, 0, 1)      \* tlbr
      [] w = 8 -> W(0, 1, 0, 0, 0, 8)        \* jr    r1
      [] w = 9 -> W(16, 4, 1, 12, 0, 0)      \* mtc0  r1, Status
      [] w = 10 -> W(16, 16, 0, 0, 0, 16)    \* rfe
      [] w = 11 -> W(0, 0, 0, 0, 0, 12)      \* syscall
      [] w = 12 -> W(16, 4, 1, 13, 0, 0)     \* mtc0  r1, Cause
      [] w = 13 -> W(35, 1, 1, 0, 0, 0)      \* lw    r1, 0(r1)
      [] w = 14 -> W(34, 0, 1, 0, 0, 17)     \* lwl   r1, 17(r0)
      [] w = 15 -> W(16, 0, 1, 12, 0, 0)     \* mfc0  r1, Status
      [] w = 16 -> W(0, 0, 0, 1, 0, 33)      \* addu  r1
      [] w = 17 -> W(3, 0, 0, 0, 0, 5)       \* jal
      [] w = 18 -> W(1, 1, 17, 0, 0, 1)      \* bgezal
      [] w = 19 -> W(17, 6, 1, 31, 0, 0)     \* ctc1  r1, FCR31
      [] w = 20 -> W(17, 16, 0, 0, 0, 0)     \* add.s
      [] w = 21 -> W(17, 17, 0, 0, 0, 60)    \* c.lt.d
      [] w = 22 -> W(17, 8, 1, 0, 0, 1)      \* bc1t
      [] w = 23 -> W(49, 1, 0, 0, 0, 0)      \* lwc1
      [] w = 24 -> W(6, 0, 1, 0, 0, 0)       \* undefined
      [] w = 25 -> W(60, 0, 0, 0, 0, 0)      \* reserved
      [] w = 26 -> W(18, 16, 0, 0, 0, 0)     \* coprocessor 2
      [] w = 27 -> W(16, 4, 1, 0, 0, 0)      \* mtc0  r1, Index
      [] w = 28 -> W(40, 1, 1, 0, 0, 0)      \* sb
      [] w = 29 -> W(43, 1, 1, 0, 0, 0)      \* sw
      [] w = 30 -> W(17, 20, 0, 0, 0, 32)    \* cvt.s.w
      [] w = 31 -> W(17, 16, 0, 0, 0, 6)     \* mov.s
      [] w = 32 -> W(17, 21, 0, 0, 0, 0)     \* unimplemented format
      [] w = 33 -> W(57, 1, 0, 0, 0, 0)      \* swc1
      [] w = 34 -> W(0, 0, 0, 0, 0, 13)      \* break
      [] w = 35 -> W(16, 8, 0, 0, 0, 1)      \* bc0f
      [] w = 36 -> W(17, 0, 1, 0, 0, 0)      \* mfc1
      [] w = 37 -> W(17, 4, 1, 0, 0, 0)      \* mtc1
      [] w = 38 -> W(16, 4, 1, 14, 0, 0)     \* mtc0  r1, EPC
      [] w = 39 -> W(46, 1, 1, 0, 0, 0)      \* swr
      [] OTHER -> W(0, 0, 0, 0, 0, 0)        \* nop

MCStatus(w) ==
    [bev |-> FALSE, ts |-> FALSE, cm |-> FALSE,
     isc |-> w \in {9, 29}, swc |-> w \in {9, 28},
     cu |-> IF w \in {19, 20, 21, 23, 32} THEN {1} ELSE IF w = 26 THEN {2} ELSE {},
     im |-> IF w \in {10, 12, 19, 32} THEN {0, 2, 3} ELSE {},
     user |-> <<w = 13, w \in {2, 11}, FALSE>>,
     ie |-> <<w \in {12, 19, 32}, w \in {10, 12}, FALSE>>]

MCEntryHi(w) == [vpn |-> w % 2, asid |-> (w \div 4) % 2]
MCEntryLo(w) == [pfn |-> w % 2, n |-> w = 3, d |-> w % 2 = 0, v |-> w # 5, g |-> w \in {2, 4}]
MCControl(w) ==
    [cause |-> IF w = 20 THEN {"OVERFLOW"} ELSE {},
     enables |-> IF w \in {19, 20} THEN {"OVERFLOW", "INVALID"} ELSE {},
     flags |-> {}, unimplemented |-> w = 32, condition |-> FALSE]

MCReading(register, w) ==
    CASE register = 0 -> w % TLB_ENTRY_COUNT
      [] register = 2 -> MCEntryLo(w)
      [] register = 10 -> MCEntryHi(w)
      [] register = 12 -> MCStatus(w)
      [] register = 13 -> IF w = 12 THEN {0} ELSE {}
      [] register = NoReg -> MCControl(w)
      [] OTHER -> w

MCLookupSlot(vpn, asid) == 0
MCMerge(old, new) == IF old = new THEN 0 ELSE old

P(words, lines, faults, bound) ==
    [words |-> words, lines |-> lines, faults |-> faults, steps |-> bound]

MCPrograms ==
    {P({2, 4, 13}, {{}}, FALSE, 8),               \* TLB writes under loads
     P({5, 6, 8}, {{}}, FALSE, 7),                \* TLB writes under fetches
     P({3, 5, 8}, {{}}, FALSE, 8),                \* entries that conflict
     P({1, 3, 4, 7, 27}, {{}}, FALSE, 5),
     P({1, 9, 10, 11}, {{}}, FALSE, 6),           \* Status, exceptions, rfe
     P({1, 9, 10, 12}, {{}, {3}}, FALSE, 5),      \* interrupts
     P({1, 9, 13, 28, 29}, {{}}, TRUE, 4),        \* caches and bus faults
     P({13, 14, 15, 16}, {{}}, FALSE, 5),         \* loads in flight
     P({1, 8, 17, 18}, {{}}, FALSE, 5),           \* jumps and links
     P({1, 9, 19, 20}, {{}}, FALSE, 7),           \* floating point
     P({1, 9, 19, 21, 22}, {{}}, FALSE, 6),
     P({1, 9, 19, 23, 30, 31, 32}, {{}}, TRUE, 5),
     P({1, 9, 19, 33, 35, 36, 37, 38, 39}, {{}}, FALSE, 4),
     P({1, 9, 24, 25, 26, 34}, {{}}, TRUE, 5)}    \* what cannot execute
=============================================================================
