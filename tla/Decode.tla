------------------------------- MODULE Decode -------------------------------
(***************************************************************************)
(* Instruction decoding (se_cpu/src/mips1/r3000/decode.rs).  A word is its *)
(* fields op, rs, rt, rd, sa, fn.  Instructions that differ only in the    *)
(* value they compute decode to the same record: what is kept is the unit  *)
(* that executes it, the registers it writes and reads, how it can trap,   *)
(* and where it can branch.                                                *)
(***************************************************************************)
EXTENDS Naturals

NoReg == 32                                  \* no destination register

immediate(w) == w.rd * 2048 + w.sa * 64 + w.fn
target(w) == (w.rs * 32 + w.rt) * 65536 + immediate(w)
UnusedClear(w) == w.sa = 0 /\ w.fn = 0       \* COPROCESSOR_TRANSFER_UNUSED_MASK

Alu(dest, traps) == [t |-> "Alu", dest |-> dest, traps |-> traps]
Jump(link, w) == [t |-> "Jump", link |-> link, target |-> target(w)]
JumpRegister(link, rs) == [t |-> "JumpRegister", link |-> link, rs |-> rs]
Branch(link, w) == [t |-> "Branch", link |-> link, offset |-> immediate(w)]
Memory(t, w, bytes) ==
    [t |-> t, base |-> w.rs, rt |-> w.rt, offset |-> immediate(w), bytes |-> bytes]
Plain(t) == [t |-> t]
Unsupported(unit) == [t |-> "UnsupportedCoprocessor", unit |-> unit]

(* Shifts, moves, arithmetic and logic of opcode 0; only 0x20 and 0x22     *)
(* (add, sub) detect overflow, and mthi, mtlo, mult, div write no GPR.     *)
decode_special(w) ==
    CASE w.fn \in {0, 2, 3, 4, 6, 7, 16, 18} \cup (32 .. 39) \cup {42, 43} ->
            Alu(w.rd, w.fn \in {32, 34})
      [] w.fn \in {17, 19} \cup (24 .. 27) -> Alu(NoReg, FALSE)
      [] w.fn = 8 -> JumpRegister(NoReg, w.rs)
      [] w.fn = 9 -> JumpRegister(w.rd, w.rs)
      [] w.fn = 12 -> Plain("Syscall")
      [] w.fn = 13 -> Plain("Breakpoint")
      [] OTHER -> Plain("Reserved")

(* Bit 1 of rt is ignored (REGIMM_SELECTOR_MASK).                          *)
decode_regimm(w) ==
    CASE w.rt \in {0, 1, 2, 3} -> Branch(NoReg, w)
      [] w.rt \in {16, 17, 18, 19} -> Branch(31, w)
      [] OTHER -> Plain("Undefined")

decode_cp0(w) ==
    CASE w.rs \in {0, 2} /\ UnusedClear(w) -> [t |-> "Mfc0", rt |-> w.rt, rd |-> w.rd]
      [] w.rs \in {4, 6} /\ UnusedClear(w) -> [t |-> "Mtc0", rt |-> w.rt, rd |-> w.rd]
      [] w.rs \in {0, 2, 4, 6} /\ ~UnusedClear(w) -> Plain("Undefined")
      [] w.rs = 8 /\ w.rt \in {0, 1} -> [t |-> "Bc0", offset |-> immediate(w), on |-> w.rt = 1]
      [] w.rs = 8 /\ w.rt \notin {0, 1} -> Plain("Undefined")
      [] /\ w.rs = 16 /\ w.rt = 0 /\ w.rd = 0 /\ w.sa = 0
         /\ w.fn \in {1, 2, 6, 8, 16} ->
            Plain(CASE w.fn = 1 -> "Tlbr" [] w.fn = 2 -> "Tlbwi" [] w.fn = 6 -> "Tlbwr"
                    [] w.fn = 8 -> "Tlbp" [] w.fn = 16 -> "Rfe")
      [] OTHER -> Plain("Reserved")

(* Formats: rs 16 single, 17 double, 20 word.                              *)
decode_cp1_computational(w) ==
    CASE w.rs \in {16, 17} /\ w.fn \in {0, 1, 2, 3, 5, 7} -> Plain("Float")
      [] w.rs \in {16, 17} /\ w.fn = 6 -> Plain("FloatMove")
      [] \/ w.rs = 16 /\ w.fn \in {33, 36}
         \/ w.rs = 17 /\ w.fn \in {32, 36} -> [t |-> "Convert", word |-> FALSE]
      [] w.rs = 20 /\ w.fn \in {32, 33} -> [t |-> "Convert", word |-> TRUE]
      [] w.rs \in {16, 17} /\ w.fn \in 48 .. 63 ->
            [t |-> "Compare", signaling |-> w.fn >= 56]
      [] OTHER -> Plain("UnimplementedOperation")

decode_cp1(w) ==
    CASE w.rs \in {0, 2} /\ UnusedClear(w) -> [t |-> "Mfc1", rt |-> w.rt]
      [] w.rs = 4 /\ UnusedClear(w) -> Plain("Mtc1")
      [] w.rs = 6 /\ UnusedClear(w) -> [t |-> "Ctc1", rt |-> w.rt, rd |-> w.rd]
      [] w.rs \in {0, 2, 4, 6} /\ ~UnusedClear(w) -> Plain("Undefined")
      [] w.rs = 8 /\ w.rt \in {0, 1} -> [t |-> "Bc1", offset |-> immediate(w), on |-> w.rt = 1]
      [] w.rs = 8 /\ w.rt \notin {0, 1} -> Plain("Undefined")
      [] w.rs \in 16 .. 31 -> decode_cp1_computational(w)
      [] OTHER -> Plain("Reserved")

decode_unsupported_coprocessor(w) ==
    IF \/ w.rs \in {0, 2, 4, 6} /\ UnusedClear(w)
       \/ w.rs = 8 /\ w.rt \in {0, 1}
       \/ w.rs \in 16 .. 31
    THEN Unsupported(w.op - 16)
    ELSE Plain("Reserved")

decode(w) ==
    CASE w.op = 0 -> decode_special(w)
      [] w.op = 1 -> decode_regimm(w)
      [] w.op = 2 -> Jump(NoReg, w)
      [] w.op = 3 -> Jump(31, w)
      [] w.op \in {4, 5} -> Branch(NoReg, w)
      [] w.op \in {6, 7} /\ w.rt = 0 -> Branch(NoReg, w)
      [] w.op \in {6, 7} /\ w.rt # 0 -> Plain("Undefined")
      [] w.op \in 8 .. 15 -> Alu(w.rt, w.op = 8)
      [] w.op = 16 -> decode_cp0(w)
      [] w.op = 17 -> decode_cp1(w)
      [] w.op \in {18, 19} -> decode_unsupported_coprocessor(w)
      [] w.op \in {32, 36} -> Memory("Load", w, 1)
      [] w.op \in {33, 37} -> Memory("Load", w, 2)
      [] w.op = 35 -> Memory("Load", w, 4)
      [] w.op = 34 -> Memory("LoadLeft", w, 4)
      [] w.op = 38 -> Memory("LoadRight", w, 4)
      [] w.op = 40 -> Memory("Store", w, 1)
      [] w.op = 41 -> Memory("Store", w, 2)
      [] w.op = 43 -> Memory("Store", w, 4)
      [] w.op = 42 -> Memory("StoreLeft", w, 4)
      [] w.op = 46 -> Memory("StoreRight", w, 4)
      [] w.op = 49 -> Memory("Lwc1", w, 4)
      [] w.op = 57 -> Memory("Swc1", w, 4)
      [] w.op \in {50, 51} -> Unsupported(w.op - 48)
      [] w.op \in {58, 59} -> Unsupported(w.op - 56)
      [] OTHER -> Plain("Reserved")
=============================================================================
