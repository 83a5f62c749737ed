------------------------------- MODULE R3000 -------------------------------
(***************************************************************************)
(* The R3000 processor (se_cpu/src/mips1/r3000.rs and r3000/): one call of *)
(* `step` executes one instruction or takes one exception.                 *)
(*                                                                         *)
(* A machine word is a member of a small set; Reading(register, word) is   *)
(* the fields a word has as a value of a coprocessor register, and         *)
(* InstructionOf(word) the fields it has as an instruction.  program.words *)
(* is the set of words the bus may answer a read with: the contents of     *)
(* memory, DMA and devices are the environment's.  An arithmetic result is *)
(* any word of program.words.                                              *)
(***************************************************************************)
EXTENDS Integers, Sequences, FiniteSets, Mmu, Coprocessors, Decode

CONSTANTS
    Programs,             \* what the environment may do in a run: the words the bus
                          \* answers with, the sets of interrupt inputs the board
                          \* drives, whether the bus faults, the calls it makes
    Registers,            \* general registers the instructions name
    Reading(_, _), InstructionOf(_),
    Merge(_, _),          \* lwl, lwr: a register merged with a memory word
    JumpRegion            \* bytes of the region a jump stays in

VARIABLES
    state,                \* R3000.state
    result,               \* what the last call of step returned
    program,              \* the environment of this run
    order,                \* the last value written to each register, in program order
    steps                 \* calls made

vars == <<state, result, program, order, steps>>

RESET_PC == KSEG1_START
CACHE_TRANSITION_PERIODS == 3
SAVED_CACHE_CONTEXT_LEVELS == 2
MachineInputs == 3 .. 7                  \* MACHINE_INTERRUPT_INPUTS, as Cause lines
None == [none |-> TRUE]                  \* Option::None
NoResume == -1                           \* the instruction does not branch

(* The values of a register, and the address spaces a process may have.    *)
Word == 0 .. AddressSpace - 1
Asids == {0} \cup {Reading(10, w).asid : w \in Word}

(* The address map: a page fits a segment, the boot vectors are in kseg1,  *)
(* jump regions tile the space, and Random names entries of the buffer.    *)
ASSUME LayoutAssumption ==
    /\ PageBytes <= SegBytes /\ SegBytes > 4
    /\ JumpRegion \in Nat \ {0}
    /\ \E k \in 1 .. AddressSpace : AddressSpace = k * JumpRegion
    /\ RandomTop < TLB_ENTRY_COUNT
    /\ 0 \in Registers /\ Registers \subseteq 0 .. NoReg - 1
    /\ \A va \in Word, asid \in Asids : LookupSlot(Page(va), asid) \in LookupSlots

-----------------------------------------------------------------------------
(* State (state.rs).                                                       *)

settled(control) == [effective |-> control, transition |-> None]

NewState ==
    [gpr |-> [r \in Registers |-> 0], pc |-> RESET_PC, delay_slot |-> None,
     cp0 |-> NewCp0, cp1 |-> NewCp1, mmu |-> NewMmu,
     caches |-> [Instruction |-> NewCache, Data |-> NewCache],
     pending_gpr |-> None, pending_cp0 |-> None, pending_cp1 |-> None,
     inputs |-> [asserted |-> {}, sampled |-> {}],
     cache_mode |-> settled(CacheControl(BootStatus)), contexts |-> <<>>]

ResetState(s) ==
    LET cp0 == ResetCp0(s.cp0, s.pc)
    IN [s EXCEPT !.cp0 = cp0, !.mmu = ResetMmu(@), !.pc = RESET_PC,
                 !.delay_slot = None, !.pending_gpr = None, !.pending_cp0 = None,
                 !.pending_cp1 = None, !.cache_mode = settled(CacheControl(cp0.status)),
                 !.contexts = <<>>]

read_gpr(s, r) == IF r = 0 THEN 0 ELSE s.gpr[r]

write_gpr_direct(s, r, value) ==
    IF r \in {0, NoReg} THEN s ELSE [s EXCEPT !.gpr[r] = value]

commit_pending_gpr_write(s) ==
    IF s.pending_gpr = None THEN s
    ELSE write_gpr_direct([s EXCEPT !.pending_gpr = None],
                          s.pending_gpr.index, s.pending_gpr.value)

\* Mutant: the load in flight is left to land later.
WriteGprUncommitted(s, r, value) == write_gpr_direct(s, r, value)

(* An instruction's own result lands after the load it overtakes.          *)
write_gpr(s, r, value) ==
    IF r = NoReg THEN s ELSE write_gpr_direct(commit_pending_gpr_write(s), r, value)

(* The operand lwl and lwr merge into: a load still in flight is bypassed. *)
read_gpr_for_load_merge(s, r) ==
    IF r # 0 /\ s.pending_gpr # None /\ s.pending_gpr.index = r /\ s.pending_gpr.bypass
    THEN s.pending_gpr.value ELSE read_gpr(s, r)

commit_pending_cp0_write(s) ==
    IF s.pending_cp0 = None THEN s
    ELSE [s EXCEPT !.pending_cp0 = None,
                   !.cp0 = write_register(@, s.pending_cp0.index,
                                          Reading(s.pending_cp0.index, s.pending_cp0.value))]

commit_pending_cp1_write(s) ==
    IF s.pending_cp1 = None THEN s
    ELSE [s EXCEPT !.pending_cp1 = None,
                   !.cp1 = CASE s.pending_cp1.t = "General" -> @
                             [] s.pending_cp1.t = "Control" ->
                                  write_control_status(@, s.pending_cp1.value)
                             [] s.pending_cp1.t = "Condition" ->
                                  write_condition(@, s.pending_cp1.condition)]

(* The inputs sampled by the previous step become the Cause lines.         *)
advance_machine_interrupt_inputs(s) ==
    [s EXCEPT !.cp0 = set_hardware_interrupt_lines(@, MachineInputs, s.inputs.sampled),
              !.inputs.sampled = s.inputs.asserted]

synchronize_cp1_interrupt(s) ==
    [s EXCEPT !.cp0 = set_hardware_interrupt_lines(
                          @, {CP1_INTERRUPT_LINE},
                          IF interrupt_asserted(s.cp1) THEN {CP1_INTERRUPT_LINE} ELSE {})]

advance_cache_transition(s) ==
    IF s.cache_mode.transition = None THEN s
    ELSE IF s.cache_mode.transition.age + 1 < CACHE_TRANSITION_PERIODS
    THEN [s EXCEPT !.cache_mode.transition.age = @ + 1]
    ELSE [s EXCEPT !.cache_mode = settled(s.cache_mode.transition.target)]

(* A transfer to Status that changes the cache bits starts a transition.   *)
note_status_transfer(s, register, value) ==
    LET target_control == CacheControl(status_after_write(s.cp0, Reading(12, value)))
    IN IF register # 12 \/ target_control = CacheControl(s.cp0.status) THEN s
       ELSE [s EXCEPT !.cache_mode.transition = [target |-> target_control, age |-> 0]]

PushContext(levels, context) ==
    SubSeq(<<context>> \o levels, 1,
           IF Len(levels) < SAVED_CACHE_CONTEXT_LEVELS THEN Len(levels) + 1
           ELSE SAVED_CACHE_CONTEXT_LEVELS)

CommitPending(s) ==
    commit_pending_cp1_write(commit_pending_cp0_write(commit_pending_gpr_write(
        [s EXCEPT !.cp0 = commit_pending_functional(@)])))

(* complete_instruction: older writes land, then the effect is taken.      *)
ApplyEffect(s, effect) ==
    CASE effect.t = "None" -> s
      [] effect.t = "Gpr" -> [s EXCEPT !.pending_gpr =
             [index |-> effect.index, value |-> effect.value, bypass |-> effect.bypass]]
      [] effect.t = "Cp0" ->
             [note_status_transfer(s, effect.index, effect.value) EXCEPT !.pending_cp0 =
                 [index |-> effect.index, value |-> effect.value]]
      [] effect.t = "Cp1" -> [s EXCEPT !.pending_cp1 = effect.write]
      [] effect.t = "TlbRead" -> [s EXCEPT !.cp0.vpn = effect.entry.vpn,
             !.cp0.asid = effect.entry.asid, !.cp0.lo = EntryLo(effect.entry)]
      [] effect.t = "TlbProbe" ->
             [s EXCEPT !.cp0.index = effect.index, !.cp0.failed = effect.failed]
      [] effect.t = "TlbWrite" ->
             [s EXCEPT !.mmu = complete_write(@, effect.index, effect.entry)]
      [] effect.t = "RestoreStatus" ->
             LET r == [s EXCEPT !.cp0 = restore_status(@, effect.user, effect.ie)]
             IN IF s.contexts = <<>> THEN r
                ELSE [r EXCEPT !.cache_mode = Head(s.contexts).mode,
                               !.cp0 = set_status_cache_control(@, Head(s.contexts).status_bits),
                               !.contexts = Tail(@)]

complete_instruction(s, resume, effect) ==
    LET done == ApplyEffect(CommitPending(s), effect)
    IN [done EXCEPT
          !.mmu = IF effect.t = "TlbWrite" THEN @ ELSE advance_instruction_view(@),
          !.pc = IF s.delay_slot = None THEN (s.pc + 4) % AddressSpace
                 ELSE s.delay_slot.resume,
          !.delay_slot = IF resume = NoResume THEN None
                         ELSE [origin |-> s.pc, resume |-> resume],
          !.cp0 = advance_random(@)]

VectorAddress(v) ==
    CASE v = <<"ram", "refill">> -> KSEG0_START
      [] v = <<"ram", "general">> -> KSEG0_START + PageBytes
      [] v = <<"boot", "refill">> -> KSEG1_START + 4
      [] v = <<"boot", "general">> -> KSEG1_START + PageBytes

(* take_exception: the handler starts from the effective cache control and *)
(* the interrupted context keeps its own until its rfe.                    *)
RecognizeException(s, e) ==
    LET c == CommitPending(s)
        recognition == c.cache_mode.effective
        context == [status_bits |-> CacheControl(c.cp0.status), mode |-> c.cache_mode]
        in_slot == s.delay_slot # None
        cp0 == take_exception(set_status_cache_control(c.cp0, recognition), e,
                              IF in_slot THEN s.delay_slot.origin ELSE s.pc, in_slot)
    IN [c EXCEPT !.contexts = PushContext(@, context),
                 !.cache_mode = settled(recognition),
                 !.delay_slot = None,
                 !.cp0 = advance_random(cp0),
                 !.pc = VectorAddress(ExceptionVector(c.cp0, e)),
                 !.mmu = advance_instruction_view(@)]

(* Every step that takes an exception ends by sampling the floating-point  *)
(* line, for an FCR31 write may have landed.                               *)
TakeException(s, e) == synchronize_cp1_interrupt(RecognizeException(s, e))

-----------------------------------------------------------------------------
(* Address translation and memory.                                         *)

translation_exception(va, access, fault) ==
    CASE fault = "AddressError" ->
            [t |-> CASE access = "Instruction" -> "InstructionAddressError"
                     [] access = "Load" -> "LoadAddressError"
                     [] access = "Store" -> "StoreAddressError",
             address |-> va]
      [] fault \in {"Miss", "Invalid"} ->
            [t |-> IF access = "Store" THEN "TlbStore" ELSE "TlbLoad",
             address |-> va, vpn |-> Page(va),
             refill |-> fault = "Miss" /\ va < KSEG0_START]
      [] fault = "Modified" -> [t |-> "TlbModified", address |-> va, vpn |-> Page(va)]

translate_address(s, va, access) ==
    LET r == translate(s.mmu, va, s.cp0.asid, is_kernel_mode(s.cp0), access)
        st == [s EXCEPT !.mmu = r.mmu]
    IN IF r.tr.ok THEN [t |-> "ok", st |-> st, tr |-> r.tr]
       ELSE IF r.tr.fault = "Shutdown"
       THEN [t |-> "err", st |-> [st EXCEPT !.cp0.status.ts = TRUE],
             error |-> "TlbShutdown"]
       ELSE [t |-> "exc", st |-> st, exc |-> translation_exception(va, access, r.tr.fault)]

cache_bank(kind, control) ==
    IF (kind = "Instruction") # control.swc THEN "Instruction" ELSE "Data"

(* A bus read gives a word, the fault the hardware answers with an         *)
(* exception, or one the emulator reports.                                 *)
Failures(s) ==
    IF ~program.faults THEN {}
    ELSE {[t |-> "hardware", st |-> s], [t |-> "err", st |-> s, error |-> "BusError"]}
StoreFailures(s) == {r \in Failures(s) : r.t = "err"}
Got(s, data) == [t |-> "ok", st |-> s, data |-> data]

ReadCached(s, bank, word) ==
    IF hit(s.caches[bank], word)
    THEN {Got(s, s.caches[bank][slot(word)].data)}
    ELSE {Got([s EXCEPT !.caches[bank] = refill(@, word, bus)], bus[word]) :
             bus \in [RefillBlock(word) -> program.words]} \cup Failures(s)

ReadUncached(s) == {Got(s, data) : data \in program.words} \cup Failures(s)

WordAddress(tr) == tr.address \div 4

read_instruction(s, tr) ==
    IF tr.cached
    THEN ReadCached(s, cache_bank("Instruction", s.cache_mode.effective), WordAddress(tr))
    ELSE ReadUncached(s)

load_data(s, tr) ==
    LET control == s.cache_mode.effective
        bank == cache_bank("Data", control)
    IN IF control.isc
       THEN {Got([s EXCEPT !.cp0.status.cm = ~hit(s.caches[bank], WordAddress(tr))],
                 s.caches[bank][slot(WordAddress(tr))].data)}
       ELSE IF tr.cached THEN ReadCached(s, bank, WordAddress(tr))
       ELSE ReadUncached(s)

(* A failed store is an error of the emulator, whatever the fault.         *)
store_memory(s, tr, full, value) ==
    LET control == s.cache_mode.effective
        bank == cache_bank("Data", control)
        words == IF full THEN {value} ELSE program.words
    IN IF control.isc
       THEN {[t |-> "ok", st |-> [s EXCEPT !.caches[bank] =
                 write_isolated(@, WordAddress(tr), full, value)]]}
       ELSE StoreFailures(s) \cup
            IF tr.cached
            THEN {[t |-> "ok", st |-> [s EXCEPT !.caches[bank] =
                      write(@, WordAddress(tr), full, word)]] : word \in words}
            ELSE {[t |-> "ok", st |-> s]}

-----------------------------------------------------------------------------
(* Execution: the set of outcomes an instruction may have.  An outcome is  *)
(* completed (with the delayed resume pc and the effect), an exception, or *)
(* an error of the emulator.                                               *)

NoEffect == [t |-> "None"]
Completed(s, resume, effect) == [t |-> "done", st |-> s, resume |-> resume, effect |-> effect]
Raises(s, e) == [t |-> "exc", st |-> s, exc |-> e]
Fails(s, error) == [t |-> "err", st |-> s, error |-> error]
Unusable(unit) == [t |-> "CoprocessorUnusable", unit |-> unit]
(* `loaded` is the word the instruction obtained, before any merge.         *)
DelayedGpr(r, value, bypass, loaded) ==
    [t |-> "Gpr", index |-> r, value |-> value, bypass |-> bypass, loaded |-> loaded]

SignExtend(imm) == IF imm >= 32768 THEN imm - 65536 ELSE imm
effective_address(s, i) == (read_gpr(s, i.base) + SignExtend(i.offset)) % AddressSpace

branch_resume_pc(pc, offset, taken) ==
    IF taken THEN (pc + 4 + 4 * SignExtend(offset)) % AddressSpace
    ELSE (pc + 8) % AddressSpace

jump_target(pc, t) ==
    ((((pc + 4) % AddressSpace) \div JumpRegion) * JumpRegion) + ((4 * t) % JumpRegion)

AluOutcomes(s, i) ==
    {Completed(write_gpr(s, i.dest, value), NoResume, NoEffect) : value \in program.words}
        \cup IF i.traps THEN {Raises(s, [t |-> "Overflow"])} ELSE {}

Link(s, r) == write_gpr(s, r, (s.pc + 8) % AddressSpace)

ControlOutcomes(s, i) ==
    CASE i.t = "Jump" -> {Completed(Link(s, i.link), jump_target(s.pc, i.target), NoEffect)}
      [] i.t = "JumpRegister" -> {Completed(Link(s, i.link), read_gpr(s, i.rs), NoEffect)}
      [] i.t = "Branch" ->
            {Completed(Link(s, i.link), branch_resume_pc(s.pc, i.offset, taken), NoEffect) :
                taken \in BOOLEAN}

StagedEntry(c) ==
    [vpn |-> c.vpn, asid |-> c.asid, pfn |-> c.lo.pfn, n |-> c.lo.n, d |-> c.lo.d,
     v |-> c.lo.v, g |-> c.lo.g]

tlbp_outcome(s) ==
    LET p == probe(s.mmu, s.cp0.vpn, s.cp0.asid)
    IN CASE p.t = "Miss" ->
              Completed(s, NoResume, [t |-> "TlbProbe", index |-> 0, failed |-> TRUE])
         [] p.t = "Match" ->
              Completed(s, NoResume, [t |-> "TlbProbe", index |-> p.index, failed |-> FALSE])
         [] p.t = "Shutdown" ->
              Fails([s EXCEPT !.cp0.status.ts = TRUE], "TlbShutdown")

Cp0Outcomes(s, i) ==
    IF ~is_usable(s.cp0) THEN {Raises(s, Unusable(0))}
    ELSE CASE i.t = "Mfc0" ->
                {Completed(s, NoResume, DelayedGpr(i.rt, value, FALSE, value)) : value \in program.words}
           [] i.t = "Mtc0" ->
                {Completed(s, NoResume, [t |-> "Cp0", index |-> i.rd, value |-> read_gpr(s, i.rt)])}
           [] i.t = "Bc0" ->
                {Completed(s, branch_resume_pc(s.pc, i.offset, taken), NoEffect) :
                    taken \in BOOLEAN}
           [] i.t = "Tlbr" ->
                {Completed(s, NoResume, [t |-> "TlbRead", entry |-> s.mmu.entries[s.cp0.index]])}
           [] i.t = "Tlbwi" ->
                {Completed(s, NoResume, [t |-> "TlbWrite", index |-> s.cp0.index,
                                     entry |-> StagedEntry(s.cp0)])}
           [] i.t = "Tlbwr" ->
                {Completed(s, NoResume, [t |-> "TlbWrite", index |-> s.cp0.random,
                                     entry |-> StagedEntry(s.cp0)])}
           [] i.t = "Tlbp" -> {tlbp_outcome(s)}
           [] i.t = "Rfe" ->
                {Completed(s, NoResume,
                    [t |-> "RestoreStatus", user |-> Tail(s.cp0.status.user),
                     ie |-> Tail(s.cp0.status.ie)])}

Misaligned(va, bytes) == va % bytes # 0

(* load: alignment, translation, the read.                                 *)
load(s, i) ==
    LET va == effective_address(s, i)
        x == translate_address(s, va, "Load")
    IN IF i.t \notin {"LoadLeft", "LoadRight"} /\ Misaligned(va, i.bytes)
       THEN {Raises(s, [t |-> "LoadAddressError", address |-> va])}
       ELSE IF x.t # "ok" THEN {x}
       ELSE {IF r.t = "hardware" THEN Raises(r.st, [t |-> "DataBusError"]) ELSE r :
                r \in load_data(x.st, x.tr)}

store(s, i, full, value) ==
    LET va == effective_address(s, i)
        x == translate_address(s, va, "Store")
    IN IF i.t \notin {"StoreLeft", "StoreRight"} /\ Misaligned(va, i.bytes)
       THEN {Raises(s, [t |-> "StoreAddressError", address |-> va])}
       ELSE IF x.t # "ok" THEN {x}
       ELSE {IF r.t = "ok" THEN Completed(r.st, NoResume, NoEffect) ELSE r :
                r \in store_memory(x.st, x.tr, full, value)}

(* A word access transfers the whole word; so do lwl and swl at byte 0,    *)
(* lwr and swr at byte 3.                                                  *)
Whole(s, i) ==
    LET byte == effective_address(s, i) % 4
    IN CASE i.t = "LoadLeft" -> byte = 0
         [] i.t = "LoadRight" -> byte = 3
         [] i.t = "StoreLeft" -> byte = 0
         [] i.t = "StoreRight" -> byte = 3
         [] OTHER -> i.bytes = 4

Merges(s, i) == i.t \in {"LoadLeft", "LoadRight"} /\ ~Whole(s, i)

LoadOutcomes(s, i) ==
    {IF r.t # "ok" THEN r
     ELSE Completed(r.st, NoResume,
             DelayedGpr(i.rt, IF Merges(s, i)
                              THEN Merge(read_gpr_for_load_merge(s, i.rt), r.data)
                              ELSE r.data,
                        TRUE, r.data)) : r \in load(s, i)}

MemoryOutcomes(s, i) ==
    IF i.t \in {"Load", "LoadLeft", "LoadRight"} THEN LoadOutcomes(s, i)
    ELSE store(s, i, Whole(s, i), read_gpr(s, i.rt))

Arithmetic(s, update) ==
    LET c == commit_pending_cp1_write(s)
    IN [c EXCEPT !.cp1 = apply_fcr31_update(@, update)]

(* Cp1 outcomes carry `raised`: the operation left an exception in FCR31.  *)
Cp1Done(s, resume, effect) == {[o |-> Completed(s, resume, effect), raised |-> FALSE]}

Cp1Outcomes(s, i) ==
    IF ~coprocessor_usable(s.cp0, 1) THEN {[o |-> Raises(s, Unusable(1)), raised |-> FALSE]}
    ELSE CASE i.t = "Mfc1" -> UNION {Cp1Done(s, NoResume, DelayedGpr(i.rt, value, FALSE, value)) :
                                        value \in program.words}
           [] i.t = "Mtc1" -> Cp1Done(s, NoResume, [t |-> "Cp1", write |-> [t |-> "General"]])
           [] i.t = "Ctc1" ->
                Cp1Done(s, NoResume, [t |-> "Cp1",
                    write |-> IF i.rd = 31
                              THEN [t |-> "Control", value |-> Reading(NoReg, read_gpr(s, i.rt))]
                              ELSE [t |-> "General"]])
           [] i.t = "Bc1" ->
                Cp1Done(s, branch_resume_pc(s.pc, i.offset, s.cp1.condition = i.on), NoEffect)
           [] i.t = "Lwc1" ->
                {[o |-> IF r.t # "ok" THEN r
                        ELSE Completed(r.st, NoResume, [t |-> "Cp1", write |-> [t |-> "General"]]),
                  raised |-> FALSE] : r \in load(s, i)}
           [] i.t = "Swc1" ->
                UNION {{[o |-> r, raised |-> FALSE] : r \in store(s, i, TRUE, value)} :
                          value \in program.words}
           [] i.t = "FloatMove" -> Cp1Done(commit_pending_cp1_write(s), NoResume, NoEffect)
           [] i.t = "Float" ->
                {[o |-> Completed(Arithmetic(s, u), NoResume, NoEffect), raised |-> ~u.writeback] :
                    u \in ArithmeticUpdates(s.cp1)}
           [] i.t = "Convert" ->
                {[o |-> Completed(Arithmetic(s, u), NoResume, NoEffect), raised |-> ~u.writeback] :
                    u \in ConversionUpdates(s.cp1, i.word)}
           [] i.t = "Compare" ->
                UNION {IF u.writeback
                       THEN UNION {Cp1Done(Arithmetic(s, u), NoResume,
                                [t |-> "Cp1", write |-> [t |-> "Condition", condition |-> b]]) :
                                b \in BOOLEAN}
                       ELSE {[o |-> Completed(Arithmetic(s, u), NoResume, NoEffect), raised |-> TRUE]} :
                         u \in CompareUpdates(s.cp1, i.signaling)}
           [] i.t = "UnimplementedOperation" ->
                {[o |-> Completed(Arithmetic(s, unimplemented_update), NoResume, NoEffect),
                  raised |-> TRUE]}

(* An exception the coprocessor raised is taken on the instruction itself  *)
(* when its interrupt is enabled.                                          *)
FloatOutcomes(s, i) ==
    {LET st == synchronize_cp1_interrupt(x.o.st)
     IN IF x.o.t = "err" THEN x.o
        ELSE IF x.raised /\ interrupt_requested(st.cp0) THEN Raises(st, [t |-> "Interrupt"])
        ELSE IF x.o.t = "exc" THEN Raises(st, x.o.exc)
        ELSE Completed(st, x.o.resume, x.o.effect) : x \in Cp1Outcomes(s, i)}

Cp0Kinds == {"Mfc0", "Mtc0", "Bc0", "Tlbr", "Tlbwi", "Tlbwr", "Tlbp", "Rfe"}
MemoryKinds == {"Load", "LoadLeft", "LoadRight", "Store", "StoreLeft", "StoreRight"}

Outcomes(s, i) ==
    CASE i.t = "Alu" -> AluOutcomes(s, i)
      [] i.t \in {"Jump", "JumpRegister", "Branch"} -> ControlOutcomes(s, i)
      [] i.t \in Cp0Kinds -> Cp0Outcomes(s, i)
      [] i.t \in MemoryKinds -> MemoryOutcomes(s, i)
      [] i.t \in {"Syscall", "Breakpoint"} -> {Raises(s, [t |-> i.t])}
      [] i.t = "Reserved" -> {Raises(s, [t |-> "ReservedInstruction"])}
      [] i.t = "Undefined" -> {Fails(s, "UndefinedInstruction")}
      [] i.t = "UnsupportedCoprocessor" ->
            {IF coprocessor_usable(s.cp0, i.unit) THEN Fails(s, "UnsupportedInstruction")
             ELSE Raises(s, Unusable(i.unit))}
      [] OTHER -> FloatOutcomes(s, i)

(* The fields of an instruction that its execution uses.                   *)
Register == Registers \cup {0}
IsInstruction(i) ==
    /\ i.t = "Jump" => i.target \in Nat
    /\ i.t = "JumpRegister" => i.rs \in Register
    /\ i.t \in {"Branch", "Bc0", "Bc1"} => i.offset \in Nat
    /\ i.t \in MemoryKinds \cup {"Lwc1", "Swc1"} => i.base \in Register /\ i.offset \in Nat
    /\ i.t \in MemoryKinds \cup {"Mfc0", "Mtc0", "Mfc1", "Ctc1"} => i.rt \in Register
    /\ i.t = "Mtc0" => i.rd \in Nat
    /\ i.t = "UnsupportedCoprocessor" => i.unit \in Nat

(* A word is a word to the bus, to a merge and to the decoder.             *)
ASSUME ProgramAssumption ==
    /\ \A p \in Programs : p.words \subseteq Word /\ p.lines \subseteq SUBSET MachineInputs
    /\ \A v, w \in Word : Merge(v, w) \in Word
    /\ \A w \in Word : IsInstruction(decode(InstructionOf(w)))

-----------------------------------------------------------------------------
(* R3000::step, and the other calls of the board.                          *)

(* Program order, as a reader of the program sees it: a register has the   *)
(* value its latest writer gave it, and a merging load merges into that,   *)
(* unless a coprocessor move, which is not bypassed, is still in flight.   *)
ProgramOrder(s, i, o) ==
    LET effect == o.effect
        unbypassed(r) == /\ s.pending_gpr # None
                         /\ s.pending_gpr.index = r /\ ~s.pending_gpr.bypass
        operand(r) == IF unbypassed(r) THEN s.gpr[r] ELSE order[r]
        written == CASE i.t = "Alu" -> i.dest
                     [] i.t \in {"Jump", "JumpRegister", "Branch"} -> i.link
                     [] effect.t = "Gpr" -> effect.index
                     [] OTHER -> NoReg
    IN IF written \in {0, NoReg} THEN order
       ELSE [order EXCEPT ![written] =
                CASE effect.t # "Gpr" -> o.st.gpr[written]
                  [] effect.t = "Gpr" /\ Merges(s, i) ->
                        Merge(operand(written), effect.loaded)
                  [] OTHER -> effect.loaded]

Begin == advance_machine_interrupt_inputs(advance_cache_transition(state))

Calls == steps < program.steps /\ steps' = steps + 1

Return(st, r) ==
    /\ state' = st /\ result' = r
    /\ UNCHANGED program

(* The step fails at once while the buffer is shut down.                   *)
StepShutdown ==
    /\ Calls
    /\ state.cp0.status.ts
    /\ Return(state, "TlbShutdown")
    /\ UNCHANGED order

(* The fetch raises an exception or fails.                                 *)
StepFetchFails ==
    /\ Calls
    /\ ~state.cp0.status.ts
    /\ \E s \in {Begin} :
         \/ /\ s.pc % 4 # 0
            /\ Return(TakeException(s, [t |-> "InstructionAddressError", address |-> s.pc]), "Ok")
         \/ /\ s.pc % 4 = 0
            /\ \E x \in {translate_address(s, s.pc, "Instruction")} :
                 \/ x.t = "exc" /\ Return(TakeException(x.st, x.exc), "Ok")
                 \/ x.t = "err" /\ Return(x.st, x.error)
                 \/ /\ x.t = "ok"
                    /\ \E r \in read_instruction(x.st, x.tr) :
                         \/ /\ r.t = "hardware"
                            /\ Return(TakeException(r.st, [t |-> "InstructionBusError"]), "Ok")
                         \/ /\ r.t = "err"
                            /\ Return(r.st, r.error)
    /\ UNCHANGED order

(* The words a fetch may deliver, with the state it leaves.                *)
Fetched(s) ==
    IF s.pc % 4 # 0 THEN {}
    ELSE LET x == translate_address(s, s.pc, "Instruction")
         IN IF x.t # "ok" THEN {} ELSE {r \in read_instruction(x.st, x.tr) : r.t = "ok"}

StepInterrupt ==
    /\ Calls
    /\ ~state.cp0.status.ts
    /\ \E r \in Fetched(Begin) :
         /\ interrupt_requested(r.st.cp0)
         /\ Return(TakeException(r.st, [t |-> "Interrupt"]), "Ok")
    /\ UNCHANGED order

StepExecute ==
    /\ Calls
    /\ ~state.cp0.status.ts
    /\ \E r \in Fetched(Begin) :
         /\ ~interrupt_requested(r.st.cp0)
         /\ \E i \in {decode(InstructionOf(r.data))} : \E o \in Outcomes(r.st, i) :
              \/ /\ o.t = "done"
                 /\ Return(synchronize_cp1_interrupt(
                             complete_instruction(o.st, o.resume, o.effect)), "Ok")
                 /\ order' = ProgramOrder(r.st, i, o)
              \/ /\ o.t = "exc"
                 /\ Return(TakeException(o.st, o.exc), "Ok")
                 /\ UNCHANGED order
              \/ /\ o.t = "err"
                 /\ Return(o.st, o.error)
                 /\ UNCHANGED order

(* The board drives the interrupt inputs between steps.                    *)
SetHardwareInterruptLines ==
    \E lines \in program.lines :
        /\ lines # state.inputs.asserted
        /\ state' = [state EXCEPT !.inputs.asserted = lines]
        /\ UNCHANGED <<result, program, order, steps>>

Reset ==
    /\ Calls
    /\ Return(synchronize_cp1_interrupt(ResetState(state)), "Ok")
    /\ order' = state.gpr

(* snapshot, later restore_snapshot: the processor is again in a state it  *)
(* was in, with cold lookup caches.  Every such state is reached by steps, *)
(* so it is enough to restore the present one.                             *)
RestoreSnapshot ==
    /\ Calls
    /\ Return([state EXCEPT !.mmu = CloneMmu(@)], "Ok")
    /\ UNCHANGED order

Init ==
    /\ state = NewState
    /\ result = "Ok"
    /\ program \in Programs
    /\ order = [r \in Registers |-> 0]
    /\ steps = 0

Next ==
    \/ StepShutdown \/ StepFetchFails \/ StepInterrupt \/ StepExecute
    \/ SetHardwareInterruptLines \/ Reset \/ RestoreSnapshot

Spec == Init /\ [][Next]_vars

-----------------------------------------------------------------------------
(* Types.                                                                  *)

Triple == BOOLEAN \X BOOLEAN \X BOOLEAN
LowHalf == [pfn : Nat, n : BOOLEAN, d : BOOLEAN, v : BOOLEAN, g : BOOLEAN]
Status == [bev : BOOLEAN, ts : BOOLEAN, cm : BOOLEAN, isc : BOOLEAN, swc : BOOLEAN,
           cu : SUBSET Nat, im : SUBSET Nat, user : Triple, ie : Triple]
Fcr31 == [cause : SUBSET ExceptionFlags, enables : SUBSET ExceptionFlags,
          flags : SUBSET ExceptionFlags, unimplemented : BOOLEAN, condition : BOOLEAN]

(* Every word is a value of every register it may be moved to.             *)
ASSUME ReadingAssumption ==
    \A w \in Word :
        /\ Reading(0, w) \in TlbIndexes
        /\ Reading(2, w) \in LowHalf
        /\ Reading(10, w).vpn \in Nat
        /\ Reading(12, w) \in Status
        /\ Reading(13, w) \in SUBSET Nat
        /\ Reading(14, w) \in Word
        /\ Reading(NoReg, w) \in Fcr31

Functional == [cu : SUBSET Nat, im : SUBSET Nat, iec : BOOLEAN, sw : SUBSET Nat]
Cause == [bd : BOOLEAN, ce : Nat, code : Nat, hw : SUBSET Nat, sw : SUBSET Nat]
Cp0 == [index : TlbIndexes, failed : BOOLEAN, random : TlbIndexes, lo : LowHalf,
        vpn : Nat, asid : Asids, bad_vaddr : Word, status : Status, cause : Cause,
        epc : Word, effective : Functional, pending : Functional \cup {NoFunctional}]

Entry == [vpn : Nat, asid : Asids, pfn : Nat,
          n : BOOLEAN, d : BOOLEAN, v : BOOLEAN, g : BOOLEAN]
ProbeResult == [t : {"Miss", "Shutdown"}] \cup [t : {"Match"}, index : TlbIndexes]
Cached == [generation : 0 .. MaxGeneration, vpn : Nat, asid : Asids, result : ProbeResult]
LookupCache == [generation : 1 .. MaxGeneration, hot : Cached, lines : [LookupSlots -> Cached]]
QueuedWrite == {NoWrite} \cup [index : TlbIndexes, entry : Entry]
MmuType == [entries : [TlbIndexes -> Entry], instruction_entries : [TlbIndexes -> Entry],
            pending : QueuedWrite \X QueuedWrite, main : LookupCache, fetch : LookupCache]

Control == [isc : BOOLEAN, swc : BOOLEAN]
Mode == [effective : Control, transition : {None} \cup [target : Control, age : Nat]]
Context == [status_bits : Control, mode : Mode]
Bank == [Slots -> [frame : Nat, data : Word, valid : BOOLEAN]]
Cp1Write == [t : {"General"}] \cup [t : {"Control"}, value : Fcr31]
                \cup [t : {"Condition"}, condition : BOOLEAN]

StateType ==
    [gpr : [Registers -> Word], pc : Word,
     delay_slot : {None} \cup [origin : Word, resume : Word],
     cp0 : Cp0, cp1 : Fcr31, mmu : MmuType, caches : [Instruction : Bank, Data : Bank],
     pending_gpr : {None} \cup [index : Register, value : Word, bypass : BOOLEAN],
     pending_cp0 : {None} \cup [index : Nat, value : Word],
     pending_cp1 : {None} \cup Cp1Write,
     inputs : [asserted : SUBSET MachineInputs, sampled : SUBSET MachineInputs],
     cache_mode : Mode, contexts : Seq(Context)]

(* The processor's registers hold words, its tables entries, and what is   *)
(* in flight what may land.                                                *)
TypeOK ==
    /\ state \in StateType
    /\ program \in Programs
    /\ order \in [Registers -> Word]
    /\ steps \in Nat

-----------------------------------------------------------------------------
(* Properties.                                                             *)

(* The lookup caches never answer with a stale translation: whatever TLB   *)
(* writes, view changes, resets, restores and generation wraps came first, *)
(* a translation through them (Mmu::translate) gives what the scan of the  *)
(* entries gives (Mmu::translate_readonly), for every address and access.  *)
TranslationCoherent ==
    \A va \in {p * PageBytes : p \in 0 .. (AddressSpace \div PageBytes) - 1},
       access \in {"Instruction", "Load", "Store"} :
        translate(state.mmu, va, state.cp0.asid, is_kernel_mode(state.cp0), access).tr
            = translate_readonly(state.mmu, va, state.cp0.asid,
                                 is_kernel_mode(state.cp0), access)

(* The view instruction fetches see is the translation buffer before the   *)
(* writes of the last two instructions: applying the queued writes in      *)
(* order to it gives the buffer that loads and stores see.                 *)
InstructionViewLags ==
    LET Apply(view, w) == IF w = NoWrite THEN view ELSE [view EXCEPT ![w.index] = w.entry]
    IN state.mmu.entries =
         Apply(Apply(state.mmu.instruction_entries, state.mmu.pending[1]), state.mmu.pending[2])

(* Interrupts are never taken behind Status's back: whatever mixture of    *)
(* delayed Status and Cause writes, exceptions and rfe led here, the       *)
(* enable that interrupt_requested consults, and the one waiting to        *)
(* replace it, are set only while Status.IEc is.                           *)
InterruptEnableTracksStatus ==
    /\ state.cp0.effective.iec => state.cp0.status.ie[1]
    /\ state.cp0.pending # NoFunctional => (state.cp0.pending.iec => state.cp0.status.ie[1])

(* The caches end up in the mode Status names: once every Status write and *)
(* transition in flight has landed, the effective cache control is that of *)
(* Status, in the running context and in each one an exception suspended.  *)
CacheModeFollowsStatus ==
    LET final(mode) == IF mode.transition = None THEN mode.effective ELSE mode.transition.target
        written == IF state.pending_cp0 # None /\ state.pending_cp0.index = 12
                   THEN CacheControl(Reading(12, state.pending_cp0.value))
                   ELSE CacheControl(state.cp0.status)
    IN /\ final(state.cache_mode) = written
       /\ \A k \in 1 .. Len(state.contexts) :
             final(state.contexts[k].mode) = state.contexts[k].status_bits

(* The floating-point interrupt line in Cause is the level FCR31 drives,   *)
(* whichever path the step left by.                                        *)
FloatLineTracksFcr31 ==
    (CP1_INTERRUPT_LINE \in state.cp0.cause.hw) <=> interrupt_asserted(state.cp1)

(* A load in flight never undoes a younger write: the value each register  *)
(* will have once the pending write lands is the one program order gives   *)
(* it, merging loads (lwl, lwr) included.                                  *)
LastWriteWins ==
    \A r \in Registers \ {0} :
        order[r] = IF state.pending_gpr # None /\ state.pending_gpr.index = r
                   THEN state.pending_gpr.value ELSE state.gpr[r]

(* A translation is that of the entries as written, and the view the       *)
(* instruction fetch has of them lags by the writes in flight alone.       *)
TranslationsAgree == TranslationCoherent /\ InstructionViewLags

(* What Status and FCR31 command is what the pipeline obeys, once what is  *)
(* in flight has landed, in every context.                                 *)
ControlFollowed ==
    InterruptEnableTracksStatus /\ CacheModeFollowsStatus /\ FloatLineTracksFcr31
=============================================================================
