----------------------------- MODULE Coprocessors -----------------------------
(***************************************************************************)
(* The R3000 system control coprocessor (se_cpu/src/mips1/r3000/cp0.rs).   *)
(* Status and Cause are kept by fields: the bits of a field that is a mask *)
(* are a set, the kernel/user and interrupt-enable stacks are sequences    *)
(* current, previous, old.  Context and the parity bit carry no control    *)
(* and are left out.                                                       *)
(*                                                                         *)
(* A write to Status or Cause reaches the register at once, and the        *)
(* decisions made from it (`effective`) one instruction later.             *)
(***************************************************************************)
EXTENDS Naturals, Sequences, FiniteSets

CONSTANTS
    RandomWired,      \* the first index Random takes (8)
    RandomTop         \* the last one (63)

ASSUME Cp0Assumption == RandomWired \in Nat /\ RandomTop \in Nat /\ RandomWired <= RandomTop

CP1_INTERRUPT_LINE == 2      \* input 0
NoFunctional == [none |-> TRUE]

CacheControl(status) == [isc |-> status.isc, swc |-> status.swc]

from_registers(status, cause) ==
    [cu |-> status.cu, im |-> status.im, iec |-> status.ie[1], sw |-> cause.sw]

BootStatus ==
    [bev |-> TRUE, ts |-> FALSE, cm |-> FALSE, isc |-> FALSE, swc |-> FALSE,
     cu |-> {}, im |-> {}, user |-> <<FALSE, FALSE, FALSE>>, ie |-> <<FALSE, FALSE, FALSE>>]

NoCause == [bd |-> FALSE, ce |-> 0, code |-> 0, hw |-> {}, sw |-> {}]

NewCp0 ==
    [index |-> 0, failed |-> FALSE, random |-> RandomTop,
     lo |-> [pfn |-> 0, n |-> FALSE, d |-> FALSE, v |-> FALSE, g |-> FALSE],
     vpn |-> 0, asid |-> 0, bad_vaddr |-> 0,
     status |-> BootStatus, cause |-> NoCause, epc |-> 0,
     effective |-> from_registers(BootStatus, NoCause), pending |-> NoFunctional]

ResetCp0(c, interrupted_pc) ==
    LET status == [c.status EXCEPT !.bev = TRUE, !.ts = FALSE,
                                   !.user = <<FALSE, @[2], @[3]>>,
                                   !.ie = <<FALSE, @[2], @[3]>>]
    IN [c EXCEPT !.status = status, !.epc = interrupted_pc, !.random = RandomTop,
                 !.effective = from_registers(status, c.cause),
                 !.pending = NoFunctional]

(* The bits mtc0 may change; TS and CM are not among them.                 *)
status_after_write(c, value) == [value EXCEPT !.ts = c.status.ts, !.cm = c.status.cm]

\* Mutant: clearing the interrupt enable waits like the rest.
WriteStatusDelayed(c, value) ==
    LET status == status_after_write(c, value)
    IN [c EXCEPT !.status = status,
                 !.pending = [c.effective EXCEPT !.cu = status.cu, !.im = status.im,
                                                 !.iec = status.ie[1]]]

(* Clearing the interrupt enable acts at once, setting it with the rest.   *)
write_status(c, value) ==
    LET status == status_after_write(c, value)
        effective == [c.effective EXCEPT !.iec = @ /\ status.ie[1]]
    IN [c EXCEPT !.status = status, !.effective = effective,
                 !.pending = [effective EXCEPT !.cu = status.cu, !.im = status.im,
                                               !.iec = status.ie[1]]]

write_cause(c, sw) ==
    [c EXCEPT !.cause.sw = sw, !.pending = [c.effective EXCEPT !.sw = sw]]

(* write_register; `value` is already read as the register's fields.       *)
write_register(c, register, value) ==
    CASE register = 0  -> [c EXCEPT !.index = value]
      [] register = 2  -> [c EXCEPT !.lo = value]
      [] register = 10 -> [c EXCEPT !.vpn = value.vpn, !.asid = value.asid]
      [] register = 12 -> write_status(c, value)
      [] register = 13 -> write_cause(c, value)
      [] register = 14 -> [c EXCEPT !.epc = value]
      [] OTHER -> c

is_kernel_mode(c) == ~c.status.user[1]
is_usable(c) == is_kernel_mode(c) \/ 0 \in c.effective.cu
coprocessor_usable(c, unit) == unit \in c.effective.cu

set_status_cache_control(c, control) ==
    [c EXCEPT !.status.isc = control.isc, !.status.swc = control.swc]

set_hardware_interrupt_lines(c, lines, asserted) ==
    [c EXCEPT !.cause.hw = (@ \ lines) \cup (asserted \cap lines)]

interrupt_requested(c) ==
    /\ c.effective.iec
    /\ (c.cause.hw \cup c.effective.sw) \cap c.effective.im # {}

commit_pending_functional(c) ==
    IF c.pending = NoFunctional THEN c
    ELSE [c EXCEPT !.effective = c.pending, !.pending = NoFunctional]

(* rfe: the stacks pop, and the interrupt enable they expose acts at once, *)
(* in the functional state that is waiting as well.                        *)
restore_status(c, user, ie) ==
    LET enabled == ie[1]
    IN [c EXCEPT !.status.user = <<user[1], user[2], @[3]>>,
                 !.status.ie = <<ie[1], ie[2], @[3]>>,
                 !.effective.iec = enabled,
                 !.pending = IF @ = NoFunctional THEN @ ELSE [@ EXCEPT !.iec = enabled]]

advance_random(c) ==
    [c EXCEPT !.random = IF @ <= RandomWired THEN RandomTop ELSE @ - 1]

(* Exception codes of the Cause register.                                  *)
ExceptionCode(e) ==
    CASE e.t = "Interrupt" -> 0
      [] e.t = "TlbModified" -> 1
      [] e.t = "TlbLoad" -> 2
      [] e.t = "TlbStore" -> 3
      [] e.t \in {"InstructionAddressError", "LoadAddressError"} -> 4
      [] e.t = "StoreAddressError" -> 5
      [] e.t = "InstructionBusError" -> 6
      [] e.t = "DataBusError" -> 7
      [] e.t = "Syscall" -> 8
      [] e.t = "Breakpoint" -> 9
      [] e.t = "ReservedInstruction" -> 10
      [] e.t = "CoprocessorUnusable" -> 11
      [] e.t = "Overflow" -> 12

AddressExceptions == {"InstructionAddressError", "LoadAddressError", "StoreAddressError"}
TlbExceptions == {"TlbLoad", "TlbStore", "TlbModified"}

(* The vector: BEV chooses the boot pair, a miss in kuseg the refill one.  *)
ExceptionVector(c, e) ==
    <<IF c.status.bev THEN "boot" ELSE "ram",
      IF e.t \in {"TlbLoad", "TlbStore"} /\ e.refill THEN "refill" ELSE "general">>

take_exception(c, e, epc, in_delay_slot) ==
    LET user == <<FALSE, c.status.user[1], c.status.user[2]>>
        ie == <<FALSE, c.status.ie[1], c.status.ie[2]>>
    IN [c EXCEPT
        !.status = [@ EXCEPT !.user = user, !.ie = ie],
        !.cause = [@ EXCEPT !.bd = in_delay_slot, !.code = ExceptionCode(e),
                            !.ce = IF e.t = "CoprocessorUnusable" THEN e.unit ELSE 0],
        !.epc = epc,
        !.bad_vaddr = IF e.t \in AddressExceptions \cup TlbExceptions THEN e.address ELSE @,
        !.vpn = IF e.t \in TlbExceptions THEN e.vpn ELSE @,
        !.effective.iec = FALSE,
        !.pending = IF @ = NoFunctional THEN @ ELSE [@ EXCEPT !.iec = FALSE]]

-----------------------------------------------------------------------------
(***************************************************************************)
(* The floating-point coprocessor as the CPU sees it                       *)
(* (se_cpu/src/mips1/r3000/cp1.rs): FCR31 by fields and the interrupt line *)
(* it drives.  Register contents and the arithmetic are left out: an       *)
(* operation has any of the operand classes and exception flags its        *)
(* operands could give it (external: se_float).                            *)
(***************************************************************************)

ExceptionFlags == {"INVALID", "DIVIDE_BY_ZERO", "OVERFLOW", "UNDERFLOW", "INEXACT"}

NewCp1 == [cause |-> {}, enables |-> {}, flags |-> {}, unimplemented |-> FALSE,
           condition |-> FALSE]

interrupt_asserted(f) == f.unimplemented \/ f.cause \cap f.enables # {}

(* Fcr31Update                                                             *)
Update(cause, sticky, unimplemented, writeback) ==
    [cause |-> cause, sticky |-> sticky, unimplemented |-> unimplemented,
     writeback |-> writeback]
unimplemented_update == Update({}, {}, TRUE, FALSE)

classify_invalid(f) ==
    IF "INVALID" \in f.enables THEN Update({"INVALID"}, {}, FALSE, FALSE)
    ELSE unimplemented_update

classify_outcome(f, flags) ==
    LET supported == flags \cap {"OVERFLOW", "INEXACT"}
        quiet == supported \cap f.enables = {}
    IN IF "INVALID" \in flags THEN classify_invalid(f)
       ELSE IF flags \cap {"DIVIDE_BY_ZERO", "UNDERFLOW"} # {} THEN unimplemented_update
       ELSE Update(supported, IF quiet THEN supported ELSE {}, FALSE, quiet)

(* classify_float32_operands and classify_float64_operands.                *)
OperandClasses == {"ordinary", "subnormal", "quiet_nan", "signaling_nan"}

classify_operands(f, class, signal_any_nan) ==
    IF class = "subnormal" THEN unimplemented_update
    ELSE IF signal_any_nan \/ class = "signaling_nan" THEN classify_invalid(f)
    ELSE unimplemented_update

(* What an arithmetic operation, a conversion from an integer and a        *)
(* comparison may do to FCR31.                                             *)
ArithmeticUpdates(f) ==
    {classify_operands(f, class, FALSE) : class \in OperandClasses \ {"ordinary"}}
        \cup {classify_outcome(f, flags) : flags \in SUBSET ExceptionFlags}
ConversionUpdates(f, word) ==
    IF word THEN {classify_outcome(f, flags) : flags \in {{}, {"INEXACT"}}}
    ELSE ArithmeticUpdates(f)
CompareUpdates(f, signaling) ==
    {classify_operands(f, class, signaling) : class \in OperandClasses \ {"ordinary"}}
        \cup {classify_outcome(f, {})}

apply_fcr31_update(f, u) ==
    [f EXCEPT !.cause = u.cause, !.flags = @ \cup u.sticky,
              !.unimplemented = u.unimplemented]

write_control_status(f, value) == value
write_condition(f, value) == [f EXCEPT !.condition = value]
=============================================================================
