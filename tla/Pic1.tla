-------------------------------- MODULE Pic1 --------------------------------
(* The memory controller (pic1.rs) and local memory behind it (bus/memory.rs): *)
(* memory windows, address errors, and the graphics DMA channel, which walks   *)
(* descriptors and moves one line per request.  Registers that hold a value    *)
(* and change nothing are left out.                                            *)
EXTENDS Integers, Sequences, FiniteSetsExt

CONSTANTS
    MemoryUnit,         \* 4 MB: the smallest memory window
    PageBytes,          \* 4096
    DescriptorBytes,    \* 20
    DescriptorCycles    \* 5

DmaIdle ==
    [stage |-> "Idle", delay |-> 0, credit |-> 0, descriptor |-> 0,
     memory |-> 0, gio |-> 0, width |-> 0, bytes |-> 0, memory_increment |-> 0, gio_increment |-> 0,
     lines |-> 0, next |-> 0, last |-> FALSE, direction |-> "MemoryToGio", error |-> FALSE]

\* A window is <<base, size>> in units; a size of zero is no window.
NewPic1 ==
    [windows |-> [i \in 1..4 |-> <<0, 1>>], sync_enabled |-> FALSE, interrupt_enabled |-> FALSE,
     base |-> 0, sync_input |-> FALSE, address_error |-> FALSE, reset_requested |-> FALSE, dma |-> DmaIdle]

-----------------------------------------------------------------------------
(* Memory *)

\* The first window that holds the whole transaction, or none.
DecodeMemory(p, address, length) ==
    LET holds == {i \in 1..4 : /\ p.windows[i][2] # 0
                               /\ address >= p.windows[i][1] * MemoryUnit
                               /\ address + length <= (p.windows[i][1] + p.windows[i][2]) * MemoryUnit}
    IN IF length = 0 \/ holds = {} THEN [found |-> FALSE]
       ELSE [found |-> TRUE, module |-> Min(holds), offset |-> address - p.windows[Min(holds)][1] * MemoryUnit]

\* `modules` is the size of each installed module, zero for an empty socket.
DmaReachable(p, modules, address, length) ==
    LET d == DecodeMemory(p, address, length) IN
    d.found /\ modules[d.module] # 0 /\ d.offset + length <= modules[d.module]
CellsOf(p, address, length) ==
    [i \in 1..length |-> LET d == DecodeMemory(p, address, length) IN <<d.module, d.offset + i - 1>>]
ReportAddressError(p) == [p EXCEPT !.address_error = TRUE]

InterruptAsserted(p) == p.address_error \/ (p.interrupt_enabled /\ p.dma.stage = "Idle")

-----------------------------------------------------------------------------
(* Graphics DMA *)

\* Mutant: time the channel already had is forgotten.
SetDelayAnew(d, delay) == [d EXCEPT !.delay = delay, !.credit = 0]
\* Time the channel already had is taken off the next delay.
SetDelay(d, delay) ==
    [d EXCEPT !.delay = delay - Min({delay, d.credit}), !.credit = @ - Min({delay, d.credit})]
ArmDescriptorFetch(d) == SetDelay([d EXCEPT !.stage = "Descriptor"], DescriptorCycles)
Finish(d, error) == [d EXCEPT !.stage = "Idle", !.delay = 0, !.credit = 0, !.error = error]

StartDma(p) ==
    LET d == [p.dma EXCEPT !.error = FALSE, !.credit = 0, !.descriptor = p.base] IN
    IF p.dma.stage # "Idle" THEN p
    ELSE IF p.sync_enabled /\ ~p.sync_input
         THEN [p EXCEPT !.dma = [d EXCEPT !.stage = "WaitingForSync", !.delay = 0]]
         ELSE [p EXCEPT !.dma = ArmDescriptorFetch(d)]
ReleaseSyncWait(p) ==
    IF p.dma.stage = "WaitingForSync" /\ (~p.sync_enabled \/ p.sync_input)
    THEN [p EXCEPT !.dma = ArmDescriptorFetch(@)] ELSE p
SetSyncInput(p, asserted) == ReleaseSyncWait([p EXCEPT !.sync_input = asserted])

Timed(d) == d.stage \in {"Descriptor", "Line"}
DmaTimes(p) == IF Timed(p.dma) THEN {p.dma.delay} ELSE {}
AdvanceDma(d, elapsed) ==
    IF ~Timed(d) THEN d
    ELSE IF elapsed >= d.delay THEN [d EXCEPT !.credit = @ + elapsed - d.delay, !.delay = 0]
    ELSE [d EXCEPT !.delay = @ - elapsed]
AdvancePic1(p, elapsed) == [p EXCEPT !.dma = AdvanceDma(@, elapsed)]

\* A descriptor is aligned and within a page, or the channel stops with an error.
DescriptorFits(address) == address % 4 = 0 /\ address % PageBytes <= PageBytes - DescriptorBytes
RequestKind(d) ==
    CASE d.delay = 0 /\ d.stage = "Descriptor" /\ DescriptorFits(d.descriptor) -> "ReadDescriptor"
      [] d.delay = 0 /\ d.stage = "Descriptor" /\ ~DescriptorFits(d.descriptor) -> "Misplaced"
      [] d.delay = 0 /\ d.stage = "Line" -> "TransferLine"
      [] OTHER -> "None"

TransferBytes(width) == ((width + 3) \div 4) * 4
LineCycles(bytes) == IF bytes = 0 THEN 1 ELSE bytes \div 4

\* The signed twelve bits of a stride are `stride` itself.
CompleteDescriptor(d, found) ==
    LET width == IF found.full_page THEN PageBytes ELSE found.width IN
    IF found.mode \notin {0, 2} THEN Finish(d, TRUE)
    ELSE SetDelay([d EXCEPT !.stage = "Line", !.direction = IF found.mode = 0 THEN "MemoryToGio" ELSE "GioToMemory",
                            !.memory = found.buffer, !.gio = found.destination, !.width = width,
                            !.bytes = TransferBytes(width), !.memory_increment = width + found.host_stride,
                            !.gio_increment = (IF found.line_increment THEN width ELSE 0)
                                                + (IF found.stride_increment THEN found.graphics_stride ELSE 0),
                            !.lines = found.lines + 1, !.next = found.next, !.last = found.last],
                  LineCycles(TransferBytes(width)))

CompleteLine(d, success) ==
    IF ~success THEN Finish(d, TRUE)
    ELSE IF d.lines > 1
         THEN SetDelay([d EXCEPT !.lines = @ - 1, !.memory = @ + d.memory_increment, !.gio = @ + d.gio_increment],
                       LineCycles(d.bytes))
    ELSE IF d.last THEN Finish(d, FALSE)
    ELSE ArmDescriptorFetch([d EXCEPT !.descriptor = d.next])

WritePic1(p, w) ==
    CASE w.register = "CPU_CONTROL" ->
           ReleaseSyncWait([p EXCEPT !.sync_enabled = w.sync, !.interrupt_enabled = w.interrupt,
                                     !.reset_requested = @ \/ w.initialize])
      [] w.register = "CLEAR_ERROR" -> [p EXCEPT !.address_error = FALSE]
      [] w.register = "MEMORY_CONFIGURATION" -> [p EXCEPT !.windows[w.index] = w.window]
      [] w.register = "DESCRIPTOR_ARRAY_BASE" -> [p EXCEPT !.base = w.address]
      [] w.register = "GRAPHICS_START" -> StartDma(p)
=============================================================================
