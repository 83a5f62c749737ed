---------------------------- MODULE Hpc1Registers -----------------------------
(* The IP12 physical address map (bus/address.rs), and the byte lanes in which *)
(* a transaction of one to four bytes meets a 32-bit register.  A byte is the  *)
(* set of its bits, a word its four bytes, the most significant first.  An     *)
(* access is answered by a record: whether it was done, and if not, its error. *)
EXTENDS Integers, Sequences, FiniteSetsExt, TLC

Zero == <<{}, {}, {}, {}>>

Done == [done |-> TRUE, error |-> "none"]
Refused(error) == [done |-> FALSE, error |-> error]

-----------------------------------------------------------------------------
(* Lanes *)

ValidLength(length) == length \in 1..4

\* Whether a transaction lies inside a register, meets it, or is exactly it.
InRegister(register, start, length) == start >= register /\ start + length <= register + 4
MeetsRegister(register, start, length) == start < register + 4 /\ start + length > register
IsWord(register, start, length) == start = register /\ length = 4

InOneWord(start, length) == start \div 4 = (start + length - 1) \div 4

ReadLanes(word, offset, length) == [i \in 1..length |-> word[offset + i]]

WriteLanes(word, offset, data) ==
    [i \in 1..4 |-> IF i \in (offset + 1)..(offset + Len(data)) THEN data[i - offset] ELSE word[i]]
MaskedWrite(word, offset, data, mask) ==
    LET written == WriteLanes(word, offset, data) IN [i \in 1..4 |-> written[i] \cap mask[i]]

\* A number from its bits.
Value(bits) == MapThenSumSet(LAMBDA b : 2^b, bits)

-----------------------------------------------------------------------------
(* Routing *)

LocalMemoryEnd == \h10000000
Hpc1Base == \h1fb80000
Pic1Base == \h1fa00000

Window(target, first, end, offset, straddle) ==
    [target |-> target, first |-> first, end |-> end, offset |-> offset, straddle |-> straddle]

\* The windows in the order route tries them.  `straddle` is the error of a transaction
\* that only partly lies in one, or "next" where the search goes on: HPC1's two byte
\* registers that belong to the Ethernet controller, and PIC1, tried last.
Windows ==
    <<Window("Prom", \h1fc00000, \h1fc40000, 0, "HardwareFault"),
      Window("Graphics", \h1f000000, \h1f400000, 0, "HardwareFault"),
      Window("Slot0", \h1f400000, \h1f600000, 0, "HardwareFault"),
      Window("Slot1", \h1f600000, \h1f800000, 0, "HardwareFault"),
      Window("Seeq8003", \h1fb8005b, \h1fb8005c, \h1b, "next"),
      Window("Seeq8003", \h1fb8005f, \h1fb80060, \h1f, "next"),
      Window("Hpc1", \h1fb80000, \h1fb800c0, 0, "HardwareFault"),
      Window("Hpc1", \h1fb800c0, \h1fb800c4, \hc0, "HardwareFault"),
      Window("Hpc1", \h1fb80194, \h1fb80198, \h194, "HardwareFault"),
      Window("Hpc1", \h1fb801a0, \h1fb801a8, \h1a0, "HardwareFault"),
      Window("Hpc1", \h1fb801b0, \h1fb801b4, \h1b0, "HardwareFault"),
      Window("Seeq8003", \h1fb80100, \h1fb80120, 0, "HardwareFault"),
      Window("Scsi", \h1fb80120, \h1fb80128, 0, "HardwareFault"),
      Window("Centronics", \h1fb80134, \h1fb80138, 0, "UnimplementedAccess"),
      Window("CpuAuxControl", \h1fb801bf, \h1fb801c0, 0, "HardwareFault"),
      Window("Int2", \h1fb801c0, \h1fb80200, 0, "HardwareFault"),
      Window("Serial0", \h1fb80d00, \h1fb80d10, 0, "HardwareFault"),
      Window("Serial1", \h1fb80d10, \h1fb80d20, 0, "HardwareFault"),
      Window("Serial2", \h1fb80d20, \h1fb80d30, 0, "HardwareFault"),
      Window("Mdac", \h1fb80d33, \h1fb80d38, 0, "HardwareFault"),
      Window("Rtc", \h1fb80e00, \h1fb80e80, 0, "HardwareFault"),
      Window("BoardRevision", \h1fbd0000, \h1fbd0004, 0, "HardwareFault"),
      Window("Dsp56001", \h1fbe0000, \h1fc00000, 0, "HardwareFault"),
      Window("Pic1", \h1fa00000, \h1fab0000, 0, "next")>>

InWindow(w, address, length) == address >= w.first /\ address + length <= w.end
MeetsWindow(w, address, length) == address < w.end /\ address + length > w.first

\* The first window the transaction is settled by: it lies in it, or straddles it.
Settling(address, length) ==
    {i \in 1..Len(Windows) : \/ InWindow(Windows[i], address, length)
                             \/ Windows[i].straddle # "next" /\ MeetsWindow(Windows[i], address, length)}

\* The device an address above local memory reaches, and the device-local address.
Route(address, length) ==
    LET settling == Settling(address, length)
        w == Windows[Min(settling)]
    IN CASE ~ValidLength(length) -> Refused("InvalidTransaction")
         [] ValidLength(length) /\ settling = {} -> Refused("HardwareFault")
         [] OTHER -> IF InWindow(w, address, length)
                     THEN [done |-> TRUE, target |-> w.target, address |-> address - w.first + w.offset]
                     ELSE Refused(w.straddle)

LocalMemoryContained(address, length) == address + length <= LocalMemoryEnd

-----------------------------------------------------------------------------
(* HPC1's register window (hpc1.rs): which access reaches which register, the  *)
(* parallel channel, the DSP interrupt registers, the diagnostic FIFOs, the    *)
(* control registers and the free-running counter on the shared clock.  The    *)
(* Ethernet and SCSI channels' own registers are decoded here and modelled in  *)
(* Hpc1Ethernet and Scsi.                                                      *)

CONSTANTS
    HpcSecond,          \* time units of a second
    HpcClock,           \* 33 000 000: clock cycles of a second
    CounterModulus,     \* 2^24
    FifoIndexBits       \* 4: a diagnostic FIFO has 16 entries

-----------------------------------------------------------------------------
(* The register map *)

TransmitFifoPointer == \h18
EthernetTransmitFifo == \h1c
EthernetTimer == \h2c
ReceiveFifoPointer == \h58
EthernetReceiveFifo == \h5c
ScsiFifoPointer == \h98
ScsiFifo == \h9c
ParallelByteCount == \ha8
ParallelCurrentBufferPointer == \hac
ParallelNextDescriptorPointer == \hb0
ParallelControl == \hb4
ParallelFifoPointer == \hb8
ParallelFifo == \hbc
InternalEnd == \hc0
EndianControl == \hc0
FreeRunningCounter == \h194
DspInterruptStatus == \h1a0
DspInterruptMask == \h1a4
MiscellaneousControl == \h1b0

\* Registers of the other channels, reached in any lanes.
EthernetLanes == {\h0c, \h10, \h14, \h20, \h24, \h28, \h34, \h38, \h3c, \h48, \h4c, \h50, \h54}
ScsiLanes == {\h88, \h8c, \h90, \h94}
LaneRegisters ==
    EthernetLanes \cup ScsiLanes \cup
    {ParallelByteCount, ParallelCurrentBufferPointer, ParallelNextDescriptorPointer, ParallelControl}

\* Registers reached as whole words only; SCSI's FIFO pointer may be read in lanes.
SpecialRegisters ==
    {TransmitFifoPointer, EthernetTransmitFifo, EthernetTimer, ReceiveFifoPointer, EthernetReceiveFifo,
     ScsiFifoPointer, ScsiFifo, ParallelFifoPointer, ParallelFifo}
OuterWords == {FreeRunningCounter, DspInterruptStatus, DspInterruptMask, MiscellaneousControl}
InternalRegisterTransaction(start, length) == start + length <= InternalEnd /\ InOneWord(start, length)

Unused == -1
Register(register) == [done |-> TRUE, register |-> register]

Reached(start, length, write) ==
    {r \in LaneRegisters : InRegister(r, start, length)}
    \cup {r \in SpecialRegisters : IsWord(r, start, length)}
    \cup {r \in {ScsiFifoPointer} : ~write /\ InRegister(r, start, length)}
ReachedOuter(start, length, write) ==
    {r \in {EndianControl} : InRegister(r, start, length)}
    \cup {r \in OuterWords : IsWord(r, start, length) /\ ~(write /\ r = FreeRunningCounter)}

DecodeHpc1(start, length, write) ==
    CASE ~ValidLength(length) -> Refused("InvalidTransaction")
      [] ValidLength(length) /\ Reached(start, length, write) # {} ->
            Register(CHOOSE r \in Reached(start, length, write) : TRUE)
      [] OTHER ->
            IF \E r \in SpecialRegisters : MeetsRegister(r, start, length) THEN Refused("UnimplementedAccess")
            ELSE IF InternalRegisterTransaction(start, length) THEN Register(Unused)
            ELSE IF ReachedOuter(start, length, write) # {}
                 THEN Register(CHOOSE r \in ReachedOuter(start, length, write) : TRUE)
            ELSE IF \E r \in OuterWords : MeetsRegister(r, start, length) THEN Refused("UnimplementedAccess")
            ELSE Refused("HardwareFault")

-----------------------------------------------------------------------------
(* State *)

FifoIndex == SUBSET (0..FifoIndexBits - 1)
NewFifo == [data |-> [i \in FifoIndex |-> Zero], flags |-> [i \in FifoIndex |-> {}], read |-> {}, write |-> {}]

\* The parallel channel's masked registers.
ParallelMask ==
    (ParallelByteCount :> <<{}, {}, {0}, 0..7>>)
    @@ (ParallelCurrentBufferPointer :> <<{7} \cup 0..3, 0..7, 0..7, 0..7>>)
    @@ (ParallelNextDescriptorPointer :> <<0..3, 0..7, 0..7, 0..7>>)

ParallelReset == 0
ParallelClearInterrupt == 1
ParallelToMemory == 4
NewParallel ==
    [words |-> [r \in DOMAIN ParallelMask |-> Zero], control |-> {}, interrupt_pending |-> FALSE, fifo |-> NewFifo]
ResetParallel(p) == [NewParallel EXCEPT !.control = p.control, !.interrupt_pending = p.interrupt_pending]

Revision == {6}
NewHpc1 ==
    [parallel |-> NewParallel, tx_fifo |-> NewFifo, tx_flag |-> {}, rx_fifo |-> NewFifo, rx_write |-> FALSE,
     dsp_status |-> {}, dsp_mask |-> {}, endian |-> Revision, misc |-> Zero, counter |-> 0, phase |-> 0]

DspInterrupt(h) == h.dsp_status \cap h.dsp_mask # {}
ParallelInterrupt(h) == h.parallel.interrupt_pending

\* Whole seconds and the rest are scaled apart; the fraction of a cycle is carried.
AdvanceHpc1(h, elapsed) ==
    LET scaled == (elapsed % HpcSecond) * HpcClock + h.phase
        whole == ((elapsed \div HpcSecond) % CounterModulus) * (HpcClock % CounterModulus)
        ticks == (whole + ((scaled \div HpcSecond) % CounterModulus)) % CounterModulus
    IN [h EXCEPT !.phase = scaled % HpcSecond, !.counter = (@ + ticks) % CounterModulus]

-----------------------------------------------------------------------------
(* Diagnostic FIFO pointers: an index lies at bits 2 and up of a byte *)

IndexIn(byte) == {b - 2 : b \in byte \cap (2..FifoIndexBits + 1)}
IndexOut(index) == {b + 2 : b \in index}

ParallelFifoPointerWord(f) == <<{b + 4 : b \in f.flags[f.read]}, {}, {}, IndexOut(f.read)>>
WriteParallelFifoPointer(p, word) ==
    LET at == IndexIn(word[4])
        moved == [p EXCEPT !.fifo.read = at, !.fifo.write = at]
    IN IF ParallelToMemory \in p.control THEN moved
       ELSE [moved EXCEPT !.fifo.flags[at] = {b - 4 : b \in word[1] \cap (4..7)}]

TransmitFifoPointerWord(f) == <<f.flags[f.read], {}, IndexOut(f.read), IndexOut(f.write)>>
WriteTransmitFifoPointer(h, word) ==
    [h EXCEPT !.tx_fifo.write = IndexIn(word[4]), !.tx_fifo.read = IndexIn(word[3]), !.tx_flag = word[1]]

ReceiveFifoPointerWord(h) ==
    IF h.rx_write THEN <<{}, {}, {7} \cup IndexOut(h.rx_fifo.write), {}>>
    ELSE <<{}, {}, {}, IndexOut(h.rx_fifo.read)>>
WriteReceiveFifoPointer(h, word) ==
    IF 7 \in word[3] THEN [h EXCEPT !.rx_write = TRUE, !.rx_fifo.write = IndexIn(word[3])]
    ELSE [h EXCEPT !.rx_write = FALSE, !.rx_fifo.read = IndexIn(word[4])]

-----------------------------------------------------------------------------
(* Accesses to the registers kept here *)

Low(byte) == <<{}, {}, {}, byte>>
\* The counter has 24 bits.
CounterWord(n) == [i \in 1..4 |-> {b \in 0..7 : i # 1 /\ (n \div 2^(b + 8 * (4 - i))) % 2 = 1}]
ControlValue(p) == p.control \cup (IF p.interrupt_pending THEN {ParallelClearInterrupt} ELSE {})

RegisterWord(h, r) ==
    CASE r \in DOMAIN ParallelMask -> h.parallel.words[r]
      [] r = ParallelControl -> Low(ControlValue(h.parallel))
      [] r = ParallelFifoPointer -> ParallelFifoPointerWord(h.parallel.fifo)
      [] r = ParallelFifo -> h.parallel.fifo.data[h.parallel.fifo.read]
      [] r = TransmitFifoPointer -> TransmitFifoPointerWord(h.tx_fifo)
      [] r = EthernetTransmitFifo -> h.tx_fifo.data[h.tx_fifo.read]
      [] r = ReceiveFifoPointer -> ReceiveFifoPointerWord(h)
      [] r = EthernetReceiveFifo -> h.rx_fifo.data[h.rx_fifo.read]
      [] r = EndianControl -> Low(h.endian)
      [] r = FreeRunningCounter -> CounterWord(h.counter)
      [] r = DspInterruptStatus -> Low(h.dsp_status)
      [] r = DspInterruptMask -> Low(h.dsp_mask)
      [] r = MiscellaneousControl -> h.misc
      [] OTHER -> Zero
ReadHpc1(h, r, offset, length) == ReadLanes(RegisterWord(h, r), offset, length)

\* Setting the reset bit clears the data path; writing the interrupt bit clears it.
WriteParallelControl(p, offset, data) ==
    LET control == WriteLanes(Low(p.control), offset, data)[4] \ {ParallelClearInterrupt}
        written == [p EXCEPT !.control = control]
        reset == IF ParallelReset \in control \ p.control THEN ResetParallel(written) ELSE written
        clears == offset + Len(data) = 4 /\ ParallelClearInterrupt \in data[Len(data)]
    IN [reset EXCEPT !.interrupt_pending = @ /\ ~clears]

WriteHpc1(h, r, offset, data) ==
    CASE r \in DOMAIN ParallelMask ->
            [h EXCEPT !.parallel.words[r] = MaskedWrite(@, offset, data, ParallelMask[r])]
      [] r = ParallelControl -> [h EXCEPT !.parallel = WriteParallelControl(@, offset, data)]
      [] r = ParallelFifoPointer -> [h EXCEPT !.parallel = WriteParallelFifoPointer(@, data)]
      [] r = ParallelFifo -> [h EXCEPT !.parallel.fifo.data[h.parallel.fifo.write] = data]
      [] r = TransmitFifoPointer -> WriteTransmitFifoPointer(h, data)
      [] r = EthernetTransmitFifo -> [h EXCEPT !.tx_fifo.data[h.tx_fifo.write] = data,
                                       !.tx_fifo.flags[h.tx_fifo.write] = h.tx_flag]
      [] r = ReceiveFifoPointer -> WriteReceiveFifoPointer(h, data)
      [] r = EthernetReceiveFifo -> [h EXCEPT !.rx_fifo.data[h.rx_fifo.write] = data]
      [] r = EndianControl ->
            [h EXCEPT !.endian = Revision \cup (WriteLanes(Low(@), offset, data)[4] \cap 0..4)]
      [] r = DspInterruptStatus -> [h EXCEPT !.dsp_status = @ \cap data[4] \cap 0..2]
      [] r = DspInterruptMask -> [h EXCEPT !.dsp_mask = data[4] \cap 0..2]
      [] r = MiscellaneousControl -> [h EXCEPT !.misc = data]
      [] OTHER -> h
=============================================================================
