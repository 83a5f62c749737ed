----------------------------- MODULE Peripherals ----------------------------
(* What answers the rest of the address map: local memory through PIC1's       *)
(* windows (bus/memory.rs, ram.rs), PIC1's registers (pic1.rs), the PROM, the  *)
(* Centronics port, the MDAC, the DSP's memory, the board revision, an empty   *)
(* GIO slot and the third serial controller, which is not fitted.  An access   *)
(* is [address, data, write]; a read carries data only for its length.         *)
EXTENDS Hpc1Registers, SequencesExt

CONSTANT Installed      \* the bytes of each memory module, 0 for an empty socket

\* The answer to an access: the state after it, what was read, and its error.
Answer(io, data) == [io |-> io, data |-> data, error |-> "none"]
Failed(io, error) == [io |-> io, data |-> <<>>, error |-> error]
Zeroes(length) == [i \in 1..length |-> {}]

-----------------------------------------------------------------------------
(* PIC1's registers.  CPU control and the DMA registers are decoded here and   *)
(* modelled in Pic1.                                                           *)

MemoryConfiguration == <<\h10000, \h10004>>
ParityError == \h10200
ClearError == \h10210
\* The two error addresses are never set and read zero.
ErrorAddresses == {\h10204, \h10208}
\* CPU control, the reset configuration, the system identification, the descriptor base,
\* the descriptor the DMA channel last read, and the register that starts it.
ChannelReadOnly == {\h4, \h8, \ha0004, \ha0008, \ha000c, \ha0010}
GraphicsStart == \ha0100
ChannelRegisters == ChannelReadOnly \cup {\h0, \ha0000, GraphicsStart}

Pic1Mask ==
    (\h20000 :> <<{}, {}, {}, 0..1>>) @@ (\h20004 :> <<{}, {}, {}, 0..1>>)
    @@ (\h20008 :> <<{}, {}, {}, 0..7>>) @@ (\h2000c :> <<{}, {}, {}, 0..7>>)
    @@ (\h80008 :> <<0..4, 0..7, 0..7, 0..7>>) @@ (\h8000c :> <<0..4, 0..7, 0..7, 0..7>>)
DescriptorMask == <<0..3, 0..5, 0..3, 0..5>>

Pic1Registers ==
    DOMAIN Pic1Mask \cup ErrorAddresses \cup ChannelRegisters \cup {ParityError, ClearError}
WriteRefused == ErrorAddresses \cup ChannelReadOnly
ReadRefused == {ClearError, GraphicsStart}

\* A memory configuration register holds two descriptors; it is written as a word and
\* read as a word or by halves.
ConfigurationAccess(offset, length, write) ==
    IF write THEN offset = 0 /\ length = 4 ELSE <<offset, length>> \in {<<0, 4>>, <<0, 2>>, <<2, 2>>}

DecodePic1(start, length, write) ==
    LET pair == {i \in 1..2 : MeetsRegister(MemoryConfiguration[i], start, length)}
        registers == {r \in Pic1Registers : InRegister(r, start, length)}
    IN CASE ~ValidLength(length) -> Refused("InvalidTransaction")
         [] ValidLength(length) /\ pair # {} ->
              LET r == MemoryConfiguration[Min(pair)] IN
              IF InRegister(r, start, length) /\ ConfigurationAccess(start - r, length, write)
              THEN Register(r) ELSE Refused("UnimplementedAccess")
         [] ValidLength(length) /\ pair = {} /\ registers # {} ->
              LET r == Min(registers) IN
              IF r \in (IF write THEN WriteRefused ELSE ReadRefused)
              THEN Refused("UnimplementedAccess") ELSE Register(r)
         [] OTHER -> Refused(IF InOneWord(start, length) THEN "UnimplementedAccess" ELSE "HardwareFault")

NewPic1Registers ==
    [words |-> [r \in DOMAIN Pic1Mask |-> Zero], configuration |-> <<Zero, Zero>>, address_error |-> FALSE]

ReadPic1(p, r, offset, length) ==
    ReadLanes(CASE r \in DOMAIN Pic1Mask -> p.words[r]
                [] r = MemoryConfiguration[1] -> p.configuration[1]
                [] r = MemoryConfiguration[2] -> p.configuration[2]
                [] OTHER -> Zero, offset, length)
WritePic1Register(p, r, offset, data) ==
    CASE r \in DOMAIN Pic1Mask -> [p EXCEPT !.words[r] = MaskedWrite(@, offset, data, Pic1Mask[r])]
      [] r = MemoryConfiguration[1] -> [p EXCEPT !.configuration[1] = MaskedWrite(@, 0, data, DescriptorMask)]
      [] r = MemoryConfiguration[2] -> [p EXCEPT !.configuration[2] = MaskedWrite(@, 0, data, DescriptorMask)]
      [] r = ClearError -> [p EXCEPT !.address_error = FALSE]
      [] OTHER -> p

-----------------------------------------------------------------------------
(* Local memory *)

\* The i-th module's window: its base and size in units of 4 MB, from its descriptor.
MemoryUnit == \h400000
DescriptorOf(p, i) ==
    LET word == p.configuration[(i + 1) \div 2] IN IF i % 2 = 1 THEN <<word[1], word[2]>> ELSE <<word[3], word[4]>>
MemorySize(bits) == IF bits = 0..(Cardinality(bits) - 1) THEN 2^Cardinality(bits) ELSE 0
WindowBase(p, i) == Value(DescriptorOf(p, i)[2]) * MemoryUnit
WindowSize(p, i) == MemorySize(DescriptorOf(p, i)[1]) * MemoryUnit

\* The modules whose window holds the whole transaction; the first of them answers.
Decoded(p, address, length) ==
    {i \in 1..4 : /\ WindowSize(p, i) # 0 /\ address >= WindowBase(p, i)
                  /\ address + length <= WindowBase(p, i) + WindowSize(p, i)}
Stored(ram, cell) == IF cell \in DOMAIN ram THEN ram[cell] ELSE {}

\* A window wider than its module reads zero and drops writes past its end.
AccessMemory(io, op) ==
    LET length == Len(op.data)
        decoded == Decoded(io.pic, op.address, length)
        module == Min(decoded)
        offset == op.address - WindowBase(io.pic, module)
        backed == offset + length <= Installed[module]
        cells == [i \in 1..length |-> <<module, offset + i - 1>>]
    IN CASE ~ValidLength(length) -> Failed(io, "InvalidTransaction")
         [] ValidLength(length) /\ (~LocalMemoryContained(op.address, length) \/ decoded = {}) ->
              Failed(io, "HardwareFault")
         [] OTHER ->
              IF ~backed THEN Answer(io, IF op.write THEN <<>> ELSE Zeroes(length))
              ELSE IF op.write
                   THEN Answer([io EXCEPT !.ram =
                                  [c \in ToSet(cells) |-> op.data[CHOOSE i \in 1..length : cells[i] = c]] @@ @], <<>>)
                   ELSE Answer(io, [i \in 1..length |-> Stored(io.ram, cells[i])])

-----------------------------------------------------------------------------
(* Small devices *)

\* Centronics: aligned accesses of one, two or four bytes; one lane means something.
CentronicsTransaction(address, length) ==
    CASE ~ValidLength(length) -> Refused("InvalidTransaction")
      [] length = 3 -> Refused("UnimplementedAccess")
      [] length \in {1, 2, 4} /\ address >= 4 -> Refused("HardwareFault")
      [] length \in {1, 2, 4} /\ address < 4 ->
            IF address + length > 4 \/ address % length # 0 THEN Refused("UnimplementedAccess") ELSE Done
StatusLane(address, length) == address <= 1 /\ 1 < address + length

AccessCentronics(io, address, op) ==
    LET t == CentronicsTransaction(address, Len(op.data)) IN
    IF ~t.done THEN Failed(io, t.error)
    ELSE IF ~op.write THEN Answer(io, Zeroes(Len(op.data)))
    ELSE IF StatusLane(address, Len(op.data))
         THEN Answer([io EXCEPT !.remote = op.data[2 - address] \cap 0..1], <<>>)
         ELSE Answer(io, <<>>)

\* MDAC: two write-only latches.
AccessMdac(io, address, op) ==
    IF ~ValidLength(Len(op.data)) THEN Failed(io, "InvalidTransaction")
    ELSE IF Len(op.data) # 1 \/ address \notin {0, 4} \/ ~op.write THEN Failed(io, "UnimplementedAccess")
    ELSE Answer([io EXCEPT !.attenuation[address] = op.data[1]], <<>>)

\* The DSP's memory: whole words, 24 bits kept.
DspBytes == \h20000
DspMask == <<{}, 0..7, 0..7, 0..7>>
AccessDsp(io, address, op) ==
    LET length == Len(op.data)
        word == IF address \in DOMAIN io.dsp THEN io.dsp[address] ELSE Zero
    IN IF ~ValidLength(length) THEN Failed(io, "InvalidTransaction")
       ELSE IF length # 4 \/ address % 4 # 0 THEN Failed(io, "UnimplementedAccess")
       ELSE IF address >= DspBytes THEN Failed(io, "HardwareFault")
       ELSE IF op.write
            THEN Answer([io EXCEPT !.dsp = (address :> MaskedWrite(word, 0, op.data, DspMask)) @@ @], <<>>)
            ELSE Answer(io, word)

BoardRevisionWord == <<{}, {}, {7}, {}>>
AccessBoardRevision(io, op) ==
    IF op.write \/ Len(op.data) # 4 THEN Failed(io, "UnimplementedAccess") ELSE Answer(io, BoardRevisionWord)

\* The PROM's bytes are external; writes to it are dropped.
PromByte(address) == IF address % 2 = 0 THEN {0} ELSE {1}
AccessProm(io, address, op) ==
    Answer(io, IF op.write THEN <<>> ELSE [i \in 1..Len(op.data) |-> PromByte(address + i - 1)])

\* An empty GIO slot reads zero and drops writes.
AccessEmptySlot(io, op) == Answer(io, IF op.write THEN <<>> ELSE Zeroes(Len(op.data)))

\* A byte written to a register of the serial controller that is not fitted goes nowhere.
AccessAbsentSerial(io, address, op) ==
    IF ~op.write THEN Failed(io, "HardwareFault")
    ELSE IF Len(op.data) = 1 /\ address \in {\h3, \h7, \hb, \hf} THEN Answer(io, <<>>)
    ELSE Failed(io, "UnimplementedAccess")

-----------------------------------------------------------------------------
(* Dispatch *)

NewIo ==
    [pic |-> NewPic1Registers, hpc |-> NewHpc1, ram |-> <<>>, dsp |-> <<>>, remote |-> {},
     attenuation |-> [latch \in {0, 4} |-> {}]]
\* Reset keeps local memory and the DSP's memory.
ResetIo(io) == [NewIo EXCEPT !.ram = io.ram, !.dsp = io.dsp]

AccessHpc1(io, address, op) ==
    LET d == DecodeHpc1(address, Len(op.data), op.write)
        offset == address % 4
    IN IF ~d.done THEN Failed(io, d.error)
       ELSE IF op.write THEN Answer([io EXCEPT !.hpc = WriteHpc1(@, d.register, offset, op.data)], <<>>)
       ELSE Answer(io, ReadHpc1(io.hpc, d.register, offset, Len(op.data)))
AccessPic1(io, address, op) ==
    LET d == DecodePic1(address, Len(op.data), op.write)
        offset == address % 4
    IN IF ~d.done THEN Failed(io, d.error)
       ELSE IF op.write THEN Answer([io EXCEPT !.pic = WritePic1Register(@, d.register, offset, op.data)], <<>>)
       ELSE Answer(io, ReadPic1(io.pic, d.register, offset, Len(op.data)))

AccessTarget(io, target, address, op) ==
    CASE target = "Hpc1" -> AccessHpc1(io, address, op)
      [] target = "Pic1" -> AccessPic1(io, address, op)
      [] target = "Centronics" -> AccessCentronics(io, address, op)
      [] target = "Mdac" -> AccessMdac(io, address, op)
      [] target = "Dsp56001" -> AccessDsp(io, address, op)
      [] target = "BoardRevision" -> AccessBoardRevision(io, op)
      [] target = "Prom" -> AccessProm(io, address, op)
      [] target = "Serial2" -> AccessAbsentSerial(io, address, op)
      [] target \in {"Slot0", "Slot1"} -> AccessEmptySlot(io, op)

\* The registers other modules keep are not accessed here.
ForeignHpc1 == EthernetLanes \cup ScsiLanes \cup {EthernetTimer, ScsiFifoPointer, ScsiFifo}
Targets == {"Hpc1", "Pic1", "Centronics", "Mdac", "Dsp56001", "BoardRevision", "Prom", "Serial2", "Slot0", "Slot1"}
Kept(target, address, op) ==
    /\ target \in Targets
    /\ target = "Hpc1" => LET d == DecodeHpc1(address, Len(op.data), op.write) IN
                         d.done => d.register \notin ForeignHpc1
    /\ target = "Pic1" => LET d == DecodePic1(address, Len(op.data), op.write) IN
                         d.done => d.register \notin ChannelRegisters
RouteOf(op) == Route(op.address, Len(op.data))
Own(op) ==
    op.address < LocalMemoryEnd \/ (LET r == RouteOf(op) IN r.done => Kept(r.target, r.address, op))
ReachesHpc1(op) == op.address >= LocalMemoryEnd /\ (LET r == RouteOf(op) IN r.done /\ r.target = "Hpc1")

\* What the addressed device makes of an access.
Routed(io, route, op) ==
    IF route.done THEN AccessTarget(io, route.target, route.address, op) ELSE Failed(io, route.error)
Attempt(io, op) ==
    IF op.address < LocalMemoryEnd THEN AccessMemory(io, op) ELSE Routed(io, RouteOf(op), op)

\* A write that ends in a hardware fault is completed, and latches the address error.
Completed(answer, op) ==
    IF op.write /\ answer.error = "HardwareFault"
    THEN Answer([answer.io EXCEPT !.pic.address_error = TRUE], <<>>) ELSE answer
=============================================================================
