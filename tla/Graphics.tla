------------------------------ MODULE Graphics ------------------------------
(* Graphics on the IP12 bus: the GIO slot and the board in it (gio.rs), PIC1   *)
(* with local memory, and the bus's two events for them (bus.rs,               *)
(* bus/timing.rs, bus/wiring.rs).  A cycle of the machine carries out one      *)
(* instruction, lets its time pass, dispatches what is due and publishes the   *)
(* display, so that an event is carried out up to an instruction late.         *)
(*                                                                             *)
(* `scenario` is chosen once: what is prepared, and what the guest may do.     *)
EXTENDS Lg1

CONSTANTS
    MemoryUnit, PageBytes, DescriptorBytes, DescriptorCycles,
    Quantum,        \* DMA cycles in an instruction's time
    Scenarios

ASSUME TimeAssumption == {MemoryUnit, PageBytes, DescriptorBytes, DescriptorCycles, Quantum, LineTime} \subseteq Nat \ {0}

P == INSTANCE Pic1

VARIABLES
    board,      \* the board in the graphics slot, or NoBoard
    pic,        \* PIC1
    memory,     \* local memory, by module and offset
    lag,        \* time since each of Gio and Pic1 was synchronised
    due,        \* time until the event of each, or Never
    phase,      \* "execute", "pass" or "dispatch"
    retrace,    \* the level of INT2's graphics input
    screen,     \* what the front end was last given
    channel,    \* history of the DMA under way: time since it was armed, cost and lines of what is done
    unannounced, \* history: the board was reset since the front end was last given a picture
    scenario,   \* rigid
    steps       \* instructions carried out

vars == <<board, pic, memory, lag, due, phase, retrace, screen, channel, unannounced, scenario, steps>>

Never == 1000000
NoBoard == [absent |-> TRUE]
Attached == board # NoBoard

-----------------------------------------------------------------------------
(* The GIO bus and the bus's synchronisation *)

SlotAdvanced(b, elapsed) == IF b = NoBoard THEN b ELSE AdvanceLg1(b, elapsed)
SlotTimes(b) == IF b = NoBoard THEN {} ELSE Vc1Times(b.vc1)
SlotRetrace(b) == b # NoBoard /\ RetraceAsserted(b)
SlotSync(b) == b # NoBoard

Soonest(times) == IF times = {} THEN Never ELSE Min(times)

PicAdvanced == P!SetSyncInput(P!AdvancePic1(pic, lag["Pic1"]), SlotSync(board))

\* After an access to the slot, or an event: the board b, PIC1 p.
SettleBoth(b, p) ==
    /\ board' = b
    /\ pic' = p
    /\ retrace' = SlotRetrace(b)
    /\ lag' = [Gio |-> 0, Pic1 |-> 0]
    /\ due' = [Gio |-> Soonest(SlotTimes(b)), Pic1 |-> Soonest(P!DmaTimes(p))]

SettlePic(p) ==
    /\ pic' = p
    /\ lag' = [lag EXCEPT !["Pic1"] = 0]
    /\ due' = [due EXCEPT !["Pic1"] = Soonest(P!DmaTimes(p))]
    /\ UNCHANGED <<board, retrace>>

\* When the channel is armed its time starts to count.
Armed(p) == P!Timed(p.dma) /\ ~P!Timed(pic.dma)
CountFrom(p) == channel' = IF Armed(p) THEN [time |-> 0, done |-> 0, lines |-> 0] ELSE channel

-----------------------------------------------------------------------------
(* DMA requests *)

Cost(d) == IF d.stage = "Descriptor" THEN DescriptorCycles ELSE P!LineCycles(d.bytes)
Completed(p, lines) ==
    [channel EXCEPT !.done = @ + Cost(p.dma), !.lines = @ + lines]

\* The descriptor at an address is a record of the scenario; its bytes must be reachable.
DescriptorAt(p) ==
    IF P!DmaReachable(p, scenario.modules, p.dma.descriptor, DescriptorBytes)
    THEN IF p.dma.descriptor \in DOMAIN scenario.descriptors THEN scenario.descriptors[p.dma.descriptor]
         ELSE [mode |-> 1]
    ELSE [unreachable |-> TRUE]
Unreachable == [unreachable |-> TRUE]

FetchDescriptor(b, p) ==
    LET found == DescriptorAt(p) IN
    /\ SettleBoth(b, IF found = Unreachable
                     THEN [P!ReportAddressError(p) EXCEPT !.dma = P!Finish(p.dma, TRUE)]
                     ELSE [p EXCEPT !.dma = IF found.mode \notin {0, 2} THEN P!Finish(p.dma, TRUE)
                                            ELSE P!CompleteDescriptor(p.dma, found)])
    /\ channel' = Completed(p, 0)
    /\ UNCHANGED memory

Cells(p) == P!CellsOf(p, p.dma.memory, p.dma.bytes)
BytesAt(p) == [i \in 1..p.dma.bytes |-> Lookup(memory, Cells(p)[i])]

\* transfer_graphics_dma_line: the slot, the data port, and memory must all answer.
PortAnswers(p) == Attached /\ p.dma.gio = 0
TransferLine(b, p) ==
    LET reachable == P!DmaReachable(p, scenario.modules, p.dma.memory, p.dma.bytes)
        empty == p.dma.bytes = 0
        up == p.dma.direction = "MemoryToGio"
        tried == ~empty /\ (up \/ PortAnswers(p))
        success == empty \/ (PortAnswers(p) /\ reachable)
        read == IF ~up /\ PortAnswers(p) /\ ~empty THEN ReadDma(b, p.dma.bytes) ELSE [board |-> b, bytes |-> <<>>]
        q == IF tried /\ ~reachable THEN P!ReportAddressError(p) ELSE p
    IN /\ SettleBoth(IF success /\ up /\ ~empty THEN WriteDma(b, BytesAt(p)) ELSE read.board,
                     [q EXCEPT !.dma = P!CompleteLine(p.dma, success)])
       /\ memory' = IF success /\ ~up /\ ~empty
                    THEN [c \in DOMAIN memory \cup {Cells(p)[i] : i \in 1..p.dma.bytes} |->
                            IF \E i \in 1..p.dma.bytes : Cells(p)[i] = c
                            THEN read.bytes[CHOOSE i \in 1..p.dma.bytes : Cells(p)[i] = c] ELSE memory[c]]
                    ELSE memory
       /\ channel' = Completed(p, IF success THEN 1 ELSE 0)

-----------------------------------------------------------------------------
(* Actions *)

Init ==
    /\ scenario \in Scenarios
    /\ board = scenario.board
    /\ pic = P!SetSyncInput(scenario.pic, SlotSync(scenario.board))
    /\ memory = scenario.memory
    /\ lag = [Gio |-> 0, Pic1 |-> 0]
    /\ due = [Gio |-> Soonest(SlotTimes(scenario.board)), Pic1 |-> Never]
    /\ phase = "execute"
    /\ retrace = SlotRetrace(scenario.board)
    /\ screen = IF scenario.board = NoBoard THEN NoSignal ELSE DisplayState(scenario.board)
    /\ channel = [time |-> 0, done |-> 0, lines |-> 0]
    /\ unannounced = FALSE
    /\ steps = 0

Offered ==
    IF steps < Len(scenario.script) THEN {scenario.script[steps + 1]}
    ELSE IF steps < scenario.limit THEN scenario.ops ELSE {}

Next0(op) ==
    /\ phase = "execute" /\ op \in Offered
    /\ phase' = "pass" /\ steps' = steps + 1
    /\ UNCHANGED <<memory, screen, scenario>>

\* An instruction that touches neither device.
Compute == \E op \in Offered : op.kind = "none" /\ Next0(op) /\ UNCHANGED <<board, pic, lag, due, retrace, channel, unannounced>>

AccessGio(op, b) ==
    \E p \in {PicAdvanced} : Next0(op) /\ SettleBoth(b, p) /\ CountFrom(p) /\ UNCHANGED unannounced
WriteGio == \E op \in Offered : op.kind = "write" /\
    \E b \in {SlotAdvanced(board, lag["Gio"])} : AccessGio(op, IF b = NoBoard THEN b ELSE WriteLg1(b, op))
ReadGio == \E op \in Offered : op.kind = "read" /\
    \E b \in {SlotAdvanced(board, lag["Gio"])} : AccessGio(op, IF b = NoBoard THEN b ELSE ReadLg1(b, op))

\* A write that asks for a system reset resets the machine after the instruction.
\* A board that is reset forgets that its picture changed: nothing is published.
ResetBus ==
    LET b == IF Attached THEN NewLg1 ELSE NoBoard IN
    /\ board' = b
    /\ pic' = P!SetSyncInput(P!NewPic1, SlotSync(b))
    /\ retrace' = SlotRetrace(b)
    /\ lag' = [Gio |-> 0, Pic1 |-> 0]
    /\ due' = [Gio |-> Soonest(SlotTimes(b)), Pic1 |-> Never]

WritePic == \E op \in Offered : op.kind = "pic" /\
    \E p \in {P!WritePic1(P!AdvancePic1(pic, lag["Pic1"]), op)} :
        /\ Next0(op)
        /\ IF p.reset_requested THEN ResetBus ELSE SettlePic(p)
        /\ unannounced' = (unannounced \/ (p.reset_requested /\ Attached))
        /\ CountFrom(p)

\* advance_time: the time of the instruction passes.
PassTime ==
    /\ phase = "pass" /\ phase' = "dispatch"
    /\ lag' = [k \in DOMAIN lag |-> lag[k] + Quantum]
    /\ due' = [k \in DOMAIN due |-> IF due[k] = Never THEN Never ELSE due[k] - Quantum]
    /\ channel' = IF P!Timed(pic.dma) THEN [channel EXCEPT !.time = @ + Quantum] ELSE channel
    /\ UNCHANGED <<board, pic, memory, retrace, screen, unannounced, scenario, steps>>

\* take_due: the earliest deadline that has come, Gio before Pic1.
DueNow(kind) ==
    /\ phase = "dispatch" /\ due[kind] <= 0
    /\ \A k \in DOMAIN due : due[kind] <= due[k]
    /\ kind = "Pic1" => due["Gio"] # due["Pic1"]

DispatchGio ==
    /\ DueNow("Gio")
    /\ \E p \in {PicAdvanced} : SettleBoth(SlotAdvanced(board, lag["Gio"]), p) /\ CountFrom(p)
    /\ UNCHANGED <<memory, phase, screen, unannounced, scenario, steps>>

DispatchPic1 ==
    /\ DueNow("Pic1")
    /\ \E p \in {PicAdvanced} : \E b \in {SlotAdvanced(board, lag["Gio"])} :
        \/ P!RequestKind(p.dma) = "ReadDescriptor" /\ FetchDescriptor(b, p)
        \/ P!RequestKind(p.dma) = "TransferLine" /\ TransferLine(b, p)
        \/ /\ P!RequestKind(p.dma) = "Misplaced"
           /\ SettleBoth(b, [p EXCEPT !.dma = P!Finish(p.dma, TRUE)])
           /\ UNCHANGED <<memory, channel>>
    /\ UNCHANGED <<phase, screen, unannounced, scenario, steps>>

\* The end of advance_time: a changed display is published.
Publish ==
    /\ phase = "dispatch" /\ \A k \in DOMAIN due : due[k] > 0
    /\ phase' = "execute"
    /\ IF Attached /\ board.display_changed
       THEN /\ screen' = DisplayState(board) /\ unannounced' = FALSE
            /\ board' = [board EXCEPT !.display_changed = FALSE]
       ELSE UNCHANGED <<screen, board, unannounced>>
    /\ UNCHANGED <<pic, memory, lag, due, retrace, channel, scenario, steps>>

Next == Compute \/ WriteGio \/ ReadGio \/ WritePic \/ PassTime \/ DispatchGio \/ DispatchPic1 \/ Publish

Spec == Init /\ [][Next]_vars

-----------------------------------------------------------------------------
(* Properties *)

Settled == phase = "execute" /\ Attached

\* What the front end was last given is what the board drives onto the monitor,
\* once an instruction's effects have been dispatched.  A reset is the exception: it
\* is not published (lg1.rs:154-163), the front end keeps the picture of before, and
\* for as long as it does the board drives no signal at all.
ScreenFollows == Settled => screen = DisplayState(board) \/ (unannounced /\ DisplayState(board) = NoSignal)

\* A frame that nothing marks out of date shows what the planes, the tables, the
\* palette and the cursor now hold: every write that changes the picture is noticed.
FrameCurrent ==
    Attached /\ board.frame # NoFrame /\ ~board.composition_dirty /\ ~board.vram.dirty
        => board.frame.pixels = Compose(board)

\* The line the raster has reached at this instant, and INT2's level for it.
LineNow == ((board.vc1.frame_elapsed + lag["Gio"]) % FramePeriod(board.vc1)) \div LineTime
RetraceLevel ==
    Settled => (retrace <=> SignalState(board.vc1) # "NoSignal" /\ LineNow >= DisplayHeight)

\* Graphics DMA keeps its own time: however late its requests are carried out and
\* however often it is synchronised, the time since it was armed is what its
\* requests have cost so far.
DmaKeepsTime ==
    P!Timed(pic.dma) =>
        channel.time = channel.done + (Cost(pic.dma) - pic.dma.delay) + pic.dma.credit + lag["Pic1"]

\* The memory addresses of the lines a chain asks for, in order.
RECURSIVE ChainLines(_, _)
ChainLines(address, fuel) ==
    LET d == scenario.descriptors[address] IN
    IF fuel = 0 \/ address \notin DOMAIN scenario.descriptors THEN <<>>
    ELSE [i \in 1..d.lines + 1 |-> d.buffer + (i - 1) * (d.width + d.host_stride)]
           \o (IF d.last THEN <<>> ELSE ChainLines(d.next, fuel - 1))

\* A rectangle uploaded by DMA is exact: after k lines its first k rows hold the
\* bytes of the chain's first k lines, the others nothing, whatever the guest's
\* other accesses, the frames composed meanwhile and the split into descriptors.
UploadExact ==
    scenario.upload # <<>> /\ channel.lines > 0 =>
        LET u == scenario.upload[1]
            lines == ChainLines(u.descriptor, 3)
        IN \A x \in 0..FbWidth - 1, y \in 0..FbHeight - 1 :
             ReadVram(board.vram, "Pixel", x, y) =
                 IF x \in u.x..u.x + u.width - 1 /\ y \in u.y..u.y + channel.lines - 1
                 THEN Lookup(memory, <<1, lines[y - u.y + 1] + x - u.x>>) ELSE 0
\* What the user sees and the guest is told of it is what the board holds: a picture
\* is out of date only while a board that was reset has not been given a signal again.
DisplayCurrent == ScreenFollows /\ FrameCurrent /\ RetraceLevel
=============================================================================
