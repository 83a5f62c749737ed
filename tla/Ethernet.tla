------------------------------ MODULE Ethernet ------------------------------
(* Ethernet on the IP12 bus: the controller, HPC1's channel, the memory its    *)
(* descriptors live in, and the bus's event for them (bus.rs, bus/timing.rs,   *)
(* bus/wiring.rs).  The guest drives the registers and the network delivers    *)
(* frames while DMA and the wire go on.                                        *)
(*                                                                             *)
(* `scenario` is chosen once: the descriptors, the script that programs the    *)
(* channel, and the operations that may follow in any order.                   *)
EXTENDS Hpc1Ethernet, SequencesExt

CONSTANT Scenarios

VARIABLES
    channel,    \* HPC1's Ethernet channel
    seeq,       \* the controller
    memory,     \* descriptors by address; one that is not there cannot be read
    lag,        \* time since both devices were synchronised
    deadline,   \* time until the bus's Ethernet event, or Never
    buffers,    \* what DMA wrote to each receive buffer since its descriptor was fetched
    output,     \* frames given to the front end
    completed,  \* history: the last receive descriptor completed, or Nothing
    scenario,   \* rigid
    steps       \* operations carried out

vars == <<channel, seeq, memory, lag, deadline, buffers, output, completed, scenario, steps>>

Never == -1

-----------------------------------------------------------------------------
(* Wiring *)

\* transfer_ethernet_signals: a received frame goes to the channel, a transmitted
\* one is reported to it, looped back and output.
Received(e, s) ==
    IF s.received = Nothing THEN e
    ELSE ReceiveFrame(e, s.received.frame.data, s.received.status, s.received.interrupt)
ReceiveTaken(s) == IF s.received = Nothing THEN s ELSE AcknowledgeReceive([s EXCEPT !.received = Nothing])

Transmitted(e, s) ==
    IF s.transmitted = Nothing THEN e ELSE CompleteTransmit(e, s.transmit_status, s.transmit_interrupt)
TransmitTaken(s, loopback) ==
    LET taken == AcknowledgeTransmit([s EXCEPT !.transmitted = Nothing]) IN
    IF s.transmitted = Nothing THEN s
    ELSE IF loopback THEN SeeqReceive(taken, s.transmitted) ELSE taken

\* synchronize_ethernet_time, without the rescheduling that follows it.
Synchronized ==
    LET e == AdvanceChannelEthernet(channel, lag)
        s == AdvanceSeeq(seeq, lag)
    IN [channel |-> Transmitted(Received(e, s), ReceiveTaken(s)),
        seeq |-> TransmitTaken(ReceiveTaken(s), e.loopback),
        output |-> IF s.transmitted = Nothing THEN output ELSE Append(output, s.transmitted)]

EthernetDeadline(e, s) ==
    LET times == SeeqTimes(s) \cup ChannelTimes(e, TransmitReady(s)) IN
    IF times = {} THEN Never ELSE Min(times)

\* The bus after an operation that synchronised it and rescheduled its event.
Settle(e, s) ==
    /\ channel' = e
    /\ seeq' = s
    /\ lag' = 0
    /\ deadline' = EthernetDeadline(e, s)

\* service_ethernet_request: at most one request of the channel is carried out.
ReadMemory(request) ==
    IF request.address \notin DOMAIN memory THEN Nothing
    ELSE IF request.kind # "TransmitData" THEN memory[request.address]
    ELSE IF memory[request.address].fault THEN Nothing
    ELSE [bytes |-> [i \in 1..request.length |-> <<request.address, channel.tx_position + i, 0>>]]

ServiceRead(e, s, request) ==
    /\ Settle(CompleteRead(e, request.kind, ReadMemory(request)), s)
    /\ buffers' = IF request.kind = "ReceiveDescriptor" THEN [buffers EXCEPT ![request.address] = <<>>] ELSE buffers
    /\ UNCHANGED <<memory, completed>>

\* A completion overwrites the descriptor's first word, which gives it back.
ServiceWrite(e, s, request) ==
    LET success == request.kind = "ReceiveCompletion" \/ ~memory[request.address].fault IN
    /\ Settle(CompleteWrite(e, request.kind, Len(request.bytes), success), s)
    /\ buffers' = IF request.kind = "ReceiveData" /\ success
                  THEN [buffers EXCEPT ![request.address] = @ \o request.bytes] ELSE buffers
    /\ memory' = IF request.kind = "ReceiveCompletion"
                 THEN [memory EXCEPT ![request.address].owned = FALSE, ![request.address].count = request.bytes[1]]
                 ELSE memory
    /\ completed' = IF request.kind = "ReceiveCompletion"
                    THEN [bytes |-> buffers[request.address], left |-> request.bytes[1],
                          size |-> memory[request.address].count, overflow |-> e.rx_overflow]
                    ELSE completed

ServiceTransmit(e, s, request) ==
    /\ Settle(e, SeeqTransmit(s, [to |-> scenario.to, data |-> request.frame]))
    /\ UNCHANGED <<memory, buffers, completed>>

ServiceUnderflow(e, s) ==
    \E u \in {TransmitUnderflow(s)} :
        /\ Settle(CompleteTransmit(e, u.transmit_status, u.transmit_interrupt), AcknowledgeTransmit(u))
        /\ UNCHANGED <<memory, buffers, completed>>

ServiceNothing(e, s) == Settle(e, s) /\ UNCHANGED <<memory, buffers, completed>>

-----------------------------------------------------------------------------
(* Actions *)

Init ==
    /\ scenario \in Scenarios
    /\ channel = [NewChannelEthernet EXCEPT !.tx_next = scenario.transmit, !.rx_next = scenario.receive]
    /\ seeq = NewSeeq /\ memory = scenario.memory
    /\ lag = 0 /\ deadline = Never
    /\ buffers = [a \in DOMAIN scenario.memory |-> <<>>]
    /\ output = <<>> /\ completed = Nothing /\ steps = 0

\* Virtual time runs up to the event; other deadlines of the board may come first.
PassTime(elapsed) ==
    /\ deadline # 0
    /\ deadline # Never => elapsed <= deadline
    /\ lag' = lag + elapsed
    /\ deadline' = IF deadline = Never THEN Never ELSE deadline - elapsed
    /\ UNCHANGED <<channel, seeq, memory, buffers, output, completed, scenario, steps>>

Advance == deadline # Never /\ PassTime(1)

\* The Ethernet event is due.
Dispatch ==
    /\ deadline = 0
    /\ \E u \in {Synchronized} : \E r \in {NextRequest(u.channel, TransmitReady(u.seeq))} :
        /\ output' = u.output
        /\ \/ r.request.op = "none" /\ ServiceNothing(r.channel, u.seeq)
           \/ r.request.op = "read" /\ ServiceRead(r.channel, u.seeq, r.request)
           \/ r.request.op = "write" /\ ServiceWrite(r.channel, u.seeq, r.request)
           \/ r.request.op = "transmit" /\ ServiceTransmit(r.channel, u.seeq, r.request)
           \/ r.request.op = "underflow" /\ ServiceUnderflow(r.channel, u.seeq)
    /\ UNCHANGED <<scenario, steps>>

Offered ==
    IF deadline = 0 THEN {}
    ELSE IF steps < Len(scenario.script) THEN {scenario.script[steps + 1]}
    ELSE IF steps < scenario.limit THEN scenario.ops ELSE {}

\* A guest access to HPC1 or the controller, or a frame from the network: the
\* devices are synchronised first and the event is rescheduled after.
Access(op, u, e, s) ==
    /\ op \in Offered
    /\ Settle(e, s)
    /\ output' = u.output
    /\ steps' = steps + 1
    /\ UNCHANGED <<memory, buffers, completed, scenario>>

\* handle_hpc1_outputs: a reset of the channel resets the controller.
ResetOutput(e) == [e EXCEPT !.reset_pending = FALSE]

WriteHpc1 == \E op \in Offered : op.kind = "hpc1" /\ \E u \in {Synchronized} :
    \E e \in {CASE op.register = "TransmitStatus" -> WriteTransmitStatus(u.channel, op.active)
                [] op.register = "ReceiveStatus" -> WriteReceiveStatus(u.channel, op.active)
                [] op.register = "Control" -> WriteEthernetControl(u.channel, op)
                [] op.register = "Timer" -> WriteTimer(u.channel, op.count, op.expired)
                [] op.register = "NextTransmit" -> [u.channel EXCEPT !.tx_next = op.address]
                [] op.register = "NextReceive" -> [u.channel EXCEPT !.rx_next = op.address]} :
        Access(op, u, ResetOutput(e), IF e.reset_pending THEN NewSeeq ELSE u.seeq)

WriteSeeq == \E op \in Offered : op.kind = "seeq" /\ \E u \in {Synchronized} :
    Access(op, u, u.channel,
           CASE op.register = "Station" -> [u.seeq EXCEPT !.station = TRUE]
             [] op.register = "ReceiveCommand" ->
                  [u.seeq EXCEPT !.mode = op.mode, !.receive_command = op.conditions]
             [] op.register = "TransmitCommand" -> [u.seeq EXCEPT !.transmit_command = op.conditions])

ReadSeeq == \E op \in Offered : op.kind = "status" /\ \E u \in {Synchronized} :
    Access(op, u, u.channel,
           IF op.receive THEN AcknowledgeReceive(u.seeq) ELSE AcknowledgeTransmit(u.seeq))

ReceiveEthernet == \E op \in Offered : op.kind = "frame" /\ \E u \in {Synchronized} :
    Access(op, u, u.channel, SeeqReceive(u.seeq, [to |-> op.to,
                                                  data |-> [i \in 1..op.length |-> <<steps, i, op.length>>]]))

\* The guest's driver gives a receive descriptor back to the channel.
ReturnDescriptor == \E op \in Offered :
    /\ op.kind = "own"
    /\ memory' = [memory EXCEPT ![op.address] = scenario.memory[op.address]]
    /\ steps' = steps + 1
    /\ UNCHANGED <<channel, seeq, lag, deadline, buffers, output, completed, scenario>>

Next == Advance \/ Dispatch \/ WriteHpc1 \/ WriteSeeq \/ ReadSeeq \/ ReceiveEthernet \/ ReturnDescriptor

\* Virtual time goes on and a due event is dispatched by the time loop.
Spec == Init /\ [][Next]_vars /\ WF_vars(Advance) /\ WF_vars(Dispatch)

-----------------------------------------------------------------------------
(* Properties *)

\* The bytes of the packet whose first descriptor is at `address`.
RECURSIVE PacketFrom(_, _)
PacketFrom(address, fuel) ==
    LET d == scenario.memory[address]
        own == [i \in 1..d.count |-> <<address, i, 0>>]
    IN IF fuel = 0 \/ d.packet_end \/ d.next \notin DOMAIN scenario.memory THEN own
       ELSE own \o PacketFrom(d.next, fuel - 1)

Packets == {PacketFrom(a, Cardinality(DOMAIN scenario.memory)) : a \in DOMAIN scenario.memory}

\* Every frame put on the wire is one whole packet of the chain, whatever the
\* guest stopped, restarted or reset while earlier packets were under way: no
\* byte of an abandoned packet is ever sent in another one.
WholeFrames == \A i \in 1..Len(output) : output[i].data \in Packets \ {<<>>}

\* A frame of the network, or a packet that was looped back.
WholeFrame(data) ==
    \/ Len(data) > 0 /\ data = [i \in 1..data[1][3] |-> <<data[1][1], i, data[1][3]>>]
    \/ data \in Packets
FrameStart(data) ==
    \/ \A i \in 1..Len(data) : data[i] = <<data[1][1], i, data[1][3]>>
    \/ \E packet \in Packets : IsPrefix(data, packet)

\* A receive buffer given back to the guest holds one frame from its start, all of
\* it and its status unless it overflowed, and the count in its descriptor is the
\* room that is left.
ReceivedWhole ==
    completed # Nothing =>
        LET n == Len(completed.bytes) IN
        /\ IF completed.overflow THEN completed.left = 0 /\ (FrameStart(completed.bytes) \/ WholeFrame(completed.bytes))
           ELSE /\ n > 1
                /\ Len(completed.bytes[n]) = 2
                /\ WholeFrame(SubSeq(completed.bytes, 1, n - 1))
        /\ completed.left + n = Saturating(completed.size, 2)

\* The receive timer runs, or has run out: nothing was promised of an interrupt
\* that waits for a timer nobody has written since the reset.
TimerWritten == channel.expired \/ channel.timer # 0

\* No engine of the channel has work, and no interrupt is held back.
AtRest ==
    /\ channel.rx_stage = "Idle" /\ channel.tx_stage = "Idle"
    /\ channel.inflight = Nothing /\ channel.tx_delay = NoDelay
    /\ TimerWritten => ~channel.rx_waiting

\* A receive interrupt leaves its wait by being raised, or by a reset, however
\* often the timer it waits for is written meanwhile.
WaitEndsRaised == [][channel.rx_waiting /\ ~channel'.rx_waiting => channel'.interrupt \/ channel'.reset]_vars

\* DMA comes to rest: once the guest and the network are quiet, both engines of a
\* channel out of reset become idle, and no interrupt that was asked for stays
\* behind its delay: neither the transmit interrupt (hpc1.rs:827-838) nor a receive
\* interrupt that waits for a timer the guest stops, restarts or declares expired
\* (731-737, 839), which is raised and never lost.
DmaRests == <>[](channel.reset \/ AtRest) /\ WaitEndsRaised

\* Frames are whole in both directions.
FramesWhole == WholeFrames /\ ReceivedWhole
=============================================================================
