----------------------------- MODULE Hpc1Ethernet -----------------------------
(* The Ethernet controller (seeq8003.rs).  A frame on the wire is a record     *)
(* [to, data]: the kind of its destination and its bytes, one item each.       *)
(* Status and command bytes are the sets of conditions their bits stand for.   *)
EXTENDS Integers, Sequences, FiniteSetsExt

CONSTANTS
    MinFrame,       \* 60: a shorter frame is a short frame
    MaxFrame,       \* MAX_FRAME_BYTES and MAX_ETHERNET_FRAME_BYTES
    WireOverhead,   \* preamble and checksum: 12 byte times
    Gap             \* INTERFRAME_GAP, in byte times

ASSUME SeeqAssumption == {MinFrame, MaxFrame, WireOverhead, Gap} \subseteq Nat /\ MinFrame <= MaxFrame

Nothing == [nothing |-> TRUE]

\* receive_status's OLD bit is `old`; the mode is the top of receive_command.
NewSeeq ==
    [station |-> FALSE, mode |-> 0, receive_command |-> {}, transmit_command |-> {},
     receive_old |-> TRUE, transmit_status |-> {}, receive_interrupt |-> FALSE, transmit_interrupt |-> FALSE,
     receiving |-> Nothing, transmitting |-> Nothing, received |-> Nothing, transmitted |-> Nothing,
     receive_gap |-> 0, transmit_gap |-> 0]

WireTime(frame) == Len(frame.data) + WireOverhead
OnWire(frame) == [frame |-> frame, remaining |-> WireTime(frame)]

ReceiveReady(s) == s.receiving = Nothing /\ s.receive_gap = 0
SeeqReceive(s, frame) ==
    IF ~ReceiveReady(s) \/ Len(frame.data) > MaxFrame THEN s ELSE [s EXCEPT !.receiving = OnWire(frame)]

TransmitReady(s) == s.transmitting = Nothing /\ s.transmitted = Nothing /\ s.transmit_gap = 0
SeeqTransmit(s, frame) == [s EXCEPT !.transmitting = OnWire(frame)]

\* The station address the guest has written, every frame, or the groups.
MatchesAddress(s, frame) ==
    CASE s.mode = 0 -> FALSE
      [] s.mode = 1 -> frame.to # "truncated"
      [] s.mode = 2 -> frame.to = "broadcast" \/ (frame.to = "station" /\ s.station)
      [] s.mode = 3 -> frame.to \in {"broadcast", "multicast"} \/ (frame.to = "station" /\ s.station)

\* An unread status, a frame still held or an error not accepted drops the frame.
FinishReceive(s, frame) ==
    LET errors == IF Len(frame.data) < MinFrame THEN {"short"} ELSE {}
        status == {"end"} \cup errors \cup (IF errors = {} THEN {"good"} ELSE {})
        interrupt == status \cap s.receive_command # {}
        reported == [s EXCEPT !.receive_old = ~interrupt, !.receive_interrupt = interrupt]
    IN IF ~MatchesAddress(s, frame) \/ ~s.receive_old THEN s
       ELSE IF ~(errors \subseteq s.receive_command) \/ s.received # Nothing THEN reported
       ELSE [reported EXCEPT !.received = [frame |-> frame, status |-> status, interrupt |-> interrupt]]

Saturating(v, elapsed) == IF v > elapsed THEN v - elapsed ELSE 0
Finished(wire, elapsed) == wire # Nothing /\ wire.remaining <= elapsed
Shifted(wire, elapsed) ==
    IF wire = Nothing \/ Finished(wire, elapsed) THEN Nothing ELSE [wire EXCEPT !.remaining = @ - elapsed]
GapAfter(gap, wire, elapsed) ==
    IF Finished(wire, elapsed) THEN Saturating(Gap, elapsed - wire.remaining) ELSE Saturating(gap, elapsed)

AdvanceSeeq(s, elapsed) ==
    LET moved == [s EXCEPT !.receive_gap = GapAfter(@, s.receiving, elapsed),
                           !.transmit_gap = GapAfter(@, s.transmitting, elapsed),
                           !.receiving = Shifted(@, elapsed), !.transmitting = Shifted(@, elapsed)]
        r == IF Finished(s.receiving, elapsed) THEN FinishReceive(moved, s.receiving.frame) ELSE moved
    IN IF Finished(s.transmitting, elapsed)
       THEN [r EXCEPT !.transmit_status = {"success"},
                      !.transmit_interrupt = "success" \in s.transmit_command,
                      !.transmitted = s.transmitting.frame]
       ELSE r

SeeqTimes(s) ==
    {w.remaining : w \in {s.receiving, s.transmitting} \ {Nothing}} \cup ({s.receive_gap, s.transmit_gap} \ {0})

AcknowledgeReceive(s) == [s EXCEPT !.receive_old = TRUE, !.receive_interrupt = FALSE]
AcknowledgeTransmit(s) == [s EXCEPT !.transmit_interrupt = FALSE]
TransmitUnderflow(s) ==
    [s EXCEPT !.transmitting = Nothing, !.transmit_status = {"underflow"},
              !.transmit_interrupt = "underflow" \in s.transmit_command]

-----------------------------------------------------------------------------
(* HPC1's Ethernet channel (hpc1.rs): a transmit and a receive DMA engine that *)
(* walk descriptor chains, one bounded memory request at a time, and the timer *)
(* that delays receive interrupts.  A channel is a record; an address is       *)
(* opaque; a byte moved by DMA is the item it came from.  The diagnostic FIFO  *)
(* windows and the register masks are left out.                                *)

CONSTANTS
    Chunk,          \* 32: the bytes of one data request
    HpcTick         \* time units of one HPC clock cycle, also of one DMA cycle

ASSUME Hpc1Assumption == {Chunk, HpcTick} \subseteq Nat \ {0}

NoDelay == -1
NoRequest == [op |-> "none"]

NewChannelEthernet ==
    [tx_stage |-> "Idle", rx_stage |-> "Idle", inflight |-> Nothing,
     tx_frame |-> <<>>, rx_frame |-> <<>>, rx_offset |-> 0,
     rx_interrupt |-> FALSE, rx_overflow |-> FALSE, rx_waiting |-> FALSE, rx_end |-> FALSE,
     tx_packet_end |-> FALSE, tx_chain_end |-> FALSE, tx_interrupt |-> FALSE, tx_first |-> TRUE,
     dma_delay |-> 0, tx_delay |-> NoDelay, prefer_receive |-> FALSE,
     tx_next |-> 0, tx_current |-> 0, tx_packet |-> 0, tx_previous |-> 0, tx_count |-> 0, tx_position |-> 0,
     rx_next |-> 0, rx_current |-> 0, rx_count |-> 0,
     timer |-> 0, expired |-> FALSE, phase |-> 0,
     tx_active |-> FALSE, rx_active |-> FALSE, tx_status |-> {}, rx_status |-> {},
     reset |-> FALSE, interrupt |-> FALSE, overflow |-> FALSE, loopback |-> TRUE,
     reset_pending |-> FALSE]

\* Reset clears everything but the control register and HPC1's clock.
ResetDataPath(e) ==
    [NewChannelEthernet EXCEPT !.reset = e.reset, !.interrupt = e.interrupt, !.overflow = e.overflow,
                               !.loopback = e.loopback, !.phase = e.phase]

-----------------------------------------------------------------------------
(* Register writes *)

WriteTimer(e, count, expired) == [e EXCEPT !.timer = count, !.expired = expired \/ count = 0]

\* Mutant: stopping keeps the bytes gathered so far.
WriteTransmitStatusKeepsFrame(e, active) ==
    IF ~active
    THEN [e EXCEPT !.tx_active = FALSE, !.tx_status = {}, !.tx_stage = "Idle",
                   !.inflight = IF @ = Nothing THEN @ ELSE [@ EXCEPT !.attached = FALSE]]
    ELSE IF e.tx_stage = "Idle"
         THEN [e EXCEPT !.tx_active = TRUE, !.tx_status = {}, !.tx_first = TRUE, !.tx_stage = "Descriptor"]
         ELSE [e EXCEPT !.tx_active = TRUE, !.tx_status = {}]

\* Stopping leaves a frame already given to the controller to it.
WriteTransmitStatus(e, active) ==
    IF ~active
    THEN [e EXCEPT !.tx_active = FALSE, !.tx_status = {}, !.tx_stage = "Idle", !.tx_frame = <<>>,
                   !.inflight = IF @ = Nothing THEN @ ELSE [@ EXCEPT !.attached = FALSE]]
    ELSE IF e.tx_stage = "Idle"
         THEN [e EXCEPT !.tx_active = TRUE, !.tx_status = {}, !.tx_first = TRUE, !.tx_stage = "Descriptor"]
         ELSE [e EXCEPT !.tx_active = TRUE, !.tx_status = {}]

WriteReceiveStatus(e, active) ==
    IF active THEN [e EXCEPT !.rx_active = TRUE, !.rx_status = {}]
    ELSE [e EXCEPT !.rx_active = FALSE, !.rx_status = {}, !.rx_stage = "Idle", !.rx_frame = <<>>]

\* Interrupt and overflow are cleared by writing one; reset acts on its rising edge.
WriteEthernetControl(e, value) ==
    LET w == [e EXCEPT !.interrupt = @ /\ ~value.interrupt, !.overflow = @ /\ ~value.overflow,
                       !.reset = value.reset, !.loopback = value.loopback]
    IN IF value.reset /\ ~e.reset THEN [ResetDataPath(w) EXCEPT !.reset_pending = TRUE] ELSE w

-----------------------------------------------------------------------------
(* Receive *)

StopReceive(e) == [e EXCEPT !.rx_active = FALSE, !.rx_stage = "Idle", !.rx_frame = <<>>]

\* The controller hands over a frame; it is followed in memory by its status.
ReceiveFrame(e, data, status, interrupt) ==
    LET s == [e EXCEPT !.rx_status = status] IN
    IF ~e.rx_active \/ e.rx_stage # "Idle" \/ Len(data) > MaxFrame \/ e.reset THEN s
    ELSE [s EXCEPT !.rx_frame = Append(data, <<"status", status>>), !.rx_offset = 0,
                   !.rx_interrupt = interrupt, !.rx_overflow = FALSE, !.rx_stage = "Descriptor"]

DataLength(e) == Min({e.rx_count, Chunk, Len(e.rx_frame) - e.rx_offset})

\* The channel after asking, and what it asks for.
ReceiveRequest(e) ==
    IF ~e.rx_active THEN [channel |-> [e EXCEPT !.rx_stage = "Idle"], request |-> NoRequest]
    ELSE CASE e.rx_stage = "Idle" -> [channel |-> e, request |-> NoRequest]
           [] e.rx_stage = "Descriptor" ->
                [channel |-> e, request |-> [op |-> "read", kind |-> "ReceiveDescriptor", address |-> e.rx_next]]
           [] e.rx_stage = "Data" /\ DataLength(e) # 0 ->
                [channel |-> e, request |-> [op |-> "write", kind |-> "ReceiveData", address |-> e.rx_current,
                    bytes |-> SubSeq(e.rx_frame, e.rx_offset + 1, e.rx_offset + DataLength(e))]]
           [] e.rx_stage = "Data" /\ DataLength(e) = 0 ->
                [channel |-> [e EXCEPT !.rx_overflow = e.rx_offset < Len(e.rx_frame), !.rx_stage = "Completion"],
                 request |-> [op |-> "write", kind |-> "ReceiveCompletion", address |-> e.rx_current,
                              bytes |-> <<e.rx_count>>]]
           [] e.rx_stage = "Completion" ->
                [channel |-> e, request |-> [op |-> "write", kind |-> "ReceiveCompletion",
                                             address |-> e.rx_current, bytes |-> <<e.rx_count>>]]

CompleteWrite(e, kind, length, success) ==
    LET d == [e EXCEPT !.dma_delay = HpcTick * length]
        stop == e.rx_end \/ e.rx_overflow
    IN IF ~success THEN StopReceive(d)
       ELSE CASE kind = "ReceiveData" -> [d EXCEPT !.rx_offset = @ + length, !.rx_count = @ - length]
              [] kind = "ReceiveCompletion" ->
                   [d EXCEPT !.rx_active = @ /\ ~stop, !.overflow = @ \/ e.rx_overflow,
                             !.interrupt = @ \/ e.rx_overflow \/ (e.rx_interrupt /\ e.expired),
                             !.rx_waiting = IF e.rx_interrupt THEN ~e.expired ELSE @,
                             !.rx_frame = <<>>, !.rx_stage = "Idle"]

-----------------------------------------------------------------------------
(* Transmit *)

\* What follows a descriptor's last byte: the frame is sent, the chain has ended
\* inside a packet, or the next descriptor is due.
AfterDescriptor(e) ==
    [e EXCEPT !.tx_stage = IF e.tx_packet_end THEN "Send" ELSE IF e.tx_chain_end THEN "Fault" ELSE "Descriptor",
              !.tx_delay = IF e.tx_interrupt /\ ~e.tx_packet_end THEN HpcTick ELSE @]

TransmitAt(e, ready) ==
    CASE e.tx_stage = "Fault" ->
           [channel |-> [e EXCEPT !.tx_stage = "Idle"], request |-> [op |-> "underflow"]]
      [] e.tx_stage = "Descriptor" /\ e.tx_active ->
           [channel |-> e, request |-> [op |-> "read", kind |-> "TransmitDescriptor", address |-> e.tx_next]]
      [] e.tx_stage = "Data" /\ e.tx_active ->
           [channel |-> e, request |-> [op |-> "read", kind |-> "TransmitData", address |-> e.tx_current,
                                        length |-> Min({e.tx_count, Chunk})]]
      [] e.tx_stage = "Send" /\ e.tx_active /\ ready ->
           [channel |-> [e EXCEPT !.tx_stage = "Wire", !.tx_frame = <<>>,
                                  !.inflight = [first |-> e.tx_packet, chain_end |-> e.tx_chain_end,
                                                interrupt |-> e.tx_interrupt, attached |-> TRUE]],
            request |-> [op |-> "transmit", frame |-> e.tx_frame]]
      [] OTHER -> [channel |-> e, request |-> NoRequest]

\* A restarted channel waits for the frame the controller still holds.
TransmitRequest(e, ready) ==
    IF e.inflight # Nothing THEN [channel |-> e, request |-> NoRequest]
    ELSE IF e.tx_stage = "Data" /\ e.tx_active /\ e.tx_count = 0 THEN TransmitAt(AfterDescriptor(e), ready)
    ELSE TransmitAt(e, ready)

FailRead(e, kind) ==
    IF kind = "ReceiveDescriptor" THEN StopReceive(e)
    ELSE [e EXCEPT !.tx_active = FALSE, !.tx_stage = "Fault", !.tx_frame = <<>>]

\* `found` is the descriptor or the data read, Nothing after a failed read.
CompleteRead(e, kind, found) ==
    CASE found = Nothing -> FailRead(e, kind)
      [] found # Nothing /\ kind = "TransmitData" ->
           LET d == [e EXCEPT !.dma_delay = HpcTick * Len(found.bytes)] IN
           IF Len(e.tx_frame) + Len(found.bytes) > MaxFrame THEN FailRead(d, kind)
           ELSE [d EXCEPT !.tx_frame = @ \o found.bytes, !.tx_count = @ - Len(found.bytes),
                          !.tx_position = @ + Len(found.bytes)]
      [] found # Nothing /\ kind = "ReceiveDescriptor" ->
           LET d == [e EXCEPT !.dma_delay = HpcTick * 3] IN
           IF ~found.owned THEN StopReceive(d)
           ELSE [d EXCEPT !.rx_current = e.rx_next, !.rx_next = found.next, !.rx_count = Saturating(found.count, 2),
                          !.rx_end = found.end, !.rx_stage = "Data"]
      [] found # Nothing /\ kind = "TransmitDescriptor" ->
           [e EXCEPT !.dma_delay = HpcTick * 3, !.tx_current = e.tx_next, !.tx_next = found.next,
                     !.tx_packet = IF e.tx_first THEN e.tx_next ELSE @, !.tx_first = FALSE,
                     !.tx_count = found.count, !.tx_position = 0,
                     !.tx_packet_end = found.packet_end, !.tx_chain_end = found.end,
                     !.tx_interrupt = found.interrupt, !.tx_stage = "Data"]

\* The controller's result.  A detached frame reports its status and changes
\* nothing of a channel that was stopped or restarted since.
CompleteTransmit(e, status, interrupt) ==
    LET context == e.inflight
        requested == IF context = Nothing THEN e.tx_interrupt ELSE context.interrupt
        successful == "success" \in status
        c == [e EXCEPT !.inflight = Nothing, !.tx_status = status,
                       !.tx_delay = IF requested \/ (~successful /\ interrupt) THEN HpcTick ELSE @]
        continues == successful /\ context # Nothing /\ ~context.chain_end /\ e.tx_active
    IN IF context # Nothing /\ ~context.attached THEN c
       ELSE [c EXCEPT !.tx_previous = IF successful /\ context # Nothing THEN context.first ELSE @,
                      !.tx_active = continues, !.tx_stage = IF continues THEN "Descriptor" ELSE "Idle",
                      !.tx_first = TRUE]

-----------------------------------------------------------------------------
(* Arbitration and time *)

\* The engines take turns at being asked first.
NextRequest(e, ready) ==
    LET turned == [e EXCEPT !.prefer_receive = ~@]
        receive == ReceiveRequest(turned)
        transmit == TransmitRequest(turned, ready)
    IN IF e.reset \/ e.dma_delay # 0 THEN [channel |-> e, request |-> NoRequest]
       ELSE IF e.prefer_receive
            THEN IF receive.request # NoRequest THEN receive ELSE TransmitRequest(receive.channel, ready)
            ELSE IF transmit.request # NoRequest THEN transmit ELSE ReceiveRequest(transmit.channel)

DmaWork(e, ready) ==
    \/ e.rx_stage # "Idle"
    \/ /\ e.inflight = Nothing
       /\ \/ e.tx_stage \in {"Descriptor", "Data", "Fault"}
          \/ e.tx_stage = "Send" /\ ready

\* Mutant: a timer that the guest declares expired wakes no interrupt that waits.
ChannelTimesAfterCountdown(e, ready) ==
    IF e.reset THEN {}
    ELSE (IF DmaWork(e, ready) THEN {e.dma_delay} ELSE {})
           \cup (IF e.tx_delay # NoDelay THEN {e.tx_delay} ELSE {})
           \cup (IF ~e.expired /\ e.timer # 0 THEN {e.timer * HpcTick - e.phase} ELSE {})

ChannelTimes(e, ready) ==
    IF e.reset THEN {}
    ELSE (IF DmaWork(e, ready) THEN {e.dma_delay} ELSE {})
           \cup (IF e.tx_delay # NoDelay THEN {e.tx_delay} ELSE {})
           \cup (IF ~e.expired /\ e.timer # 0 THEN {e.timer * HpcTick - e.phase} ELSE {})
           \cup (IF e.expired /\ e.rx_waiting THEN {0} ELSE {})

AdvanceTimer(e, ticks) ==
    IF e.expired \/ e.timer = 0 THEN e
    ELSE IF ticks >= e.timer THEN [e EXCEPT !.timer = 0, !.expired = TRUE]
    ELSE [e EXCEPT !.timer = @ - ticks]

AdvanceChannelEthernet(e, elapsed) ==
    LET t == AdvanceTimer([e EXCEPT !.phase = (@ + elapsed) % HpcTick], (e.phase + elapsed) \div HpcTick)
        due == e.tx_delay # NoDelay /\ e.tx_delay <= elapsed
        deliver == t.expired /\ t.rx_waiting
    IN [t EXCEPT !.dma_delay = Saturating(@, elapsed),
                 !.tx_delay = IF @ = NoDelay \/ due THEN NoDelay ELSE @ - elapsed,
                 !.interrupt = @ \/ due \/ deliver, !.rx_waiting = @ /\ ~deliver]
=============================================================================
