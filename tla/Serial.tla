-------------------------------- MODULE Serial --------------------------------
(* The serial controller (z85230.rs): two channels, each with a receive FIFO,  *)
(* a transmit FIFO and a transmitter that shifts one character at a time, and  *)
(* four interrupt sources in a fixed priority order.  A write register is the  *)
(* part of the record `wr` its bits stand for; characters are opaque values.   *)
EXTENDS Integers, Sequences, FiniteSetsExt

CONSTANTS
    ReceiveFifo, TransmitFifo,      \* RECEIVE_FIFO_BYTES, TRANSMIT_FIFO_BYTES
    ReceiveThreshold,               \* characters for the raised receive threshold: 4
    SecondUnits, ClockHz            \* time units in a second; the clock

ASSUME Z85230Assumption ==
    /\ {ReceiveFifo, TransmitFifo, ReceiveThreshold, SecondUnits, ClockHz} \subseteq Nat \ {0}

Idle == [idle |-> TRUE]
Channel == {"A", "B"}

\* PRIORITY_ORDER
Source == << <<"A", "Receive">>, <<"A", "Transmit">>, <<"B", "Receive">>, <<"B", "Transmit">> >>

NewChannel ==
    [selected |-> 0,
     wr |-> [rx_mode |-> 0, tx_int |-> FALSE,                     \* WR1
             rx_enable |-> FALSE,                                 \* WR3
             stop |-> 1, parity |-> FALSE, factor |-> 1,          \* WR4
             tx_enable |-> FALSE, data_bits |-> 5,                \* WR5
             brg_source |-> FALSE,                                \* WR11
             time_constant |-> 0,                                 \* WR12 and WR13
             brg_enable |-> FALSE, loopback |-> FALSE,            \* WR14
             prime_seven |-> FALSE],                              \* WR15
     prime |-> [threshold |-> FALSE, fifo_empty |-> TRUE],        \* WR7'
     receive |-> <<>>, armed |-> FALSE, error_latch |-> FALSE, locked |-> FALSE,
     transmit |-> <<>>, tx_pending |-> FALSE, active |-> Idle, timing_remainder |-> 0]

NewZ85230 == [channels |-> [A |-> NewChannel, B |-> NewChannel], master_enable |-> FALSE,
              software_ack |-> FALSE, under_service |-> {}]

\* Everything but the master interrupt control.
ResetExceptMaster(z) == [z EXCEPT !.channels = NewZ85230.channels, !.under_service = {}]

-----------------------------------------------------------------------------
(* Receiver.  A received character is [value, overrun].                       *)

ReceiveCharacter(c, value) ==
    IF Len(c.receive) = ReceiveFifo
    THEN [c EXCEPT !.receive[ReceiveFifo] = [value |-> value, overrun |-> TRUE]]
    ELSE [c EXCEPT !.receive = Append(@, [value |-> value, overrun |-> FALSE])]

\* DCD is always asserted, so WR3 alone enables the receiver.
ReceiveExternalCharacter(c, value) ==
    IF c.wr.loopback \/ ~c.wr.rx_enable THEN c ELSE ReceiveCharacter(c, value)
ReceiveLocalLoopback(c, value) == IF c.wr.rx_enable THEN ReceiveCharacter(c, value) ELSE c

\* A character with a special condition stays and locks the FIFO in modes 1 and 3.
ReadData(c) ==
    IF c.receive = <<>> \/ c.locked THEN c
    ELSE LET special == Head(c.receive).overrun
             l == [c EXCEPT !.error_latch = @ \/ special]
         IN IF c.wr.rx_mode \in {1, 3} /\ special
            THEN [l EXCEPT !.locked = TRUE, !.armed = FALSE]
            ELSE [l EXCEPT !.receive = Tail(@), !.armed = @ /\ c.wr.rx_mode # 1]

SpecialReceiveInterruptPending(c) == c.locked \/ c.error_latch

ReceiveInterruptThreshold(c) == IF c.prime.threshold THEN ReceiveThreshold ELSE 1
SpecialWithin(c, count) ==
    c.error_latch \/ \E i \in 1..Len(c.receive) : i <= count /\ c.receive[i].overrun

ReceiveInterruptPending(c) ==
    CASE c.wr.rx_mode = 0 -> FALSE
      [] c.wr.rx_mode = 1 -> SpecialReceiveInterruptPending(c) \/ (c.armed /\ c.receive # <<>>)
      [] c.wr.rx_mode = 2 -> \/ Len(c.receive) >= ReceiveInterruptThreshold(c)
                             \/ SpecialWithin(c, ReceiveInterruptThreshold(c))
      [] c.wr.rx_mode = 3 -> SpecialReceiveInterruptPending(c)

\* Error reset drops the special character the FIFO is locked on, or is about to be.
ResetReceiveErrors(c) ==
    LET unread == c.wr.rx_mode \in {1, 3} /\ c.receive # <<>> /\ Head(c.receive).overrun IN
    [c EXCEPT !.receive = IF c.locked \/ unread THEN Tail(@) ELSE @,
              !.error_latch = FALSE, !.locked = FALSE]

-----------------------------------------------------------------------------
(* Transmitter *)

\* Half bits of a frame, times the baud generator's divisor; zero when the
\* transmitter cannot run.
FrameUnits(c) ==
    IF ~c.wr.tx_enable \/ ~c.wr.brg_source \/ ~c.wr.brg_enable \/ c.wr.stop = 0 THEN 0
    ELSE (2 + c.wr.data_bits * 2 + (IF c.wr.parity THEN 2 ELSE 0) + c.wr.stop + 1)
           * (c.wr.time_constant + 2) * c.wr.factor

CanStart(c) == c.active = Idle /\ c.transmit # <<>> /\ FrameUnits(c) # 0

StartTransmitter(c) ==
    IF ~CanStart(c) THEN c
    ELSE LET numerator == FrameUnits(c) * SecondUnits + c.timing_remainder IN
         [c EXCEPT !.transmit = Tail(@), !.timing_remainder = numerator % ClockHz,
                   !.active = [value |-> Head(c.transmit), remaining |-> numerator \div ClockHz,
                               loopback |-> c.wr.loopback]]

LatchTransmitInterruptIfReady(c) ==
    LET ready == IF c.prime.fifo_empty THEN c.transmit = <<>> ELSE Len(c.transmit) < TransmitFifo IN
    [c EXCEPT !.tx_pending = @ \/ (c.wr.tx_int /\ ready)]

\* A full FIFO drops the character.
WriteData(c, value) ==
    IF Len(c.transmit) = TransmitFifo THEN c
    ELSE StartTransmitter([c EXCEPT !.tx_pending = FALSE, !.transmit = Append(@, value)])

\* A finished character is output, raises the interrupt and is received back in
\* loopback; the next one starts at once.
RestartTransmitter(c) ==
    IF CanStart(c) THEN LatchTransmitInterruptIfReady(StartTransmitter(c)) ELSE c
FinishCharacter(s) ==
    LET done == LatchTransmitInterruptIfReady([s EXCEPT !.active = Idle]) IN
    IF s.active.loopback THEN ReceiveLocalLoopback(done, s.active.value) ELSE done
OutputBefore(value, rest) == [device |-> rest.device, sent |-> <<value>> \o rest.sent]

RECURSIVE AdvanceActiveChannel(_, _)
AdvanceActiveChannel(s, elapsed) ==
    IF s.active = Idle THEN [device |-> s, sent |-> <<>>]
    ELSE IF elapsed < s.active.remaining
         THEN [device |-> [s EXCEPT !.active.remaining = @ - elapsed], sent |-> <<>>]
         ELSE OutputBefore(s.active.value,
                           AdvanceActiveChannel(RestartTransmitter(FinishCharacter(s)),
                                                elapsed - s.active.remaining))
AdvanceChannel(c, elapsed) == AdvanceActiveChannel(RestartTransmitter(c), elapsed)

-----------------------------------------------------------------------------
(* Interrupts *)

InterruptRequested(z, source) ==
    LET c == z.channels[source[1]] IN
    IF source[2] = "Receive" THEN ReceiveInterruptPending(c) ELSE c.tx_pending /\ c.wr.tx_int

\* The first requesting source in priority order, unless one under service comes first.
HighestPending(z) ==
    {Source[i] : i \in {j \in 1..4 :
        /\ InterruptRequested(z, Source[j])
        /\ \A k \in 1..j : Source[k] \notin z.under_service
        /\ \A k \in 1..(j - 1) : ~InterruptRequested(z, Source[k])}}
InterruptAsserted(z) == z.master_enable /\ HighestPending(z) # {}

ResetHighestUnderService(z) ==
    [z EXCEPT !.under_service =
        @ \ {Source[i] : i \in {j \in 1..4 : Source[j] \in z.under_service
                                             /\ \A k \in 1..(j - 1) : Source[k] \notin z.under_service}}]

-----------------------------------------------------------------------------
(* The chip *)

AdvanceZ85230(z, elapsed) ==
    LET a == AdvanceChannel(z.channels.A, elapsed)
        b == AdvanceChannel(z.channels.B, elapsed)
    IN [device |-> [z EXCEPT !.channels = [A |-> a.device, B |-> b.device]],
        sent |-> [A |-> a.sent, B |-> b.sent]]

SerialTimeUntilEvent(z) ==
    LET active == {c \in Channel : z.channels[c].active # Idle} IN
    IF active = {} THEN -1 ELSE Min({z.channels[c].active.remaining : c \in active})

ExecuteCommand(z, c, command) ==
    CASE command = 4 -> [z EXCEPT !.channels[c].armed = TRUE]
      [] command = 5 -> [z EXCEPT !.channels[c].tx_pending = FALSE]
      [] command = 6 -> [z EXCEPT !.channels[c] = ResetReceiveErrors(@)]
      [] command = 7 -> ResetHighestUnderService(z)
      [] OTHER -> z

WriteMasterInterruptControl(z, value) ==
    LET r == CASE value.reset \in Channel ->
                    [z EXCEPT !.channels[value.reset] = NewChannel,
                              !.under_service = {s \in @ : s[1] # value.reset}]
               [] value.reset = "chip" -> ResetExceptMaster(z)
               [] value.reset = "none" -> z
    IN [r EXCEPT !.master_enable = value.enable, !.software_ack = value.software_ack]

\* The bits of a write register replace the ones it held.
SetFields(record, fields) ==
    [f \in DOMAIN record |-> IF f \in DOMAIN fields THEN fields[f] ELSE record[f]]

\* WR0 selects a register (command 1, point high, adds 8) and runs a command; the
\* next write goes to the register selected, then the pointer falls back to 0.
WriteSerialControl(z, c, value) ==
    LET register == z.channels[c].selected
        u == [z EXCEPT !.channels[c].selected = 0]
        w == CASE register = 2 -> u
               [] register = 9 -> WriteMasterInterruptControl(u, value)
               [] register = 7 /\ z.channels[c].wr.prime_seven ->
                    [u EXCEPT !.channels[c].prime = SetFields(@, value)]
               [] OTHER -> [u EXCEPT !.channels[c].wr = SetFields(@, value),
                                     !.channels[c].armed =
                                        IF register = 1 THEN value.rx_mode = 1 ELSE @]
    IN IF register = 0
       THEN ExecuteCommand([z EXCEPT !.channels[c].selected =
                               value.pointer + (IF value.command = 1 THEN 8 ELSE 0)], c, value.command)
       ELSE [w EXCEPT !.channels[c] = StartTransmitter(@)]

\* Reading register 8 is reading data; reading RR2 on channel B acknowledges.
ReadSerialControl(z, c) ==
    LET register == z.channels[c].selected
        u == [z EXCEPT !.channels[c].selected = 0]
    IN IF register = 8 THEN [u EXCEPT !.channels[c] = ReadData(@)]
       ELSE IF c = "B" /\ register = 2 /\ z.software_ack
            THEN [u EXCEPT !.under_service = @ \cup HighestPending(z)]
            ELSE u

-----------------------------------------------------------------------------
(* The SGI keyboard (sgi_keyboard.rs) and mouse (sgi_mouse.rs): each turns     *)
(* host input into serial characters that leave one after the other, a frame  *)
(* apart.  Time is a count of units; a frame lasts FrameUnits / Baud of them  *)
(* and the fraction is carried to the next frame.  Both devices are records   *)
(* and every operation is an operator from a record to a record.              *)

CONSTANTS
    SgiKey,             \* key codes
    Repeatable,         \* the keys that repeat while they are held
    KeyFrame, KeyBaud,  \* FRAME_BITS * ATTOSECONDS_PER_SECOND and BAUD
    RepeatDelay,        \* REPEAT_DELAY_ATTOSECONDS
    RepeatUnits, RepeatRate,
    MouseFrame, MouseBaud,
    AxisMin, AxisMax    \* i8::MIN and i8::MAX

ASSUME InputAssumption ==
    /\ Repeatable \subseteq SgiKey
    /\ {KeyFrame, KeyBaud, RepeatDelay, RepeatUnits, RepeatRate, MouseFrame, MouseBaud} \subseteq Nat \ {0}
    /\ KeyFrame >= KeyBaud /\ MouseFrame >= MouseBaud /\ RepeatUnits >= RepeatRate
    /\ AxisMin \in Int /\ AxisMax \in Nat \ {0} /\ AxisMin < 0

None == [none |-> TRUE]
Never == -1

\* The earliest of a set of deadlines, some of which may be absent.
Earliest(times) == IF times \subseteq {Never} THEN Never ELSE Min(times \ {Never})

-----------------------------------------------------------------------------
(* Frame timing *)

\* Whole units of the next frame, and the remainder carried into the one after.
FrameLength(units, rate, carried) == (units + carried) \div rate
FrameCarry(units, rate, carried) == (units + carried) % rate

-----------------------------------------------------------------------------
(* Keyboard *)

NewTimedOutput == [queued |-> <<>>, active |-> None, timing_remainder |-> 0]

NewKeyboard ==
    [pressed |-> {}, output |-> NewTimedOutput, repeat_enabled |-> FALSE,
     repeat_candidate |-> {}, repeat_remaining |-> Never, repeat_timing_remainder |-> 0,
     click_disabled |-> FALSE, leds |-> {}]

Down(key) == <<"down", key>>
Up(key) == <<"up", key>>

Push(o, value) == [o EXCEPT !.queued = Append(@, value)]

EnsureActive(o) ==
    IF o.active # None \/ o.queued = <<>> THEN o
    ELSE [queued |-> Tail(o.queued),
          active |-> [value |-> Head(o.queued),
                      remaining |-> FrameLength(KeyFrame, KeyBaud, o.timing_remainder)],
          timing_remainder |-> FrameCarry(KeyFrame, KeyBaud, o.timing_remainder)]

OutputTimeUntilEvent(o) ==
    IF o.active # None THEN o.active.remaining
    ELSE IF o.queued # <<>> THEN FrameLength(KeyFrame, KeyBaud, o.timing_remainder)
    ELSE Never

\* The output after `elapsed` units, which never pass the end of the active byte.
Elapse(o, elapsed) ==
    LET e == EnsureActive(o) IN
    IF e.active = None THEN [output |-> e, sent |-> <<>>]
    ELSE IF e.active.remaining = elapsed
         THEN [output |-> [e EXCEPT !.active = None], sent |-> <<e.active.value>>]
         ELSE [output |-> [e EXCEPT !.active.remaining = @ - elapsed], sent |-> <<>>]

StopRepeat(k) ==
    [k EXCEPT !.repeat_candidate = {}, !.repeat_remaining = Never, !.repeat_timing_remainder = 0]

\* Mutant: releasing a key leaves its repetition armed.
SetKeyStateKeepsRepeat(k, key, pressed) ==
    IF (key \in k.pressed) = pressed THEN k
    ELSE IF ~pressed THEN [k EXCEPT !.pressed = @ \ {key}, !.output = Push(@, Up(key))]
    ELSE LET p == [k EXCEPT !.pressed = @ \cup {key}, !.output = Push(@, Down(key))] IN
         IF k.repeat_enabled /\ key \in Repeatable
         THEN [p EXCEPT !.repeat_candidate = {key}, !.repeat_remaining = RepeatDelay,
                        !.repeat_timing_remainder = 0]
         ELSE p

\* A key that is already in the state asked for sends nothing.
SetKeyState(k, key, pressed) ==
    IF (key \in k.pressed) = pressed THEN k
    ELSE IF pressed THEN
        LET p == [k EXCEPT !.pressed = @ \cup {key}, !.output = Push(@, Down(key))] IN
        IF k.repeat_enabled /\ key \in Repeatable
        THEN [p EXCEPT !.repeat_candidate = {key}, !.repeat_remaining = RepeatDelay,
                       !.repeat_timing_remainder = 0]
        ELSE p
    ELSE LET r == [k EXCEPT !.pressed = @ \ {key}, !.output = Push(@, Up(key))] IN
         IF k.repeat_candidate = {key} THEN StopRepeat(r) ELSE r

\* A command byte: the even one sets click, identification, two LEDs and
\* repetition; the odd one complements those LEDs and sets the other five.
ReceiveCommand(k, command) ==
    IF command.even THEN
        LET c == [k EXCEPT !.click_disabled = command.click,
                           !.output = IF command.identify
                                      THEN Push(Push(@, <<"id", 110>>), <<"id", 0>>) ELSE @,
                           !.leds = (@ \ {0, 1}) \cup (command.leds \cap {0, 1})]
            s == IF k.repeat_enabled /\ ~command.repeat THEN StopRepeat(c) ELSE c
        IN [s EXCEPT !.repeat_enabled = command.repeat]
    ELSE [k EXCEPT !.leds =
            (IF command.complement THEN {0, 1} \ @ ELSE @ \cap {0, 1})
              \cup (command.leds \cap 2..6)]

KeyboardTimeUntilEvent(k) == Earliest({OutputTimeUntilEvent(k.output), k.repeat_remaining})

\* An expired repeat timer queues the candidate again and is rearmed.
ExpireRepeat(k) ==
    IF k.repeat_remaining # 0 THEN k
    ELSE IF k.repeat_candidate = {} THEN [k EXCEPT !.repeat_remaining = Never]
    ELSE [k EXCEPT !.output = Push(@, Down(CHOOSE key \in k.repeat_candidate : TRUE)),
                   !.repeat_remaining = FrameLength(RepeatUnits, RepeatRate, k.repeat_timing_remainder),
                   !.repeat_timing_remainder = FrameCarry(RepeatUnits, RepeatRate, k.repeat_timing_remainder)]

ElapseKeyboard(k, elapsed) ==
    LET e == Elapse(k.output, elapsed) IN
    [device |-> [k EXCEPT !.output = e.output,
                          !.repeat_remaining = IF @ = Never THEN @ ELSE @ - elapsed],
     sent |-> e.sent]

\* What a device sends before the rest of an advance.
SentBefore(sent, rest) == [device |-> rest.device, sent |-> sent \o rest.sent]

\* From event to event; `next` is the time until s's next one.
RECURSIVE AdvanceActiveKeyboard(_, _, _)
ThenAdvanceKeyboard(e, elapsed) ==
    LET s == [ExpireRepeat(e.device) EXCEPT !.output = EnsureActive(@)] IN
    SentBefore(e.sent, AdvanceActiveKeyboard(s, KeyboardTimeUntilEvent(s), elapsed))
AdvanceActiveKeyboard(s, next, elapsed) ==
    IF next = Never THEN [device |-> s, sent |-> <<>>]
    ELSE IF elapsed < next THEN ElapseKeyboard(s, elapsed)
    ELSE ThenAdvanceKeyboard(ElapseKeyboard(s, next), elapsed - next)
AdvanceKeyboard(k, elapsed) ==
    LET s == [k EXCEPT !.output = EnsureActive(@)] IN
    AdvanceActiveKeyboard(s, KeyboardTimeUntilEvent(s), elapsed)

-----------------------------------------------------------------------------
(* Mouse *)

NewMouse == [buttons |-> {}, pending |-> <<>>, packet |-> <<>>, active |-> None, timing_remainder |-> 0]

Motion(buttons, dx, dy) == [motion |-> TRUE, buttons |-> buttons, dx |-> dx, dy |-> dy]
Button(buttons) == [motion |-> FALSE, buttons |-> buttons, dx |-> 0, dy |-> 0]

\* Motion joins the last pending motion made with the same buttons held.
MoveRelative(m, dx, dy) ==
    LET n == Len(m.pending) IN
    IF dx = 0 /\ dy = 0 THEN m
    ELSE IF n > 0 /\ m.pending[n].motion /\ m.pending[n].buttons = m.buttons
         THEN [m EXCEPT !.pending[n].dx = @ + dx, !.pending[n].dy = @ + dy]
         ELSE [m EXCEPT !.pending = Append(@, Motion(m.buttons, dx, dy))]

SetButtonState(m, button, pressed) ==
    IF (button \in m.buttons) = pressed THEN m
    ELSE LET held == IF pressed THEN m.buttons \cup {button} ELSE m.buttons \ {button} IN
         [m EXCEPT !.buttons = held, !.pending = Append(@, Button(held))]

Clamp(v) == IF v < AxisMin THEN AxisMin ELSE IF v > AxisMax THEN AxisMax ELSE v

\* The two samples of a packet and the motion they account for.
SplitAxis(v) == LET first == Clamp(v) IN
                LET second == Clamp(v - first) IN <<first, second, first + second>>

\* The five bytes of the next packet; what does not fit stays pending, first.
Packet(m, segment, x, y) ==
    LET left == Motion(segment.buttons, segment.dx - x[3], segment.dy - y[3]) IN
    [m EXCEPT !.pending = IF segment.motion /\ (left.dx # 0 \/ left.dy # 0)
                          THEN <<left>> \o Tail(@) ELSE Tail(@),
              !.packet = << <<"buttons", segment.buttons>>, <<"x", x[1]>>, <<"y", y[1]>>,
                            <<"x", x[2]>>, <<"y", y[2]>> >>]
MaterializePacket(m) ==
    IF m.packet # <<>> \/ m.pending = <<>> THEN m
    ELSE Packet(m, Head(m.pending), SplitAxis(Head(m.pending).dx), SplitAxis(Head(m.pending).dy))

StartByte(p) ==
    IF p.packet = <<>> THEN p
    ELSE [p EXCEPT !.packet = Tail(@),
                   !.active = [value |-> Head(p.packet),
                               remaining |-> FrameLength(MouseFrame, MouseBaud, p.timing_remainder)],
                   !.timing_remainder = FrameCarry(MouseFrame, MouseBaud, @)]
MouseEnsureActive(m) == IF m.active # None THEN m ELSE StartByte(MaterializePacket(m))

MouseTimeUntilEvent(m) ==
    IF m.active # None THEN m.active.remaining
    ELSE IF m.packet # <<>> \/ m.pending # <<>> THEN FrameLength(MouseFrame, MouseBaud, m.timing_remainder)
    ELSE Never

RECURSIVE AdvanceActiveMouse(_, _)
AdvanceActiveMouse(s, elapsed) ==
    IF s.active = None THEN [device |-> s, sent |-> <<>>]
    ELSE IF elapsed < s.active.remaining
         THEN [device |-> [s EXCEPT !.active.remaining = @ - elapsed], sent |-> <<>>]
         ELSE SentBefore(<<s.active.value>>,
                         AdvanceActiveMouse(MouseEnsureActive([s EXCEPT !.active = None]),
                                            elapsed - s.active.remaining))
AdvanceMouse(m, elapsed) == AdvanceActiveMouse(MouseEnsureActive(m), elapsed)
=============================================================================
