-------------------------------- MODULE Int2 --------------------------------
(* The INT2 interrupt controller (int2.rs) and its programmable timer          *)
(* (int2/timer.rs).  Counter 2 divides the oscillator and clocks counters 0    *)
(* and 1, whose outputs are latched as the two timer interrupts.  A controller *)
(* is a record; an operation answers [int2 |-> .., ok |-> ..], ok being FALSE  *)
(* when the code returns an error.                                             *)
EXTENDS Integers, FiniteSetsExt

CONSTANTS
    Tick,           \* ATTOSECONDS_PER_TICK, in time units
    ByteSize        \* the counts one byte of a counter can hold: 256 in the code

ASSUME Int2Assumption == Tick \in Nat \ {0} /\ ByteSize \in Nat \ {0, 1}

\* COUNTER_ZERO_ENCODING: a counter written with zero counts the whole range.
CounterZero == ByteSize * ByteSize
NoTime == -1
NoByte == -1

CounterId == 0..2
\* interrupt_index: counters 0 and 1 interrupt, counter 2 only clocks them.
Interrupting == {0, 1}

-----------------------------------------------------------------------------
(* One counter.  state is "Unconfigured", "AwaitingCount", "WaitingForGate",   *)
(* "RateGenerator" or "Quiescent"; mode, low, reload and remaining hold what   *)
(* that state carries and are zero otherwise.                                  *)

Unlatched == [value |-> NoByte, read_high |-> FALSE]

CounterIn(state, mode, low, reload, remaining, latch) ==
    [state |-> state, mode |-> mode, low |-> low, reload |-> reload, remaining |-> remaining,
     latch |-> latch]

NewCounter == CounterIn("Unconfigured", 0, NoByte, 0, 0, Unlatched)
Configured(mode) == CounterIn("AwaitingCount", mode, NoByte, 0, 0, Unlatched)
Quiesced == CounterIn("Quiescent", 0, NoByte, 0, 0, Unlatched)

RateGenerator(c) == c.state = "RateGenerator"

\* Low byte, then high byte; a rate generator cannot divide by one.
WriteCounter(c, value) ==
    LET encoded == c.low + value * ByteSize
        reload == IF encoded = 0 THEN CounterZero ELSE encoded
    IN IF c.state # "AwaitingCount" THEN [counter |-> c, ok |-> FALSE]
       ELSE IF c.low = NoByte THEN [counter |-> [c EXCEPT !.low = value], ok |-> TRUE]
       ELSE IF c.mode = 2 /\ reload = 1 THEN [counter |-> c, ok |-> FALSE]
       ELSE [counter |-> CASE c.mode = 1 -> CounterIn("WaitingForGate", 0, NoByte, reload, 0, Unlatched)
                           [] c.mode = 2 -> CounterIn("RateGenerator", 0, NoByte, reload, reload, Unlatched),
             ok |-> TRUE]

\* The first latch stays until both of its bytes are read.
LatchCounter(c) ==
    LET value == IF RateGenerator(c) THEN c.remaining ELSE c.reload IN
    IF c.state \notin {"WaitingForGate", "RateGenerator"} THEN [counter |-> c, ok |-> FALSE]
    ELSE [counter |-> IF c.latch = Unlatched
                      THEN [c EXCEPT !.latch = [value |-> value % CounterZero, read_high |-> FALSE]]
                      ELSE c,
          ok |-> TRUE]

ReadCounter(c) ==
    IF c.latch = Unlatched THEN [counter |-> c, ok |-> FALSE]
    ELSE [counter |-> [c EXCEPT !.latch = IF @.read_high THEN Unlatched
                                          ELSE [@ EXCEPT !.read_high = TRUE]],
          ok |-> TRUE]

\* The outputs a counter makes on `pulses` inputs, and the counter after them.
CounterOutputs(c, pulses) ==
    IF ~RateGenerator(c) \/ pulses < c.remaining THEN 0
    ELSE 1 + (pulses - c.remaining) \div c.reload
AdvanceCounter(c, pulses) ==
    IF ~RateGenerator(c) THEN c
    ELSE IF pulses < c.remaining THEN [c EXCEPT !.remaining = @ - pulses]
    ELSE [c EXCEPT !.remaining = c.reload - ((pulses - c.remaining) % c.reload)]

-----------------------------------------------------------------------------
(* The timer *)

NewTimer == [counters |-> [i \in CounterId |-> NewCounter],
             deferred |-> [i \in Interrupting |-> FALSE], phase |-> 0]

ClearDeferredOutput(t, i) == [t EXCEPT !.deferred = [j \in Interrupting |-> @[j] /\ j # i]]

\* A control byte: latch a count, configure mode 1 or 2, or quiesce.
WriteControl(t, command) ==
    CASE command.kind = "Latch" ->
           LET l == LatchCounter(t.counters[command.counter]) IN
           [timer |-> [t EXCEPT !.counters[command.counter] = l.counter], ok |-> l.ok]
      [] command.kind = "Configure" ->
           [timer |-> ClearDeferredOutput(
                        [t EXCEPT !.counters[command.counter] = Configured(command.mode)], command.counter),
            ok |-> TRUE]
      [] command.kind = "Quiesce" ->
           [timer |-> ClearDeferredOutput([t EXCEPT !.counters[command.counter] = Quiesced], command.counter),
            ok |-> TRUE]
      [] command.kind = "Undefined" -> [timer |-> t, ok |-> FALSE]

\* An interrupting counter makes its output one input pulse after its terminal
\* count: the pulse may already be owed, or come later in the same advance.
DeferredOutput(c, pulses, due) ==
    pulses > 0 /\ (due \/ (RateGenerator(c) /\ pulses > c.remaining))
DeferredDue(c, pulses, due) ==
    IF pulses = 0 THEN due
    ELSE RateGenerator(c) /\ pulses >= c.remaining /\ (pulses - c.remaining) % c.reload = 0

\* Mutant: the part of a tick left over is forgotten.
TimerAdvanceTruncated(t, elapsed) ==
    LET ticks == elapsed \div Tick
        pulses == CounterOutputs(t.counters[2], ticks)
    IN [timer |-> [counters |-> [i \in CounterId |->
                                   AdvanceCounter(t.counters[i], IF i = 2 THEN ticks ELSE pulses)],
                   deferred |-> [i \in Interrupting |->
                                   DeferredDue(t.counters[i], pulses, t.deferred[i])],
                   phase |-> 0],
        outputs |-> {i \in Interrupting : DeferredOutput(t.counters[i], pulses, t.deferred[i])}]

\* The outputs and the timer after `elapsed` units of time.
TimerAdvance(t, elapsed) ==
    LET combined == t.phase + (elapsed % Tick)
        ticks == elapsed \div Tick + combined \div Tick
        pulses == CounterOutputs(t.counters[2], ticks)
    IN [timer |-> [counters |-> [i \in CounterId |->
                                   AdvanceCounter(t.counters[i], IF i = 2 THEN ticks ELSE pulses)],
                   deferred |-> [i \in Interrupting |->
                                   DeferredDue(t.counters[i], pulses, t.deferred[i])],
                   phase |-> combined % Tick],
        outputs |-> {i \in Interrupting : DeferredOutput(t.counters[i], pulses, t.deferred[i])}]

TimeUntilOutput(t, i) ==
    LET divider == t.counters[2]
        ticks == IF t.deferred[i] THEN divider.remaining
                 ELSE divider.remaining + t.counters[i].remaining * divider.reload
    IN IF ~RateGenerator(divider) \/ (~t.deferred[i] /\ ~RateGenerator(t.counters[i])) THEN NoTime
       ELSE ticks * Tick - t.phase

-----------------------------------------------------------------------------
(* The controller *)

NewInt2 == [status |-> [r \in Interrupting |-> {}], masks |-> [r \in Interrupting |-> {}],
            gio_enable |-> FALSE, timer_pending |-> {}, timer |-> NewTimer,
            gio_input |-> FALSE, gio_latch |-> FALSE]

SetLocalInput(int2, r, line, asserted) ==
    [int2 EXCEPT !.status[r] = IF asserted THEN @ \cup {line} ELSE @ \ {line}]

\* A rising edge is latched only while the output port does not hold the latch clear.
SetGioInterrupt2Input(int2, asserted) ==
    [int2 EXCEPT !.gio_input = asserted,
                 !.gio_latch = @ \/ (asserted /\ ~int2.gio_input /\ int2.gio_enable)]

LocalStatus(int2, r) ==
    int2.status[r] \cup (IF r = 1 /\ int2.gio_latch THEN {"gio2"} ELSE {})
LocalInterruptAsserted(int2, r) == LocalStatus(int2, r) \cap int2.masks[r] # {}

AdvanceInt2(int2, elapsed) ==
    LET a == TimerAdvance(int2.timer, elapsed) IN
    [int2 EXCEPT !.timer = a.timer, !.timer_pending = @ \cup a.outputs]

\* Only a timer whose interrupt is not pending yet is worth an event.
Int2TimeUntilEvent(int2) ==
    LET times == {TimeUntilOutput(int2.timer, i) : i \in Interrupting \ int2.timer_pending} IN
    IF times \subseteq {NoTime} THEN NoTime ELSE Min(times \ {NoTime})

\* A write: a mask, the output port (its low level clears the GIO latch), the
\* timer acknowledge window, a counter, the control byte; a status register or
\* an address between registers is refused.
WriteInt2(int2, access) ==
    CASE access.register = "Mask" -> [int2 |-> [int2 EXCEPT !.masks[access.index] = access.mask], ok |-> TRUE]
      [] access.register = "OutputPort" ->
           [int2 |-> [int2 EXCEPT !.gio_enable = access.enable, !.gio_latch = @ /\ access.enable], ok |-> TRUE]
      [] access.register = "TimerAcknowledge" ->
           [int2 |-> [int2 EXCEPT !.timer_pending = @ \ access.counters], ok |-> TRUE]
      [] access.register = "Counter" ->
           LET w == WriteCounter(int2.timer.counters[access.index], access.value) IN
           [int2 |-> [int2 EXCEPT !.timer.counters[access.index] = w.counter], ok |-> w.ok]
      [] access.register = "Control" ->
           LET w == WriteControl(int2.timer, access.command) IN
           [int2 |-> [int2 EXCEPT !.timer = w.timer], ok |-> w.ok]
      [] access.register = "Status" -> [int2 |-> int2, ok |-> FALSE]

\* A read has an effect only on a latched count.
ReadInt2(int2, access) ==
    IF access.register # "Counter" THEN [int2 |-> int2, ok |-> access.register # "Control"]
    ELSE LET r == ReadCounter(int2.timer.counters[access.index]) IN
         [int2 |-> [int2 EXCEPT !.timer.counters[access.index] = r.counter], ok |-> r.ok]
=============================================================================
