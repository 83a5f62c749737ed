-------------------------------- MODULE Board -------------------------------
(* The timed side of the IP12 bus (bus.rs, bus/timing.rs, bus/wiring.rs,       *)
(* events.rs): the interrupt controller with its timers, two serial            *)
(* controllers, the keyboard and the mouse on the first of them, the clock,    *)
(* the EEPROM, and the rest of the address map (Peripherals).  Devices are     *)
(* brought up to date lazily: a device is advanced when a guest touches it or  *)
(* when the deadline it announced is due.  All of the bus is one record, an    *)
(* operation of the code an operator on it.                                    *)
(*                                                                             *)
(* `scenario` is chosen once: its script is carried out first, its ops may     *)
(* follow in any order, up to its limit.                                       *)
EXTENDS Int2, Serial, BatteryBacked, Peripherals

CONSTANT Scenarios

VARIABLES
    bus,        \* the bus, below
    phase,      \* "idle", or "dispatch" inside advance_time's loop
    scenario,   \* rigid
    steps,      \* operations carried out
    host,       \* history: the motion the host asked for, by buttons held
    bits,       \* history: the bits clocked into the EEPROM since it was selected
    away        \* a clock off power beside one that stayed on, or Absent

vars == <<bus, phase, scenario, steps, host, bits, away>>

Absent == [absent |-> TRUE]

\* The event kinds of the devices modelled here, in EventKind::ALL's order.
EventKind == <<"Int2", "Rtc", "Hpc1Time", "Serial0", "Serial1">>
SerialKind(index) == IF index = 0 THEN "Serial0" ELSE "Serial1"
SerialLine == "serial"

-----------------------------------------------------------------------------
(* Ip12Events *)

NewEvents == [now |-> 0, synchronized_at |-> [k \in Range(EventKind) |-> 0],
              deadline |-> [k \in Range(EventKind) |-> Never]]

Schedule(b, kind, after) ==
    [b EXCEPT !.events.deadline[kind] = IF after = Never THEN Never ELSE b.events.now + after]

\* The earliest deadline, the first kind of those that share it; {} when none is due.
Due(b) ==
    LET set == {i \in 1..Len(EventKind) : b.events.deadline[EventKind[i]] # Never}
        earliest == Min({b.events.deadline[EventKind[i]] : i \in set})
        first == Min({i \in set : b.events.deadline[EventKind[i]] = earliest})
    IN IF set = {} \/ earliest > b.events.now THEN {} ELSE {EventKind[first]}

TakeDue(b, kind) == [b EXCEPT !.events.deadline[kind] = Never]

Lag(b, kind) == b.events.now - b.events.synchronized_at[kind]
Synchronized(b, kind) == [b EXCEPT !.events.synchronized_at[kind] = b.events.now]

-----------------------------------------------------------------------------
(* Synchronising devices *)

RescheduleInt2(b) == Schedule(b, "Int2", Int2TimeUntilEvent(b.int2))
SynchronizeInt2(b) == [Synchronized(b, "Int2") EXCEPT !.int2 = AdvanceInt2(@, Lag(b, "Int2"))]

RescheduleRtc(b) == Schedule(b, "Rtc", ClockTimeUntilEvent(b.rtc))
SynchronizeRtc(b) ==
    RescheduleRtc([Synchronized(b, "Rtc") EXCEPT !.rtc = AdvanceClock(@, Lag(b, "Rtc"))])

\* HPC1's clock has no deadline of its own: an access to HPC1 brings it up to date.
SynchronizeHpc1(b) ==
    [Synchronized(b, "Hpc1Time") EXCEPT !.io.hpc = AdvanceHpc1(@, Lag(b, "Hpc1Time"))]
SynchronizeHpc1Interrupts(b) ==
    [b EXCEPT !.int2 = SetLocalInput(SetLocalInput(@, 0, "parallel", ParallelInterrupt(b.io.hpc)),
                                     1, "dsp", DspInterrupt(b.io.hpc))]

SynchronizeSerialInterrupt(b) ==
    [b EXCEPT !.int2 = SetLocalInput(@, 0, SerialLine, \E i \in 0..1 : InterruptAsserted(b.serial[i]))]

SerialDeadline(b, index) ==
    IF index = 0
    THEN Earliest({KeyboardTimeUntilEvent(b.keyboard), MouseTimeUntilEvent(b.mouse),
                   SerialTimeUntilEvent(b.serial[0])})
    ELSE SerialTimeUntilEvent(b.serial[1])
RescheduleSerial(b, index) == Schedule(b, SerialKind(index), SerialDeadline(b, index))

\* Bytes arriving on a channel, and commands the guest sent to the keyboard.
Receive(z, channel, values) ==
    FoldLeft(LAMBDA y, v : [y EXCEPT !.channels[channel] = ReceiveExternalCharacter(@, v)], z, values)
Obey(k, commands) == FoldLeft(ReceiveCommand, k, commands)

\* Keyboard, mouse and controller 0 advance together from event to event, so
\* that a byte of one reaches the other at its own time.
JoinSerial0(b, k, m, z) ==
    [b EXCEPT !.keyboard = Obey(k.device, z.sent["A"]), !.mouse = m.device, !.serial[0] = z.device,
              !.keys = @ \o k.sent, !.motion = @ \o m.sent]
ControllerAfter(b, k, m, step) ==
    JoinSerial0(b, k, m, AdvanceZ85230(Receive(Receive(b.serial[0], "A", k.sent), "B", m.sent), step))
StepSerial0(b, step) ==
    ControllerAfter(b, AdvanceKeyboard(b.keyboard, step), AdvanceMouse(b.mouse, step), step)

RECURSIVE AdvanceSerial0(_, _, _)
AdvanceSerial0(b, next, remaining) ==
    LET step == Min({remaining, next})
        after == StepSerial0(b, step)
    IN IF remaining = 0 \/ next = Never THEN b
       ELSE AdvanceSerial0(after, SerialDeadline(after, 0), remaining - step)

JoinSerial1(b, z, dispatched) ==
    [b EXCEPT !.serial[1] = z.device,
              !.lost = @ \/ (~dispatched /\ \E c \in Channel : z.sent[c] # <<>>)]

\* The characters controller 1 outputs go to the front end when an event is
\* dispatched, nowhere when a guest access finds them.
SynchronizeSerial(b, index, dispatched) ==
    LET s == Synchronized(b, SerialKind(index)) IN
    RescheduleSerial(SynchronizeSerialInterrupt(
        IF index = 0 THEN AdvanceSerial0(s, SerialDeadline(s, 0), Lag(b, "Serial0"))
        ELSE JoinSerial1(s, AdvanceZ85230(b.serial[1], Lag(b, "Serial1")), dispatched)), index)

-----------------------------------------------------------------------------
(* Construction, reset, nonvolatile state *)

ScheduleTimedDevices(b) ==
    RescheduleSerial(RescheduleSerial(RescheduleRtc(RescheduleInt2(b)), 0), 1)

NewBus ==
    ScheduleTimedDevices(
        [int2 |-> NewInt2, serial |-> [i \in 0..1 |-> NewZ85230], keyboard |-> NewKeyboard, mouse |-> NewMouse,
         rtc |-> NewClock, nvram |-> NewEeprom, io |-> NewIo, events |-> NewEvents,
         keys |-> <<>>, motion |-> <<>>, lost |-> FALSE])

\* Reset keeps the clock and the EEPROM's words, and restarts virtual time.
ResetBus(b) ==
    SynchronizeHpc1Interrupts(SynchronizeSerialInterrupt(ScheduleTimedDevices(
        [NewBus EXCEPT !.rtc = b.rtc, !.nvram = ResetEeprom(b.nvram), !.io = ResetIo(b.io), !.lost = b.lost])))

NonvolatileState(b) == [nvram |-> b.nvram.words, rtc |-> BatteryState(b.rtc)]

\* Ip12StateFile: the state with the host's time; a clock set back counts for nothing.
HostStart == 1
StateFile(state, now) == [state |-> state, saved_at |-> now]
StateLoads(file) == BatteryStateValid(file.state.rtc)
OfflineMilliseconds(file, now) == IF now < file.saved_at THEN 0 ELSE now - file.saved_at

\* Restoring does not schedule the clock: the first access to it does.
RestoreNonvolatileState(b, saved, milliseconds) ==
    [b EXCEPT !.nvram = RestoreContents(@, saved.nvram),
              !.rtc = RestoreBatteryState(saved.rtc, milliseconds)]

-----------------------------------------------------------------------------
(* Operations *)

\* What may happen now: the rest of the script, then any of the scenario's ops.
Offered ==
    IF phase # "idle" \/ away # Absent THEN {}
    ELSE IF steps < Len(scenario.script) THEN {scenario.script[steps + 1]}
    ELSE IF steps < scenario.limit THEN scenario.ops ELSE {}

Perform(op, b) ==
    /\ op \in Offered
    /\ bus' = b
    /\ steps' = steps + 1
    /\ UNCHANGED <<scenario, away>>

Init ==
    /\ scenario \in Scenarios
    /\ bus = [NewBus EXCEPT !.rtc = scenario.rtc]
    /\ phase = "idle" /\ steps = 0 /\ host = <<[buttons |-> {}, dx |-> 0, dy |-> 0]>>
    /\ bits = <<>> /\ away = Absent

\* advance_time: virtual time passes, then the loop takes what is due.
Advance == \E op \in Offered :
    /\ op.kind = "advance"
    /\ Perform(op, [bus EXCEPT !.events.now = @ + op.elapsed])
    /\ phase' = "dispatch"
    /\ UNCHANGED <<host, bits>>

Dispatch(kind, b) ==
    /\ phase = "dispatch"
    /\ kind \in Due(bus)
    /\ bus' = b
    /\ UNCHANGED <<phase, scenario, steps, host, bits, away>>

DispatchInt2 == Dispatch("Int2", RescheduleInt2(SynchronizeInt2(TakeDue(bus, "Int2"))))
DispatchRtc == Dispatch("Rtc", SynchronizeRtc(TakeDue(bus, "Rtc")))
DispatchSerial == \E i \in 0..1 :
    Dispatch(SerialKind(i), SynchronizeSerial(TakeDue(bus, SerialKind(i)), i, TRUE))

AdvanceEnds ==
    /\ phase = "dispatch"
    /\ Due(bus) = {}
    /\ phase' = "idle"
    /\ UNCHANGED <<bus, scenario, steps, host, bits, away>>

\* Guest accesses.  An access the device refuses still brings it up to date.
AccessInt2 == \E op \in Offered :
    /\ op.kind = "int2"
    /\ \E s \in {SynchronizeInt2(bus)} :
       \E r \in {IF op.write THEN WriteInt2(s.int2, op.access) ELSE ReadInt2(s.int2, op.access)} :
         Perform(op, RescheduleInt2([s EXCEPT !.int2 = r.int2]))
    /\ UNCHANGED <<phase, host, bits>>

SerialAccess(z, op) ==
    CASE op.access = "writeControl" -> WriteSerialControl(z, op.channel, op.value)
      [] op.access = "readControl" -> ReadSerialControl(z, op.channel)
      [] op.access = "writeData" -> [z EXCEPT !.channels[op.channel] = WriteData(@, op.data)]
      [] op.access = "readData" -> [z EXCEPT !.channels[op.channel] = ReadData(@)]

AccessSerial == \E op \in Offered :
    /\ op.kind = "serial"
    /\ \E s \in {SynchronizeSerial(bus, op.index, FALSE)} :
       \E a \in {SerialAccess(s.serial[op.index], op)} :
         Perform(op, RescheduleSerial(SynchronizeSerialInterrupt([s EXCEPT !.serial[op.index] = a]), op.index))
    /\ UNCHANGED <<phase, host, bits>>

AccessRtc == \E op \in Offered :
    /\ op.kind = "rtc"
    /\ \E s \in {SynchronizeRtc(bus)} :
       Perform(op, RescheduleRtc([s EXCEPT !.rtc =
            IF op.write THEN WriteClock(@, op.access) ELSE ReadClock(@, op.access.register)]))
    /\ UNCHANGED <<phase, host, bits>>

\* write_cpu_aux_control drives the EEPROM's pins.
WriteCpuAuxControl == \E op \in Offered :
    /\ op.kind = "aux"
    /\ Perform(op, [bus EXCEPT !.nvram = DrivePins(@, op.select, op.clock, op.data)])
    /\ bits' = IF ~op.select THEN <<>>
               ELSE IF op.clock /\ ~bus.nvram.clock THEN Append(bits, op.data) ELSE bits
    /\ UNCHANGED <<phase, host>>

\* An access anywhere else in the address map.  One to HPC1 brings its clock up to
\* date, and one it accepts as a write drives its interrupt lines.
AccessMapped == \E op \in Offered :
    /\ op.kind = "bus"
    /\ Own(op)
    /\ \E hpc1 \in {ReachesHpc1(op)} :
       \E s \in {IF hpc1 THEN SynchronizeHpc1(bus) ELSE bus} :
       \E r \in {Attempt(s.io, op)} :
       \E b \in {[s EXCEPT !.io = Completed(r, op).io]} :
         Perform(op, IF hpc1 /\ op.write /\ r.error = "none" THEN SynchronizeHpc1Interrupts(b) ELSE b)
    /\ UNCHANGED <<phase, host, bits>>

\* Mutant: the keyboard's new deadline is not announced.
SetSgiKeyStateUnscheduled == \E op \in Offered :
    /\ op.kind = "key"
    /\ \E s \in {SynchronizeSerial(bus, 0, FALSE)} :
       Perform(op, [s EXCEPT !.keyboard = SetKeyState(@, op.key, op.pressed)])
    /\ UNCHANGED <<phase, host, bits>>

\* Front-end input.  The device is brought up to date first and rescheduled after.
SetSgiKeyState == \E op \in Offered :
    /\ op.kind = "key"
    /\ \E s \in {SynchronizeSerial(bus, 0, FALSE)} :
       Perform(op, RescheduleSerial([s EXCEPT !.keyboard = SetKeyState(@, op.key, op.pressed)], 0))
    /\ UNCHANGED <<phase, host, bits>>

\* Motion made with the same buttons held is one segment of the history.
HostMotion(buttons, dx, dy) ==
    IF Last(host).buttons = buttons
    THEN [host EXCEPT ![Len(host)].dx = @ + dx, ![Len(host)].dy = @ + dy]
    ELSE Append(host, [buttons |-> buttons, dx |-> dx, dy |-> dy])

MoveSgiMouse == \E op \in Offered :
    /\ op.kind = "move"
    /\ \E s \in {SynchronizeSerial(bus, 0, FALSE)} :
       Perform(op, RescheduleSerial([s EXCEPT !.mouse = MoveRelative(@, op.dx, op.dy)], 0))
    /\ host' = HostMotion(bus.mouse.buttons, op.dx, op.dy)
    /\ UNCHANGED <<phase, bits>>

SetSgiMouseButtonState == \E op \in Offered :
    /\ op.kind = "button"
    /\ \E s \in {SynchronizeSerial(bus, 0, FALSE)} :
       \E m \in {SetButtonState(s.mouse, op.button, op.pressed)} :
          /\ Perform(op, RescheduleSerial([s EXCEPT !.mouse = m], 0))
          /\ host' = HostMotion(m.buttons, 0, 0)
    /\ UNCHANGED <<phase, bits>>

\* A character from an external line is received at once.
ReceiveSerialCharacter == \E op \in Offered :
    /\ op.kind = "arrival"
    /\ Perform(op, SynchronizeSerialInterrupt([bus EXCEPT !.serial[1] = Receive(@, op.channel, <<op.value>>)]))
    /\ UNCHANGED <<phase, host, bits>>

\* synchronize_gio_interrupts: the three levels an expansion card drives.
SynchronizeGioInterrupts(int2, levels) ==
    SetGioInterrupt2Input(
        SetLocalInput(SetLocalInput(int2, 0, "gio0", "gio0" \in levels), 0, "gio1", "gio1" \in levels),
        "gio2" \in levels)
DriveGio == \E op \in Offered :
    /\ op.kind = "gio"
    /\ Perform(op, [bus EXCEPT !.int2 = SynchronizeGioInterrupts(@, op.levels)])
    /\ UNCHANGED <<phase, host, bits>>

\* A system reset, asked for by the guest or by the front end.
Reset == \E op \in Offered :
    /\ op.kind = "reset"
    /\ Perform(op, ResetBus(bus))
    /\ host' = <<[buttons |-> {}, dx |-> 0, dy |-> 0]>>
    /\ bits' = <<>>
    /\ UNCHANGED phase

\* The machine is put away: its state file is kept while time passes.
PowerOff == \E op \in Offered :
    /\ op.kind = "off"
    /\ away' = [file |-> StateFile(NonvolatileState(bus), HostStart), now |-> HostStart,
                twin |-> bus.rtc, limit |-> op.limit]
    /\ steps' = steps + 1
    /\ UNCHANGED <<bus, phase, scenario, host, bits>>

\* A millisecond off power; the twin is the same clock, left running.
AwayMillisecond ==
    /\ away # Absent
    /\ away.now \in away.file.saved_at .. (away.file.saved_at + away.limit - 1)
    /\ away' = [away EXCEPT !.now = @ + 1, !.twin = AdvanceClock(@, Millisecond)]
    /\ UNCHANGED <<bus, phase, scenario, steps, host, bits>>

\* The host's clock is set to before the save: how long ago it was is not known.
HostClockSetBack ==
    /\ away # Absent
    /\ away.now >= away.file.saved_at
    /\ away' = [away EXCEPT !.now = HostStart - 1, !.twin = away.file.state.rtc]
    /\ UNCHANGED <<bus, phase, scenario, steps, host, bits>>

\* A new machine is built and the saved state restored into it.
PowerOn ==
    /\ away # Absent
    /\ StateLoads(away.file)
    /\ bus' = RestoreNonvolatileState(NewBus, away.file.state, OfflineMilliseconds(away.file, away.now))
    /\ host' = <<[buttons |-> {}, dx |-> 0, dy |-> 0]>>
    /\ bits' = <<>>
    /\ away' = Absent
    /\ UNCHANGED <<phase, scenario, steps>>

DispatchDue == DispatchInt2 \/ DispatchRtc \/ DispatchSerial \/ AdvanceEnds

Next ==
    \/ Advance \/ DispatchDue
    \/ AccessInt2 \/ AccessSerial \/ AccessRtc \/ AccessMapped \/ WriteCpuAuxControl
    \/ SetSgiKeyState \/ MoveSgiMouse \/ SetSgiMouseButtonState \/ ReceiveSerialCharacter \/ DriveGio
    \/ Reset \/ PowerOff \/ AwayMillisecond \/ HostClockSetBack \/ PowerOn

Spec == Init /\ [][Next]_vars

-----------------------------------------------------------------------------
(* Properties *)

\* The CPU's interrupt inputs these devices drive, by the number of the input.
InterruptLines(b) ==
    {1 + r : r \in {i \in Interrupting : LocalInterruptAsserted(b.int2, i)}}
    \cup {3 + t : t \in b.int2.timer_pending}

\* Lazy synchronisation is invisible (timing.rs, "serial deadline must be
\* dispatched before a later MMIO access"): outside advance_time, bringing every
\* device up to date would raise no timer interrupt, change no input of INT2 and no
\* line to the CPU,
\* find no finished character, and no character was ever dropped by a guest access.
NothingOverdue ==
    phase = "idle" =>
        \E s \in {SynchronizeSerial(SynchronizeSerial(SynchronizeInt2(bus), 0, FALSE), 1, FALSE)} :
        /\ InterruptLines(s) = InterruptLines(bus)
        /\ s.int2.timer_pending = bus.int2.timer_pending /\ s.int2.status = bus.int2.status
        /\ s.keys = bus.keys /\ s.motion = bus.motion
        /\ ~s.lost

\* The documented fragmentation rule of the keyboard, the mouse, the serial
\* controller and the timer: splitting a stretch of time into two advances
\* changes neither what a device outputs nor the state it ends in.
FragmentationInvariant ==
    \A a \in 1..2, b \in {1, 4} :
        /\ LET whole == AdvanceKeyboard(bus.keyboard, a + b)
               first == AdvanceKeyboard(bus.keyboard, a)
               second == AdvanceKeyboard(first.device, b)
           IN whole = [device |-> second.device, sent |-> first.sent \o second.sent]
        /\ LET whole == AdvanceMouse(bus.mouse, a + b)
               first == AdvanceMouse(bus.mouse, a)
               second == AdvanceMouse(first.device, b)
           IN whole = [device |-> second.device, sent |-> first.sent \o second.sent]
        /\ \A i \in 0..1 : AdvanceZ85230(bus.serial[i], a + b).device
                             = AdvanceZ85230(AdvanceZ85230(bus.serial[i], a).device, b).device
        /\ AdvanceInt2(bus.int2, a + b) = AdvanceInt2(AdvanceInt2(bus.int2, a), b)

\* What the keyboard has sent and still holds.
KeyStream ==
    bus.keys \o (IF bus.keyboard.output.active = None THEN <<>> ELSE <<bus.keyboard.output.active.value>>)
             \o bus.keyboard.output.queued

\* Every key's codes are downs closed by ups: no up without its down, no repeated
\* down for a key that does not repeat or that was released, and the last code is
\* a down exactly while the key is held.
KeysFaithful ==
    \A key \in SgiKey :
        LET codes == SelectSeq(KeyStream, LAMBDA v : v[1] # "id" /\ v[2] = key) IN
        /\ \A i \in 1..Len(codes) : codes[i] = Up(key) => i > 1 /\ codes[i - 1] = Down(key)
        /\ \A i \in 2..Len(codes) : codes[i] = Down(key) /\ codes[i - 1] = Down(key) => key \in Repeatable
        /\ key \in bus.keyboard.pressed <=> codes # <<>> /\ Last(codes) = Down(key)

\* The motion in the packets on the line and in what is still pending.
MouseBytes ==
    bus.motion \o (IF bus.mouse.active = None THEN <<>> ELSE <<bus.mouse.active.value>>) \o bus.mouse.packet
MousePackets ==
    [i \in 1..(Len(MouseBytes) \div 5) |->
        LET at == 5 * (i - 1) IN
        [buttons |-> MouseBytes[at + 1][2], dx |-> MouseBytes[at + 2][2] + MouseBytes[at + 4][2],
         dy |-> MouseBytes[at + 3][2] + MouseBytes[at + 5][2]]]
Segments ==
    MousePackets \o [i \in 1..Len(bus.mouse.pending) |->
        [buttons |-> bus.mouse.pending[i].buttons, dx |-> bus.mouse.pending[i].dx, dy |-> bus.mouse.pending[i].dy]]
Merged(segments) ==
    FoldLeft(LAMBDA merged, s :
               IF Last(merged).buttons = s.buttons
               THEN [merged EXCEPT ![Len(merged)].dx = @ + s.dx, ![Len(merged)].dy = @ + s.dy]
               ELSE Append(merged, s),
             <<[buttons |-> {}, dx |-> 0, dy |-> 0]>>, segments)

\* No motion is lost, doubled or moved across a button change, however the
\* mouse coalesces and splits it into packets.
MotionConserved == Merged(Segments) = host

\* Input reaches the guest as the host made it.
InputFaithful == KeysFaithful /\ MotionConserved

\* What was saved loads, and time off power is added exactly (restore_battery_state):
\* the restored clock, its events, its alarm and its time-save registers are those of
\* the same clock left running for as many milliseconds; a host clock that was set back
\* since leaves the clock as it was saved.
OfflineClockAgrees ==
    away # Absent =>
        /\ StateLoads(away.file)
        /\ ClockDecodes(away.file.state.rtc) =>
             RestoreBatteryState(away.file.state.rtc, OfflineMilliseconds(away.file, away.now)) = away.twin

\* The bits after the start bit's leading zeros, as a number from the i-th to the j-th.
FirstOne(s) == Min({i \in 1..Len(s) : s[i]} \cup {Len(s) + 1})
Framed(s) == SubSeq(s, FirstOne(s), Len(s))
Number(s) == FoldLeft(LAMBDA n, bit : 2 * n + (IF bit THEN 1 ELSE 0), 0, s)

\* An EEPROM word changes only when the last bit of a whole write command is
\* clocked in while writing is enabled, and then it is the word addressed and the
\* data sent; an abandoned or longer transfer writes nothing.
EepromWritesWhole ==
    [][bus'.nvram.words # bus.nvram.words /\ away = Absent =>
        LET s == Framed(bits')
            operation == Number(SubSeq(s, 1, 5))
            address == Number(SubSeq(s, 6, CommandBits))
            data == Number(SubSeq(s, CommandBits + 1, Len(s)))
        IN /\ Len(s) = CommandBits + DataBits
           /\ operation = WriteCommand
           /\ bus.nvram.write_enabled
           /\ bus'.nvram.words = [bus.nvram.words EXCEPT ![address] = data]]_vars

\* advance_time's loop ends: a dispatch leaves strictly fewer kinds overdue, since
\* no device announces a deadline that is due again at once, its own or another's.
Overdue(b) == {k \in Range(EventKind) : b.events.deadline[k] # Never /\ b.events.deadline[k] <= b.events.now}
DispatchProgresses ==
    [][phase = "dispatch" /\ phase' = "dispatch" =>
        Overdue(bus') \subseteq Overdue(bus) /\ Overdue(bus') # Overdue(bus)]_vars
\* HPC1's counter and the fraction it carries are the clock cycles of all the time HPC1
\* was brought up to, whatever accesses cut that time into.
CounterExact ==
    \E cycles \in {bus.events.synchronized_at["Hpc1Time"] * HpcClock} :
        /\ bus.io.hpc.counter = (cycles \div HpcSecond) % CounterModulus
        /\ bus.io.hpc.phase = cycles % HpcSecond

\* However time is cut up, by dispatches, by accesses or by a power cycle, its effect
\* is the same.
TimeSplitsExactly == FragmentationInvariant /\ CounterExact /\ OfflineClockAgrees

\* The byte accesses an access is made of, and their effect in order.
BytesOf(op) == [i \in 1..Len(op.data) |-> [op EXCEPT !.address = @ + i - 1, !.data = <<op.data[i]>>]]
ByteByByte(io, op) ==
    FoldLeft(LAMBDA a, byte : LET r == Attempt(a.io, byte) IN [r EXCEPT !.data = a.data \o @],
             Answer(io, <<>>), BytesOf(op))

\* An access is whole (bus.rs, address.rs: "rejects unmapped and crossing transactions
\* atomically"): one that is refused changes nothing, and one that is accepted lies in
\* one device, which answers each byte of it alone the same way unless it takes whole
\* words only.
AccessesWhole ==
    \A op \in {o \in scenario.ops : o.kind = "bus"} :
        \E whole \in {Attempt(bus.io, op)} :
            /\ whole.error # "none" => whole.io = bus.io
            /\ whole.error = "none" /\ (\A byte \in ToSet(BytesOf(op)) : Own(byte)) =>
                 \E errors \in {{Attempt(bus.io, byte).error : byte \in ToSet(BytesOf(op))}} :
                    /\ "HardwareFault" \notin errors
                    /\ errors = {"none"} => ByteByByte(bus.io, op) = whole

\* What a step of the board changes: the dispatch loop comes nearer to its end, an
\* EEPROM word is written by a whole command, an access is whole.
StepsSound == DispatchProgresses /\ EepromWritesWhole /\ []AccessesWhole
=============================================================================
