---------------------------- MODULE BatteryBacked -----------------------------
(* The battery-backed clock (dp8573a.rs).  While the machine runs the clock is *)
(* ticked millisecond by millisecond; when saved state is restored the time    *)
(* that passed is added in one computation.  A counter register is the number  *)
(* its BCD digits stand for, a number outside the counter's range standing for *)
(* an undecodable one; the bits outside a counter's mask are left out.  The    *)
(* radices are constants: the code's values are beside them.                   *)
EXTENDS Integers, FiniteSetsExt, Sequences

CONSTANTS
    Millisecond,            \* ATTOSECONDS_PER_MILLISECOND, in time units
    MsPerHundredth,         \* 10
    HundredthsPerSecond,    \* 100
    SecondsPerMinute,       \* 60
    MinutesPerHour,         \* 60
    HalfDay,                \* 12
    Digit,                  \* 10: the tenths and the ten-second event
    DaysPerWeek,            \* 7
    MonthsPerYear,          \* 12
    ShortMonths,            \* {4, 6, 9, 11}
    LongMonth,              \* 31, one more than a short month
    LeapFebruary,           \* 29
    YearsPerCentury,        \* 100
    CalendarCycle           \* CALENDAR_CYCLE_DAYS: 700 * 365 + 175

ASSUME ClockAssumption ==
    /\ {Millisecond, MsPerHundredth, HundredthsPerSecond, SecondsPerMinute, MinutesPerHour,
        HalfDay, Digit, DaysPerWeek, MonthsPerYear, YearsPerCentury, CalendarCycle} \subseteq Nat \ {0}
    /\ HundredthsPerSecond % Digit = 0 /\ SecondsPerMinute % Digit = 0

HoursPerDay == 2 * HalfDay
SecondsPerDay == HoursPerDay * MinutesPerHour * SecondsPerMinute

SaveField == {"second", "minute", "hour", "day", "month"}

NewClock ==
    [time |-> [hundredth |-> 0, second |-> 0, minute |-> 0, hour |-> 0, pm |-> FALSE,
               day |-> 0, month |-> 0, year |-> 0, weekday |-> 0],
     compare |-> [second |-> 0, minute |-> 0, hour |-> <<0, FALSE>>, day |-> 0, month |-> 0, weekday |-> 0],
     save |-> [second |-> 0, minute |-> 0, hour |-> <<0, FALSE>>, day |-> 0, month |-> 0],
     bank |-> 0, alarm_pending |-> FALSE, periodic_pending |-> FALSE, flags |-> {},
     time_save |-> FALSE,
     start |-> FALSE, mode12 |-> FALSE, leap |-> 0,          \* REAL_TIME_MODE
     periodic_enable |-> {},                                  \* INTERRUPT_CONTROL_0
     alarm_fields |-> {}, alarm_enable |-> FALSE,             \* INTERRUPT_CONTROL_1
     phase |-> 0, ms |-> 0, oscillator_failed |-> TRUE, single_supply |-> FALSE,
     alarm_active |-> FALSE]

-----------------------------------------------------------------------------
(* Counters *)

\* The value a comparison or a time-save register sees: in 12-hour mode the hour
\* includes the afternoon bit, in 24-hour mode it is masked out.
Counter(r, field) ==
    IF field = "hour" THEN <<r.time.hour, r.mode12 /\ r.time.pm>> ELSE r.time[field]

\* increment_bcd_register: an undecodable counter does not move.
Decodes(r, field, low, high) == r.time[field] \in low..high
Incremented(v, low, high) == IF v = high THEN low ELSE v + 1
Increment(r, field, low, high) ==
    IF Decodes(r, field, low, high) THEN [r EXCEPT !.time[field] = Incremented(@, low, high)] ELSE r
Carries(r, field, high) == r.time[field] = high

DaysInMonth(month, leap) ==
    IF month = 2 THEN (IF leap = 0 THEN LeapFebruary ELSE LeapFebruary - 1)
    ELSE IF month \in ShortMonths THEN LongMonth - 1 ELSE LongMonth

\* A day passes: the week day always follows, the month and the year on a carry.
AdvanceDay(r) ==
    LET last == DaysInMonth(r.time.month, r.leap)
        d == Increment(Increment(r, "day", 1, last), "weekday", 1, DaysPerWeek)
        m == Increment(d, "month", 1, MonthsPerYear)
        y == Increment(m, "year", 0, YearsPerCentury - 1)
    IN IF ~Decodes(r, "day", 1, last) THEN r
       ELSE IF ~Carries(r, "day", last) THEN d
       ELSE IF ~Carries(r, "month", MonthsPerYear) THEN m
       ELSE [y EXCEPT !.leap = (@ + 1) % 4]

\* In 12-hour mode 11 passes to 12 of the other half of the day, 12 to 1.
Advance12Hour(r) ==
    LET next == [r EXCEPT !.time.hour = IF @ = HalfDay THEN 1 ELSE @ + 1,
                          !.time.pm = IF r.time.hour = HalfDay - 1 THEN ~@ ELSE @]
    IN IF r.time.hour \notin 1..HalfDay THEN r
       ELSE IF r.time.hour = HalfDay - 1 /\ r.time.pm THEN AdvanceDay(next) ELSE next

AdvanceHour(r) ==
    IF r.mode12 THEN Advance12Hour(r)
    ELSE LET h == Increment(r, "hour", 0, HoursPerDay - 1) IN
         IF Carries(r, "hour", HoursPerDay - 1) THEN AdvanceDay(h) ELSE h

-----------------------------------------------------------------------------
(* Time save and alarm *)

CopyAllTimeSave(r) == [r EXCEPT !.save = [f \in SaveField |-> Counter(r, f)]]
CopyTimeSave(r) == IF r.time_save THEN CopyAllTimeSave(r) ELSE r

CurrentAlarmMatches(r) ==
    r.alarm_fields # {} /\ \A f \in r.alarm_fields : Counter(r, f) = r.compare[f]

\* An alarm is an edge: the comparison begins to hold.
RecomputeAlarmMatch(r) ==
    LET matches == CurrentAlarmMatches(r) IN
    [r EXCEPT !.alarm_pending = @ \/ (matches /\ ~r.alarm_active), !.alarm_active = matches]

FinishClockChange(r) == RecomputeAlarmMatch(CopyTimeSave(r))

RaisePeriodicEvents(r, events) ==
    [r EXCEPT !.flags = @ \cup events,
              !.periodic_pending = @ \/ events \cap r.periodic_enable # {}]

-----------------------------------------------------------------------------
(* The running clock *)

\* A second passes: the clock after it and the periodic events it makes.
AdvanceSecond(r) ==
    LET s == Increment(r, "second", 0, SecondsPerMinute - 1)
        carry == Carries(r, "second", SecondsPerMinute - 1)
        m == IF carry THEN Increment(s, "minute", 0, MinutesPerHour - 1) ELSE s
        h == IF carry /\ Carries(r, "minute", MinutesPerHour - 1) THEN AdvanceHour(m) ELSE m
    IN [clock |-> FinishClockChange(h),
        events |-> {"second"}
            \cup (IF Decodes(r, "second", 0, SecondsPerMinute - 1) /\ s.time.second % Digit = 0
                  THEN {"ten_seconds"} ELSE {})
            \cup (IF carry THEN {"minute"} ELSE {})]

AdvanceHundredth(r) ==
    LET h == Increment(r, "hundredth", 0, HundredthsPerSecond - 1)
        tenth == IF h.time.hundredth % Digit = 0 THEN {"tenth"} ELSE {}
    IN IF ~Decodes(r, "hundredth", 0, HundredthsPerSecond - 1) THEN [clock |-> r, events |-> {}]
       ELSE IF ~Carries(r, "hundredth", HundredthsPerSecond - 1) THEN [clock |-> h, events |-> tenth]
       ELSE LET s == AdvanceSecond(h) IN [clock |-> s.clock, events |-> tenth \cup s.events]

AdvanceMillisecond(r) ==
    IF r.ms + 1 < MsPerHundredth THEN RaisePeriodicEvents([r EXCEPT !.ms = @ + 1], {"ms"})
    ELSE LET h == AdvanceHundredth([r EXCEPT !.ms = 0]) IN
         RaisePeriodicEvents(h.clock, {"ms", "hundredth"} \cup h.events)

RECURSIVE AdvanceMilliseconds(_, _)
AdvanceMilliseconds(r, n) == IF n = 0 THEN r ELSE AdvanceMilliseconds(AdvanceMillisecond(r), n - 1)

AdvanceClock(r, elapsed) ==
    LET phase == r.phase + (elapsed % Millisecond) IN
    IF ~r.start THEN r
    ELSE AdvanceMilliseconds([r EXCEPT !.phase = phase % Millisecond],
                             elapsed \div Millisecond + phase \div Millisecond)

\* Mutant: the time since the last millisecond instead of the time to the next.
ClockTimeSinceEvent(r) == IF r.start THEN r.phase ELSE -1

ClockTimeUntilEvent(r) == IF r.start THEN Millisecond - r.phase ELSE -1

-----------------------------------------------------------------------------
(* The clock after time off.  The hour of the day is decoded to 0..HoursPerDay-1. *)

DecodeHour(hour, pm, mode12) ==
    IF ~mode12 THEN hour ELSE (hour % HalfDay) + (IF pm THEN HalfDay ELSE 0)
EncodeHour(hour, mode12) ==
    IF ~mode12 THEN <<hour, FALSE>>
    ELSE <<IF hour % HalfDay = 0 THEN HalfDay ELSE hour % HalfDay, hour >= HalfDay>>

\* ClockState::decode: every counter holds a value of its range.
ClockDecodes(r) ==
    /\ Decodes(r, "hundredth", 0, HundredthsPerSecond - 1)
    /\ Decodes(r, "second", 0, SecondsPerMinute - 1)
    /\ Decodes(r, "minute", 0, MinutesPerHour - 1)
    /\ IF r.mode12 THEN r.time.hour \in 1..HalfDay ELSE r.time.hour \in 0..(HoursPerDay - 1)
    /\ Decodes(r, "month", 1, MonthsPerYear)
    /\ Decodes(r, "year", 0, YearsPerCentury - 1)
    /\ Decodes(r, "day", 1, DaysInMonth(r.time.month, r.leap))
    /\ Decodes(r, "weekday", 1, DaysPerWeek)

SecondsOfDay(r) ==
    (DecodeHour(r.time.hour, r.time.pm, r.mode12) * MinutesPerHour + r.time.minute) * SecondsPerMinute
      + r.time.second

\* Whether `steps` increments of a value reach a multiple of `period`.
CrossesCyclicTarget(value, steps, period) == steps # 0 /\ steps >= period - (value % period)

RECURSIVE AdvanceDays(_, _)
AdvanceDays(r, n) == IF n = 0 THEN r ELSE AdvanceDays(AdvanceDay(r), n - 1)

AdvanceClockSeconds(r, seconds) ==
    LET total == SecondsOfDay(r) + seconds
        of_day == total % SecondsPerDay
        hour == EncodeHour(of_day \div (MinutesPerHour * SecondsPerMinute), r.mode12)
        set == [r EXCEPT !.time.second = of_day % SecondsPerMinute,
                         !.time.minute = (of_day \div SecondsPerMinute) % MinutesPerHour,
                         !.time.hour = hour[1],
                         !.time.pm = IF r.mode12 THEN hour[2] ELSE @]
    IN AdvanceDays(set, (total \div SecondsPerDay) % CalendarCycle)

\* The calendar alone, as CalendarDate::advance moves it.
CalendarDate(r) == [day |-> r.time.day, month |-> r.time.month, weekday |-> r.time.weekday, leap |-> r.leap]
NextDate(d) ==
    LET w == [d EXCEPT !.weekday = (@ % DaysPerWeek) + 1] IN
    IF d.day < DaysInMonth(d.month, d.leap) THEN [w EXCEPT !.day = @ + 1]
    ELSE IF d.month < MonthsPerYear THEN [w EXCEPT !.day = 1, !.month = @ + 1]
    ELSE [w EXCEPT !.day = 1, !.month = 1, !.leap = (@ + 1) % 4]

AlarmDateMatches(r, date) ==
    \A f \in r.alarm_fields \cap {"day", "month", "weekday"} : date[f] = r.compare[f]

\* Compare values no time of day has never match.
AlarmTimeFieldsValid(r) ==
    /\ "second" \in r.alarm_fields => r.compare.second \in 0..(SecondsPerMinute - 1)
    /\ "minute" \in r.alarm_fields => r.compare.minute \in 0..(MinutesPerHour - 1)
    /\ "hour" \in r.alarm_fields =>
         IF r.mode12 THEN r.compare.hour[1] \in 1..HalfDay ELSE r.compare.hour[1] \in 0..(HoursPerDay - 1)

AlarmTimeMatches(r, of_day) ==
    /\ "second" \in r.alarm_fields => of_day % SecondsPerMinute = r.compare.second
    /\ "minute" \in r.alarm_fields => (of_day \div SecondsPerMinute) % MinutesPerHour = r.compare.minute
    /\ "hour" \in r.alarm_fields =>
         EncodeHour(of_day \div (MinutesPerHour * SecondsPerMinute), r.mode12)
           = <<r.compare.hour[1], r.mode12 /\ r.compare.hour[2]>>

\* A whole day meets every time of day that exists.
AlarmTimeMatchesInRange(r, lower, upper) ==
    /\ lower <= upper
    /\ AlarmTimeFieldsValid(r)
    /\ \/ lower = 0 /\ upper = SecondsPerDay - 1
       \/ \E s \in lower..upper : AlarmTimeMatches(r, s)

RECURSIVE AlarmMatchesFrom(_, _, _, _, _, _)
AlarmMatchesFrom(r, date, day, first, last, limit) ==
    LET lower == IF day = first \div SecondsPerDay THEN first % SecondsPerDay ELSE 0
        upper == IF day = last \div SecondsPerDay THEN last % SecondsPerDay ELSE SecondsPerDay - 1
    IN IF day > limit THEN FALSE
       ELSE \/ AlarmDateMatches(r, date) /\ AlarmTimeMatchesInRange(r, lower, upper)
            \/ AlarmMatchesFrom(r, NextDate(date), day + 1, first, last, limit)

RECURSIVE DateAfter(_, _)
DateAfter(date, n) == IF n = 0 THEN date ELSE DateAfter(NextDate(date), n - 1)

\* Whether the alarm matches at one of the seconds first..last after now.
AlarmMatchesInRange(r, first, last) ==
    LET from == SecondsOfDay(r) + first
        to == SecondsOfDay(r) + last
        day == from \div SecondsPerDay
    IN AlarmMatchesFrom(r, DateAfter(CalendarDate(r), day % CalendarCycle), day, from, to,
                        Min({to \div SecondsPerDay, day + CalendarCycle}))

\* A match that holds now ends when its finest field changes.
SecondsUntilFieldChanges(r) ==
    CASE "second" \in r.alarm_fields -> 1
      [] "second" \notin r.alarm_fields /\ "minute" \in r.alarm_fields -> SecondsPerMinute - r.time.second
      [] r.alarm_fields \cap {"second", "minute"} = {} /\ "hour" \in r.alarm_fields ->
           (MinutesPerHour - r.time.minute) * SecondsPerMinute - r.time.second
      [] r.alarm_fields \cap {"second", "minute", "hour"} = {} /\ r.alarm_fields \cap {"day", "weekday"} # {} ->
           SecondsPerDay - SecondsOfDay(r)
      [] OTHER -> (DaysInMonth(r.time.month, r.leap) - r.time.day + 1) * SecondsPerDay - SecondsOfDay(r)

AlarmEdgeDuring(r, seconds) ==
    LET change == SecondsUntilFieldChanges(r) IN
    /\ seconds # 0 /\ r.alarm_fields # {}
    /\ IF r.alarm_active THEN seconds > change /\ AlarmMatchesInRange(r, change + 1, seconds)
       ELSE AlarmMatchesInRange(r, 1, seconds)

OfflineSeconds(r, seconds) ==
    LET a == CopyTimeSave(AdvanceClockSeconds(r, seconds)) IN
    [a EXCEPT !.alarm_pending = @ \/ AlarmEdgeDuring(r, seconds),
              !.alarm_active = CurrentAlarmMatches(a)]

AdvanceOfflineMilliseconds(r, milliseconds) ==
    LET total == r.ms + milliseconds
        steps == total \div MsPerHundredth
        hundredths == r.time.hundredth + steps
        seconds == hundredths \div HundredthsPerSecond
        h == [r EXCEPT !.ms = total % MsPerHundredth, !.time.hundredth = hundredths % HundredthsPerSecond]
        events == {"ms"}
            \cup (IF steps # 0 THEN {"hundredth"} ELSE {})
            \cup (IF CrossesCyclicTarget(r.time.hundredth, steps, Digit) THEN {"tenth"} ELSE {})
            \cup (IF seconds # 0 THEN {"second"} ELSE {})
            \cup (IF CrossesCyclicTarget(r.time.second, seconds, Digit) THEN {"ten_seconds"} ELSE {})
            \cup (IF CrossesCyclicTarget(r.time.second, seconds, SecondsPerMinute) THEN {"minute"} ELSE {})
    IN IF milliseconds = 0 \/ ~r.start \/ ~ClockDecodes(r) THEN r
       ELSE RaisePeriodicEvents(IF seconds # 0 THEN OfflineSeconds(h, seconds) ELSE h, events)

\* Dp8573aBatteryState::new: the phases a saved state may hold.
BatteryStateValid(battery) == battery.phase \in 0..(Millisecond - 1) /\ battery.ms \in 0..(MsPerHundredth - 1)

\* The saved state is the whole clock: what the program keeps, restored.
BatteryState(r) == r
RestoreBatteryState(battery, offline_milliseconds) ==
    AdvanceOfflineMilliseconds(battery, offline_milliseconds)

-----------------------------------------------------------------------------
(* Register writes and reads *)

\* Writing one to a pending bit clears it; the same byte selects the bank.
WriteMainStatus(r, value) ==
    [r EXCEPT !.bank = value.bank, !.alarm_pending = @ /\ ~value.alarm,
              !.periodic_pending = @ /\ ~value.periodic]

\* Stopping the clock clears the divider; starting it clears the oscillator flag.
WriteRealTimeMode(r, value) ==
    LET stopped == r.start /\ ~value.start IN
    RecomputeAlarmMatch(CopyTimeSave(
        [r EXCEPT !.start = value.start, !.mode12 = value.mode12, !.leap = value.leap,
                  !.phase = IF stopped THEN 0 ELSE @, !.ms = IF stopped THEN 0 ELSE @,
                  !.oscillator_failed = @ /\ ~value.start]))

WriteAlternateControl(r, register, value) ==
    CASE register = "RealTimeMode" -> WriteRealTimeMode(r, value)
      [] register = "InterruptControl0" -> [r EXCEPT !.periodic_enable = value.periodic_enable]
      [] register = "InterruptControl1" ->
           RecomputeAlarmMatch([r EXCEPT !.alarm_fields = value.fields, !.alarm_enable = value.enable])

WriteClockCounter(r, field, value, pm) ==
    LET w == [r EXCEPT !.time[field] = value, !.time.pm = IF field = "hour" THEN pm ELSE @]
        saved == IF w.time_save /\ field \in SaveField
                 THEN [w EXCEPT !.save[field] = Counter(w, field)] ELSE w
    IN IF field \in {"second", "minute", "hour", "day", "month", "weekday"}
       THEN RecomputeAlarmMatch(saved) ELSE saved

\* The alternate bank hides the flag and time-save registers.
WriteClock(r, access) ==
    CASE access.register = "MainStatus" -> WriteMainStatus(r, access)
      [] access.register \in {"RealTimeMode", "InterruptControl0", "InterruptControl1"} ->
           IF r.bank = 1 THEN WriteAlternateControl(r, access.register, access) ELSE r
      [] access.register = "TimeSaveControl" ->
           LET w == [r EXCEPT !.time_save = access.on] IN
           IF r.bank = 1 THEN r
           ELSE IF r.time_save \/ access.on THEN CopyAllTimeSave(w) ELSE w
      [] access.register = "PeriodicFlag" ->
           IF r.bank = 1 THEN r ELSE [r EXCEPT !.single_supply = access.on]
      [] access.register = "Counter" -> WriteClockCounter(r, access.field, access.value, access.pm)
      [] access.register = "Compare" -> RecomputeAlarmMatch([r EXCEPT !.compare[access.field] = access.value])

\* Reading the flag register in the main bank clears its event bits.
ReadClock(r, register) == IF register = "PeriodicFlag" /\ r.bank = 0 THEN [r EXCEPT !.flags = {}] ELSE r

-----------------------------------------------------------------------------
(* The serial EEPROM (nmc93cs46.rs): a three-wire part driven one bit per      *)
(* rising clock edge.  A command is five operation bits, the first of them the *)
(* start bit, and an address; the widths are constants.                        *)

CONSTANTS
    AddressBits,    \* 6
    DataBits        \* DATA_BITS: 16

ASSUME EepromAssumption == AddressBits \in Nat \ {0} /\ DataBits \in Nat \ {0}

\* COMMAND_BITS: the operation and the address.
CommandBits == 5 + AddressBits
Address == 0..(2 ^ AddressBits - 1)

Command(bits, count) == [kind |-> "Command", bits |-> bits, count |-> count, address |-> 0]
Ignore == [kind |-> "Ignore", bits |-> 0, count |-> 0, address |-> 0]

NewEeprom == [words |-> [a \in Address |-> 2 ^ DataBits - 1], transfer |-> Command(0, 0),
              write_enabled |-> FALSE, chip_select |-> FALSE, clock |-> FALSE, data_out |-> FALSE]

ResetEeprom(e) == [NewEeprom EXCEPT !.words = e.words]
RestoreContents(e, words) == ResetEeprom([e EXCEPT !.words = words])

\* OPERATION_MASK: the five bits above the address.
ReadCommand == 24
WriteCommand == 20
WriteEnableCommand == 19
WriteDisableCommand == 16

DecodeCommand(e, command) ==
    LET address == command % (2 ^ AddressBits)
        operation == command \div (2 ^ AddressBits)
        d == CASE operation = ReadCommand ->
                    [e EXCEPT !.transfer = [kind |-> "Read", bits |-> e.words[address], count |-> 0,
                                            address |-> address]]
               [] operation = WriteCommand ->
                    [e EXCEPT !.transfer = [kind |-> "Write", bits |-> 0, count |-> 0, address |-> address]]
               [] operation = WriteEnableCommand /\ address = 0 ->
                    [e EXCEPT !.write_enabled = TRUE, !.transfer = Ignore]
               [] operation = WriteDisableCommand /\ address = 0 ->
                    [e EXCEPT !.write_enabled = FALSE, !.transfer = Ignore]
               [] OTHER -> [e EXCEPT !.transfer = Ignore]
    IN [d EXCEPT !.data_out = TRUE]

ClockRisingEdge(e, data_in) ==
    LET t == e.transfer
        shifted == t.bits * 2 + (IF data_in THEN 1 ELSE 0)
    IN CASE t.kind = "Command" ->
              IF t.count = 0 /\ ~data_in THEN [e EXCEPT !.data_out = TRUE]
              ELSE IF t.count + 1 = CommandBits THEN DecodeCommand(e, shifted)
              ELSE [e EXCEPT !.transfer = Command(shifted, t.count + 1), !.data_out = TRUE]
         [] t.kind = "Read" ->
              [e EXCEPT !.data_out = (t.bits \div 2 ^ (DataBits - 1 - t.count)) % 2 = 1,
                        !.transfer = IF t.count + 1 = DataBits THEN Ignore ELSE [t EXCEPT !.count = @ + 1]]
         [] t.kind = "Write" ->
              IF t.count + 1 = DataBits
              THEN [e EXCEPT !.words[t.address] = IF e.write_enabled THEN shifted ELSE @,
                             !.transfer = Ignore, !.data_out = TRUE]
              ELSE [e EXCEPT !.transfer = [t EXCEPT !.bits = shifted, !.count = @ + 1]]
         [] t.kind = "Ignore" -> e

\* Chip select low abandons the transfer; a new select starts a command.
DrivePins(e, chip_select, clock, data_in) ==
    LET selected == IF e.chip_select THEN e ELSE [e EXCEPT !.transfer = Command(0, 0), !.data_out = TRUE]
        driven == [selected EXCEPT !.chip_select = TRUE, !.clock = clock]
    IN IF ~chip_select
       THEN [e EXCEPT !.transfer = Command(0, 0), !.chip_select = FALSE, !.clock = clock, !.data_out = FALSE]
       ELSE IF ~e.clock /\ clock THEN ClockRisingEdge(driven, data_in) ELSE driven
=============================================================================
