------------------------------ MODULE MCBoard -------------------------------
(* Scenarios for model checking Board: one device group each, prepared by a    *)
(* script and then driven in every order.                                      *)
EXTENDS Board

MCAxisMin == -2
\* A full, a half-populated, an empty and another full socket.
MCInstalled == <<MemoryUnit, MemoryUnit, 0, MemoryUnit>>

Adv(n) == [kind |-> "advance", elapsed |-> n]
ResetOp == [kind |-> "reset"]
Int2Write(access) == [kind |-> "int2", write |-> TRUE, access |-> access]
Int2Read(access) == [kind |-> "int2", write |-> FALSE, access |-> access]
CounterAccess(i, value) == [register |-> "Counter", index |-> i, value |-> value]
Control(kind, i, mode) == [register |-> "Control", command |-> [kind |-> kind, counter |-> i, mode |-> mode]]
Program(i, mode, low, high) ==
    <<Int2Write(Control("Configure", i, mode)), Int2Write(CounterAccess(i, low)), Int2Write(CounterAccess(i, high))>>
Acknowledge(set) == Int2Write([register |-> "TimerAcknowledge", counters |-> set])

\* A guest reaches a write register through the pointer in WR0.
ControlOp(i, c, value) == [kind |-> "serial", index |-> i, channel |-> c, access |-> "writeControl", value |-> value]
DataOp(i, c, data) == [kind |-> "serial", index |-> i, channel |-> c, access |-> "writeData", data |-> data]
ReadOp(i, c, access) == [kind |-> "serial", index |-> i, channel |-> c, access |-> access]
Char == [char |-> "x"]
Pointer(i, c, r) == ControlOp(i, c, [pointer |-> r % 8, command |-> r \div 8])
Command0(i, c, command) == ControlOp(i, c, [pointer |-> 0, command |-> command])
Wr(i, c, r, value) == <<Pointer(i, c, r), ControlOp(i, c, value)>>
Transmitting(i, c) ==
    Wr(i, c, 5, [tx_enable |-> TRUE, data_bits |-> 5]) \o Wr(i, c, 11, [brg_source |-> TRUE])
Receiving(i, c) == Wr(i, c, 3, [rx_enable |-> TRUE])
Master(i) == Wr(i, "A", 9, [reset |-> "none", enable |-> TRUE, software_ack |-> TRUE])

Key(key, pressed) == [kind |-> "key", key |-> key, pressed |-> pressed]
Repeat(on) == [even |-> TRUE, click |-> FALSE, identify |-> FALSE, repeat |-> on, leds |-> {}]
Identify == [even |-> TRUE, click |-> TRUE, identify |-> TRUE, repeat |-> TRUE, leds |-> {1}]
Leds == [even |-> FALSE, complement |-> TRUE, leds |-> {3}]

Scenario(script, ops, extra, rtc) ==
    [script |-> script, ops |-> ops, limit |-> Len(script) + extra, rtc |-> rtc]

Timers ==
    {Scenario(Program(2, 2, 0, 1) \o Program(0, 2, low, 1) \o Program(1, mode, 1, 1),
              {Adv(1), Adv(3), Adv(9), Acknowledge({0, 1}),
               Int2Write(Control("Latch", 0, 0)), Int2Read(CounterAccess(0, 0)),
               Int2Write(Control("Quiesce", 0, 0)), Int2Write(Control("Configure", 2, 2)),
               Int2Write(CounterAccess(2, 1))}, 5, NewClock) : low \in {0, 1}, mode \in {1, 2}}
    \cup {Scenario(<<>>, {Int2Write([register |-> "Mask", index |-> 0, mask |-> {"gio0"}]),
                          Int2Write([register |-> "Mask", index |-> 1, mask |-> {"gio2"}]),
                          Int2Write([register |-> "OutputPort", enable |-> FALSE]),
                          Int2Write([register |-> "OutputPort", enable |-> TRUE]),
                          Int2Write([register |-> "Status"]), Int2Read([register |-> "Mask"]),
                          Int2Write(Control("Undefined", 0, 0)), Int2Write(CounterAccess(0, 0)), ResetOp, Adv(2)}
                          \cup {[kind |-> "gio", levels |-> l] : l \in {{}, {"gio0", "gio2"}}},
                   3, NewClock)}

Serial1 ==
    {Scenario(Wr(1, "A", 1, [rx_mode |-> mode, tx_int |-> TRUE]) \o Receiving(1, "A") \o Transmitting(1, "A")
                \o Wr(1, "A", 15, [prime_seven |-> TRUE])
                \o Wr(1, "A", 7, [threshold |-> mode = 2, fifo_empty |-> mode = 1])
                \o Wr(1, "B", 1, [rx_mode |-> 2, tx_int |-> FALSE]) \o Receiving(1, "B") \o Master(1)
                \o Wr(1, "A", 14, [brg_enable |-> TRUE, loopback |-> loop]),
              {Adv(1), Adv(4), DataOp(1, "A", Char), ReadOp(1, "A", "readData"),
               [kind |-> "arrival", channel |-> "A", value |-> "r"], [kind |-> "arrival", channel |-> "B", value |-> "r"],
               Pointer(1, "B", 2), ReadOp(1, "B", "readControl"),
               Command0(1, "A", 6), Command0(1, "A", 7)}, 5, NewClock)
        : mode \in 1..3, loop \in BOOLEAN}
    \cup {Scenario(Transmitting(1, "B") \o Wr(1, "B", 14, [brg_enable |-> TRUE, loopback |-> FALSE])
                     \o Wr(1, "B", 1, [rx_mode |-> 0, tx_int |-> TRUE]) \o Master(1) \o Pointer2,
              {Adv(3), DataOp(1, "B", Char), Command0(1, "B", 4), Command0(1, "B", 5),
               ControlOp(1, "A", [pointer |-> 0, command |-> 0, reset |-> r,
                                                 enable |-> TRUE, software_ack |-> FALSE])}, 5, NewClock)
        : r \in {"none", "A", "B", "chip"}, Pointer2 \in {<<Pointer(1, "A", 9)>>}}

Input ==
    {Scenario(Wr(0, "A", 1, [rx_mode |-> 2, tx_int |-> FALSE]) \o Receiving(0, "A") \o Transmitting(0, "A") \o Master(0)
                \o Wr(0, "A", 14, [brg_enable |-> TRUE, loopback |-> FALSE])
                \o <<DataOp(0, "A", Repeat(TRUE)), Adv(3)>>,
              {Adv(1), Adv(6), Key("a", TRUE), Key("a", FALSE), Key("shift", TRUE), Key("shift", FALSE),
               ReadOp(0, "A", "readData")}
                \cup {DataOp(0, "A", command) : command \in commands}, 6, NewClock)
        : commands \in {{Repeat(FALSE), Identify}, {Leds}}}
    \cup {Scenario(Wr(0, "B", 1, [rx_mode |-> 2, tx_int |-> FALSE]) \o Receiving(0, "B") \o Master(0),
              {Adv(1), Adv(4), Adv(9),
               [kind |-> "move", dx |-> 3, dy |-> -5], [kind |-> "move", dx |-> -1, dy |-> 0],
               [kind |-> "button", button |-> "left", pressed |-> TRUE],
               [kind |-> "button", button |-> "left", pressed |-> FALSE],
               ReadOp(0, "B", "readData")}, 6, NewClock)}

ClockAt(hundredth, second, minute, hour, pm, day, month, weekday, leap, mode12, fields, save) ==
    FinishClockChange(
        [NewClock EXCEPT !.time = [hundredth |-> hundredth, second |-> second, minute |-> minute, hour |-> hour,
                                   pm |-> pm, day |-> day, month |-> month, year |-> 1, weekday |-> weekday],
                         !.compare = [second |-> 1, minute |-> 0, hour |-> <<1, FALSE>>, day |-> 1, month |-> 2,
                                      weekday |-> 2],
                         !.start = TRUE, !.mode12 = mode12, !.leap = leap, !.time_save = save,
                         !.periodic_enable = {"minute"}, !.alarm_fields = fields, !.alarm_enable = TRUE,
                         !.oscillator_failed = FALSE])

PowerCycle(limit) == [kind |-> "off", limit |-> limit]

Clock ==
    {Scenario(<<Adv(1), PowerCycle(200)>>, {Adv(1)}, 0,
              ClockAt(1, 1, 1, 1, mode12, 2, month, 1, leap, mode12, fields, leap = 0))
        : mode12 \in BOOLEAN, month \in {1, 2}, leap \in {0, 3},
          fields \in {{}, {"second"}, {"minute"}, {"hour"}, {"second", "hour"}, {"day"}, {"month"},
                      {"weekday"}, {"minute", "day"}, {"day", "month"}}}
    \cup {Scenario(<<PowerCycle(2400)>>, {Adv(1)}, 0,
                   ClockAt(0, 0, 0, 0, FALSE, 1, 1, 1, 3, FALSE, {"day", "month", "weekday"}, FALSE))}
    \cup {Scenario(<<>>,
              {Adv(3), ResetOp, PowerCycle(3)}
              \cup {[kind |-> "rtc", write |-> TRUE, access |-> a] : a \in accesses}
              \cup {[kind |-> "rtc", write |-> FALSE, access |-> [register |-> "PeriodicFlag"]]}, 4,
              ClockAt(1, 0, 0, 1, FALSE, 1, 1, 1, 0, FALSE, {"second"}, FALSE))
        : accesses \in {{[register |-> "MainStatus", bank |-> 1, alarm |-> TRUE, periodic |-> TRUE],
                         [register |-> "RealTimeMode", start |-> FALSE, mode12 |-> FALSE, leap |-> 0],
                         [register |-> "RealTimeMode", start |-> TRUE, mode12 |-> FALSE, leap |-> 0],
                         [register |-> "InterruptControl0", periodic_enable |-> {"ms"}],
                         [register |-> "InterruptControl1", fields |-> {"minute"}, enable |-> FALSE]},
                        {[register |-> "TimeSaveControl", on |-> TRUE], [register |-> "TimeSaveControl", on |-> FALSE],
                         [register |-> "Counter", field |-> "second", value |-> 9, pm |-> FALSE],
                         [register |-> "Counter", field |-> "hour", value |-> 2, pm |-> FALSE],
                         [register |-> "Compare", field |-> "second", value |-> 0],
                         [register |-> "PeriodicFlag", on |-> TRUE]}}}

Aux(select, clock, data) == [kind |-> "aux", select |-> select, clock |-> clock, data |-> data]
Bit(b) == <<Aux(TRUE, FALSE, b), Aux(TRUE, TRUE, b)>>
BitsOf(s) == FoldLeft(LAMBDA ops, b : ops \o Bit(b), <<Aux(FALSE, FALSE, FALSE)>>, s)
EnableWrites == BitsOf(<<TRUE, FALSE, FALSE, TRUE, TRUE, FALSE>>)
StartWrite == BitsOf(<<TRUE, FALSE, TRUE, FALSE, FALSE>>)

Eeprom ==
    {Scenario(prefix \o <<Aux(FALSE, FALSE, FALSE)>> \o start,
              {Aux(TRUE, FALSE, FALSE), Aux(TRUE, TRUE, FALSE), Aux(TRUE, TRUE, TRUE), Aux(FALSE, FALSE, FALSE)},
              8, NewClock)
        : prefix \in {<<>>, EnableWrites}, start \in {StartWrite, BitsOf(<<FALSE, TRUE, TRUE, FALSE, FALSE>>)}}
    \cup {Scenario(EnableWrites \o StartWrite \o Tail(BitsOf(<<TRUE, FALSE>>)),
              {Aux(TRUE, FALSE, FALSE), Aux(TRUE, TRUE, TRUE), Aux(FALSE, FALSE, FALSE), PowerCycle(0), ResetOp}, 4,
              NewClock)}

\* Accesses across the address map.
Bytes4 == <<{7}, {0, 6}, {1, 7}, {0, 2, 4}>>
At(address, data, write) == [kind |-> "bus", address |-> address, data |-> data, write |-> write]
Load(address, length) == At(address, SubSeq(Bytes4, 1, length), FALSE)
Store(address, data) == At(address, data, TRUE)
Every(addresses, lengths) ==
    {Load(a, n) : a \in addresses, n \in lengths} \cup {Store(a, SubSeq(Bytes4, 1, n)) : a \in addresses, n \in lengths}
Hpc1At(offset) == Hpc1Base + offset
Pic1At(offset) == Pic1Base + offset

\* The edges of every window, and the words around them.
Edges == UNION {{w.first - 1, w.first, w.end - 2, w.end} : w \in {Windows[i] : i \in 1..Len(Windows)}}
Owned(ops) == {op \in ops : Own(op)}
Mapped ==
    {Scenario(<<>>, Owned(Every(Edges, 1..4)), 1, NewClock)}
    \cup {Scenario(<<>>, ops \cup {Adv(1), Adv(5), Load(Hpc1At(FreeRunningCounter), 4)}, 4, NewClock)
            : ops \in {{Store(Hpc1At(ParallelCurrentBufferPointer), Bytes4),
                        Store(Hpc1At(ParallelCurrentBufferPointer) + 1, <<{0}, {1}>>),
                        Store(Hpc1At(ParallelByteCount) + 2, <<{0, 1}, {7}>>),
                        Store(Hpc1At(ParallelControl), <<{}, {}, {}, {0, 1}>>),
                        Store(Hpc1At(ParallelControl) + 3, <<{4}>>), ResetOp},
                       {Store(Hpc1At(ParallelFifoPointer), <<{4, 5}, {}, {}, {2}>>),
                        Store(Hpc1At(ParallelFifo), Bytes4), Load(Hpc1At(ParallelFifo), 2),
                        Store(Hpc1At(TransmitFifoPointer), <<{0}, {}, {2}, {}>>),
                        Store(Hpc1At(EthernetTransmitFifo), Bytes4)},
                       {Store(Hpc1At(ReceiveFifoPointer), <<{}, {}, {2, 7}, {}>>),
                        Store(Hpc1At(ReceiveFifoPointer), <<{}, {}, {}, {2}>>),
                        Store(Hpc1At(EthernetReceiveFifo), Bytes4),
                        Store(Hpc1At(EndianControl) + 2, <<{}, {2, 5}>>),
                        Store(Hpc1At(DspInterruptMask), Low({0, 7})), Store(Hpc1At(DspInterruptStatus), Low({0})),
                        Store(Hpc1At(MiscellaneousControl), Bytes4)}}}
    \cup {Scenario(<<Store(Pic1At(MemoryConfiguration[1]), <<{}, {}, {0}, {0}>>),
                     Store(Pic1At(MemoryConfiguration[2]), <<{}, {0, 1}, {1}, {}>>)>>,
              {Store(MemoryUnit - 1, <<{1}>>), Store(MemoryUnit - 2, Bytes4), Store(MemoryUnit, Bytes4),
               Store(MemoryUnit + 2, <<{3}, {4}>>), Load(MemoryUnit, 4), Load(2 * MemoryUnit - 2, 4),
               Store(3 * MemoryUnit, Bytes4), Load(LocalMemoryEnd - 2, 4), Load(Pic1At(MemoryConfiguration[1]), 2),
               Load(Pic1At(MemoryConfiguration[1]), 1), Store(Pic1At(ClearError), <<{}>>),
               Store(Pic1At(\h80008), Bytes4), Store(Pic1At(\h80008) + 1, <<{1}>>),
               Store(Pic1At(\h10204), Bytes4), Load(Pic1At(ParityError), 4), Store(Pic1At(\h20000), Bytes4)},
              3, NewClock)}

AllScenarios == Timers \cup Serial1 \cup Input \cup Clock \cup Eeprom \cup Mapped
=============================================================================
