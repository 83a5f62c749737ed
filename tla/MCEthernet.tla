------------------------------ MODULE MCEthernet ----------------------------
(* Descriptor chains and driver scripts for model checking Ethernet.          *)
EXTENDS Ethernet

Tx(count, next, packet_end, end, interrupt, fault) ==
    [count |-> count, next |-> next, packet_end |-> packet_end, end |-> end, interrupt |-> interrupt,
     owned |-> FALSE, fault |-> fault]
Rx(count, next, end, fault) ==
    [count |-> count, next |-> next, packet_end |-> FALSE, end |-> end, interrupt |-> FALSE,
     owned |-> TRUE, fault |-> fault]

\* Two packets, the first of two descriptors, then variants that fault.
Chain(second, third) ==
    [a \in {1, 2, 3} |-> CASE a = 1 -> Tx(3, 2, FALSE, FALSE, FALSE, FALSE) [] a = 2 -> second [] a = 3 -> third]
Good2 == Tx(1, 3, TRUE, FALSE, TRUE, FALSE)
Good3 == Tx(2, 9, TRUE, TRUE, FALSE, FALSE)
Ring(first, second) == [a \in {11, 12} |-> CASE a = 11 -> first [] a = 12 -> second]
Both(chain, ring) == [a \in DOMAIN chain \cup DOMAIN ring |-> IF a \in DOMAIN chain THEN chain[a] ELSE ring[a]]

Hpc1(register, active) == [kind |-> "hpc1", register |-> register, active |-> active]
Control(reset, loopback) ==
    [kind |-> "hpc1", register |-> "Control", reset |-> reset, loopback |-> loopback,
     interrupt |-> TRUE, overflow |-> TRUE]
Timer(count, expired) == [kind |-> "hpc1", register |-> "Timer", count |-> count, expired |-> expired]
Point(register, address) == [kind |-> "hpc1", register |-> register, address |-> address]
ReceiveCommand(mode, conditions) ==
    [kind |-> "seeq", register |-> "ReceiveCommand", mode |-> mode, conditions |-> conditions]
TransmitCommand == [kind |-> "seeq", register |-> "TransmitCommand", conditions |-> {"success", "underflow"}]
Station == [kind |-> "seeq", register |-> "Station"]
Frame(to, length) == [kind |-> "frame", to |-> to, length |-> length]
Status(receive) == [kind |-> "status", receive |-> receive]
Own(address) == [kind |-> "own", address |-> address]

Scenario(mem, to, script, ops, extra) ==
    [memory |-> mem, to |-> to, transmit |-> 1, receive |-> 11, script |-> script, ops |-> ops,
     limit |-> Len(script) + extra]

Prepared == <<Station, ReceiveCommand(3, {"end"}), TransmitCommand, Timer(0, FALSE)>>

Transmit ==
    {Scenario(Both(Chain(second, third), Ring(Rx(6, 12, FALSE, FALSE), Rx(6, 9, TRUE, FALSE))), "broadcast",
              Prepared \o <<Control(FALSE, FALSE), Hpc1("TransmitStatus", TRUE)>>,
              {Hpc1("TransmitStatus", FALSE), Hpc1("TransmitStatus", TRUE), Point("NextTransmit", 1),
               Point("NextTransmit", 9), Control(TRUE, FALSE), Control(FALSE, FALSE), Status(FALSE)}, 3)
        : second \in {Good2, Tx(1, 3, TRUE, FALSE, TRUE, TRUE), Tx(0, 3, FALSE, FALSE, TRUE, FALSE)},
          third \in {Good3, Tx(2, 9, FALSE, TRUE, TRUE, FALSE)}}

Receive ==
    {Scenario(Both(Chain(Good2, Good3), Ring(first, second)), "broadcast",
              <<Station, ReceiveCommand(3, conditions), timer, Control(FALSE, FALSE), Hpc1("ReceiveStatus", TRUE)>>,
              {Frame("station", 3), Frame("station", 1), Frame("other", 2), Hpc1("ReceiveStatus", FALSE),
               Hpc1("ReceiveStatus", TRUE), Point("NextReceive", 11), Status(TRUE), Own(11)}, 3)
        : first \in {Rx(6, 12, FALSE, FALSE), Rx(4, 12, FALSE, FALSE), Rx(6, 12, FALSE, TRUE)},
          second \in {Rx(7, 9, TRUE, FALSE)},
          conditions \in {{"end"}, {"end", "short"}, {}},
          timer \in {Timer(2, FALSE), Timer(0, FALSE)}}

\* The receive timer is running, or was never written, when the frame is complete,
\* and the guest writes it again while the interrupt waits.
Delayed ==
    {Scenario(Both(Chain(Good2, Good3), Ring(Rx(6, 12, FALSE, FALSE), Rx(6, 11, FALSE, FALSE))), "broadcast",
              <<Station, ReceiveCommand(3, {"end"})>> \o timer \o <<Control(FALSE, FALSE), Hpc1("ReceiveStatus", TRUE),
                Frame("station", 2)>>,
              {Timer(2, FALSE), Timer(1, TRUE), Timer(0, FALSE), Frame("station", 3), Status(TRUE),
               Control(TRUE, FALSE), Control(FALSE, FALSE)}, 3)
        : timer \in {<<>>, <<Timer(9, FALSE)>>}}

Loop ==
    {Scenario(Both(Chain(Good2, Good3), Ring(Rx(8, 12, FALSE, FALSE), Rx(8, 11, FALSE, FALSE))), "broadcast",
              Prepared \o <<Control(FALSE, TRUE), Hpc1("ReceiveStatus", TRUE), Hpc1("TransmitStatus", TRUE)>>,
              {Frame("station", 4), Hpc1("TransmitStatus", FALSE), Hpc1("TransmitStatus", TRUE),
               Hpc1("ReceiveStatus", TRUE), Own(11)}, 2)}

AllScenarios == Transmit \cup Receive \cup Delayed \cup Loop
=============================================================================
