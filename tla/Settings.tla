------------------------------- MODULE Settings -------------------------------
(***************************************************************************)
(* The NAT settings of a session: the editable text of the settings dialog,*)
(* its validation, and the check of the host directory it names.  Source:  *)
(* se_network/src/config.rs and se_app/src/config.rs.                      *)
(*                                                                         *)
(* Addresses are the numbers of a space of AddressBits bits, so that the   *)
(* arithmetic of masks and pools is the code's; the ranges the code tells  *)
(* apart by their first octet are constants of the instance.  An editable  *)
(* text that parses as an address is its number, one that does not is      *)
(* NoAddress.  Boot strings are what validation tells apart of them: "",   *)
(* "ok", "nul" (holds a NUL byte), "long" (over the field's size).         *)
(***************************************************************************)
EXTENDS Integers, Sequences, FiniteSets

CONSTANTS
    AddressBits,    \* 32 in the code
    DhcpClients,    \* DHCP_CLIENTS, 16 in the code
    Loopback, Multicast, Reserved    \* address ranges, by first octet

NoAddress == -1
Addresses == 0..(2 ^ AddressBits - 1)
Unspecified == 0
BroadcastAddress == 2 ^ AddressBits - 1

ASSUME AddressesAssumption ==
  /\ AddressBits \in Nat \ {0, 1} /\ DhcpClients \in Nat \ {0}
  /\ Loopback \cup Multicast \cup Reserved \subseteq Addresses

-----------------------------------------------------------------------------
(* Ipv4Subnet *)

Subnet(network, prefix) == [network |-> network, prefix |-> prefix]
HostBits(subnet) == AddressBits - subnet.prefix

\* from_str: a prefix that leaves at least two host bits, and a canonical address.
SubnetParses(subnet) ==
  /\ subnet.network \in Addresses /\ subnet.prefix \in 0..(AddressBits - 2)
  /\ subnet.network % (2 ^ HostBits(subnet)) = 0

\* contains_host: inside, and neither the network's nor the broadcast address.
ContainsHost(subnet, address) ==
  /\ address - (address % (2 ^ HostBits(subnet))) = subnet.network
  /\ address # subnet.network
  /\ address # subnet.network + 2 ^ HostBits(subnet) - 1
  /\ address # Unspecified
  /\ address \notin Loopback \cup Multicast \cup Reserved

-----------------------------------------------------------------------------
(* NatConfig::validate *)

Rule(protocol, hostAddress, hostPort, guestAddress, guestPort) ==
  [protocol |-> protocol, hostAddress |-> hostAddress, hostPort |-> hostPort,
   guestAddress |-> guestAddress, guestPort |-> guestPort]

\* The editable text of the settings, which need not parse.
NetworkText ==
  LET editable == Addresses \cup {NoAddress}
  IN  [subnet : [network : Int, prefix : Int], gateway : editable, dns : editable,
       dhcpStart : editable, tftpRoot : STRING, bootfile : STRING, rootPath : STRING,
       forwards : Seq([protocol : STRING, hostAddress : editable, hostPort : Int,
                       guestAddress : editable, guestPort : Int])]

\* A usable address that the proxy itself does not answer at.
GuestHost(config, address) ==
  /\ ContainsHost(config.subnet, address)
  /\ address \notin {config.gateway, config.dns}

PoolValid(config) ==
  \A offset \in 0..(DhcpClients - 1) :
    config.dhcpStart + offset \in Addresses /\ GuestHost(config, config.dhcpStart + offset)

Overlaps(rule, other) ==
  /\ other.protocol = rule.protocol /\ other.hostPort = rule.hostPort
  /\ \/ other.hostAddress = rule.hostAddress
     \/ Unspecified \in {other.hostAddress, rule.hostAddress}

RuleValid(config, i) ==
  LET rule == config.forwards[i]
  IN  /\ rule.hostPort # 0 /\ rule.guestPort # 0
      /\ rule.hostAddress \notin Multicast \cup {BroadcastAddress}
      /\ GuestHost(config, rule.guestAddress)
      /\ \A j \in 1..(i - 1) : ~Overlaps(rule, config.forwards[j])

BootStringsValid(config) ==
  /\ config.tftpRoot \notin {"nul"}
  /\ config.bootfile \notin {"nul", "long"}
  /\ config.rootPath \notin {"nul", "long"}

\* validate: the first error is reported; what is kept is whether there is one.
Validates(config) ==
  /\ SubnetParses(config.subnet)
  /\ ContainsHost(config.subnet, config.gateway) /\ ContainsHost(config.subnet, config.dns)
  /\ config.gateway # config.dns
  /\ PoolValid(config)
  /\ \A i \in 1..Len(config.forwards) : RuleValid(config, i)
  /\ BootStringsValid(config)

-----------------------------------------------------------------------------
(* From editable text to a session's settings *)

RuleParses(rule) ==
  /\ rule.protocol \in {"tcp", "udp"}
  /\ NoAddress \notin {rule.hostAddress, rule.guestAddress}
  /\ rule.hostPort \in 0..65535 /\ rule.guestPort \in 0..65535

\* parse_network_configuration: "" is an absent boot setting.
Parses(text) ==
  /\ NoAddress \notin {text.gateway, text.dns, text.dhcpStart}
  /\ \A i \in 1..Len(text.forwards) : RuleParses(text.forwards[i])
  /\ Validates(text)

\* preflight_network_config: the one host resource is the directory of a TFTP root.
RootReady(text, directories) == text.tftpRoot = "" \/ text.tftpRoot \in directories

\* prepare_network_configuration.
Prepares(text, directories) == Parses(text) /\ RootReady(text, directories)

-----------------------------------------------------------------------------
(* What a session needs of its settings, independently of how they are checked *)

Pool(config) == {config.dhcpStart + offset : offset \in 0..(DhcpClients - 1)}

\* The addresses a listener takes on a host with the given interfaces.
Taken(rule, interfaces) ==
  {<<rule.protocol, rule.hostPort, a>> :
     a \in IF rule.hostAddress = Unspecified THEN interfaces ELSE {rule.hostAddress}}

Usable(config) ==
  /\ Pool(config) \subseteq Addresses /\ Pool(config) \cap {config.gateway, config.dns} = {}
  /\ config.gateway # config.dns
  /\ \A a \in Pool(config) \cup {config.gateway, config.dns} :
       a > config.subnet.network /\ a < config.subnet.network + 2 ^ HostBits(config.subnet) - 1
  /\ \A i, j \in 1..Len(config.forwards) : i # j =>
       Taken(config.forwards[i], Addresses) \cap Taken(config.forwards[j], Addresses) = {}

-----------------------------------------------------------------------------
(***************************************************************************)
(* The settings dialog: the machine view it shows, the host check of what  *)
(* it shows, and its Apply button.  Source:                                *)
(* se_ui/cpp/src/settings_dialog.cpp.                                      *)
(*                                                                         *)
(* A dialog is a record.  The check of a draft and of a network text is    *)
(* carried with what it was made of (draft, text), which the code does not *)
(* keep: it compares revisions.                                            *)
(***************************************************************************)

NoResult == [revision |-> -1, success |-> FALSE, errors |-> FALSE, draft |-> <<>>]
Result(revision, success, errors, draft) ==
  [revision |-> revision, success |-> success, errors |-> errors, draft |-> draft]
View(success, revision, errors) == [success |-> success, revision |-> revision, errors |-> errors]

Closed(generation) ==
  [open |-> FALSE, generation |-> generation, view |-> View(FALSE, 0, FALSE), rebuild |-> FALSE,
   result |-> NoResult, pending |-> FALSE, timer |-> FALSE, applying |-> FALSE,
   netRevision |-> 0, net |-> 0, netCurrent |-> FALSE, netError |-> FALSE, netOf |-> 0,
   button |-> FALSE]

\* The constructor: the view is sampled, the first check is a posted event.
Opened(generation, view, net) ==
  [Closed(generation) EXCEPT !.open = TRUE, !.view = view, !.net = net, !.rebuild = TRUE]

\* update_apply_enabled.
UpdateApply(d) ==
  [d EXCEPT !.button =
     /\ ~d.applying /\ d.view.success /\ ~d.view.errors /\ ~d.pending
     /\ d.result.revision = d.view.revision /\ d.result.success /\ ~d.result.errors
     /\ d.netCurrent /\ ~d.netError]

Checkable(d) == ~d.applying /\ d.view.success /\ ~d.view.errors

\* schedule_preflight: whatever was found out is forgotten.
SchedulePreflight(d) ==
  UpdateApply([d EXCEPT !.result = NoResult, !.pending = Checkable(d), !.timer = Checkable(d)])

\* accept_machine_view: the tree is rebuilt, and the check scheduled, by a posted event.
AcceptView(d, view) ==
  [d EXCEPT !.timer = FALSE, !.result = NoResult, !.pending = FALSE, !.view = view,
            !.rebuild = TRUE, !.button = FALSE]
Rebuilt(d) == SchedulePreflight([d EXCEPT !.rebuild = FALSE])

\* handle_network_changed.
NetworkChanged(d, net) ==
  IF d.applying THEN d
  ELSE SchedulePreflight([d EXCEPT !.net = net, !.netRevision = @ + 1,
                                   !.netCurrent = FALSE, !.netError = FALSE])

SetApplying(d, applying) ==
  UpdateApply([d EXCEPT !.applying = applying, !.timer = @ /\ ~applying])
ShowApplyFailure(d) == SchedulePreflight(SetApplying(d, FALSE))

MachineCurrent(d, result) == result.revision = d.view.revision

\* Mutant: one current half of the outcome cancels the check of the other.
SettledByEither(machineCurrent, netCurrent) == machineCurrent \/ netCurrent
Settled(machineCurrent, netCurrent) == machineCurrent /\ netCurrent

\* apply_preflight_result: each half of the outcome counts if it is of what is shown.
TakeOutcome(d, outcome, machineCurrent, netCurrent) ==
  UpdateApply(
    [d EXCEPT !.result = IF machineCurrent THEN outcome.machine ELSE @,
              !.netCurrent = netCurrent,
              !.netError = IF netCurrent THEN outcome.netError ELSE @,
              !.netOf = IF netCurrent THEN outcome.net ELSE @,
              !.timer = @ /\ ~Settled(machineCurrent, netCurrent),
              !.pending = @ /\ ~Settled(machineCurrent, netCurrent)])
ApplyPreflightResult(d, outcome) ==
  TakeOutcome(d, outcome, MachineCurrent(d, outcome.machine),
              outcome.netRevision = d.netRevision)
=============================================================================
