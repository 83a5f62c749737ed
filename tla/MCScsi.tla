------------------------------- MODULE MCScsi -------------------------------
(***************************************************************************)
(* Scsi for TLC.                                                           *)
(***************************************************************************)
EXTENDS Scsi

Length(short, long) == [o \in KnownOpcodes |-> IF o = "long" THEN long ELSE short]

BusCdb == Length(1, 2)
ChipCdb == Length(1, 1)
Data == [o \in KnownOpcodes |-> IF o \in {"test", "eject", "long"} THEN 0 ELSE 2]

\* A driver that moves every byte itself, and a user who changes media.
Pio ==
    [commands |-> {"abort", "attention", "negate ack", "disconnect", "select",
                   "select with attention", "transfer", "transfer byte", "reset"},
     destinations |-> {1}, messages |-> {Identify(0), Identify(1), Abort, Sdtr},
     opcodes |-> {"read", "write", "eject"}, registers |-> {"count", "dest"},
     dma |-> {}, controls |-> {}, counts |-> {},
     swaps |-> TRUE, careful |-> TRUE, lateAttention |-> FALSE]

\* A driver that uses the combined command and the DMA channel.
Dma ==
    [commands |-> {"abort", "transfer", "combined with attention"},
     destinations |-> {1}, messages |-> {},
     opcodes |-> {"read", "write"}, registers |-> {"count", "dest", "dma", "opcode"},
     dma |-> {TRUE}, controls |-> {{}, {"start"}, {"start", "to memory"}, {"reset"}, {"start", "flush"}},
     counts |-> {1},
     swaps |-> FALSE, careful |-> TRUE, lateAttention |-> FALSE]

\* A driver that looks for targets, one of which is not there.
Probe ==
    [Pio EXCEPT !.commands = {"abort", "select", "select with attention", "transfer", "reset"},
                !.destinations = {0, 1}, !.messages = {Identify(0)}, !.opcodes = {"read"},
                !.registers = {"dest", "timeout"}, !.swaps = FALSE]

\* A driver whose commands are longer than the controller takes them to be.
LongCommands ==
    [Dma EXCEPT !.commands = {"transfer", "combined with attention"}, !.opcodes = {"read", "long"}]

MCGuests == {Pio, Probe, Dma, LongCommands}
==============================================================================
