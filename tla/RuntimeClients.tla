---------------------------- MODULE RuntimeClients ----------------------------
(***************************************************************************)
(* The runtime worker as its clients see it: the command channel and its   *)
(* replies, the endpoint handles, the output handler and the Qt sink that  *)
(* carries output to the consoles and the display.  Source:                *)
(* se_runtime/src/{runtime,endpoint,control}.rs (Runtime, RuntimeHandle,   *)
(* the worker's loop and its output), se_ui/src/session.rs and             *)
(* se_ui/cpp/src/{machine_output_sink,main_window,serial_console_dock,     *)
(* display_workspace}.cpp.                                                 *)
(*                                                                         *)
(* Threads: the worker, the GUI thread "ui" and a preparation thread       *)
(* "task".  A request sends a command and blocks for its reply, so the GUI *)
(* thread handles no event while it waits.  What a command does to a       *)
(* Record, a Replay or the network is the subject of Runtime; here a       *)
(* machine is its frontend I/O, and what the guest prints, transmits or    *)
(* draws is its own choice.                                                *)
(***************************************************************************)
EXTENDS Integers, Sequences

-----------------------------------------------------------------------------
(* The frontend I/O of a machine: which endpoints an Ip12 has, which input  *)
(* each of them takes, and the output it collects for the runtime between   *)
(* two deliveries (se_machine/src/{endpoint,input,output,machine}.rs,       *)
(* indigo/ip12.rs, se_device/src/sgi_keyboard.rs).                          *)
(*                                                                          *)
(* A machine is a record with the fields keyboard, mouse and video (what is *)
(* attached), board (what the board drives onto the display), picture (what *)
(* of it was put out last) and received (the inputs its devices got).       *)
(* Bytes, frames and pictures are opaque.                                   *)
(* Catalogs and outputs are functions of the endpoint's key: each key is in *)
(* them once, and their order tells nothing.                                *)

KEYBOARD == "keyboard.0"
POINTER == "pointer.0"
SERIAL_A == "serial.external.a"
SERIAL_B == "serial.external.b"
ETHERNET == "ethernet.0"
VIDEO == "video.0"

AcceptsInput(direction) == direction \in {"Input", "Bidirectional"}
AcceptsOutput(direction) == direction \in {"Output", "Bidirectional"}

Descriptor(kind, direction) == [kind |-> kind, direction |-> direction]

-----------------------------------------------------------------------------
(* The catalog *)

\* The endpoints of an Ip12: what is attached, and what every board has.
Keys(m) ==
  {SERIAL_A, SERIAL_B, ETHERNET} \cup (IF m.keyboard THEN {KEYBOARD} ELSE {})
    \cup (IF m.mouse THEN {POINTER} ELSE {}) \cup (IF m.video THEN {VIDEO} ELSE {})

\* Ip12::endpoint_catalog.
Catalog(m) ==
  [key \in Keys(m) |->
     CASE key = KEYBOARD -> Descriptor("Keyboard", "Input")
       [] key = POINTER -> Descriptor("Pointer", "Input")
       [] key = ETHERNET -> Descriptor("Ethernet", "Bidirectional")
       [] key = VIDEO -> Descriptor("Video", "Output")
       [] key \in {SERIAL_A, SERIAL_B} -> Descriptor("Serial", "Bidirectional")]

Listed(catalog, key) == key \in DOMAIN catalog
NoCatalog == [key \in {} |-> Descriptor("", "")]

-----------------------------------------------------------------------------
(* Keyboard keys *)

LetterCodes == <<10, 35, 27, 17, 16, 18, 25, 26, 39, 33, 34, 41, 43,
                 36, 40, 47, 9, 23, 11, 24, 32, 28, 15, 20, 31, 19>>
DigitCodes == <<45, 7, 13, 14, 21, 22, 29, 30, 37, 38>>
KeypadCodes == <<58, 57, 63, 64, 62, 68, 69, 66, 67, 74>>
NamedCodes ==
  [LeftControl |-> 2, RightControl |-> 85, LeftShift |-> 5, RightShift |-> 4, LeftAlt |-> 83,
   RightAlt |-> 84, CapsLock |-> 3, Escape |-> 6, Tab |-> 8, Enter |-> 50, Backspace |-> 60,
   Delete |-> 61, Space |-> 82, ArrowLeft |-> 72, ArrowRight |-> 79, ArrowUp |-> 80,
   ArrowDown |-> 73, Insert |-> 101, Home |-> 102, End |-> 104, PageUp |-> 103, PageDown |-> 105,
   PrintScreen |-> 98, ScrollLock |-> 99, Pause |-> 100, NumLock |-> 106, Semicolon |-> 42,
   Comma |-> 44, Minus |-> 46, LeftBracket |-> 48, RightBracket |-> 55, Apostrophe |-> 49,
   Period |-> 51, Slash |-> 52, Equal |-> 53, Grave |-> 54, Backslash |-> 56,
   KeypadPeriod |-> 65, KeypadMinus |-> 75, KeypadPlus |-> 109, KeypadSlash |-> 107,
   KeypadAsterisk |-> 108, KeypadEnter |-> 81]

\* KeyboardKey: a letter, digit, keypad digit or function key by its number, a
\* named key by its name.
NumberedKeys == ({"Letter"} \X (0..25)) \cup ({"Digit", "KeypadDigit"} \X (0..9))
                  \cup ({"Function"} \X (1..12))
NamedKeys == {"Named"} \X DOMAIN NamedCodes
KeyboardKeys == NumberedKeys \cup NamedKeys

\* The codes SgiKey::try_from accepts.
SgiKeyCodes == (2..109) \ ({12, 59, 70, 71} \cup (76..78))

\* translate_keyboard_key: the code of a key of the frontend.
KeyCode(key) ==
  CASE key[1] = "Letter" -> LetterCodes[key[2] + 1]
    [] key[1] = "Digit" -> DigitCodes[key[2] + 1]
    [] key[1] = "KeypadDigit" -> KeypadCodes[key[2] + 1]
    [] key[1] = "Function" -> 85 + key[2]
    [] key[1] = "Named" -> NamedCodes[key[2]]

-----------------------------------------------------------------------------
(* Input *)

PayloadKind(payload) ==
  CASE payload = "SerialByte" -> "Serial"
    [] payload = "Keyboard" -> "Keyboard"
    [] payload \in {"PointerMotion", "PointerButton"} -> "Pointer"
    [] payload = "EthernetFrame" -> "Ethernet"

\* validate_input_endpoint: the kind the machine gives an endpoint, "" for one
\* it does not have, "Video" for the one that takes no input.
InputKind(m, key) ==
  CASE key = KEYBOARD /\ m.keyboard -> "Keyboard"
    [] key = POINTER /\ m.mouse -> "Pointer"
    [] key \in {SERIAL_A, SERIAL_B} -> "Serial"
    [] key = ETHERNET -> "Ethernet"
    [] key = VIDEO /\ m.video -> "Video"
    [] OTHER -> ""

\* try_receive_input: the arm that takes a payload at an endpoint; no arm is
\* an unreachable!.
Routed(key, payload) ==
  \/ payload = "SerialByte" /\ key \in {SERIAL_A, SERIAL_B}
  \/ payload = "Keyboard" /\ key = KEYBOARD
  \/ payload \in {"PointerMotion", "PointerButton"} /\ key = POINTER
  \/ payload = "EthernetFrame" /\ key = ETHERNET

\* MachineInputError of an input.
InputError(m, key, payload) ==
  CASE InputKind(m, key) = "" -> "UnknownEndpoint"
    [] InputKind(m, key) = "Video" -> "OutputOnlyEndpoint"
    [] InputKind(m, key) # PayloadKind(payload) -> "PayloadKindMismatch"
    [] OTHER -> "none"

\* receive_serial_character, set_sgi_key_state, move_sgi_mouse, ...: the device
\* behind the endpoint gets the input.
Receive(m, input) == [m EXCEPT !.received = Append(@, input)]

-----------------------------------------------------------------------------
(* MachineOutput: for each endpoint with output, its kind and what it put  *)
(* out                                                                     *)

Entry(kind, data) == [kind |-> kind, data |-> data]
NoOutput == [key \in {} |-> Entry("", <<>>)]
IsEmpty(output) == DOMAIN output = {}
DataOf(output, key) == IF key \in DOMAIN output THEN output[key].data ELSE <<>>
With(output, key, entry) ==
  [k \in DOMAIN output \cup {key} |-> IF k = key THEN entry ELSE output[k]]

\* push_serial and push_ethernet keep everything, in order.
PushTo(output, key, kind, value) ==
  With(output, key, Entry(kind, Append(DataOf(output, key), value)))
PushSerial(output, key, value) == PushTo(output, key, "Serial", value)
PushEthernet(output, frame) == PushTo(output, ETHERNET, "Ethernet", frame)

\* publish_video keeps the newest picture.
PublishVideo(output, picture) == With(output, VIDEO, Entry("Video", <<picture>>))

KeysOf(output, kinds) == {key \in DOMAIN output : output[key].kind \in kinds}
\* take_ethernet_outputs: what it takes, and what it leaves.
EthernetOutputs(output) == [key \in KeysOf(output, {"Ethernet"}) |-> output[key]]
WithoutEthernet(output) ==
  [key \in DOMAIN output \ KeysOf(output, {"Ethernet"}) |-> output[key]]

\* publish_current_outputs.
PublishCurrent(m, output) == IF m.video THEN PublishVideo(output, m.board) ELSE output

-----------------------------------------------------------------------------
(* The worker and its clients.                                              *)

CONSTANTS
    Topologies,       \* machines the task configures: keyboard, mouse, video
    Modes,            \* session modes the task configures
    Payloads,         \* inputs the window sends
    Batches,          \* what a batch of instructions may put out
    MaxGeneration,    \* bound: machines configured
    MaxTokens,        \* bound: bytes, frames and pictures the guests produce
    MaxInputs         \* bound: inputs a machine receives

\* What an instruction may bring: a byte of a port, a frame, a picture, the guest's
\* reset of its machine, and in a Replay the Reset of a Timeline entry due after it.
Events == {"a", "b", "frame", "picture", "reboot", "reset"}

ASSUME ClientsAssumption ==
  /\ Topologies \subseteq [keyboard : BOOLEAN, mouse : BOOLEAN, video : BOOLEAN]
  /\ Payloads \subseteq {"SerialByte", "Keyboard", "PointerMotion", "PointerButton", "EthernetFrame"}
  /\ Batches \subseteq Seq(Events)

VARIABLES
    rt,          \* the worker, with the sink its output handler captured
    channel,     \* commands sent and not received
    clients,     \* for each client thread, the request it waits for
    ui           \* the window: what it shows, and whether it is open

vars == <<rt, channel, clients, ui>>

Clients == {"ui", "task"}
NoMachine == [none |-> TRUE]
Handle(generation, key) == [generation |-> generation, key |-> key]

\* A client's request: the operation, what it will send next, and the reply once
\* it has come.
Idle == [op |-> "idle", handle |-> Handle(0, ""), payload |-> "", reply |-> "none",
         generation |-> 0, catalog |-> NoCatalog]

\* Streams, each of an endpoint handle: what waits for the window, or was emitted.
NoStreams == [handle \in {} |-> <<>>]
Stream(streams, handle) == IF handle \in DOMAIN streams THEN streams[handle] ELSE <<>>

EmptySink == [serial |-> NoStreams, video |-> NoStreams, scheduled |-> FALSE, posted |-> FALSE,
              open |-> TRUE]
NoPanes == [generation |-> 0, catalog |-> NoCatalog, a |-> <<>>, b |-> <<>>, picture |-> 0,
            fromA |-> 0, fromB |-> 0]

\* emitted is a history: every byte a serial port emitted, but those of a batch or
\* step of a Replay before a Reset in it.
Init ==
  /\ rt = [alive |-> TRUE, panicked |-> FALSE, state |-> "Unconfigured", mode |-> "Normal",
           generation |-> 0, machine |-> NoMachine, output |-> NoOutput, handler |-> FALSE,
           sink |-> EmptySink, late |-> FALSE, tokens |-> 0,
           emitted |-> NoStreams]
  /\ channel = <<>>
  /\ clients = [c \in Clients |-> Idle]
  /\ ui = [window |-> "new", panes |-> NoPanes]

-----------------------------------------------------------------------------
(* The sink: written on the worker's thread, drained on the GUI thread *)

\* publish_video: the newest state of an endpoint waits.
ReplacePending(pending, items) ==
  [h \in DOMAIN pending \cup DOMAIN items |->
     IF h \in DOMAIN items THEN items[h] ELSE pending[h]]

\* publish_serial: bytes join those of the same endpoint that wait.
AppendPending(pending, items) ==
  [h \in DOMAIN pending \cup DOMAIN items |-> Stream(pending, h) \o Stream(items, h)]

\* The first output after a drain posts the next one.
Publish(sink, serial, video) ==
  [sink EXCEPT !.scheduled = TRUE,
               !.posted = sink.posted \/ ~sink.scheduled,
               !.serial = AppendPending(@, serial),
               !.video = ReplacePending(@, video)]

\* The output handler; a call after the sink is gone is one too many.
CallHandler(w, serial, video) ==
  IF ~w.handler \/ DOMAIN serial \cup DOMAIN video = {} THEN w
  ELSE IF ~w.sink.open THEN [w EXCEPT !.late = TRUE]
  ELSE [w EXCEPT !.sink = Publish(@, serial, video)]

-----------------------------------------------------------------------------
(* Delivery of machine output *)

Panic(w) == [w EXCEPT !.panicked = TRUE, !.alive = FALSE]

\* The assertions of drain_network_output and deliver_output_entries.
Declared(catalog, key, kind) ==
  Listed(catalog, key) /\ catalog[key].kind = kind /\ AcceptsOutput(catalog[key].direction)
AllDeclared(catalog, output) ==
  \A key \in DOMAIN output : Declared(catalog, key, output[key].kind)

\* RuntimeOutput of one kind, by the live endpoint it is of.
Items(w, kind) ==
  [h \in {Handle(w.generation, key) : key \in KeysOf(w.output, {kind})} |-> w.output[h.key].data]

\* deliver_output: everything collected goes out.
DeliverOutput(w) ==
  IF IsEmpty(w.output) THEN w
  ELSE IF ~AllDeclared(Catalog(w.machine), w.output) THEN Panic(w)
  ELSE CallHandler([w EXCEPT !.output = NoOutput], Items(w, "Serial"), Items(w, "Video"))

\* drain_network_output: Ethernet frames go to the NAT session, or nowhere.
DrainNetwork(w) ==
  IF IsEmpty(w.output) THEN w
  ELSE IF ~AllDeclared(Catalog(w.machine), EthernetOutputs(w.output)) THEN Panic(w)
  ELSE [w EXCEPT !.output = WithoutEthernet(@)]

\* flush_machine_output.
Flush(w) == IF DrainNetwork(w).alive THEN DeliverOutput(DrainNetwork(w)) ELSE DrainNetwork(w)

QueueCurrent(w) ==
  IF w.machine = NoMachine THEN w
  ELSE [w EXCEPT !.output = PublishCurrent(w.machine, @), !.machine.picture = w.machine.board]

-----------------------------------------------------------------------------
(* Requests *)

IsReplay(mode) == mode = "Replaying"
Waiting(c) == clients[c].op # "idle" /\ clients[c].reply = "none"

Command(c, op) ==
  [client |-> c, op |-> op, handle |-> Handle(0, ""), payload |-> "", mode |-> "",
   topology |-> NoMachine]

\* RuntimeHandle::request: the command is sent, or the worker is gone.
Request(c, command) ==
  LET pending == [Idle EXCEPT !.op = command.op, !.handle = command.handle,
                              !.payload = command.payload]
  IN  IF rt.alive
      THEN /\ channel' = Append(channel, command)
           /\ clients' = [clients EXCEPT ![c] = pending]
      ELSE /\ clients' = [clients EXCEPT ![c] = [pending EXCEPT !.reply = "unavailable"]]
           /\ UNCHANGED channel

\* Mutant: a worker that ends leaves the commands it did not receive unanswered.
KeepQueue(w, rest) == rest

\* A worker that ends drops its receiver, and with it every command in it.
QueueOf(w, rest) == IF w.alive THEN rest ELSE <<>>

\* The replies a dropped queue turns into errors.
DropReplies(waiting, queue) ==
  [c \in Clients |->
     IF \E i \in 1..Len(queue) : queue[i].client = c
     THEN [waiting[c] EXCEPT !.reply = "unavailable"] ELSE waiting[c]]

\* The worker has handled the first command: it becomes w and replies.
Replied(w, reply) ==
  LET c == Head(channel).client
      answered == [clients EXCEPT ![c] =
                     [@ EXCEPT !.reply = IF w.panicked THEN "unavailable" ELSE reply,
                               !.generation = w.generation,
                               !.catalog = IF w.machine = NoMachine THEN NoCatalog
                                           ELSE Catalog(w.machine)]]
      rest == QueueOf(w, Tail(channel))
  IN  /\ rt' = w
      /\ channel' = rest
      /\ clients' = IF rest = Tail(channel) THEN answered ELSE DropReplies(answered, Tail(channel))
      /\ UNCHANGED ui

Received(op) == rt.alive /\ channel # <<>> /\ Head(channel).op = op

-----------------------------------------------------------------------------
(* Commands that touch output or endpoints *)

\* Configure: rejected while a session runs, otherwise a cold machine whose
\* current picture is delivered at once.
MayConfigure(mode) ==
  rt.mode # "Recording" /\ (IsReplay(rt.mode) => mode = "Normal")

\* A Replay may start from a snapshot whose board drives a picture.
RestoredPicture == 100
FirstPictures(mode) == IF IsReplay(mode) THEN {0, RestoredPicture} ELSE {0}
ColdMachine(topology, picture) ==
  [keyboard |-> topology.keyboard, mouse |-> topology.mouse, video |-> topology.video,
   picture |-> IF topology.video THEN picture ELSE 0,
   board |-> IF topology.video THEN picture ELSE 0, received |-> <<>>]

Installed(command, picture) ==
  [rt EXCEPT !.machine = ColdMachine(command.topology, picture), !.generation = @ + 1,
             !.state = "Paused", !.mode = command.mode, !.output = NoOutput]

Configure ==
  /\ Received("configure")
  /\ IF MayConfigure(Head(channel).mode)
     THEN \E picture \in FirstPictures(Head(channel).mode) :
            Replied(DeliverOutput(QueueCurrent(Installed(Head(channel), picture))), "ok")
     ELSE Replied(rt, "rejected")

\* Run, Pause: only with a machine.
Run ==
  /\ Received("run")
  /\ IF rt.machine = NoMachine THEN Replied(rt, "rejected")
     ELSE Replied([rt EXCEPT !.state = "Running"], "ok")

Pause ==
  /\ Received("pause")
  /\ IF rt.machine = NoMachine THEN Replied(rt, "rejected")
     ELSE Replied([rt EXCEPT !.state = "Paused"], "ok")

\* reset_machine: what was collected and not delivered is gone, the board drives
\* nothing, and that waits to be delivered.
ResetMachine(w) == QueueCurrent([w EXCEPT !.machine.board = 0, !.output = NoOutput])

\* check_record_failure, stop_recording: a Record whose session failed has ended.
RecordEnded(mode) == IF mode = "Recording" THEN "RecordCompleted" ELSE mode

\* Reset: the network or the Record may refuse it before the machine is reset; the
\* checkpoint of a Record may fail once it is, and then nothing is delivered.
Reset ==
  /\ Received("reset")
  /\ \E ended \in {[rt EXCEPT !.state = "Paused", !.mode = RecordEnded(@)]} :
       IF rt.machine = NoMachine \/ IsReplay(rt.mode) THEN Replied(rt, "rejected")
       ELSE \/ Replied(DeliverOutput(ResetMachine([rt EXCEPT !.state = "Paused"])), "ok")
            \/ Replied(ended, "rejected")
            \/ rt.mode = "Recording" /\ Replied(ResetMachine(ended), "rejected")

\* Status, EndpointCatalog, MediaCatalog and Debug: a coherent sample.
Sample == (Received("sample") \/ Received("catalog") \/ Received("resolve")) /\ Replied(rt, "ok")

RefreshOutputs == Received("refresh") /\ Replied(DeliverOutput(QueueCurrent(rt)), "ok")

SetOutputHandler == Received("attach") /\ Replied([rt EXCEPT !.handler = TRUE], "ok")

Cleared(w) == [w EXCEPT !.handler = FALSE]
ClearOutputHandler == Received("detach") /\ Replied(Cleared(rt), "ok")

\* Mutant: a handle is taken for the machine that is installed now.
HandleErrorAnyMachine(handle, payload) ==
  IF rt.machine = NoMachine \/ ~Listed(Catalog(rt.machine), handle.key)
  THEN "UnknownEndpoint"
  ELSE IF Catalog(rt.machine)[handle.key].kind # PayloadKind(payload)
  THEN "EndpointKindMismatch" ELSE "none"

\* validate_handle.
HandleError(handle, payload) ==
  IF handle.generation # rt.generation THEN "StaleEndpoint"
  ELSE IF rt.machine = NoMachine \/ ~Listed(Catalog(rt.machine), handle.key)
  THEN "UnknownEndpoint"
  ELSE IF Catalog(rt.machine)[handle.key].kind # PayloadKind(payload)
  THEN "EndpointKindMismatch"
  ELSE IF ~AcceptsInput(Catalog(rt.machine)[handle.key].direction)
  THEN "EndpointDirectionMismatch" ELSE "none"

\* The machine takes the input, refuses it, or routes it to no device.
Consume(handle, payload) ==
  IF InputError(rt.machine, handle.key, payload) # "none" THEN Replied(rt, "rejected")
  ELSE IF ~Routed(handle.key, payload) THEN Replied(Panic(rt), "unavailable")
  ELSE Replied([rt EXCEPT !.machine = Receive(@, [handle |-> handle, payload |-> payload,
                                                  mode |-> rt.mode])], "ok")

MachineInput ==
  /\ Received("input")
  /\ IF rt.machine = NoMachine \/ IsReplay(rt.mode) THEN Replied(rt, "rejected")
     ELSE IF HandleError(Head(channel).handle, Head(channel).payload) # "none"
     THEN Replied(rt, HandleError(Head(channel).handle, Head(channel).payload))
     ELSE Consume(Head(channel).handle, Head(channel).payload)

\* Shutdown: the worker replies with the nonvolatile state and returns.
Shutdown ==
  /\ Received("shutdown")
  /\ Replied([rt EXCEPT !.alive = FALSE, !.handler = FALSE], "ok")

-----------------------------------------------------------------------------
(* Execution *)

\* A port emits a byte.
EmitSerial(w, key, byte) ==
  [w EXCEPT !.tokens = byte, !.output = PushSerial(@, key, byte),
            !.emitted = [h \in DOMAIN @ \cup {Handle(w.generation, key)} |->
                           IF h = Handle(w.generation, key) THEN Append(Stream(@, h), byte)
                           ELSE @[h]]]

\* What an instruction of a batch that began with worker begun brings.  A board
\* that the guest resets puts out nothing.
Emit(begun, w, event) ==
  LET token == w.tokens + 1
  IN  CASE event = "a" -> EmitSerial(w, SERIAL_A, token)
        [] event = "b" -> EmitSerial(w, SERIAL_B, token)
        [] event = "frame" -> [w EXCEPT !.tokens = token, !.output = PushEthernet(@, token)]
        [] event = "picture" -> IF w.machine.video
                                THEN [w EXCEPT !.tokens = token, !.machine.picture = token,
                                               !.machine.board = token,
                                               !.output = PublishVideo(@, token)]
                                ELSE w
        [] event = "reboot" -> [w EXCEPT !.machine.board = 0]
        [] event = "reset" -> ResetMachine([w EXCEPT !.emitted = begun.emitted])

Executed(w, events) ==
  LET after[i \in 0..Len(events)] == IF i = 0 THEN w ELSE Emit(w, after[i - 1], events[i])
  IN  after[Len(events)]

\* A batch ends at its size, or pauses at a breakpoint or an error.
AfterBatch(w, state) == Flush([w EXCEPT !.state = state])

\* A guest whose board is absent draws nothing, and only a Replay has a Timeline.
Feasible(w, events) ==
  /\ Executed(w, events).tokens <= MaxTokens
  /\ w.machine.video \/ \A i \in 1..Len(events) : events[i] # "picture"
  /\ IsReplay(w.mode) \/ \A i \in 1..Len(events) : events[i] # "reset"

ExecuteBatch ==
  /\ rt.alive /\ rt.state = "Running"
  /\ \E events \in Batches, state \in {"Running", "Paused"} :
       /\ Feasible(rt, events)
       /\ rt' = AfterBatch(Executed(rt, events), state)
  /\ UNCHANGED <<channel, clients, ui>>

\* Step: one instruction and the Timeline entries due after it, flushed at once.
Step ==
  /\ Received("step")
  /\ IF rt.machine = NoMachine \/ rt.state = "Running" THEN Replied(rt, "rejected")
     ELSE \E events \in {<<>>} \cup {<<e>> : e \in Events} \cup {<<e, "reset">> : e \in Events} :
            /\ Feasible(rt, events)
            /\ Replied(Flush(Executed(rt, events)), "ok")

-----------------------------------------------------------------------------
(* The window *)

GuiIdle == clients["ui"].op = "idle"
UiCommand(op) == Request("ui", Command("ui", op))

\* The constructor attaches the sink.
OpenWindow ==
  /\ GuiIdle /\ ui.window = "new"
  /\ UiCommand("attach")
  /\ ui' = [ui EXCEPT !.window = "open"]
  /\ UNCHANGED rt

\* A menu action.
UserCommand ==
  /\ GuiIdle /\ ui.window = "open"
  /\ \E op \in {"run", "pause", "step", "reset"} : UiCommand(op)
  /\ UNCHANGED <<rt, ui>>

\* Typing, keys and the pointer: addressed by the catalog the window shows, and
\* first resolved against the runtime's catalog.
InputCommand(op, handle, payload) ==
  [Command("ui", op) EXCEPT !.handle = handle, !.payload = payload]
UserInput ==
  /\ GuiIdle /\ ui.window = "open"
  /\ rt.machine # NoMachine => Len(rt.machine.received) < MaxInputs
  /\ \E key \in DOMAIN ui.panes.catalog, payload \in Payloads :
       Request("ui", InputCommand("resolve", Handle(ui.panes.generation, key), payload))
  /\ UNCHANGED <<rt, ui>>

\* resolve_endpoint_handle: the handle names an endpoint of the catalog in reply.
Resolves(r) ==
  r.reply = "ok" /\ r.generation = r.handle.generation /\ Listed(r.catalog, r.handle.key)

\* The timer samples the status.
PollStatus ==
  /\ GuiIdle /\ ui.window = "open"
  /\ UiCommand("sample")
  /\ UNCHANGED <<rt, ui>>

\* append_serial, publish_video: output of an endpoint that is not shown is dropped.
Fed(text, panes, serial, key) ==
  IF Listed(panes.catalog, key)
  THEN text \o Stream(serial, Handle(panes.generation, key)) ELSE text
Presented(picture, panes, video) ==
  IF Listed(panes.catalog, VIDEO) /\ Handle(panes.generation, VIDEO) \in DOMAIN video
  THEN video[Handle(panes.generation, VIDEO)][1] ELSE picture

Drained(sink) == [sink EXCEPT !.serial = NoStreams, !.video = NoStreams, !.scheduled = FALSE]

\* The queued call of drain, on the GUI thread between other events.
Drain ==
  /\ GuiIdle /\ ui.window = "open" /\ rt.sink.posted
  /\ ui' = [ui EXCEPT !.panes = [ui.panes EXCEPT
                                !.a = Fed(@, ui.panes, rt.sink.serial, SERIAL_A),
                                !.b = Fed(@, ui.panes, rt.sink.serial, SERIAL_B),
                                !.picture = Presented(@, ui.panes, rt.sink.video)]]
  /\ rt' = [rt EXCEPT !.sink = [Drained(@) EXCEPT !.posted = FALSE]]
  /\ UNCHANGED <<channel, clients>>

PendingFor(handle) == Stream(rt.sink.serial, handle)
EmittedFor(handle) == Stream(rt.emitted, handle)

\* rebuild: empty panes for the endpoints of a catalog.  fromA and fromB note how
\* much of a port's output was gone by then.
Gone(handle) == Len(EmittedFor(handle)) - Len(PendingFor(handle))
Shown(catalog, generation) ==
  [generation |-> generation, catalog |-> catalog, a |-> <<>>, b |-> <<>>, picture |-> 0,
   fromA |-> Gone(Handle(generation, SERIAL_A)), fromB |-> Gone(Handle(generation, SERIAL_B))]

\* apply_runtime_status: a status of a new generation asks for the catalog, the
\* panes are rebuilt from it, and the machine is asked for its current picture.
AfterRebuild == "refresh"
StatusReplies == {"attach", "sample", "run", "pause", "step", "reset"}
NewMachineSeen(r) ==
  r.op \in StatusReplies /\ r.reply = "ok" /\ r.generation # ui.panes.generation

\* The thread goes on with the reply.
UiContinues ==
  /\ clients["ui"].reply # "none" /\ ui.window = "open"
  /\ \E r \in {clients["ui"]} :
       IF NewMachineSeen(r) THEN UiCommand("catalog") /\ UNCHANGED ui
       ELSE IF r.op = "catalog" /\ r.reply = "ok"
       THEN UiCommand(AfterRebuild) /\ ui' = [ui EXCEPT !.panes = Shown(r.catalog, r.generation)]
       ELSE IF r.op = "resolve" /\ Resolves(r)
       THEN Request("ui", InputCommand("input", r.handle, r.payload)) /\ UNCHANGED ui
       ELSE clients' = [clients EXCEPT !["ui"] = Idle] /\ UNCHANGED <<ui, channel>>
  /\ UNCHANGED rt

\* The destructor goes on: the sink is destroyed; the join of the worker returns.
CloseContinues ==
  /\ clients["ui"].reply # "none" /\ ui.window = "closing"
  /\ LET detached == clients["ui"].op = "detach"
     IN  /\ ui' = [ui EXCEPT !.window = IF detached THEN "detached" ELSE "closed"]
         /\ rt' = [rt EXCEPT !.sink.open = @ /\ ~detached]
  /\ clients' = [clients EXCEPT !["ui"] = Idle]
  /\ UNCHANGED channel

\* The window closes: the sink is detached, then destroyed.
CloseWindow ==
  /\ GuiIdle /\ ui.window = "open"
  /\ UiCommand("detach")
  /\ ui' = [ui EXCEPT !.window = "closing"]
  /\ UNCHANGED rt

\* The application ends the runtime and joins its thread.
ShutdownRuntime ==
  /\ GuiIdle /\ ui.window = "detached"
  /\ UiCommand("shutdown")
  /\ ui' = [ui EXCEPT !.window = "closing"]
  /\ UNCHANGED rt

-----------------------------------------------------------------------------
(* The preparation thread *)

TaskConfigures ==
  /\ clients["task"].op = "idle" /\ rt.generation < MaxGeneration
  /\ \E mode \in Modes, topology \in Topologies :
       Request("task", [Command("task", "configure") EXCEPT !.mode = mode, !.topology = topology])
  /\ UNCHANGED <<rt, ui>>

TaskContinues ==
  /\ clients["task"].op # "idle" /\ clients["task"].reply # "none"
  /\ rt.alive      \* a task whose runtime is gone reports the error and ends
  /\ clients' = [clients EXCEPT !["task"] = Idle]
  /\ UNCHANGED <<rt, channel, ui>>

-----------------------------------------------------------------------------
Worker ==
  \/ Configure \/ Run \/ Pause \/ Step \/ Reset \/ Sample \/ RefreshOutputs
  \/ SetOutputHandler \/ ClearOutputHandler \/ MachineInput \/ Shutdown
Window ==
  \/ OpenWindow \/ UserCommand \/ UserInput \/ PollStatus \/ CloseWindow \/ ShutdownRuntime
Next == Worker \/ ExecuteBatch \/ Window \/ UiContinues \/ CloseContinues \/ Drain \/ TaskConfigures \/ TaskContinues

Spec == Init /\ [][Next]_vars

-----------------------------------------------------------------------------
(* Properties *)

\* What a console shows, followed by what waits for it, is what its machine's port
\* emitted since the console was built, without what a Replay emitted in a batch or
\* step and before a Reset in it: nothing else is lost, and nothing is doubled,
\* reordered or taken from the other port or another machine, although bytes cross a
\* batch, a handler, a locked buffer and a queued call, and the machine may be
\* replaced meanwhile.
ConsoleText(key) ==
  (IF key = SERIAL_A THEN ui.panes.a ELSE ui.panes.b)
    \o PendingFor(Handle(ui.panes.generation, key))
ConsoleStart(key) == IF key = SERIAL_A THEN ui.panes.fromA ELSE ui.panes.fromB
ConsoleExact ==
  ui.window = "open" /\ rt.handler /\ rt.alive /\ ui.panes.generation > 0 =>
    \A key \in {SERIAL_A, SERIAL_B} :
      \E all \in {EmittedFor(Handle(ui.panes.generation, key))} :
        ConsoleText(key) = SubSeq(all, ConsoleStart(key) + 1, Len(all))

\* Once the window has caught up with a machine and nothing waits for it, the
\* display shows the picture the machine put out last, also when the machine is
\* paused and will not draw again.  A Reset whose checkpoint failed leaves the
\* picture with the worker.
PictureCurrent ==
  GuiIdle /\ ui.window = "open" /\ rt.alive /\ ui.panes.generation = rt.generation
    /\ rt.machine # NoMachine
    => \/ ~rt.machine.video
       \/ Handle(rt.generation, VIDEO) \in DOMAIN rt.sink.video
       \/ rt.mode = "RecordCompleted" /\ VIDEO \in DOMAIN rt.output
       \/ ui.panes.picture = rt.machine.picture

\* "Once this method returns, the removed handler cannot be called again": no
\* output reaches the sink after the window that detached it is gone.
HandlerGone == ~rt.late

\* No two keys of the frontend are one key of the keyboard.
KeysDistinct ==
  /\ \A key \in KeyboardKeys : KeyCode(key) \in SgiKeyCodes
  /\ \A p, q \in KeyboardKeys : KeyCode(p) = KeyCode(q) => p = q
\* Every input a device received was sent to this machine, to an endpoint of
\* its kind, outside a Replay, and a key as the key it is.
InputRouted ==
  /\ KeysDistinct
  /\ rt.machine # NoMachine =>
       \A i \in 1..Len(rt.machine.received) :
         LET input == rt.machine.received[i]
         IN  /\ input.handle.generation = rt.generation
             /\ InputKind(rt.machine, input.handle.key) = PayloadKind(input.payload)
             /\ ~IsReplay(input.mode)

\* No output and no input makes the worker panic: the catalog names every
\* endpoint a machine publishes on, and the routing knows every endpoint the
\* catalog names.
WorkerNeverPanics == ~rt.panicked

\* Nobody waits for what nobody will do: the command of every client that waits
\* for a reply is in the channel of a live worker, also when the worker ends or
\* panics with commands unread; and output that reached the sink has a drain
\* posted to the GUI thread, whatever came between the last drain and it.
NoLostWakeup ==
  /\ \A c \in Clients : Waiting(c) =>
       rt.alive /\ \E i \in 1..Len(channel) : channel[i].client = c
  /\ DOMAIN rt.sink.serial \cup DOMAIN rt.sink.video # {} => rt.sink.posted
\* The window shows what its machine put out, and a window that is gone gets nothing.
OutputShown == ConsoleExact /\ PictureCurrent /\ HandlerGone

\* The worker lives and everybody who waits for it, or for output, is served.
ClientsServed == WorkerNeverPanics /\ NoLostWakeup
===============================================================================
