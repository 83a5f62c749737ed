---------------------------- MODULE NetworkSession ----------------------------
(***************************************************************************)
(* One NAT session (crates/se_network: session.rs, worker.rs, queue.rs):   *)
(* the state shared by the runtime thread, which calls try_send_frame,     *)
(* try_receive_frame, take_failure and shutdown, and the "se-network"      *)
(* worker thread, which owns libslirp.  Each step is one atomic access or  *)
(* one critical section; a section whose inside another thread can observe *)
(* through the lock-free readiness bits is split at those accesses.        *)
(*                                                                         *)
(* libslirp itself is external: se_slirp_poll returns when a wake datagram *)
(* is readable, when asked not to block, on any socket or timer event, or  *)
(* with an error, and packet callbacks fire while it, or se_slirp_input,   *)
(* runs.                                                                   *)
(***************************************************************************)
EXTENDS Integers, Sequences

CONSTANTS
    MAX_FRAME_BYTES,    \* 16384 in the code
    MAX_FRAMES,         \* 256 in the code
    MAX_BYTES           \* 512 * 1024 in the code

ASSUME QueueLimits ==
    /\ MAX_FRAME_BYTES \in Nat
    /\ MAX_FRAMES \in Nat
    /\ MAX_BYTES \in Nat

-----------------------------------------------------------------------------
(* The bounded drop-newest queue at the host network boundary, queue.rs.  A    *)
(* frame is [id, len]: its identity stands for its bytes and its length is the *)
(* only thing the queue reads.                                                 *)

Frame == [id : Nat, len : Nat]

EmptyQueue == [frames |-> <<>>, bytes |-> 0]

\* push() takes the frame, that is, it does not return false.
Accepts(q, f) ==
    /\ f.len <= MAX_FRAME_BYTES
    /\ Len(q.frames) < MAX_FRAMES
    /\ q.bytes + f.len <= MAX_BYTES

\* A queue that makes room by dropping its oldest frame.
PushDropOldest(q, f) ==
    IF Accepts(q, f)
    THEN [frames |-> Append(q.frames, f), bytes |-> q.bytes + f.len]
    ELSE IF q.frames = <<>> THEN q
    ELSE [frames |-> Tail(q.frames), bytes |-> q.bytes - Head(q.frames).len]

Push(q, f) ==
    IF Accepts(q, f)
    THEN [frames |-> Append(q.frames, f), bytes |-> q.bytes + f.len]
    ELSE q

IsEmpty(q) == q.frames = <<>>

\* pop() of a queue that is not empty; the frame it returns is Head(q.frames).
Pop(q) == [frames |-> Tail(q.frames), bytes |-> q.bytes - Head(q.frames).len]

Queue == [frames : Seq(Frame), bytes : Int]

-----------------------------------------------------------------------------
(* The session *)

CONSTANTS
    BATCH,          \* wake datagrams and frames handled per iteration: 64
    WAKE_BUFFER,    \* datagrams the wake socket holds before send() fails
    Lengths,        \* lengths a frame may have
    MaxSends,       \* bound: calls of try_send_frame
    MaxPackets,     \* bound: packets libslirp hands to the callback
    None            \* Option::None

Reasons == {"init", "poll", "callback", "panic"}

ASSUME SessionConstants ==
    /\ BATCH \in Nat \ {0}
    /\ WAKE_BUFFER \in Nat \ {0}
    /\ Lengths \subseteq Nat
    /\ MaxSends \in Nat
    /\ MaxPackets \in Nat
    /\ None \notin Frame
    /\ None \notin Reasons

VARIABLES
    tx, rx,         \* Shared.tx, Shared.rx
    failure,        \* Shared.failure: None or the first reason
    pending,        \* Shared.pending: subset of {"RECEIVE", "FAILURE"}
    stopped,        \* Shared.stopped
    wakes,          \* datagrams in the wake socket
    ready,          \* the start-up channel: "empty", "ok", "err", "closed"
    wpc,            \* where the worker thread is
    ret,            \* where it goes after a callback or latch_failure
    batch,          \* what is left of its current batch
    reason,         \* the reason it passes to latch_failure
    packets,        \* packets libslirp has handed to the callback
    rpc,            \* where the runtime thread is
    frame, sends,   \* the frame it sends; calls of try_send_frame so far
    sent, input,    \* history: frames try_send_frame took; frames given to libslirp
    answer,         \* history: last answer of try_receive_frame (see FrameChannel)
    notified,       \* history: reasons passed to failure_notify
    taken           \* history: number of failures take_failure returned

shared == <<tx, rx, failure, pending, stopped, wakes, ready>>
worker == <<wpc, ret, batch, reason, packets>>
runtime == <<rpc, frame, sends>>
history == <<sent, input, answer, notified, taken>>
vars == <<shared, worker, runtime, history>>

Init ==
    /\ tx = EmptyQueue
    /\ rx = EmptyQueue
    /\ failure = None
    /\ pending = {}
    /\ stopped = FALSE
    /\ wakes = 0
    /\ ready = "empty"
    /\ wpc = "create"
    /\ ret = "loop"
    /\ batch = 0
    /\ reason = "init"
    /\ packets = 0
    /\ rpc = "starting"
    /\ frame = None
    /\ sends = 0
    /\ sent = <<>>
    /\ input = <<>>
    /\ answer = [turn |-> 0, frame |-> None]
    /\ notified = <<>>
    /\ taken = 0

\* The receive mutex is held across a change of rx and of its readiness bit.
RxLockedWhilePushing == wpc = "publish"
RxLocked == wpc = "publish" \/ rpc = "recv_clear"

\* The failure mutex is held from the first to the last step of latch_failure.
FailureLocked == wpc \in {"latch_bit", "latch_stop"}

Wakeup == wakes' = IF wakes < WAKE_BUFFER THEN wakes + 1 ELSE wakes

-----------------------------------------------------------------------------
(* The runtime thread.                                                      *)

\* The runtime thread moves on and changes nothing else.
RuntimeGoto(pc) ==
    /\ rpc' = pc
    /\ UNCHANGED <<shared, worker, frame, sends, history>>

StartOk == rpc = "starting" /\ ready = "ok" /\ RuntimeGoto("idle")

\* start() shuts a session down that failed to initialize; it returns Err.
StartErr == rpc = "starting" /\ ready \in {"err", "closed"} /\ RuntimeGoto("stop")

\* The lock-free test of stopped at the head of try_send_frame.
SendTest ==
    /\ rpc = "idle" /\ sends < MaxSends
    /\ sends' = sends + 1
    /\ \/ stopped /\ UNCHANGED <<rpc, frame>>
       \/ /\ ~stopped
          /\ rpc' = "send_push"
          /\ \E len \in Lengths : frame' = [id |-> sends, len |-> len]
    /\ UNCHANGED <<shared, worker, history>>

\* The emptiness test after the push instead of before it.
SendPushTestsLate ==
    /\ rpc = "send_push"
    /\ tx' = Push(tx, frame)
    /\ sent' = IF Accepts(tx, frame) THEN Append(sent, frame) ELSE sent
    /\ rpc' = IF Accepts(tx, frame) /\ IsEmpty(tx') THEN "send_wake" ELSE "idle"
    /\ frame' = None
    /\ UNCHANGED <<rx, failure, pending, stopped, wakes, ready, worker, sends, input,
                   answer, notified, taken>>

SendPush ==
    /\ rpc = "send_push"
    /\ tx' = Push(tx, frame)
    /\ sent' = IF Accepts(tx, frame) THEN Append(sent, frame) ELSE sent
    /\ rpc' = IF Accepts(tx, frame) /\ IsEmpty(tx) THEN "send_wake" ELSE "idle"
    /\ frame' = None
    /\ UNCHANGED <<rx, failure, pending, stopped, wakes, ready, worker, sends, input,
                   answer, notified, taken>>

SendWake ==
    /\ rpc = "send_wake"
    /\ Wakeup
    /\ rpc' = "idle"
    /\ UNCHANGED <<tx, rx, failure, pending, stopped, ready, worker, frame, sends, history>>

Answer(f) == answer' = [turn |-> 1 - answer.turn, frame |-> f]

\* try_receive_frame reads its readiness bit before it takes the mutex.
ReceiveTest ==
    /\ rpc = "idle"
    /\ \/ "RECEIVE" \in pending /\ rpc' = "recv_pop" /\ UNCHANGED answer
       \/ "RECEIVE" \notin pending /\ Answer(None) /\ UNCHANGED rpc
    /\ UNCHANGED <<shared, worker, frame, sends, sent, input, notified, taken>>

ReceivePop ==
    /\ rpc = "recv_pop" /\ ~RxLocked
    /\ \/ IsEmpty(rx) /\ Answer(None) /\ UNCHANGED rx
       \/ ~IsEmpty(rx) /\ Answer(Head(rx.frames)) /\ rx' = Pop(rx)
    /\ rpc' = IF IsEmpty(rx') THEN "recv_clear" ELSE "idle"
    /\ UNCHANGED <<tx, failure, pending, stopped, wakes, ready, worker, frame, sends,
                   sent, input, notified, taken>>

ReceiveClear ==
    /\ rpc = "recv_clear"
    /\ pending' = pending \ {"RECEIVE"}
    /\ rpc' = "idle"
    /\ UNCHANGED <<tx, rx, failure, stopped, wakes, ready, worker, frame, sends, history>>

FailureTest == rpc = "idle" /\ "FAILURE" \in pending /\ RuntimeGoto("fail_take")

TakeFailure ==
    /\ rpc = "fail_take" /\ ~FailureLocked
    /\ pending' = pending \ {"FAILURE"}
    /\ taken' = IF "FAILURE" \in pending THEN taken + 1 ELSE taken
    /\ rpc' = "idle"
    /\ UNCHANGED <<tx, rx, failure, stopped, wakes, ready, worker, frame, sends,
                   sent, input, answer, notified>>

\* shutdown(), also run by Drop.
ShutdownCall == rpc = "idle" /\ RuntimeGoto("stop")

ShutdownStop ==
    /\ rpc = "stop"
    /\ stopped' = TRUE
    /\ rpc' = "stop_wake"
    /\ UNCHANGED <<tx, rx, failure, pending, wakes, ready, worker, frame, sends, history>>

ShutdownWake ==
    /\ rpc = "stop_wake"
    /\ Wakeup
    /\ rpc' = "join"
    /\ UNCHANGED <<tx, rx, failure, pending, stopped, ready, worker, frame, sends, history>>

ShutdownJoin == rpc = "join" /\ wpc = "done" /\ RuntimeGoto("joined")

\* The calls the runtime makes of its own accord.
RuntimeCall == SendTest \/ ReceiveTest \/ FailureTest \/ ShutdownCall

\* The steps that finish a call that has begun.
RuntimeStep ==
    \/ StartOk \/ StartErr \/ SendPush \/ SendWake \/ ReceivePop \/ ReceiveClear
    \/ TakeFailure \/ ShutdownStop \/ ShutdownWake \/ ShutdownJoin

-----------------------------------------------------------------------------
(* The worker thread.                                                       *)

\* The worker moves on and changes nothing else.
WorkerGoto(pc) ==
    /\ wpc' = pc
    /\ UNCHANGED <<shared, ret, batch, reason, packets, runtime, history>>

\* The worker is about to call latch_failure and to continue at next.
Fail(why, next) == wpc' = "latch" /\ reason' = why /\ ret' = next

\* se_slirp_create and every se_slirp_forward succeed.
CreateOk ==
    /\ wpc = "create"
    /\ ready' = "ok"
    /\ wpc' = "loop"
    /\ UNCHANGED <<tx, rx, failure, pending, stopped, wakes, ret, batch, reason, packets,
                   runtime, history>>

\* Initialization fails with a report on the channel, or (a setting that is not
\* a C string, a panic) closes the channel without one.
CreateErr ==
    /\ wpc = "create"
    /\ \/ ready' = "err" /\ Fail("init", "notify")
       \/ ready' = "closed" /\ Fail("init", "notify")
       \/ ready' = "closed" /\ Fail("panic", "notify")
    /\ UNCHANGED <<tx, rx, failure, pending, stopped, wakes, batch, packets, runtime, history>>

LoopTest ==
    /\ wpc = "loop"
    /\ \/ stopped /\ wpc' = "exit" /\ UNCHANGED batch
       \/ ~stopped /\ wpc' = "drain" /\ batch' = BATCH
    /\ UNCHANGED <<shared, ret, reason, packets, runtime, history>>

\* One wake.recv(); the batch ends when the socket is empty.
Drain ==
    /\ wpc = "drain" /\ wakes > 0 /\ batch > 0
    /\ wakes' = wakes - 1
    /\ batch' = batch - 1
    /\ UNCHANGED <<tx, rx, failure, pending, stopped, ready, wpc, ret, reason, packets,
                   runtime, history>>

DrainEnd ==
    /\ wpc = "drain" /\ (wakes = 0 \/ batch = 0)
    /\ wpc' = "pop"
    /\ batch' = BATCH
    /\ UNCHANGED <<shared, ret, reason, packets, runtime, history>>

\* Pops one frame and hands it to se_slirp_input.
PopTx ==
    /\ wpc = "pop" /\ batch > 0 /\ ~IsEmpty(tx)
    /\ tx' = Pop(tx)
    /\ input' = Append(input, Head(tx.frames))
    /\ wpc' = "input"
    /\ batch' = batch - 1
    /\ UNCHANGED <<rx, failure, pending, stopped, wakes, ready, ret, reason, packets,
                   runtime, sent, answer, notified, taken>>

InputEnd == wpc = "input" /\ WorkerGoto("pop")

PopEnd ==
    /\ wpc = "pop" /\ (batch = 0 \/ IsEmpty(tx))
    /\ wpc' = "stop_test"
    /\ batch' = 0
    /\ UNCHANGED <<shared, ret, reason, packets, runtime, history>>

StopTest == wpc = "stop_test" /\ WorkerGoto(IF stopped THEN "exit" ELSE "pending_test")

\* A poll() that always blocks.
PendingTestBlocks == wpc = "pending_test" /\ WorkerGoto("poll")

PendingTest ==
    wpc = "pending_test" /\ WorkerGoto(IF IsEmpty(tx) THEN "poll" ELSE "poll_nonblocking")

\* poll() must return: it does not block, or the wake socket is readable.
PollReady ==
    /\ wpc = "poll_nonblocking" \/ (wpc = "poll" /\ wakes > 0)
    /\ WorkerGoto("polled")

\* A host socket, a libslirp timer or EINTR ends poll() at any time.
PollEvent == wpc = "poll" /\ WorkerGoto("polled")

PollEnd == wpc = "polled" /\ WorkerGoto("loop")

\* poll() or an allocation inside libslirp fails.
PollErr ==
    /\ wpc \in {"poll", "poll_nonblocking", "polled"}
    /\ Fail("poll", "notify")
    /\ UNCHANGED <<shared, batch, packets, runtime, history>>

\* push_received_frame up to the queue change, called back from libslirp.  Only
\* the first frame of an empty queue has a readiness bit to publish.
Packet ==
    /\ wpc \in {"input", "polled"} /\ packets < MaxPackets
    /\ ~RxLocked
    /\ \E f \in [id : {packets}, len : Lengths] :
         /\ rx' = Push(rx, f)
         /\ wpc' = IF Accepts(rx, f) /\ IsEmpty(rx) THEN "publish" ELSE wpc
    /\ ret' = wpc
    /\ packets' = packets + 1
    /\ UNCHANGED <<tx, failure, pending, stopped, wakes, ready, batch, reason,
                   runtime, history>>

\* The readiness bit is set before the mutex is released.
Publish ==
    /\ wpc = "publish"
    /\ pending' = pending \cup {"RECEIVE"}
    /\ wpc' = ret
    /\ UNCHANGED <<tx, rx, failure, stopped, wakes, ready, ret, batch, reason, packets,
                   runtime, history>>

\* A panic caught inside the callback: native code resumes afterwards.
CallbackPanic ==
    /\ wpc \in {"input", "polled"} /\ packets < MaxPackets
    /\ Fail("callback", wpc)
    /\ packets' = packets + 1
    /\ UNCHANGED <<shared, batch, runtime, history>>

\* After the loop: the retained failure, if any, becomes the worker's error.
Exit ==
    /\ wpc = "exit"
    /\ \/ failure = None /\ wpc' = "done" /\ UNCHANGED <<ret, reason>>
       \/ failure # None /\ Fail(failure, "notify")
    /\ UNCHANGED <<shared, batch, packets, runtime, history>>

\* latch_failure keeps the first reason, ...
LatchStore ==
    /\ wpc = "latch"
    /\ \/ failure = None /\ failure' = reason /\ wpc' = "latch_bit"
       \/ failure # None /\ wpc' = "latch_stop" /\ UNCHANGED failure
    /\ UNCHANGED <<tx, rx, pending, stopped, wakes, ready, ret, batch, reason, packets,
                   runtime, history>>

\* ... publishes it once, ...
LatchBit ==
    /\ wpc = "latch_bit"
    /\ pending' = pending \cup {"FAILURE"}
    /\ wpc' = "latch_stop"
    /\ UNCHANGED <<tx, rx, failure, stopped, wakes, ready, ret, batch, reason, packets,
                   runtime, history>>

\* ... and always stops the session.
LatchStop ==
    /\ wpc = "latch_stop"
    /\ stopped' = TRUE
    /\ wpc' = ret
    /\ UNCHANGED <<tx, rx, failure, pending, wakes, ready, ret, batch, reason, packets,
                   runtime, history>>

Notify ==
    /\ wpc = "notify"
    /\ notified' = Append(notified, failure)
    /\ wpc' = "done"
    /\ UNCHANGED <<shared, ret, batch, reason, packets, runtime, sent, input, answer, taken>>

\* The steps the worker takes by itself.
WorkerStep ==
    \/ LoopTest \/ Drain \/ DrainEnd \/ PopTx \/ InputEnd \/ PopEnd \/ StopTest
    \/ PendingTest \/ PollReady \/ PollEnd \/ Publish \/ Exit \/ LatchStore
    \/ LatchBit \/ LatchStop \/ Notify

\* What libslirp and the host do to it.
HostStep == CreateOk \/ CreateErr \/ PollEvent \/ PollErr \/ Packet \/ CallbackPanic

Finished == rpc = "joined" /\ UNCHANGED vars

Next == RuntimeCall \/ RuntimeStep \/ WorkerStep \/ HostStep \/ Finished

\* Both threads are scheduled by the host; initialization of libslirp ends one
\* way or the other.  No call, packet, socket event or error is promised.
Fairness ==
    /\ WF_vars(RuntimeStep)
    /\ WF_vars(WorkerStep)
    /\ WF_vars(CreateOk \/ CreateErr)

Spec == Init /\ [][Next]_vars
FairSpec == Spec /\ Fairness

-----------------------------------------------------------------------------
(* Properties.                                                              *)

WorkerPcs == {"create", "loop", "drain", "pop", "input", "stop_test", "pending_test",
              "poll", "poll_nonblocking", "polled", "publish", "exit", "latch", "latch_bit", "latch_stop",
              "notify", "done"}

RuntimePcs == {"starting", "idle", "send_push", "send_wake", "recv_pop", "recv_clear",
               "fail_take", "stop", "stop_wake", "join", "joined"}

\* The types of the state Shared, NetworkSession and the two threads keep.
TypeOK ==
    /\ tx \in Queue
    /\ rx \in Queue
    /\ failure \in Reasons \cup {None}
    /\ pending \subseteq {"RECEIVE", "FAILURE"}
    /\ stopped \in BOOLEAN
    /\ wakes \in 0..WAKE_BUFFER
    /\ ready \in {"empty", "ok", "err", "closed"}
    /\ wpc \in WorkerPcs
    /\ ret \in {"loop", "input", "polled", "notify"}
    /\ batch \in 0..BATCH
    /\ reason \in Reasons
    /\ packets \in 0..MaxPackets
    /\ rpc \in RuntimePcs
    /\ frame \in Frame \cup {None}
    /\ sends \in 0..MaxSends
    /\ rpc = "send_push" => frame \in Frame
    /\ sent \in Seq(Frame)
    /\ input \in Seq(Frame)
    /\ answer \in [turn : {0, 1}, frame : Frame \cup {None}]
    /\ notified \in Seq(Reasons)
    /\ taken \in Nat

\* The comment on Shared: clearing the last frame cannot hide a concurrent
\* arrival.  Whenever the receive mutex is free, the lock-free bit that
\* has_pending_work and try_receive_frame read says whether rx holds a frame.
ReadinessAgrees == ~RxLocked => ("RECEIVE" \in pending <=> ~IsEmpty(rx))

\* try_send_frame wakes the worker only for the first frame of an empty queue.
\* A worker that blocks in poll() while a frame waits still has a wakeup
\* coming, so no frame is left behind until the next host event.
NoLostWakeup ==
    wpc = "poll" /\ ~IsEmpty(tx) => wakes > 0 \/ rpc = "send_wake"

\* shutdown() stores stopped before it sends its datagram, so a worker that has
\* passed its last test of stopped cannot block for ever in poll().
ShutdownWakes ==
    wpc \in {"pending_test", "poll"} /\ stopped => wakes > 0 \/ rpc = "stop_wake"

\* take_failure hands the terminal failure to the runtime at most once, and
\* does so as long as it has not: a latched failure stays announced.
FailureAnnounced ==
    /\ taken <= 1
    /\ failure # None /\ ~FailureLocked => ("FAILURE" \in pending <=> taken = 0)

\* Nobody waits for what was already announced: a blocked worker with something
\* to do has a wakeup, and a failure nobody has taken stays announced.
WakeupsKept == NoLostWakeup /\ ShutdownWakes /\ FailureAnnounced

\* "failure_notify runs once when that worker encounters a fatal error": a
\* worker that is gone has called it exactly once, with the first failure, if
\* one was latched (by a callback, by poll() or by start-up), and else never.
NotifiedOnce ==
    /\ Len(notified) <= 1
    /\ wpc = "done" => notified = IF failure = None THEN <<>> ELSE <<failure>>

\* Every frame try_send_frame accepted reaches se_slirp_input, once and in order.
TxInOrder == sent = input \o tx.frames

\* The receive direction as its user sees it.  A frame that push_received_frame
\* has queued counts once its readiness bit is published.
RxVisible == IF wpc = "publish" THEN <<>> ELSE rx.frames
PacketFrame == [id : 0..(MaxPackets - 1), len : Lengths]

Receive == INSTANCE FrameChannel WITH
    Frames <- PacketFrame, queue <- RxVisible, answer <- answer

\* try_receive_frame, its lock-free test included, implements a FIFO that only
\* says "nothing" when nothing is there.
ReceiveIsFifo == Receive!Spec

\* A frame the session took is given to libslirp, unless the session stops.
TxProgress ==
    \A n \in 1..MaxSends : (Len(sent) >= n) ~> (Len(input) >= n \/ stopped)

\* Dropping the session wakes and joins its worker: shutdown() returns.
ShutdownReturns == (rpc = "stop") ~> (rpc = "joined")

\* A latched failure is reported to the runtime even when nobody polls.
FailureReported == (failure # None) ~> (notified # <<>>)

\* What a session was asked to do comes about: frames are sent, a shutdown
\* returns, a failure is reported.
SessionLive == TxProgress /\ ShutdownReturns /\ FailureReported
=============================================================================
