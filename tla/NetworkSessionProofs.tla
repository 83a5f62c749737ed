------------------------- MODULE NetworkSessionProofs -------------------------
(***************************************************************************)
(* Proofs about NetworkSession for every queue limit, batch size, socket   *)
(* buffer and number of calls and packets: the types, the agreement of the *)
(* readiness bits with what they announce, the absence of lost wakeups,    *)
(* the single failure report, and the FIFO seen by try_receive_frame.      *)
(***************************************************************************)
EXTENDS NetworkSession, SequenceTheorems, TLAPS

-----------------------------------------------------------------------------
(* The inductive invariant: one part for each protocol between the threads. *)

\* Where the worker goes back to after a callback.
ReturnInv == wpc = "publish" => ret \in {"input", "polled"}

\* The receive bit, inside and outside of the receive mutex.
ReceiveInv ==
    /\ ReadinessAgrees
    /\ wpc = "publish" =>
         /\ \E f \in PacketFrame : rx.frames = <<f>>
         /\ "RECEIVE" \notin pending
         /\ rpc \notin {"recv_pop", "recv_clear"}
    /\ rpc = "recv_pop" => "RECEIVE" \in pending
    /\ rpc = "recv_clear" => IsEmpty(rx)

WakeInv == NoLostWakeup /\ ShutdownWakes

\* The failure, its bit and its two ways to the runtime.
FailureInv ==
    /\ failure = None => "FAILURE" \notin pending /\ taken = 0
    /\ wpc \in {"latch_bit", "latch_stop", "notify"} => failure # None
    /\ wpc = "latch_bit" => "FAILURE" \notin pending /\ taken = 0
    /\ rpc = "fail_take" => "FAILURE" \in pending
    /\ failure # None /\ wpc # "latch_bit" => ("FAILURE" \in pending <=> taken = 0)
    /\ taken <= 1
    /\ wpc # "done" => notified = <<>>
    /\ wpc = "done" => notified = IF failure = None THEN <<>> ELSE <<failure>>

Inv == TypeOK /\ ReturnInv /\ ReceiveInv /\ WakeInv /\ FailureInv /\ TxInOrder

-----------------------------------------------------------------------------
(* The queue.                                                               *)

LEMMA PushType ==
    ASSUME NEW q \in Queue, NEW f \in Frame
    PROVE  /\ Push(q, f) \in Queue
           /\ Accepts(q, f) => Push(q, f).frames = Append(q.frames, f) /\ ~IsEmpty(Push(q, f))
           /\ ~Accepts(q, f) => Push(q, f) = q
<1>1. CASE ~Accepts(q, f)
  BY <1>1 DEF Push
<1>2. CASE Accepts(q, f)
  <2>1. /\ q.frames \in Seq(Frame) /\ q.bytes \in Int /\ f.len \in Nat
    BY DEF Queue, Frame
  <2>2. /\ Append(q.frames, f) \in Seq(Frame) /\ Append(q.frames, f) # <<>>
    BY <2>1
  <2>3. Push(q, f) = [frames |-> Append(q.frames, f), bytes |-> q.bytes + f.len]
    BY <1>2 DEF Push
  <2> QED
    BY <1>2, <2>1, <2>2, <2>3 DEF Queue, IsEmpty
<1> QED
  BY <1>1, <1>2

LEMMA PopType ==
    ASSUME NEW q \in Queue, ~IsEmpty(q)
    PROVE  Pop(q) \in Queue /\ Head(q.frames) \in Frame /\ Pop(q).frames = Tail(q.frames)
<1>1. q.frames \in Seq(Frame) /\ q.frames # <<>> /\ q.bytes \in Int
  BY DEF Queue, IsEmpty
<1>2. Head(q.frames) \in Frame /\ Tail(q.frames) \in Seq(Frame)
  BY <1>1
<1>3. Head(q.frames).len \in Int
  BY <1>2 DEF Frame
<1> QED
  BY <1>1, <1>2, <1>3 DEF Pop, Queue

LEMMA ConcatAppend ==
    ASSUME NEW S, NEW s \in Seq(S), NEW t \in Seq(S), NEW e \in S
    PROVE  s \o Append(t, e) = Append(s \o t, e)
<1>1. Append(t, e) = t \o <<e>> /\ Append(s \o t, e) = (s \o t) \o <<e>>
  BY AppendIsConcat, ConcatProperties
<1>2. <<e>> \in Seq(S)
  OBVIOUS
<1> QED
  BY <1>1, <1>2, ConcatAssociative

LEMMA ConcatShift ==
    ASSUME NEW S, NEW s \in Seq(S), NEW t \in Seq(S), t # <<>>
    PROVE  s \o t = Append(s, Head(t)) \o Tail(t)
<1>1. Head(t) \in S /\ Tail(t) \in Seq(S) /\ <<Head(t)>> \in Seq(S)
  OBVIOUS
<1>2. Append(s, Head(t)) = s \o <<Head(t)>>
  BY <1>1, AppendIsConcat
<1>3. t = <<Head(t)>> \o Tail(t)
  <2>1. Len(<<Head(t)>> \o Tail(t)) = Len(t)
    BY <1>1
  <2>2. \A i \in 1..Len(t) : (<<Head(t)>> \o Tail(t))[i] = t[i]
    BY <1>1
  <2> QED
    BY <1>1, <2>1, <2>2, ConcatProperties, SeqEqual
<1> QED
  BY <1>1, <1>2, <1>3, ConcatAssociative

LEMMA InitInv == Init => Inv
<1> SUFFICES ASSUME Init PROVE Inv
  OBVIOUS
<1>1. TypeOK
  <2>1. EmptyQueue \in Queue
    BY DEF EmptyQueue, Queue
  <2>2. <<>> \in Seq(Frame) /\ <<>> \in Seq(Reasons)
    OBVIOUS
  <2>3. /\ wpc \in WorkerPcs /\ rpc \in RuntimePcs /\ reason \in Reasons
    BY DEF Init, WorkerPcs, RuntimePcs, Reasons
  <2>4. answer \in [turn : {0, 1}, frame : Frame \cup {None}]
    BY DEF Init
  <2>5. /\ wakes \in 0..WAKE_BUFFER /\ batch \in 0..BATCH
        /\ packets \in 0..MaxPackets /\ sends \in 0..MaxSends
    BY SessionConstants DEF Init
  <2> QED
    BY <2>1, <2>2, <2>3, <2>4, <2>5 DEF Init, TypeOK
<1>2. ReturnInv /\ ReceiveInv /\ WakeInv
  BY DEF Init, ReturnInv, ReceiveInv, WakeInv, ReadinessAgrees, NoLostWakeup,
     ShutdownWakes, IsEmpty, EmptyQueue, RxLocked
<1>3. FailureInv
  BY SessionConstants DEF Init, FailureInv
<1>4. TxInOrder
  BY DEF Init, TxInOrder, EmptyQueue
<1> QED
  BY <1>1, <1>2, <1>3, <1>4 DEF Inv

-----------------------------------------------------------------------------
(* Each part is preserved by every step.                                    *)

LEMMA TypeStep ==
    ASSUME TypeOK, FailureInv, [Next]_vars
    PROVE  TypeOK'
<1> USE SessionConstants DEF TypeOK, shared, worker, runtime, history, WorkerGoto, RuntimeGoto, Wakeup, Fail, WorkerPcs, RuntimePcs, Reasons
<1>1. CASE StartOk
  BY <1>1 DEF StartOk
<1>2. CASE StartErr
  BY <1>2 DEF StartErr
<1>3. CASE SendTest
  <2>1. frame' \in Frame \cup {None} /\ (rpc' = "send_push" => frame' \in Frame)
    BY <1>3 DEF SendTest, Frame
  <2> QED
    BY <1>3, <2>1 DEF SendTest
<1>4. CASE SendPush
  <2>1. frame \in Frame
    BY <1>4 DEF SendPush
  <2>2. tx' \in Queue /\ sent' \in Seq(Frame)
    BY <1>4, <2>1, PushType DEF SendPush
  <2> QED
    BY <1>4, <2>2 DEF SendPush
<1>5. CASE SendWake
  BY <1>5 DEF SendWake
<1>6. CASE ReceiveTest
  <2>1. answer' \in [turn : {0, 1}, frame : Frame \cup {None}]
    BY <1>6 DEF ReceiveTest, Answer
  <2> QED
    BY <1>6, <2>1 DEF ReceiveTest
<1>7. CASE ReceivePop
  <2>1. rx' \in Queue
    BY <1>7, PopType DEF ReceivePop
  <2>2. answer' \in [turn : {0, 1}, frame : Frame \cup {None}]
    BY <1>7, PopType DEF ReceivePop, Answer
  <2> QED
    BY <1>7, <2>1, <2>2 DEF ReceivePop
<1>8. CASE ReceiveClear
  BY <1>8 DEF ReceiveClear
<1>9. CASE FailureTest
  BY <1>9 DEF FailureTest
<1>10. CASE TakeFailure
  BY <1>10 DEF TakeFailure
<1>11. CASE ShutdownCall
  BY <1>11 DEF ShutdownCall
<1>12. CASE ShutdownStop
  BY <1>12 DEF ShutdownStop
<1>13. CASE ShutdownWake
  BY <1>13 DEF ShutdownWake
<1>14. CASE ShutdownJoin
  BY <1>14 DEF ShutdownJoin
<1>15. CASE CreateOk
  BY <1>15 DEF CreateOk
<1>16. CASE CreateErr
  BY <1>16 DEF CreateErr
<1>17. CASE LoopTest
  BY <1>17 DEF LoopTest
<1>18. CASE Drain
  BY <1>18 DEF Drain
<1>19. CASE DrainEnd
  BY <1>19 DEF DrainEnd
<1>20. CASE PopTx
  <2>1. tx' \in Queue /\ input' \in Seq(Frame)
    BY <1>20, PopType DEF PopTx
  <2> QED
    BY <1>20, <2>1 DEF PopTx
<1>21. CASE InputEnd
  BY <1>21 DEF InputEnd
<1>22. CASE PopEnd
  BY <1>22 DEF PopEnd
<1>23. CASE StopTest
  BY <1>23 DEF StopTest
<1>24. CASE PendingTest
  BY <1>24 DEF PendingTest
<1>25. CASE PollReady
  BY <1>25 DEF PollReady
<1>26. CASE PollEvent
  BY <1>26 DEF PollEvent
<1>27. CASE PollEnd
  BY <1>27 DEF PollEnd
<1>28. CASE PollErr
  BY <1>28 DEF PollErr
<1>29. CASE Packet
  <2>1. PICK f \in [id : {packets}, len : Lengths] : rx' = Push(rx, f)
    BY <1>29 DEF Packet
  <2>2. f \in Frame
    <3>1. packets \in Nat /\ Lengths \subseteq Nat
      OBVIOUS
    <3> QED
      BY <3>1 DEF Frame
  <2>3. rx' \in Queue
    BY <2>1, <2>2, PushType
  <2> QED
    BY <1>29, <2>3 DEF Packet
<1>30. CASE Publish
  BY <1>30 DEF Publish
<1>31. CASE CallbackPanic
  BY <1>31 DEF CallbackPanic
<1>32. CASE Exit
  BY <1>32 DEF Exit
<1>33. CASE LatchStore
  BY <1>33 DEF LatchStore
<1>34. CASE LatchBit
  BY <1>34 DEF LatchBit
<1>35. CASE LatchStop
  BY <1>35 DEF LatchStop
<1>36. CASE Notify
  <2>1. failure \in Reasons
    BY <1>36 DEF Notify, FailureInv
  <2>2. notified' \in Seq(Reasons)
    BY <1>36, <2>1 DEF Notify
  <2> QED
    BY <1>36, <2>2 DEF Notify
<1>37. CASE UNCHANGED vars
  BY <1>37 DEF vars
<1> QED
  BY <1>1, <1>2, <1>3, <1>4, <1>5, <1>6, <1>7, <1>8, <1>9, <1>10, <1>11, <1>12, <1>13, <1>14, <1>15, <1>16, <1>17, <1>18, <1>19, <1>20, <1>21, <1>22, <1>23, <1>24, <1>25, <1>26, <1>27, <1>28, <1>29, <1>30, <1>31, <1>32, <1>33, <1>34, <1>35, <1>36, <1>37
     DEF Next, RuntimeCall, RuntimeStep, WorkerStep, HostStep, Finished

LEMMA ReceiveStep ==
    ASSUME TypeOK, ReturnInv, ReceiveInv, [Next]_vars
    PROVE  ReturnInv' /\ ReceiveInv'
<1> USE SessionConstants DEF TypeOK, ReturnInv, ReceiveInv, ReadinessAgrees, RxLocked, IsEmpty, shared, worker, runtime, history, WorkerGoto, RuntimeGoto, Fail
<1>1. CASE StartOk
  BY <1>1 DEF StartOk
<1>2. CASE StartErr
  BY <1>2 DEF StartErr
<1>3. CASE SendTest
  BY <1>3 DEF SendTest
<1>4. CASE SendPush
  BY <1>4 DEF SendPush
<1>5. CASE SendWake
  BY <1>5 DEF SendWake
<1>6. CASE ReceiveTest
  BY <1>6 DEF ReceiveTest
<1>7. CASE ReceivePop
  <2>1. ~IsEmpty(rx)
    BY <1>7 DEF ReceivePop
  <2> QED
    BY <1>7, <2>1 DEF ReceivePop
<1>8. CASE ReceiveClear
  BY <1>8 DEF ReceiveClear
<1>9. CASE FailureTest
  BY <1>9 DEF FailureTest
<1>10. CASE TakeFailure
  BY <1>10 DEF TakeFailure
<1>11. CASE ShutdownCall
  BY <1>11 DEF ShutdownCall
<1>12. CASE ShutdownStop
  BY <1>12 DEF ShutdownStop
<1>13. CASE ShutdownWake
  BY <1>13 DEF ShutdownWake
<1>14. CASE ShutdownJoin
  BY <1>14 DEF ShutdownJoin
<1>15. CASE CreateOk
  BY <1>15 DEF CreateOk
<1>16. CASE CreateErr
  BY <1>16 DEF CreateErr
<1>17. CASE LoopTest
  BY <1>17 DEF LoopTest
<1>18. CASE Drain
  BY <1>18 DEF Drain
<1>19. CASE DrainEnd
  BY <1>19 DEF DrainEnd
<1>20. CASE PopTx
  BY <1>20 DEF PopTx
<1>21. CASE InputEnd
  BY <1>21 DEF InputEnd
<1>22. CASE PopEnd
  BY <1>22 DEF PopEnd
<1>23. CASE StopTest
  BY <1>23 DEF StopTest
<1>24. CASE PendingTest
  BY <1>24 DEF PendingTest
<1>25. CASE PollReady
  BY <1>25 DEF PollReady
<1>26. CASE PollEvent
  BY <1>26 DEF PollEvent
<1>27. CASE PollEnd
  BY <1>27 DEF PollEnd
<1>28. CASE PollErr
  BY <1>28 DEF PollErr
<1>29. CASE Packet
  <2>1. PICK f \in [id : {packets}, len : Lengths] :
          /\ rx' = Push(rx, f)
          /\ wpc' = IF Accepts(rx, f) /\ IsEmpty(rx) THEN "publish" ELSE wpc
    BY <1>29 DEF Packet
  <2>2. f \in Frame /\ rx \in Queue
    <3>1. packets \in Nat /\ Lengths \subseteq Nat /\ rx \in Queue
      BY DEF TypeOK
    <3> QED
      BY <3>1 DEF Frame
  <2>3. /\ Accepts(rx, f) => rx'.frames = Append(rx.frames, f) /\ ~IsEmpty(rx')
        /\ ~Accepts(rx, f) => rx' = rx
    BY <2>1, <2>2, PushType
  <2>4. f \in PacketFrame
    <3>1. packets \in 0..(MaxPackets - 1)
      BY <1>29 DEF Packet, TypeOK
    <3> QED
      BY <3>1 DEF PacketFrame
  <2>5. IsEmpty(rx) /\ Accepts(rx, f) => rx'.frames = <<f>>
    BY <2>3
  <2> QED
    BY <1>29, <2>1, <2>3, <2>4, <2>5 DEF Packet
<1>30. CASE Publish
  <2>1. PICK f \in PacketFrame : rx.frames = <<f>>
    BY <1>30 DEF Publish
  <2>2. ~IsEmpty(rx)
    BY <2>1
  <2> QED
    BY <1>30, <2>2 DEF Publish
<1>31. CASE CallbackPanic
  BY <1>31 DEF CallbackPanic
<1>32. CASE Exit
  BY <1>32 DEF Exit
<1>33. CASE LatchStore
  BY <1>33 DEF LatchStore
<1>34. CASE LatchBit
  BY <1>34 DEF LatchBit
<1>35. CASE LatchStop
  BY <1>35 DEF LatchStop
<1>36. CASE Notify
  BY <1>36 DEF Notify
<1>37. CASE UNCHANGED vars
  BY <1>37 DEF vars
<1> QED
  BY <1>1, <1>2, <1>3, <1>4, <1>5, <1>6, <1>7, <1>8, <1>9, <1>10, <1>11, <1>12, <1>13, <1>14, <1>15, <1>16, <1>17, <1>18, <1>19, <1>20, <1>21, <1>22, <1>23, <1>24, <1>25, <1>26, <1>27, <1>28, <1>29, <1>30, <1>31, <1>32, <1>33, <1>34, <1>35, <1>36, <1>37
     DEF Next, RuntimeCall, RuntimeStep, WorkerStep, HostStep, Finished

LEMMA WakeStep ==
    ASSUME TypeOK, ReturnInv, WakeInv, [Next]_vars
    PROVE  WakeInv'
<1> USE SessionConstants DEF TypeOK, ReturnInv, WakeInv, NoLostWakeup, ShutdownWakes, Wakeup, shared, worker, runtime, history, WorkerGoto, RuntimeGoto, Fail
<1>1. CASE StartOk
  BY <1>1 DEF StartOk
<1>2. CASE StartErr
  BY <1>2 DEF StartErr
<1>3. CASE SendTest
  BY <1>3 DEF SendTest
<1>4. CASE SendPush
  <2>1. tx \in Queue /\ frame \in Frame
    BY <1>4 DEF TypeOK, SendPush
  <2>2. Accepts(tx, frame) \/ tx' = tx
    BY <1>4, <2>1, PushType DEF SendPush
  <2> QED
    BY <1>4, <2>2 DEF SendPush
<1>5. CASE SendWake
  BY <1>5 DEF SendWake
<1>6. CASE ReceiveTest
  BY <1>6 DEF ReceiveTest
<1>7. CASE ReceivePop
  BY <1>7 DEF ReceivePop
<1>8. CASE ReceiveClear
  BY <1>8 DEF ReceiveClear
<1>9. CASE FailureTest
  BY <1>9 DEF FailureTest
<1>10. CASE TakeFailure
  BY <1>10 DEF TakeFailure
<1>11. CASE ShutdownCall
  BY <1>11 DEF ShutdownCall
<1>12. CASE ShutdownStop
  BY <1>12 DEF ShutdownStop
<1>13. CASE ShutdownWake
  BY <1>13 DEF ShutdownWake
<1>14. CASE ShutdownJoin
  BY <1>14 DEF ShutdownJoin
<1>15. CASE CreateOk
  BY <1>15 DEF CreateOk
<1>16. CASE CreateErr
  BY <1>16 DEF CreateErr
<1>17. CASE LoopTest
  BY <1>17 DEF LoopTest
<1>18. CASE Drain
  BY <1>18 DEF Drain
<1>19. CASE DrainEnd
  BY <1>19 DEF DrainEnd
<1>20. CASE PopTx
  BY <1>20 DEF PopTx
<1>21. CASE InputEnd
  BY <1>21 DEF InputEnd
<1>22. CASE PopEnd
  BY <1>22 DEF PopEnd
<1>23. CASE StopTest
  BY <1>23 DEF StopTest
<1>24. CASE PendingTest
  BY <1>24 DEF PendingTest
<1>25. CASE PollReady
  BY <1>25 DEF PollReady
<1>26. CASE PollEvent
  BY <1>26 DEF PollEvent
<1>27. CASE PollEnd
  BY <1>27 DEF PollEnd
<1>28. CASE PollErr
  BY <1>28 DEF PollErr
<1>29. CASE Packet
  BY <1>29 DEF Packet
<1>30. CASE Publish
  BY <1>30 DEF Publish
<1>31. CASE CallbackPanic
  BY <1>31 DEF CallbackPanic
<1>32. CASE Exit
  BY <1>32 DEF Exit
<1>33. CASE LatchStore
  BY <1>33 DEF LatchStore
<1>34. CASE LatchBit
  BY <1>34 DEF LatchBit
<1>35. CASE LatchStop
  BY <1>35 DEF LatchStop
<1>36. CASE Notify
  BY <1>36 DEF Notify
<1>37. CASE UNCHANGED vars
  BY <1>37 DEF vars
<1> QED
  BY <1>1, <1>2, <1>3, <1>4, <1>5, <1>6, <1>7, <1>8, <1>9, <1>10, <1>11, <1>12, <1>13, <1>14, <1>15, <1>16, <1>17, <1>18, <1>19, <1>20, <1>21, <1>22, <1>23, <1>24, <1>25, <1>26, <1>27, <1>28, <1>29, <1>30, <1>31, <1>32, <1>33, <1>34, <1>35, <1>36, <1>37
     DEF Next, RuntimeCall, RuntimeStep, WorkerStep, HostStep, Finished

LEMMA FailureStep ==
    ASSUME TypeOK, ReturnInv, FailureInv, [Next]_vars
    PROVE  FailureInv'
<1> USE SessionConstants DEF TypeOK, ReturnInv, FailureInv, FailureLocked, shared, worker, runtime, history, WorkerGoto, RuntimeGoto, Fail
<1>1. CASE StartOk
  BY <1>1 DEF StartOk
<1>2. CASE StartErr
  BY <1>2 DEF StartErr
<1>3. CASE SendTest
  BY <1>3 DEF SendTest
<1>4. CASE SendPush
  BY <1>4 DEF SendPush
<1>5. CASE SendWake
  BY <1>5 DEF SendWake
<1>6. CASE ReceiveTest
  BY <1>6 DEF ReceiveTest
<1>7. CASE ReceivePop
  BY <1>7 DEF ReceivePop
<1>8. CASE ReceiveClear
  BY <1>8 DEF ReceiveClear
<1>9. CASE FailureTest
  BY <1>9 DEF FailureTest
<1>10. CASE TakeFailure
  BY <1>10 DEF TakeFailure
<1>11. CASE ShutdownCall
  BY <1>11 DEF ShutdownCall
<1>12. CASE ShutdownStop
  BY <1>12 DEF ShutdownStop
<1>13. CASE ShutdownWake
  BY <1>13 DEF ShutdownWake
<1>14. CASE ShutdownJoin
  BY <1>14 DEF ShutdownJoin
<1>15. CASE CreateOk
  BY <1>15 DEF CreateOk
<1>16. CASE CreateErr
  BY <1>16 DEF CreateErr
<1>17. CASE LoopTest
  BY <1>17 DEF LoopTest
<1>18. CASE Drain
  BY <1>18 DEF Drain
<1>19. CASE DrainEnd
  BY <1>19 DEF DrainEnd
<1>20. CASE PopTx
  BY <1>20 DEF PopTx
<1>21. CASE InputEnd
  BY <1>21 DEF InputEnd
<1>22. CASE PopEnd
  BY <1>22 DEF PopEnd
<1>23. CASE StopTest
  BY <1>23 DEF StopTest
<1>24. CASE PendingTest
  BY <1>24 DEF PendingTest
<1>25. CASE PollReady
  BY <1>25 DEF PollReady
<1>26. CASE PollEvent
  BY <1>26 DEF PollEvent
<1>27. CASE PollEnd
  BY <1>27 DEF PollEnd
<1>28. CASE PollErr
  BY <1>28 DEF PollErr
<1>29. CASE Packet
  BY <1>29 DEF Packet
<1>30. CASE Publish
  BY <1>30 DEF Publish
<1>31. CASE CallbackPanic
  BY <1>31 DEF CallbackPanic
<1>32. CASE Exit
  BY <1>32 DEF Exit
<1>33. CASE LatchStore
  BY <1>33 DEF LatchStore
<1>34. CASE LatchBit
  BY <1>34 DEF LatchBit
<1>35. CASE LatchStop
  BY <1>35 DEF LatchStop
<1>36. CASE Notify
  BY <1>36 DEF Notify
<1>37. CASE UNCHANGED vars
  BY <1>37 DEF vars
<1> QED
  BY <1>1, <1>2, <1>3, <1>4, <1>5, <1>6, <1>7, <1>8, <1>9, <1>10, <1>11, <1>12, <1>13, <1>14, <1>15, <1>16, <1>17, <1>18, <1>19, <1>20, <1>21, <1>22, <1>23, <1>24, <1>25, <1>26, <1>27, <1>28, <1>29, <1>30, <1>31, <1>32, <1>33, <1>34, <1>35, <1>36, <1>37
     DEF Next, RuntimeCall, RuntimeStep, WorkerStep, HostStep, Finished

LEMMA TxStep ==
    ASSUME TypeOK, TxInOrder, [Next]_vars
    PROVE  TxInOrder'
<1> USE SessionConstants DEF TxInOrder, shared, worker, runtime, history, WorkerGoto, RuntimeGoto, Fail
<1>1. CASE StartOk
  BY <1>1 DEF StartOk
<1>2. CASE StartErr
  BY <1>2 DEF StartErr
<1>3. CASE SendTest
  BY <1>3 DEF SendTest
<1>4. CASE SendPush
  <2>1. /\ tx \in Queue /\ frame \in Frame /\ input \in Seq(Frame)
        /\ tx.frames \in Seq(Frame)
    BY <1>4 DEF TypeOK, SendPush, Queue
  <2>2. CASE Accepts(tx, frame)
    <3>1. tx'.frames = Append(tx.frames, frame) /\ sent' = Append(sent, frame)
      BY <1>4, <2>1, <2>2, PushType DEF SendPush
    <3>2. input \o Append(tx.frames, frame) = Append(input \o tx.frames, frame)
      BY <2>1, ConcatAppend, SMTT(30)
    <3> QED
      BY <1>4, <3>1, <3>2 DEF SendPush
  <2>3. CASE ~Accepts(tx, frame)
    BY <1>4, <2>1, <2>3, PushType DEF SendPush
  <2> QED
    BY <2>2, <2>3
<1>5. CASE SendWake
  BY <1>5 DEF SendWake
<1>6. CASE ReceiveTest
  BY <1>6 DEF ReceiveTest
<1>7. CASE ReceivePop
  BY <1>7 DEF ReceivePop
<1>8. CASE ReceiveClear
  BY <1>8 DEF ReceiveClear
<1>9. CASE FailureTest
  BY <1>9 DEF FailureTest
<1>10. CASE TakeFailure
  BY <1>10 DEF TakeFailure
<1>11. CASE ShutdownCall
  BY <1>11 DEF ShutdownCall
<1>12. CASE ShutdownStop
  BY <1>12 DEF ShutdownStop
<1>13. CASE ShutdownWake
  BY <1>13 DEF ShutdownWake
<1>14. CASE ShutdownJoin
  BY <1>14 DEF ShutdownJoin
<1>15. CASE CreateOk
  BY <1>15 DEF CreateOk
<1>16. CASE CreateErr
  BY <1>16 DEF CreateErr
<1>17. CASE LoopTest
  BY <1>17 DEF LoopTest
<1>18. CASE Drain
  BY <1>18 DEF Drain
<1>19. CASE DrainEnd
  BY <1>19 DEF DrainEnd
<1>20. CASE PopTx
  <2>1. /\ tx \in Queue /\ ~IsEmpty(tx) /\ input \in Seq(Frame)
        /\ tx.frames \in Seq(Frame) /\ tx.frames # <<>>
    BY <1>20 DEF TypeOK, PopTx, Queue, IsEmpty
  <2>2. tx'.frames = Tail(tx.frames) /\ input' = Append(input, Head(tx.frames))
    BY <1>20, <2>1, PopType DEF PopTx
  <2>3. input \o tx.frames = Append(input, Head(tx.frames)) \o Tail(tx.frames)
    BY <2>1, ConcatShift
  <2> QED
    BY <1>20, <2>2, <2>3 DEF PopTx
<1>21. CASE InputEnd
  BY <1>21 DEF InputEnd
<1>22. CASE PopEnd
  BY <1>22 DEF PopEnd
<1>23. CASE StopTest
  BY <1>23 DEF StopTest
<1>24. CASE PendingTest
  BY <1>24 DEF PendingTest
<1>25. CASE PollReady
  BY <1>25 DEF PollReady
<1>26. CASE PollEvent
  BY <1>26 DEF PollEvent
<1>27. CASE PollEnd
  BY <1>27 DEF PollEnd
<1>28. CASE PollErr
  BY <1>28 DEF PollErr
<1>29. CASE Packet
  BY <1>29 DEF Packet
<1>30. CASE Publish
  BY <1>30 DEF Publish
<1>31. CASE CallbackPanic
  BY <1>31 DEF CallbackPanic
<1>32. CASE Exit
  BY <1>32 DEF Exit
<1>33. CASE LatchStore
  BY <1>33 DEF LatchStore
<1>34. CASE LatchBit
  BY <1>34 DEF LatchBit
<1>35. CASE LatchStop
  BY <1>35 DEF LatchStop
<1>36. CASE Notify
  BY <1>36 DEF Notify
<1>37. CASE UNCHANGED vars
  BY <1>37 DEF vars
<1> QED
  BY <1>1, <1>2, <1>3, <1>4, <1>5, <1>6, <1>7, <1>8, <1>9, <1>10, <1>11, <1>12, <1>13, <1>14, <1>15, <1>16, <1>17, <1>18, <1>19, <1>20, <1>21, <1>22, <1>23, <1>24, <1>25, <1>26, <1>27, <1>28, <1>29, <1>30, <1>31, <1>32, <1>33, <1>34, <1>35, <1>36, <1>37
     DEF Next, RuntimeCall, RuntimeStep, WorkerStep, HostStep, Finished

-----------------------------------------------------------------------------
(* What the user of try_receive_frame sees.                                 *)

LEMMA ReceiveRefinementStep ==
    ASSUME Inv, [Next]_vars
    PROVE  [Receive!Next]_<<RxVisible, answer>>
<1> USE DEF Inv, RxVisible, shared, worker, runtime, history, WorkerGoto, RuntimeGoto, Fail
<1>1. CASE StartOk
  BY <1>1 DEF StartOk
<1>2. CASE StartErr
  BY <1>2 DEF StartErr
<1>3. CASE SendTest
  BY <1>3 DEF SendTest
<1>4. CASE SendPush
  BY <1>4 DEF SendPush
<1>5. CASE SendWake
  BY <1>5 DEF SendWake
<1>6. CASE ReceiveTest
  <2>1. CASE "RECEIVE" \in pending
    BY <1>6, <2>1 DEF ReceiveTest
  <2>2. CASE "RECEIVE" \notin pending
    <3>1. RxVisible = <<>>
      BY <1>6, <2>2 DEF ReceiveTest, ReceiveInv, ReadinessAgrees, RxLocked, IsEmpty
    <3>2. RxVisible' = RxVisible
      BY <1>6 DEF ReceiveTest
    <3>3. Receive!Nothing
      BY <1>6, <2>2, <3>1, <3>2 DEF ReceiveTest, Answer, Receive!Nothing
    <3> QED
      BY <3>3 DEF Receive!Next
  <2> QED
    BY <2>1, <2>2
<1>7. CASE ReceivePop
  <2>1. ~IsEmpty(rx) /\ rx \in Queue /\ wpc # "publish"
    BY <1>7 DEF ReceivePop, ReceiveInv, ReadinessAgrees, RxLocked, TypeOK
  <2>2. RxVisible = rx.frames /\ RxVisible' = Tail(rx.frames)
    BY <1>7, <2>1, PopType DEF ReceivePop
  <2>3. Receive!Give
    BY <1>7, <2>1, <2>2 DEF ReceivePop, Answer, IsEmpty, Receive!Give
  <2> QED
    BY <2>3 DEF Receive!Next
<1>8. CASE ReceiveClear
  BY <1>8 DEF ReceiveClear
<1>9. CASE FailureTest
  BY <1>9 DEF FailureTest
<1>10. CASE TakeFailure
  BY <1>10 DEF TakeFailure
<1>11. CASE ShutdownCall
  BY <1>11 DEF ShutdownCall
<1>12. CASE ShutdownStop
  BY <1>12 DEF ShutdownStop
<1>13. CASE ShutdownWake
  BY <1>13 DEF ShutdownWake
<1>14. CASE ShutdownJoin
  BY <1>14 DEF ShutdownJoin
<1>15. CASE CreateOk
  BY <1>15 DEF CreateOk
<1>16. CASE CreateErr
  BY <1>16 DEF CreateErr
<1>17. CASE LoopTest
  BY <1>17 DEF LoopTest
<1>18. CASE Drain
  BY <1>18 DEF Drain
<1>19. CASE DrainEnd
  BY <1>19 DEF DrainEnd
<1>20. CASE PopTx
  BY <1>20 DEF PopTx
<1>21. CASE InputEnd
  BY <1>21 DEF InputEnd
<1>22. CASE PopEnd
  BY <1>22 DEF PopEnd
<1>23. CASE StopTest
  BY <1>23 DEF StopTest
<1>24. CASE PendingTest
  BY <1>24 DEF PendingTest
<1>25. CASE PollReady
  BY <1>25 DEF PollReady
<1>26. CASE PollEvent
  BY <1>26 DEF PollEvent
<1>27. CASE PollEnd
  BY <1>27 DEF PollEnd
<1>28. CASE PollErr
  BY <1>28 DEF PollErr
<1>29. CASE Packet
  <2>1. PICK f \in [id : {packets}, len : Lengths] :
          /\ rx' = Push(rx, f)
          /\ wpc' = IF Accepts(rx, f) /\ IsEmpty(rx) THEN "publish" ELSE wpc
    BY <1>29 DEF Packet
  <2>2. f \in Frame /\ f \in PacketFrame /\ rx \in Queue
    <3>1. /\ packets \in Nat /\ packets \in 0..(MaxPackets - 1) /\ Lengths \subseteq Nat
          /\ rx \in Queue
      BY <1>29, SessionConstants DEF Packet, TypeOK
    <3> QED
      BY <3>1 DEF Frame, PacketFrame
  <2>3. /\ wpc # "publish" /\ RxVisible = rx.frames
        /\ Accepts(rx, f) => rx'.frames = Append(rx.frames, f)
        /\ ~Accepts(rx, f) => rx' = rx
    BY <1>29, <2>1, <2>2, PushType DEF Packet
  <2>4. CASE Accepts(rx, f) /\ ~IsEmpty(rx)
    <3>1. RxVisible' = Append(RxVisible, f)
      BY <2>1, <2>3, <2>4
    <3> QED
      BY <1>29, <2>2, <3>1 DEF Packet, Receive!Next, Receive!Offer
  <2>5. CASE ~(Accepts(rx, f) /\ ~IsEmpty(rx))
    <3>1. RxVisible' = RxVisible
      BY <2>1, <2>3, <2>5 DEF IsEmpty
    <3> QED
      BY <1>29, <3>1 DEF Packet
  <2> QED
    BY <2>4, <2>5
<1>30. CASE Publish
  <2>1. PICK f \in PacketFrame : rx.frames = <<f>>
    BY <1>30 DEF Publish, ReceiveInv
  <2>2. wpc' # "publish" /\ rx' = rx
    BY <1>30 DEF Publish, ReturnInv
  <2>3. RxVisible = <<>> /\ RxVisible' = <<f>>
    BY <1>30, <2>1, <2>2 DEF Publish
  <2>4. Append(<<>>, f) = <<f>>
    OBVIOUS
  <2>5. RxVisible' = Append(RxVisible, f)
    BY <2>3, <2>4, Zenon
  <2> QED
    BY <1>30, <2>5 DEF Publish, Receive!Next, Receive!Offer
<1>31. CASE CallbackPanic
  BY <1>31 DEF CallbackPanic
<1>32. CASE Exit
  BY <1>32 DEF Exit
<1>33. CASE LatchStore
  BY <1>33 DEF LatchStore
<1>34. CASE LatchBit
  BY <1>34 DEF LatchBit
<1>35. CASE LatchStop
  BY <1>35 DEF LatchStop, TypeOK
<1>36. CASE Notify
  BY <1>36 DEF Notify
<1>37. CASE UNCHANGED vars
  BY <1>37 DEF vars
<1> QED
  BY <1>1, <1>2, <1>3, <1>4, <1>5, <1>6, <1>7, <1>8, <1>9, <1>10, <1>11, <1>12, <1>13, <1>14, <1>15, <1>16, <1>17, <1>18, <1>19, <1>20, <1>21, <1>22, <1>23, <1>24, <1>25, <1>26, <1>27, <1>28, <1>29, <1>30, <1>31, <1>32, <1>33, <1>34, <1>35, <1>36, <1>37
     DEF Next, RuntimeCall, RuntimeStep, WorkerStep, HostStep, Finished

-----------------------------------------------------------------------------
(* The theorems.                                                            *)

LEMMA InvStep == Inv /\ [Next]_vars => Inv'
  BY TypeStep, ReceiveStep, WakeStep, FailureStep, TxStep DEF Inv

\* The strengthened invariant holds in every reachable state of a session.
THEOREM InvAlways == Spec => []Inv
<1>1. Init => Inv
  BY InitInv
<1>2. Inv /\ [Next]_vars => Inv'
  BY InvStep
<1> QED
  BY <1>1, <1>2, PTL DEF Spec

\* Shared, NetworkSession and both threads keep their types, whatever the limits.
THEOREM TypeCorrect == Spec => []TypeOK
<1>1. Inv => TypeOK
  BY DEF Inv
<1> QED
  BY <1>1, InvAlways, PTL

\* The readiness bit of Shared::pending agrees with the receive queue whenever
\* its mutex is free: clearing the last frame never hides an arrival.
THEOREM ReadinessCorrect == Spec => []ReadinessAgrees
<1>1. Inv => ReadinessAgrees
  BY DEF Inv, ReceiveInv
<1> QED
  BY <1>1, InvAlways, PTL

\* try_send_frame's single wakeup is never lost: a worker that blocks in poll()
\* beside a queued frame has a datagram waiting or on its way.
THEOREM WakeupCorrect == Spec => []NoLostWakeup
<1>1. Inv => NoLostWakeup
  BY DEF Inv, WakeInv
<1> QED
  BY <1>1, InvAlways, PTL

\* shutdown() always leaves a datagram for a worker that missed the stop flag.
THEOREM ShutdownWakeupCorrect == Spec => []ShutdownWakes
<1>1. Inv => ShutdownWakes
  BY DEF Inv, WakeInv
<1> QED
  BY <1>1, InvAlways, PTL

\* take_failure returns the terminal failure at most once and not too late.
THEOREM FailureAnnouncedCorrect == Spec => []FailureAnnounced
<1>1. Inv => FailureAnnounced
  BY DEF Inv, FailureInv, FailureAnnounced, FailureLocked
<1> QED
  BY <1>1, InvAlways, PTL

\* Whoever waits is going to be woken, and a failure stays announced.
THEOREM WakeupsKeptCorrect == Spec => []WakeupsKept
<1>1. NoLostWakeup /\ ShutdownWakes /\ FailureAnnounced => WakeupsKept
  BY DEF WakeupsKept
<1> QED
  BY <1>1, WakeupCorrect, ShutdownWakeupCorrect, FailureAnnouncedCorrect, PTL

\* failure_notify runs exactly once for a failed worker, with the first failure.
THEOREM NotifiedOnceCorrect == Spec => []NotifiedOnce
<1>1. Inv => NotifiedOnce
  <2> SUFFICES ASSUME Inv PROVE NotifiedOnce
    OBVIOUS
  <2>1. notified = <<>> \/ notified = <<failure>>
    BY DEF Inv, FailureInv
  <2>2. Len(notified) \in {0, 1}
    BY <2>1
  <2>3. \A n \in {0, 1} : n <= 1
    OBVIOUS
  <2>4. Len(notified) <= 1
    BY <2>2, <2>3, Zenon
  <2> QED
    BY <2>4, Zenon DEF Inv, FailureInv, NotifiedOnce
<1> QED
  BY <1>1, InvAlways, PTL

\* No frame try_send_frame accepted is lost, repeated or reordered.
THEOREM TxCorrect == Spec => []TxInOrder
<1>1. Inv => TxInOrder
  BY DEF Inv
<1> QED
  BY <1>1, InvAlways, PTL

\* The receive side, with its lock-free test, implements the abstract FIFO.
THEOREM ReceiveCorrect == Spec => ReceiveIsFifo
<1>1. Init => Receive!Init
  BY DEF Init, Receive!Init, RxVisible, EmptyQueue
<1>2. Inv /\ [Next]_vars => [Receive!Next]_<<RxVisible, answer>>
  BY ReceiveRefinementStep
<1> QED
  BY <1>1, <1>2, InvAlways, PTL DEF Spec, ReceiveIsFifo, Receive!Spec
===============================================================================
