----------------------------- MODULE FrameChannel -----------------------------
(***************************************************************************)
(* What one direction of a NAT session promises its user: a FIFO that may  *)
(* refuse a new frame, that never loses, duplicates or reorders a frame it *)
(* has taken, and that answers "nothing there" only when nothing is there. *)
(* There are no locks, readiness bits or wakeups at this level.            *)
(***************************************************************************)
EXTENDS Sequences, Naturals

CONSTANTS Frames, None

VARIABLES
    queue,      \* frames taken and not yet handed over
    answer      \* the last answer given to the receiver; turn tells it from the one before

Init == queue = <<>> /\ answer = [turn |-> 0, frame |-> None]

Offer == \E f \in Frames : queue' = Append(queue, f) /\ UNCHANGED answer

Give ==
    /\ queue # <<>>
    /\ queue' = Tail(queue)
    /\ answer' = [turn |-> 1 - answer.turn, frame |-> Head(queue)]

Nothing ==
    /\ queue = <<>>
    /\ answer' = [turn |-> 1 - answer.turn, frame |-> None]
    /\ UNCHANGED queue

Next == Offer \/ Give \/ Nothing

Spec == Init /\ [][Next]_<<queue, answer>>
===============================================================================
