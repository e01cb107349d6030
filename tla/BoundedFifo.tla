---------------------------- MODULE BoundedFifo ----------------------------
(***************************************************************************)
(* What the two inter-thread queues of the monitoring program promise: a   *)
(* bounded first-in first-out queue between one producer and one consumer, *)
(* whose operations take effect at one instant and never block.            *)
(*   cap_queue   : camera thread    -> inference thread (frames)           *)
(*   alarm_queue : inference thread -> IO thread (alarm events)            *)
(* Every call of push or pop is one step here, and its result is part of   *)
(* the state, so that "full" and "empty" answers are constrained too.      *)
(***************************************************************************)
EXTENDS Naturals, Sequences

CONSTANTS Item,       \* what the queue carries
          Capacity,   \* how many items it holds
          NoItem,     \* the answer of a pop that found nothing
          Pending     \* the result of a call that has not returned

VARIABLES queue,      \* the accepted items not yet handed out, oldest first
          pushRes,    \* result of the last push: "none", "ok", "full" or Pending
          popRes      \* result of the last pop: an item, NoItem or Pending

fifoVars == <<queue, pushRes, popRes>>

Init ==
  /\ queue = <<>>
  /\ pushRes = "none"
  /\ popRes = NoItem

PushCall ==
  /\ pushRes' = Pending
  /\ UNCHANGED <<queue, popRes>>

PopCall ==
  /\ popRes' = Pending
  /\ UNCHANGED <<queue, pushRes>>

Enqueue ==
  /\ pushRes = Pending
  /\ Len(queue) < Capacity
  /\ \E x \in Item : queue' = Append(queue, x)
  /\ pushRes' = "ok"
  /\ UNCHANGED popRes

\* A push is refused only at an instant at which the queue is full.
Refuse ==
  /\ Len(queue) = Capacity
  /\ pushRes' = "full"
  /\ UNCHANGED <<queue, popRes>>

Dequeue ==
  /\ popRes = Pending
  /\ queue # <<>>
  /\ popRes' = Head(queue)
  /\ queue' = Tail(queue)
  /\ UNCHANGED pushRes

\* A pop comes back empty-handed only at an instant at which the queue is empty.
Miss ==
  /\ queue = <<>>
  /\ popRes' = NoItem
  /\ UNCHANGED <<queue, pushRes>>

Next == PushCall \/ PopCall \/ Enqueue \/ Refuse \/ Dequeue \/ Miss

Spec == Init /\ [][Next]_fifoVars
=============================================================================
