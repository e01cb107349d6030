------------------------------ MODULE SpscRing ------------------------------
(***************************************************************************)
(* LockFreeRingBuffer<T, Size> (include/lockfree_queue.hpp): the ring that *)
(* connects the camera, inference and IO threads.  One thread pushes, one  *)
(* thread pops.  A call is split at its accesses to shared memory: the     *)
(* load of the other side's index, the copy into or out of the slot, and   *)
(* the release store of the own index.  The relaxed load of the own index  *)
(* reads a variable no other thread writes, so it is not a step.           *)
(* The steps interleave at the instant their access is performed; on the   *)
(* AArch64 target the acquire loads and release stores keep program order. *)
(***************************************************************************)
EXTENDS Naturals, Sequences

CONSTANTS Size,       \* slots of the ring: 2 for cap_queue, 20 for alarm_queue
          Item,       \* the values pushed (frames or alarm events)
          NoItem,     \* a default-constructed slot, and a pop that returns false
          Pending     \* result of a call that has not returned

ASSUME SizeAssumption == Size \in Nat /\ Size >= 2
ASSUME ItemAssumption == NoItem \notin Item /\ Pending \notin Item /\ Pending # NoItem
                         /\ Pending \notin {"none", "ok", "full"}

Index == 0 .. Size - 1

VARIABLES buffer,     \* the slots
          head,       \* next slot to pop, stored by the consumer only
          tail,       \* next slot to fill, stored by the producer only
          pPc, pItem, pushRes,   \* producer: step within push, argument, result
          cPc, cItem, popRes     \* consumer: step within pop, copied item, result

vars == <<buffer, head, tail, pPc, pItem, pushRes, cPc, cItem, popRes>>
prodVars == <<pPc, pItem, pushRes>>
consVars == <<cPc, cItem, popRes>>

Succ(i) == (i + 1) % Size

Init ==
  /\ buffer = [i \in Index |-> NoItem]
  /\ head = 0
  /\ tail = 0
  /\ pPc = "idle" /\ pItem = NoItem /\ pushRes = "none"
  /\ cPc = "idle" /\ cItem = NoItem /\ popRes = NoItem

(* push ------------------------------------------------------------------ *)

\* The acquire load of head, and the test for a full ring.
PushRefuse ==
  /\ pPc = "idle"
  /\ Succ(tail) = head
  /\ pushRes' = "full"
  /\ UNCHANGED <<buffer, head, tail, pPc, pItem, consVars>>

\* Slip: the test for a full ring is forgotten.
PushReserveUntested ==
  /\ pPc = "idle"
  /\ \E x \in Item : pItem' = x
  /\ pPc' = "write"
  /\ pushRes' = Pending
  /\ UNCHANGED <<buffer, head, tail, consVars>>

PushReserve ==
  /\ pPc = "idle"
  /\ Succ(tail) # head
  /\ \E x \in Item : pItem' = x
  /\ pPc' = "write"
  /\ pushRes' = Pending
  /\ UNCHANGED <<buffer, head, tail, consVars>>

\* Slip: the item goes to next_tail instead of current_tail.
PushWriteNext ==
  /\ pPc = "write"
  /\ buffer' = [buffer EXCEPT ![Succ(tail)] = pItem]
  /\ pPc' = "publish"
  /\ UNCHANGED <<head, tail, pItem, pushRes, consVars>>

\* buffer[current_tail] = item
PushWrite ==
  /\ pPc = "write"
  /\ buffer' = [buffer EXCEPT ![tail] = pItem]
  /\ pPc' = "publish"
  /\ UNCHANGED <<head, tail, pItem, pushRes, consVars>>

\* tail.store(next_tail, release); return true
PushPublish ==
  /\ pPc = "publish"
  /\ tail' = Succ(tail)
  /\ pPc' = "idle"
  /\ pushRes' = "ok"
  /\ UNCHANGED <<buffer, head, pItem, consVars>>

(* pop ------------------------------------------------------------------- *)

\* The acquire load of tail, and the test for an empty ring.
PopMiss ==
  /\ cPc = "idle"
  /\ head = tail
  /\ popRes' = NoItem
  /\ UNCHANGED <<buffer, head, tail, cPc, cItem, prodVars>>

\* Slip: the empty test is off by one, the last item is never found.
PopFindLate ==
  /\ cPc = "idle"
  /\ head # tail /\ Succ(head) # tail
  /\ cPc' = "read"
  /\ popRes' = Pending
  /\ UNCHANGED <<buffer, head, tail, cItem, prodVars>>

PopFind ==
  /\ cPc = "idle"
  /\ head # tail
  /\ cPc' = "read"
  /\ popRes' = Pending
  /\ UNCHANGED <<buffer, head, tail, cItem, prodVars>>

\* item = buffer[current_head]
PopRead ==
  /\ cPc = "read"
  /\ cItem' = buffer[head]
  /\ cPc' = "release"
  /\ UNCHANGED <<buffer, head, tail, popRes, prodVars>>

\* head.store((current_head + 1) % Size, release); return true
PopRelease ==
  /\ cPc = "release"
  /\ head' = Succ(head)
  /\ cPc' = "idle"
  /\ popRes' = cItem
  /\ UNCHANGED <<buffer, tail, cItem, prodVars>>

Push == PushRefuse \/ PushReserve \/ PushWrite \/ PushPublish
Pop == PopMiss \/ PopFind \/ PopRead \/ PopRelease

Next == Push \/ Pop

Spec == Init /\ [][Next]_vars

\* The consumer threads poll their queue for ever (inference_node.cpp:119,
\* io_node.cpp:78); the producer owes nothing.
FairSpec == Spec /\ WF_vars(Pop)

-----------------------------------------------------------------------------
(* Types and the representation invariant *)

TypeOK ==
  /\ buffer \in [Index -> Item \cup {NoItem}]
  /\ head \in Index
  /\ tail \in Index
  /\ pPc \in {"idle", "write", "publish"}
  /\ pItem \in Item \cup {NoItem}
  /\ pushRes \in {"none", "ok", "full", Pending}
  /\ cPc \in {"idle", "read", "release"}
  /\ cItem \in Item \cup {NoItem}
  /\ popRes \in Item \cup {NoItem, Pending}

\* How many slots lie between head and tail, and the slot k places after head.
Used == IF head <= tail THEN tail - head ELSE tail + Size - head
Slot(k) == IF head + k < Size THEN head + k ELSE head + k - Size

\* The accepted items not yet handed out, oldest first.
Contents == [k \in 1 .. Used |-> buffer[Slot(k - 1)]]

(***************************************************************************)
(* The inductive invariant.  A producer inside push keeps the slot at tail *)
(* free until it publishes it; a consumer inside pop keeps the slot at     *)
(* head occupied until it releases it, and its copy is that slot's item;   *)
(* every occupied slot holds an item that was pushed.                      *)
(***************************************************************************)
RingInv ==
  /\ TypeOK
  /\ pPc = "idle" <=> pushRes # Pending
  /\ cPc = "idle" <=> popRes # Pending
  /\ pPc # "idle" => pItem \in Item /\ Succ(tail) # head
  /\ pPc = "publish" => buffer[tail] = pItem
  /\ cPc # "idle" => head # tail
  /\ cPc = "release" => cItem = buffer[head]
  /\ \A k \in 0 .. Used - 1 : buffer[Slot(k)] \in Item

(***************************************************************************)
(* push copies into a slot while pop copies out of one, with no lock: the  *)
(* two threads must never be inside the same slot.                         *)
(***************************************************************************)
NoSlotRace == ~ (pPc = "write" /\ cPc = "read" /\ tail = head)

(***************************************************************************)
(* The ring behaves as a bounded FIFO of Size - 1 items: nothing accepted  *)
(* is lost, repeated or reordered, a push is refused only when Size - 1    *)
(* items are queued, and a pop misses only when none is.                   *)
(***************************************************************************)
Fifo == INSTANCE BoundedFifo WITH queue <- Contents, Capacity <- Size - 1
RefinesFifo == Fifo!Spec

(***************************************************************************)
(* A consumer that keeps polling takes every accepted item out, whatever   *)
(* the producer does: the oldest item never stays for ever.                *)
(***************************************************************************)
OldestIsTaken == \A i \in Index : (head = i /\ tail # i) ~> (head # i)
=============================================================================
