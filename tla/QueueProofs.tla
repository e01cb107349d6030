---------------------------- MODULE QueueProofs -----------------------------
(***************************************************************************)
(* Proofs about alarm_queue and what becomes of the events it carries.     *)
(* First the ring, for every Size >= 2 and every set of items: it is a     *)
(* bounded first-in first-out queue, which is what EvidenceStore takes it  *)
(* for.  Then the way of an event out of the queue to its picture on disk, *)
(* for every queue length, cleaning rhythm and number of events.           *)
(***************************************************************************)
EXTENDS SpscRing, EvidenceStore, SequenceTheorems, TLAPS


\* Succ, which the code writes with %, as a case distinction the provers can use.
LEMMA SuccCases ==
  ASSUME NEW i \in Index
  PROVE  Succ(i) = IF i = Size - 1 THEN 0 ELSE i + 1
<1>1. CASE i = Size - 1
  BY <1>1, SizeAssumption DEF Succ, Index
<1>2. CASE i # Size - 1
  BY <1>2, SizeAssumption DEF Succ, Index
<1>3. QED
  BY <1>1, <1>2

\* How the number of occupied slots follows the two indices.
LEMMA UsedBounds ==
  ASSUME head \in Index, tail \in Index
  PROVE  /\ Used \in 0 .. Size - 1
         /\ (Used = 0) <=> (head = tail)
         /\ (Used = Size - 1) <=> (Succ(tail) = head)
         /\ \A k \in 0 .. Size - 1 : Slot(k) \in Index
         /\ Slot(0) = head
         /\ Slot(Used) = tail
         /\ \A k \in 0 .. Used - 1 : Slot(k) # tail
BY SuccCases, SizeAssumption DEF Index, Used, Slot

\* Publishing a slot adds it at the end of the occupied ones.
LEMMA UsedPublish ==
  ASSUME head \in Index, tail \in Index, Succ(tail) # head,
         head' = head, tail' = Succ(tail)
  PROVE  /\ Used' = Used + 1
         /\ \A k \in 0 .. Size - 1 : Slot(k)' = Slot(k)
BY SuccCases, SizeAssumption DEF Index, Used, Slot

\* Releasing a slot takes it off the front.
LEMMA UsedRelease ==
  ASSUME head \in Index, tail \in Index, head # tail,
         head' = Succ(head), tail' = tail
  PROVE  /\ Used' = Used - 1
         /\ \A k \in 0 .. Size - 2 : Slot(k)' = Slot(k + 1)
BY SuccCases, SizeAssumption DEF Index, Used, Slot

-----------------------------------------------------------------------------

LEMMA InitRingInv == Init => RingInv
<1> SUFFICES ASSUME Init PROVE RingInv
  OBVIOUS
<1>1. TypeOK
  BY SizeAssumption DEF Init, TypeOK, Index
<1>2. Used = 0
  BY DEF Init, Used
<1>3. QED
  BY <1>1, <1>2, ItemAssumption DEF Init, RingInv

LEMMA NextRingInv == RingInv /\ [Next]_vars => RingInv'
<1> SUFFICES ASSUME RingInv, [Next]_vars PROVE RingInv'
  OBVIOUS
<1> USE DEF RingInv
<1>0. head \in Index /\ tail \in Index
  BY DEF TypeOK
<1>i. \A i \in Index : Succ(i) \in Index
  BY SuccCases, SizeAssumption DEF Index
<1>a. ASSUME head' = head, tail' = tail
      PROVE  Used' = Used /\ \A k : Slot(k)' = Slot(k)
  BY <1>a DEF Used, Slot
<1>1. CASE PushRefuse
  BY <1>1, <1>a, ItemAssumption DEF PushRefuse, TypeOK, consVars
<1>2. CASE PushReserve
  BY <1>2, <1>a, ItemAssumption DEF PushReserve, TypeOK, consVars
<1>3. CASE PushWrite
  <2> USE <1>3 DEF PushWrite, consVars
  <2>1. TypeOK'
    BY DEF TypeOK
  <2>2. \A k \in 0 .. Used' - 1 : buffer'[Slot(k)'] \in Item
    <3> SUFFICES ASSUME NEW k \in 0 .. Used - 1
                 PROVE  buffer'[Slot(k)] \in Item
      BY <1>a
    <3>1. Slot(k) # tail /\ Slot(k) \in Index
      BY <1>0, UsedBounds, SizeAssumption
    <3>2. buffer'[Slot(k)] = buffer[Slot(k)]
      BY <3>1 DEF TypeOK
    <3>3. QED
      BY <3>2
  <2>3. cPc' = "release" => cItem' = buffer'[head']
    BY DEF TypeOK
  <2>4. pPc' = "publish" => buffer'[tail'] = pItem'
    BY DEF TypeOK
  <2>5. QED
    BY <2>1, <2>2, <2>3, <2>4, Zenon
<1>4. CASE PushPublish
  <2> USE <1>4 DEF PushPublish, consVars
  <2>1. TypeOK'
    BY <1>i DEF TypeOK
  <2>2. Used' = Used + 1 /\ \A k \in 0 .. Size - 1 : Slot(k)' = Slot(k)
    BY <1>0, UsedPublish
  <2>3. \A k \in 0 .. Used' - 1 : buffer'[Slot(k)'] \in Item
    <3> SUFFICES ASSUME NEW k \in 0 .. Used PROVE buffer[Slot(k)] \in Item
      BY <2>2, <1>0, UsedBounds, SizeAssumption
    <3>1. CASE k = Used
      BY <3>1, <1>0, UsedBounds, SizeAssumption
    <3>2. CASE k # Used
      BY <3>2, <1>0, UsedBounds, SizeAssumption
    <3>3. QED
      BY <3>1, <3>2
  <2>4. cPc' # "idle" => head' # tail'
    OBVIOUS
  <2>5. QED
    BY <2>1, <2>3, <2>4, ItemAssumption
<1>5. CASE PopMiss
  BY <1>5, <1>a, ItemAssumption DEF PopMiss, TypeOK, prodVars
<1>6. CASE PopFind
  BY <1>6, <1>a, ItemAssumption DEF PopFind, TypeOK, prodVars
<1>7. CASE PopRead
  <2> USE <1>7 DEF PopRead, prodVars
  <2>1. Used # 0 /\ Slot(0) = head
    BY <1>0, UsedBounds, SizeAssumption
  <2>2. buffer[head] \in Item
    BY <2>1, <1>0, UsedBounds, SizeAssumption
  <2>3. QED
    BY <2>2, <1>a DEF TypeOK
<1>8. CASE PopRelease
  <2> USE <1>8 DEF PopRelease, prodVars
  <2>1. Used' = Used - 1 /\ \A k \in 0 .. Size - 2 : Slot(k)' = Slot(k + 1)
    BY <1>0, UsedRelease
  <2>2. \A k \in 0 .. Used' - 1 : buffer'[Slot(k)'] \in Item
    BY <2>1, <1>0, UsedBounds, SizeAssumption
  <2>3. Used # 0 /\ Slot(0) = head
    BY <1>0, UsedBounds, SizeAssumption
  <2>4. cItem \in Item
    BY <2>3, <1>0, UsedBounds, SizeAssumption
  <2>5. TypeOK'
    BY <1>i, <2>4 DEF TypeOK
  <2>6. Succ(tail) # Succ(head)
    BY <1>0, SuccCases, SizeAssumption DEF Index
  <2>7. pPc' # "idle" => pItem' \in Item /\ Succ(tail') # head'
    BY <2>6
  <2>8. QED
    BY <2>2, <2>4, <2>5, <2>7, ItemAssumption
<1>9. CASE UNCHANGED vars
  BY <1>9, <1>a DEF vars, TypeOK
<1>10. QED
  BY <1>1, <1>2, <1>3, <1>4, <1>5, <1>6, <1>7, <1>8, <1>9 DEF Next, Push, Pop

(***************************************************************************)
(* The representation invariant of the ring, types included, holds for     *)
(* every ring size and every set of items.                                 *)
(***************************************************************************)
THEOREM RingInvariant == Spec => []RingInv
<1>1. QED
  BY InitRingInv, NextRingInv, PTL DEF Spec

(***************************************************************************)
(* The producer's copy into a slot and the consumer's copy out of a slot   *)
(* are never on the same slot, although no lock separates them.            *)
(***************************************************************************)
THEOREM SlotRaceFreedom == Spec => []NoSlotRace
<1>1. RingInv => NoSlotRace
  BY DEF RingInv, NoSlotRace
<1>2. QED
  BY <1>1, RingInvariant, PTL

-----------------------------------------------------------------------------
(* The ring implements the bounded queue. *)

ContentsFacts ==
  /\ Contents \in Seq(Item)
  /\ Len(Contents) = Used
  /\ \A k \in 1 .. Used : Contents[k] = buffer[Slot(k - 1)]

LEMMA ContentsSeq == RingInv => ContentsFacts
<1> SUFFICES ASSUME RingInv PROVE ContentsFacts
  OBVIOUS
<1>1. Used \in Nat
  BY UsedBounds, SizeAssumption DEF RingInv, TypeOK
<1>2. \A k \in 1 .. Used : buffer[Slot(k - 1)] \in Item
  BY <1>1 DEF RingInv
<1>3. QED
  BY <1>1, <1>2 DEF Contents, ContentsFacts

LEMMA ContentsSeqPrime == RingInv' => ContentsFacts'
BY ContentsSeq, PTL

\* A step that leaves the indices and the occupied slots alone leaves the queue alone.
LEMMA ContentsSame ==
  ASSUME RingInv, head' = head, tail' = tail,
         \A k \in 0 .. Used - 1 : buffer'[Slot(k)] = buffer[Slot(k)]
  PROVE  Contents' = Contents
<1>1. Used' = Used /\ \A k : Slot(k)' = Slot(k)
  BY DEF Used, Slot
<1>2. Used \in Nat
  BY UsedBounds, SizeAssumption DEF RingInv, TypeOK
<1>3. QED
  BY <1>1, <1>2 DEF Contents

LEMMA ContentsPublish ==
  ASSUME RingInv, RingInv', PushPublish
  PROVE  Contents' = Append(Contents, pItem)
<1> USE DEF PushPublish, consVars
<1>0. head \in Index /\ tail \in Index /\ Succ(tail) # head
      /\ buffer[tail] = pItem /\ pItem \in Item
  BY DEF RingInv, TypeOK
<1>1. Used' = Used + 1 /\ \A k \in 0 .. Size - 1 : Slot(k)' = Slot(k)
  BY <1>0, UsedPublish
<1>2. Used \in 0 .. Size - 1 /\ Slot(Used) = tail
  BY <1>0, UsedBounds
<1>3. /\ Append(Contents, pItem) \in Seq(Item)
      /\ Len(Append(Contents, pItem)) = Used + 1
      /\ \A k \in 1 .. Used : Append(Contents, pItem)[k] = buffer[Slot(k - 1)]
      /\ Append(Contents, pItem)[Used + 1] = pItem
  BY <1>0, <1>2, ContentsSeq, AppendProperties, SizeAssumption DEF ContentsFacts
<1>4. \A k \in 1 .. Used + 1 : Contents'[k] = buffer[Slot(k - 1)]
  BY <1>1, <1>2, ContentsSeqPrime, SizeAssumption DEF ContentsFacts
<1>5. \A k \in 1 .. Used + 1 : Contents'[k] = Append(Contents, pItem)[k]
  BY <1>0, <1>2, <1>3, <1>4, SizeAssumption
<1>6. QED
  BY <1>1, <1>3, <1>5, ContentsSeqPrime, SeqEqual DEF ContentsFacts

LEMMA ContentsRelease ==
  ASSUME RingInv, RingInv', PopRelease
  PROVE  /\ Contents # <<>>
         /\ Contents' = Tail(Contents)
         /\ cItem = Head(Contents)
<1> USE DEF PopRelease, prodVars
<1>0. head \in Index /\ tail \in Index /\ head # tail /\ cItem = buffer[head]
  BY DEF RingInv, TypeOK
<1>1. Used' = Used - 1 /\ \A k \in 0 .. Size - 2 : Slot(k)' = Slot(k + 1)
  BY <1>0, UsedRelease
<1>2. Used \in 1 .. Size - 1 /\ Slot(0) = head
  BY <1>0, UsedBounds, SizeAssumption
<1>3. Contents # <<>> /\ Head(Contents) = buffer[Slot(0)]
  BY ContentsSeq, <1>2, EmptySeq, SizeAssumption DEF ContentsFacts
<1>4. /\ Tail(Contents) \in Seq(Item)
      /\ Len(Tail(Contents)) = Used - 1
      /\ \A k \in 1 .. Used - 1 : Tail(Contents)[k] = Contents[k + 1]
  BY <1>2, <1>3, ContentsSeq, HeadTailProperties, SizeAssumption DEF ContentsFacts
<1>5. \A k \in 1 .. Used - 1 : Contents'[k] = buffer[Slot(k)]
  BY <1>1, <1>2, ContentsSeqPrime, SizeAssumption DEF ContentsFacts
<1>6. \A k \in 1 .. Used - 1 : Contents'[k] = Tail(Contents)[k]
  BY <1>2, <1>4, <1>5, ContentsSeq, SizeAssumption DEF ContentsFacts
<1>7. Contents' = Tail(Contents)
  BY <1>1, <1>4, <1>6, ContentsSeqPrime, SeqEqual DEF ContentsFacts
<1>8. QED
  BY <1>0, <1>2, <1>3, <1>7

LEMMA InitRefines == Init => Fifo!Init
<1> SUFFICES ASSUME Init PROVE Fifo!Init
  OBVIOUS
<1>1. Used = 0
  BY DEF Init, Used
<1>2. Len(Contents) = 0 /\ Contents \in Seq(Item)
  BY <1>1, InitRingInv, ContentsSeq DEF ContentsFacts
<1>3. QED
  BY <1>2, EmptySeq DEF Init, Fifo!Init

LEMMA NextRefines == RingInv /\ RingInv' /\ [Next]_vars => [Fifo!Next]_(Fifo!fifoVars)
<1> SUFFICES ASSUME RingInv, RingInv', [Next]_vars
             PROVE  Fifo!Next \/ UNCHANGED <<Contents, pushRes, popRes>>
  BY DEF Fifo!fifoVars
<1>0. head \in Index /\ tail \in Index
  BY DEF RingInv, TypeOK
<1>1. CASE PushRefuse
  <2>1. Contents' = Contents
    BY <1>1, ContentsSame DEF PushRefuse
  <2>2. Len(Contents) = Size - 1
    BY <1>0, <1>1, ContentsSeq, UsedBounds DEF PushRefuse, ContentsFacts
  <2>3. Fifo!Refuse
    BY <1>1, <2>1, <2>2 DEF PushRefuse, consVars, Fifo!Refuse
  <2>4. QED
    BY <2>3 DEF Fifo!Next
<1>2. CASE PushReserve
  <2>1. Contents' = Contents
    BY <1>2, ContentsSame DEF PushReserve
  <2>2. Fifo!PushCall
    BY <1>2, <2>1 DEF PushReserve, consVars, Fifo!PushCall
  <2>3. QED
    BY <2>2 DEF Fifo!Next
<1>3. CASE PushWrite
  <2>1. \A k \in 0 .. Used - 1 : Slot(k) \in Index /\ Slot(k) # tail
    BY <1>0, UsedBounds, SizeAssumption
  <2>2. \A k \in 0 .. Used - 1 : buffer'[Slot(k)] = buffer[Slot(k)]
    BY <1>3, <2>1 DEF PushWrite, RingInv, TypeOK
  <2>3. Contents' = Contents
    BY <1>3, <2>2, ContentsSame DEF PushWrite
  <2>4. QED
    BY <1>3, <2>3 DEF PushWrite, consVars
<1>4. CASE PushPublish
  <2>1. Contents' = Append(Contents, pItem) /\ pItem \in Item
    BY <1>4, ContentsPublish DEF RingInv, PushPublish
  <2>2. Len(Contents) < Size - 1
    BY <1>0, <1>4, ContentsSeq, UsedBounds, SizeAssumption DEF RingInv, PushPublish, ContentsFacts
  <2>3. Fifo!Enqueue
    BY <1>4, <2>1, <2>2 DEF PushPublish, RingInv, consVars, Fifo!Enqueue
  <2>4. QED
    BY <2>3 DEF Fifo!Next
<1>5. CASE PopMiss
  <2>1. Contents' = Contents
    BY <1>5, ContentsSame DEF PopMiss
  <2>2. Len(Contents) = 0 /\ Contents \in Seq(Item)
    BY <1>0, <1>5, ContentsSeq, UsedBounds DEF PopMiss, ContentsFacts
  <2>3. Contents = <<>>
    BY <2>2, EmptySeq
  <2>4. Fifo!Miss
    BY <1>5, <2>1, <2>3 DEF PopMiss, prodVars, Fifo!Miss
  <2>5. QED
    BY <2>4 DEF Fifo!Next
<1>6. CASE PopFind
  <2>1. Contents' = Contents
    BY <1>6, ContentsSame DEF PopFind
  <2>2. Fifo!PopCall
    BY <1>6, <2>1 DEF PopFind, prodVars, Fifo!PopCall
  <2>3. QED
    BY <2>2 DEF Fifo!Next
<1>7. CASE PopRead
  <2>1. Contents' = Contents
    BY <1>7, ContentsSame DEF PopRead
  <2>2. QED
    BY <1>7, <2>1 DEF PopRead, prodVars
<1>8. CASE PopRelease
  <2>1. Contents # <<>> /\ Contents' = Tail(Contents) /\ cItem = Head(Contents)
    BY <1>8, ContentsRelease
  <2>2. Fifo!Dequeue
    BY <1>8, <2>1 DEF PopRelease, RingInv, prodVars, Fifo!Dequeue
  <2>3. QED
    BY <2>2 DEF Fifo!Next
<1>9. CASE UNCHANGED vars
  <2>1. Contents' = Contents
    BY <1>9, ContentsSame DEF vars
  <2>2. QED
    BY <1>9, <2>1 DEF vars
<1>10. QED
  BY <1>1, <1>2, <1>3, <1>4, <1>5, <1>6, <1>7, <1>8, <1>9 DEF Next, Push, Pop

(***************************************************************************)
(* Whatever its size, the ring refines the bounded first-in first-out      *)
(* queue of Size - 1 items: no accepted frame or alarm event is lost,      *)
(* repeated or reordered inside the queue, and "full" and "empty" are only *)
(* ever answered truthfully.                                               *)
(***************************************************************************)
THEOREM RingRefinesFifo == Spec => RefinesFifo
<1>1. Spec => [](RingInv)
  BY RingInvariant
<1>2. QED
  BY <1>1, InitRefines, NextRefines, PTL DEF Spec, RefinesFifo, Fifo!Spec
-----------------------------------------------------------------------------

(***************************************************************************)
(* The directory.                                                          *)
(***************************************************************************)
NamesOnce(files) ==
  \A i, j \in DOMAIN files :
    files[i].name = files[j].name /\ files[i].tmp = files[j].tmp => i = j

\* What a directory says of its pictures, place by place.
LEMMA PicturesAt ==
  ASSUME NEW files \in Seq(File), NEW n
  PROVE  n \in Pictures(files) <=> \E i \in DOMAIN files : files[i].name = n /\ ~ files[i].tmp
  BY DEF Pictures, Range

LEMMA RemoveAtFacts ==
  ASSUME NEW S, NEW s \in Seq(S), NEW k \in 1..Len(s), NEW w, w = RemoveAt(s, k)
  PROVE  /\ w \in Seq(S) /\ Len(w) = Len(s) - 1
         /\ \A j \in 1..Len(w) : w[j] = IF j < k THEN s[j] ELSE s[j + 1]
<1> DEFINE a == SubSeq(s, 1, k - 1)
           b == SubSeq(s, k + 1, Len(s))
<1>0. Len(s) \in Nat /\ k \in Nat
      OBVIOUS
<1>1. a \in Seq(S) /\ Len(a) = k - 1 /\ \A j \in 1..(k - 1) : a[j] = s[j]
  <2>1. \A i \in 1..(k - 1) : s[i] \in S
        OBVIOUS
  <2> QED BY <1>0, <2>1, SubSeqProperties
<1>2. b \in Seq(S) /\ Len(b) = Len(s) - k /\ \A j \in 1..(Len(s) - k) : b[j] = s[j + k]
  <2>1. \A i \in (k + 1)..Len(s) : s[i] \in S
        OBVIOUS
  <2> QED BY <1>0, <2>1, SubSeqProperties
<1>3. w = a \o b
      BY DEF RemoveAt
<1> HIDE DEF a, b
<1>4. w \in Seq(S) /\ Len(w) = Len(s) - 1
      BY <1>0, <1>1, <1>2, <1>3
<1>5. ASSUME NEW j \in 1..Len(w) PROVE w[j] = IF j < k THEN s[j] ELSE s[j + 1]
  <2>1. CASE j < k
        BY <1>0, <1>1, <1>2, <1>3, <1>4, <2>1
  <2>2. CASE ~ (j < k)
    <3>1. w[j] = b[j - (k - 1)] /\ j - (k - 1) \in 1..(Len(s) - k)
          BY <1>0, <1>1, <1>2, <1>3, <1>4, <2>2
    <3> QED BY <1>0, <1>2, <2>2, <3>1
  <2> QED BY <2>1, <2>2
<1> QED BY <1>4, <1>5

\* Taking a name out of the directory leaves every other file, in its order.
LEMMA WithoutFacts ==
  ASSUME NEW files \in Seq(File), NamesOnce(files), NEW n, NEW t, NEW w, w = Without(files, n, t)
  PROVE  /\ w \in Seq(File) /\ NamesOnce(w)
         /\ \A j \in DOMAIN w : /\ ~ (w[j].name = n /\ w[j].tmp = t)
                                /\ \E i \in DOMAIN files : w[j] = files[i]
         /\ \A i \in DOMAIN files : \/ files[i].name = n /\ files[i].tmp = t
                                    \/ \E j \in DOMAIN w : w[j] = files[i]
         /\ files # <<>> /\ ~ (files[Len(files)].name = n /\ files[Len(files)].tmp = t)
              => w # <<>> /\ w[Len(w)] = files[Len(files)]
<1> DEFINE at == Places(files, n, t)
           k  == CHOOSE i \in at : TRUE
<1>0. Len(files) \in Nat /\ DOMAIN files = 1..Len(files)
      OBVIOUS
<1>1. CASE at = {}
  <2>1. w = files
        BY <1>1, Zenon DEF Without
  <2> QED BY <1>0, <1>1, <2>1 DEF Places
<1>2. CASE at # {}
  <2>1. w = RemoveAt(files, k)
        BY <1>2, Zenon DEF Without
  <2>2. k \in at
        BY <1>2, Zenon
  <2> HIDE DEF at, k
  <2>3. k \in 1..Len(files) /\ files[k].name = n /\ files[k].tmp = t
        BY <1>0, <2>2 DEF at, Places
  <2>4. /\ w \in Seq(File) /\ Len(w) = Len(files) - 1
        /\ \A j \in 1..Len(w) : w[j] = IF j < k THEN files[j] ELSE files[j + 1]
        BY <2>1, <2>3, RemoveAtFacts
  <2>5. DOMAIN w = 1..Len(w) /\ Len(w) \in Nat
        BY <2>4
  <2>6. ASSUME NEW i \in 1..Len(files), files[i].name = n, files[i].tmp = t PROVE i = k
        BY <1>0, <2>3, <2>6, Zenon DEF NamesOnce
  <2> DEFINE from(j) == IF j < k THEN j ELSE j + 1
  <2>7. \A j \in 1..Len(w) : from(j) \in 1..Len(files) /\ from(j) # k /\ w[j] = files[from(j)]
        BY <1>0, <2>3, <2>4, <2>5
  <2>8. \A i \in 1..Len(files) : i # k => \E j \in 1..Len(w) : from(j) = i
    <3> SUFFICES ASSUME NEW i \in 1..Len(files), i # k PROVE \E j \in 1..Len(w) : from(j) = i
        OBVIOUS
    <3>1. CASE i < k
      <4>1. i \in 1..Len(w) /\ from(i) = i
            BY <1>0, <2>3, <2>4, <3>1
      <4> QED BY <4>1
    <3>2. CASE ~ (i < k)
      <4>1. i - 1 \in 1..Len(w) /\ from(i - 1) = i
            BY <1>0, <2>3, <2>4, <3>2
      <4> QED BY <4>1
    <3> QED BY <3>1, <3>2
  <2>9. \A j1, j2 \in 1..Len(w) : from(j1) = from(j2) => j1 = j2
        BY <2>3, <2>5
  <2> HIDE DEF from
  <2>10. NamesOnce(w)
        BY <1>0, <2>5, <2>7, <2>9 DEF NamesOnce
  <2>11. \A j \in DOMAIN w : /\ ~ (w[j].name = n /\ w[j].tmp = t)
                             /\ \E i \in DOMAIN files : w[j] = files[i]
        BY <1>0, <2>5, <2>6, <2>7
  <2>12. \A i \in DOMAIN files : \/ files[i].name = n /\ files[i].tmp = t
                                 \/ \E j \in DOMAIN w : w[j] = files[i]
        BY <1>0, <2>3, <2>5, <2>7, <2>8
  <2>13. files # <<>> /\ ~ (files[Len(files)].name = n /\ files[Len(files)].tmp = t)
              => w # <<>> /\ w[Len(w)] = files[Len(files)]
        BY <1>0, <2>3, <2>4, <2>5
  <2> QED BY <2>4, <2>10, <2>11, <2>12, <2>13
<1> QED BY <1>1, <1>2

\* The cleaning keeps a final part of the directory, never without the last file.
LEMMA KeptFacts ==
  ASSUME NEW files \in Seq(File), NamesOnce(files), NEW w, w = Kept(files)
  PROVE  /\ w \in Seq(File) /\ NamesOnce(w)
         /\ \A j \in DOMAIN w : \E i \in DOMAIN files : w[j] = files[i]
         /\ files # <<>> => w # <<>> /\ w[Len(w)] = files[Len(files)]
<1> DEFINE k == Len(files) \div SHARE
<1>1. Len(files) \in Nat /\ DOMAIN files = 1..Len(files) /\ SHARE \in Nat \ {0, 1}
      BY EvidenceAssumption
<1>2. k \in 0..Len(files) /\ (Len(files) > 0 => k < Len(files))
      BY <1>1
<1> HIDE DEF k
<1>3. w = SubSeq(files, 1 + k, Len(files))
      BY DEF Kept, k
<1>4. /\ w \in Seq(File) /\ Len(w) = Len(files) - k
      /\ \A j \in 1..Len(w) : w[j] = files[j + k]
  <2>1. 1 + k \in Int /\ Len(files) \in Int /\ \A i \in (1 + k)..Len(files) : files[i] \in File
        BY <1>1, <1>2
  <2>2. /\ w \in Seq(File)
        /\ Len(w) = IF 1 + k <= Len(files) THEN Len(files) - (1 + k) + 1 ELSE 0
        /\ \A j \in 1..(Len(files) - (1 + k) + 1) : w[j] = files[(1 + k) + j - 1]
        BY <1>3, <2>1, SubSeqProperties
  <2>3. Len(w) = Len(files) - k
    <3> DEFINE n == Len(files)
    <3>1. n \in Nat /\ k \in 0..n /\ (n > 0 => k < n)
          BY <1>1, <1>2, Zenon
    <3>2. Len(w) = IF 1 + k <= n THEN n - (1 + k) + 1 ELSE 0
          BY <2>2, Zenon
    <3> HIDE DEF n
    <3>3. Len(w) = n - k
          BY <3>1, <3>2
    <3> QED BY <3>3 DEF n
  <2>4. \A j \in 1..Len(w) : (1 + k) + j - 1 = j + k /\ j \in 1..(Len(files) - (1 + k) + 1)
        BY <1>1, <1>2, <2>3
  <2> QED BY <2>2, <2>3, <2>4
<1>5. DOMAIN w = 1..Len(w) /\ Len(w) \in Nat
      BY <1>4
<1>6. \A j \in 1..Len(w) : j + k \in 1..Len(files)
      BY <1>1, <1>2, <1>4, <1>5
<1>7. NamesOnce(w)
  <2> SUFFICES ASSUME NEW i \in 1..Len(w), NEW j \in 1..Len(w),
                      w[i].name = w[j].name, w[i].tmp = w[j].tmp
               PROVE  i = j
      BY <1>5 DEF NamesOnce
  <2>1. i + k = j + k
        BY <1>1, <1>4, <1>6 DEF NamesOnce
  <2> QED BY <1>2, <2>1
<1>8. files # <<>> => w # <<>> /\ w[Len(w)] = files[Len(files)]
      BY <1>1, <1>2, <1>4, <1>5
<1> QED BY <1>1, <1>4, <1>5, <1>6, <1>7, <1>8

-----------------------------------------------------------------------------
(***************************************************************************)
(* The IO thread and the directory.  While the thread has a picture in     *)
(* hand its file is the last one written, so the rename finds it whole and *)
(* the cleaning, which takes the oldest, leaves it.                        *)
(***************************************************************************)
Top == dir[Len(dir)]

Busy == {"stamp", "write", "fill", "rename", "count"}

InHand ==
  /\ ioPc \in Busy => job \in Event
  /\ ioPc = "fill" => dir # <<>> /\ Top.name = Name /\ Top.tmp
  /\ ioPc = "rename" =>
       Name \in failed \/ (dir # <<>> /\ Top.name = Name /\ Top.tmp /\ Top.whole)
  /\ ioPc = "count" => Name \in failed \/ (dir # <<>> /\ Top.name = Name /\ ~ Top.tmp)

\* Files, the event in hand and the failures: all that the IO thread's part depends on.
Disk ==
  /\ dir \in Seq(File) /\ NamesOnce(dir) /\ failed \subseteq Event
  /\ ioPc \in {"poll", "stamp", "write", "fill", "rename", "count", "ended"}
  /\ job \in Event \union {<<>>} /\ stamp \in Second

DiskInd == Disk /\ InHand /\ PicturesWhole

LEMMA WholeAt ==
  ASSUME dir \in Seq(File)
  PROVE  PicturesWhole <=> \A i \in DOMAIN dir : dir[i].tmp \/ dir[i].whole \/ dir[i].name \in failed
  BY DEF PicturesWhole, Range

LEMMA TopFacts ==
  ASSUME dir \in Seq(File), dir # <<>>
  PROVE  Len(dir) \in DOMAIN dir /\ Top \in File /\ Len(dir) \in Nat /\ DOMAIN dir = 1..Len(dir)
  BY DEF Top

LEMMA NameIn ==
  ASSUME Disk, job \in Event
  PROVE  Name \in Event /\ job[1] \in Second /\ job[2] \in Kind /\ job = <<job[1], job[2]>>
  BY DEF Disk, Name, Event

\* Steps that leave the files and the event in hand alone.
LEMMA DiskUnchanged ==
  ASSUME DiskInd, UNCHANGED <<ioPc, job, stamp, dir, failed>>
  PROVE  DiskInd' /\ Pictures(dir') = Pictures(dir)
<1>1. DiskInd'
      BY DEF DiskInd, Disk, InHand, PicturesWhole, Top, Name
<1> QED BY <1>1

LEMMA CreateDisk ==
  ASSUME DiskInd, Create
  PROVE  DiskInd' /\ Pictures(dir') = Pictures(dir)
<1> DEFINE w == Without(dir, Name, TRUE)
           f == [name |-> Name, tmp |-> TRUE, whole |-> FALSE]
<1>1. /\ ioPc = "write" /\ ioPc' = "fill" /\ job' = job /\ stamp' = stamp /\ failed' = failed
      /\ dir' = Append(w, f) /\ Name' = Name
      BY DEF Create, At, Created, Name
<1>2. Disk /\ job \in Event /\ Name \in Event /\ PicturesWhole
      BY <1>1, NameIn DEF DiskInd, InHand, Busy
<1>3. f \in File /\ f.name = Name /\ f.tmp = TRUE /\ f.whole = FALSE
      BY <1>2 DEF File
<1>4. /\ w \in Seq(File) /\ NamesOnce(w)
      /\ \A j \in DOMAIN w : /\ ~ (w[j].name = Name /\ w[j].tmp = TRUE)
                             /\ \E i \in DOMAIN dir : w[j] = dir[i]
      /\ \A i \in DOMAIN dir : \/ dir[i].name = Name /\ dir[i].tmp = TRUE
                               \/ \E j \in DOMAIN w : w[j] = dir[i]
  <2>1. dir \in Seq(File) /\ NamesOnce(dir)
        BY <1>2 DEF Disk
  <2> DEFINE t == TRUE
  <2>2. w = Without(dir, Name, t)
        OBVIOUS
  <2> HIDE DEF w, t
  <2>3. /\ w \in Seq(File) /\ NamesOnce(w)
        /\ \A j \in DOMAIN w : /\ ~ (w[j].name = Name /\ w[j].tmp = t)
                               /\ \E i \in DOMAIN dir : w[j] = dir[i]
        /\ \A i \in DOMAIN dir : \/ dir[i].name = Name /\ dir[i].tmp = t
                                 \/ \E j \in DOMAIN w : w[j] = dir[i]
        BY <2>1, <2>2, WithoutFacts
  <2> QED BY <2>3, Zenon DEF t
<1> HIDE DEF w, f
<1>5. /\ dir' \in Seq(File) /\ Len(dir') = Len(w) + 1 /\ DOMAIN dir' = 1..(Len(w) + 1)
      /\ Len(w) \in Nat /\ DOMAIN w = 1..Len(w)
      /\ dir'[Len(w) + 1] = f /\ \A i \in 1..Len(w) : dir'[i] = w[i]
      BY <1>1, <1>3, <1>4
<1>6. \A i \in DOMAIN dir' : i = Len(w) + 1 \/ i \in DOMAIN w
      BY <1>5
<1>7. NamesOnce(dir')
  <2> SUFFICES ASSUME NEW i \in DOMAIN dir', NEW j \in DOMAIN dir',
                      dir'[i].name = dir'[j].name, dir'[i].tmp = dir'[j].tmp
               PROVE  i = j
      BY Zenon DEF NamesOnce
  <2>1. CASE i = Len(w) + 1 /\ j # i
        BY <1>3, <1>4, <1>5, <1>6, <2>1
  <2>2. CASE j = Len(w) + 1 /\ j # i
        BY <1>3, <1>4, <1>5, <1>6, <2>2
  <2>3. CASE i \in DOMAIN w /\ j \in DOMAIN w
        BY <1>4, <1>5, <2>3, Zenon DEF NamesOnce
  <2> QED BY <1>6, <2>1, <2>2, <2>3
<1>8. Pictures(dir') = Pictures(dir)
  <2>1. ASSUME NEW n PROVE n \in Pictures(dir') <=> n \in Pictures(dir)
    <3>1. n \in Pictures(dir') <=> \E i \in DOMAIN dir' : dir'[i].name = n /\ ~ dir'[i].tmp
          BY <1>5, PicturesAt
    <3>2. n \in Pictures(dir) <=> \E i \in DOMAIN dir : dir[i].name = n /\ ~ dir[i].tmp
          BY <1>2, PicturesAt DEF Disk
    <3>3. (\E i \in DOMAIN dir' : dir'[i].name = n /\ ~ dir'[i].tmp)
            => \E i \in DOMAIN dir : dir[i].name = n /\ ~ dir[i].tmp
      <4> SUFFICES ASSUME NEW i \in DOMAIN dir', dir'[i].name = n, ~ dir'[i].tmp
                   PROVE  \E j \in DOMAIN dir : dir[j].name = n /\ ~ dir[j].tmp
          OBVIOUS
      <4>1. i \in DOMAIN w /\ dir'[i] = w[i]
            BY <1>3, <1>5, <1>6
      <4> QED BY <1>4, <4>1, Zenon
    <3>4. (\E i \in DOMAIN dir : dir[i].name = n /\ ~ dir[i].tmp)
            => \E i \in DOMAIN w : w[i].name = n /\ ~ w[i].tmp
          BY <1>4, Zenon
    <3>5. \A i \in DOMAIN w : i \in DOMAIN dir' /\ dir'[i] = w[i]
          BY <1>5
    <3> QED BY <3>1, <3>2, <3>3, <3>4, <3>5, Zenon
  <2> QED BY <2>1, Zenon
<1>9. PicturesWhole'
  <2>1. \A i \in DOMAIN dir : dir[i].tmp \/ dir[i].whole \/ dir[i].name \in failed
        BY <1>2, WholeAt DEF Disk
  <2>2. \A i \in DOMAIN dir' : dir'[i].tmp \/ dir'[i].whole \/ dir'[i].name \in failed
        BY <1>3, <1>4, <1>5, <1>6, <2>1, Zenon
  <2>3. \A g \in Range(dir') : \E i \in DOMAIN dir' : g = dir'[i]
        BY Zenon DEF Range
  <2> QED BY <1>1, <2>2, <2>3, Zenon DEF PicturesWhole
<1>10. InHand'
  <2>1. dir' # <<>> /\ Top' = f
        BY <1>5 DEF Top
  <2> QED BY <1>1, <1>2, <1>3, <2>1, Zenon DEF InHand
<1>11. Disk'
       BY <1>1, <1>2, <1>5, <1>7 DEF Disk
<1> QED BY <1>8, <1>9, <1>10, <1>11 DEF DiskInd

\* A change of the directory that keeps the names, place by place.
LEMMA SameNames ==
  ASSUME NEW d \in Seq(File), NEW e, DOMAIN e = DOMAIN d, e \in Seq(File),
         \A i \in DOMAIN d : e[i].name = d[i].name /\ e[i].tmp = d[i].tmp
  PROVE  Pictures(e) = Pictures(d) /\ (NamesOnce(d) => NamesOnce(e))
<1>1. ASSUME NEW n PROVE n \in Pictures(e) <=> n \in Pictures(d)
  <2>1. n \in Pictures(e) <=> \E i \in DOMAIN e : e[i].name = n /\ ~ e[i].tmp
        BY PicturesAt
  <2>2. n \in Pictures(d) <=> \E i \in DOMAIN d : d[i].name = n /\ ~ d[i].tmp
        BY PicturesAt
  <2> QED BY <2>1, <2>2, Zenon
<1>2. NamesOnce(d) => NamesOnce(e)
      BY Zenon DEF NamesOnce
<1> QED BY <1>1, <1>2, Zenon

LEMMA FillDisk ==
  ASSUME DiskInd, Fill
  PROVE  DiskInd' /\ Pictures(dir') = Pictures(dir)
<1>1. /\ ioPc = "fill" /\ ioPc' = "rename" /\ job' = job /\ stamp' = stamp /\ failed' = failed
      /\ dir' = [dir EXCEPT ![Len(dir)].whole = TRUE] /\ Name' = Name
      BY DEF Fill, At, Name
<1>2. Disk /\ job \in Event /\ PicturesWhole /\ dir # <<>> /\ Top.name = Name /\ Top.tmp
      BY <1>1 DEF DiskInd, InHand, Busy
<1>3. Len(dir) \in DOMAIN dir /\ Top \in File
      BY <1>2, TopFacts DEF Disk
<1>4. /\ dir' \in Seq(File) /\ DOMAIN dir' = DOMAIN dir /\ Len(dir') = Len(dir)
      /\ dir'[Len(dir)] = [Top EXCEPT !.whole = TRUE]
      /\ \A i \in DOMAIN dir : i # Len(dir) => dir'[i] = dir[i]
  <2>1. [Top EXCEPT !.whole = TRUE] \in File
        BY <1>3 DEF File
  <2>2. dir' = [dir EXCEPT ![Len(dir)] = [Top EXCEPT !.whole = TRUE]]
        BY <1>1 DEF Top
  <2> QED BY <1>2, <1>3, <2>1, <2>2 DEF Disk
<1>5. /\ [Top EXCEPT !.whole = TRUE].name = Top.name
      /\ [Top EXCEPT !.whole = TRUE].tmp = Top.tmp
      /\ [Top EXCEPT !.whole = TRUE].whole = TRUE
      BY <1>3 DEF File
<1>6. \A i \in DOMAIN dir : dir'[i].name = dir[i].name /\ dir'[i].tmp = dir[i].tmp
      BY <1>4, <1>5 DEF Top
<1>7. Pictures(dir') = Pictures(dir) /\ NamesOnce(dir')
      BY <1>2, <1>4, <1>6, SameNames DEF Disk
<1>8. PicturesWhole'
  <2>1. \A i \in DOMAIN dir : dir[i].tmp \/ dir[i].whole \/ dir[i].name \in failed
        BY <1>2, WholeAt DEF Disk
  <2>2. \A i \in DOMAIN dir' : dir'[i].tmp \/ dir'[i].whole \/ dir'[i].name \in failed
        BY <1>4, <1>5, <2>1
  <2>3. \A g \in Range(dir') : \E i \in DOMAIN dir' : g = dir'[i]
        BY Zenon DEF Range
  <2> QED BY <1>1, <2>2, <2>3, Zenon DEF PicturesWhole
<1>9. InHand'
  <2>1. Top' = dir'[Len(dir)] /\ dir' # <<>>
        BY <1>3, <1>4 DEF Top
  <2>2. Top'.name = Name /\ Top'.tmp /\ Top'.whole
        BY <1>2, <1>4, <1>5, <2>1
  <2> QED BY <1>1, <1>2, <2>1, <2>2, Zenon DEF InHand
<1>10. Disk'
       BY <1>1, <1>2, <1>4, <1>7 DEF Disk
<1> QED BY <1>7, <1>8, <1>9, <1>10 DEF DiskInd

LEMMA WriteFailsDisk ==
  ASSUME DiskInd, WriteFails
  PROVE  DiskInd' /\ Pictures(dir') = Pictures(dir)
<1>1. /\ ioPc \in {"write", "fill"} /\ ioPc' = "rename" /\ job' = job /\ stamp' = stamp
      /\ failed' = failed \union {Name} /\ dir' = dir /\ Name' = Name
      BY DEF WriteFails, At, Name
<1>2. Disk /\ job \in Event /\ Name \in Event /\ PicturesWhole
      BY <1>1, NameIn DEF DiskInd, InHand, Busy
<1>3. Disk' /\ PicturesWhole'
      BY <1>1, <1>2 DEF Disk, PicturesWhole
<1>4. InHand'
      BY <1>1, <1>2 DEF InHand
<1> QED BY <1>1, <1>3, <1>4 DEF DiskInd

\* The rename loses no name but that of an older picture, which it gives to the new one.
LEMMA RenameDisk ==
  ASSUME DiskInd, Rename
  PROVE  /\ DiskInd' /\ Pictures(dir) \subseteq Pictures(dir')
         /\ Name \in Pictures(dir') \union failed
<1>1. /\ ioPc = "rename" /\ ioPc' = "count" /\ job' = job /\ stamp' = stamp /\ failed' = failed
      /\ Name' = Name
      BY DEF Rename, At, Name
<1>2. /\ Disk /\ job \in Event /\ Name \in Event /\ PicturesWhole
      /\ Name \in failed \/ (dir # <<>> /\ Top.name = Name /\ Top.tmp /\ Top.whole)
      BY <1>1, NameIn DEF DiskInd, InHand, Busy
<1>3. CASE ~ Has(Name, TRUE)
  <2>1. dir' = dir
        BY <1>3, Zenon DEF Rename
  <2>2. Name \in failed
    <3>1. SUFFICES ASSUME dir # <<>>, Top.name = Name, Top.tmp PROVE FALSE
          BY <1>2
    <3>2. Len(dir) \in DOMAIN dir /\ Top.tmp = TRUE
          BY <1>2, <3>1, TopFacts DEF Disk, File
    <3> QED BY <1>3, <3>1, <3>2 DEF Has, Places, Top
  <2>3. DiskInd'
        BY <1>1, <1>2, <2>1, <2>2 DEF DiskInd, Disk, InHand, PicturesWhole
  <2> QED BY <2>1, <2>2, <2>3
<1>4. CASE Has(Name, TRUE)
  <2> DEFINE t == FALSE
             w == Without(dir, Name, t)
  <2>1. dir' = [i \in DOMAIN w |-> IF w[i].name = Name THEN [w[i] EXCEPT !.tmp = FALSE] ELSE w[i]]
        BY <1>4, Zenon DEF Rename
  <2>2. /\ dir \in Seq(File) /\ NamesOnce(dir)
        /\ \A i \in DOMAIN dir : dir[i] \in File /\ dir[i].tmp \in BOOLEAN
    <3>1. dir \in Seq(File) /\ NamesOnce(dir)
          BY <1>2 DEF Disk
    <3>2. \A f \in File : f.tmp \in BOOLEAN
          BY DEF File
    <3>3. \A i \in DOMAIN dir : dir[i] \in File
          BY <3>1
    <3> QED BY <3>1, <3>2, <3>3, Zenon
  <2>3. w = Without(dir, Name, t)
        OBVIOUS
  <2> HIDE DEF w, t
  <2>4. /\ w \in Seq(File) /\ NamesOnce(w)
        /\ \A j \in DOMAIN w : /\ ~ (w[j].name = Name /\ w[j].tmp = t)
                               /\ \E i \in DOMAIN dir : w[j] = dir[i]
        /\ \A i \in DOMAIN dir : \/ dir[i].name = Name /\ dir[i].tmp = t
                                 \/ \E j \in DOMAIN w : w[j] = dir[i]
        /\ dir # <<>> /\ ~ (Top.name = Name /\ Top.tmp = t) => w # <<>> /\ w[Len(w)] = Top
        BY <2>2, <2>3, WithoutFacts DEF Top
  <2>5. \A j \in DOMAIN w : w[j] \in File /\ (w[j].name = Name => w[j].tmp)
    <3>1. \A j \in DOMAIN w : w[j] \in File /\ w[j].tmp \in BOOLEAN
          BY <2>2, <2>4, Zenon
    <3> QED BY <2>4, <3>1, Zenon DEF t
  <2>6. \A f \in File : /\ [f EXCEPT !.tmp = FALSE] \in File
                        /\ [f EXCEPT !.tmp = FALSE].name = f.name
                        /\ [f EXCEPT !.tmp = FALSE].whole = f.whole
                        /\ ~ [f EXCEPT !.tmp = FALSE].tmp
        BY DEF File
  <2>7. /\ dir' \in Seq(File) /\ Len(dir') = Len(w) /\ DOMAIN dir' = DOMAIN w
        /\ DOMAIN w = 1..Len(w) /\ Len(w) \in Nat
    <3>1. DOMAIN w = 1..Len(w) /\ Len(w) \in Nat
          BY <2>4
    <3>2. dir' \in [1..Len(w) -> File]
          BY <2>1, <2>5, <2>6, <3>1, Zenon
    <3> QED BY <3>1, <3>2, SeqDef
  <2>8. \A j \in DOMAIN w : /\ dir'[j].name = w[j].name /\ dir'[j].whole = w[j].whole
                            /\ w[j].name = Name => ~ dir'[j].tmp
                            /\ w[j].name # Name => dir'[j] = w[j]
        BY <2>1, <2>5, <2>6, Zenon
  <2>9. NamesOnce(dir')
    <3> SUFFICES ASSUME NEW i \in DOMAIN dir', NEW j \in DOMAIN dir',
                        dir'[i].name = dir'[j].name, dir'[i].tmp = dir'[j].tmp
                 PROVE  i = j
        BY Zenon DEF NamesOnce
    <3>1. w[i].name = w[j].name
          BY <2>7, <2>8, Zenon
    <3>2. CASE w[i].name = Name
      <4>1. w[i].tmp = TRUE /\ w[j].tmp = TRUE
            BY <2>5, <2>7, <3>1, <3>2 DEF File
      <4> QED BY <2>4, <2>7, <3>1, <4>1, Zenon DEF NamesOnce
    <3>3. CASE w[i].name # Name
          BY <2>4, <2>7, <2>8, <3>1, <3>3, Zenon DEF NamesOnce
    <3> QED BY <3>2, <3>3
  <2>10. \E i \in DOMAIN w : w[i].name = Name
    <3>1. PICK i \in DOMAIN dir : dir[i].name = Name /\ dir[i].tmp = TRUE
          BY <1>4, Zenon DEF Has, Places
    <3> QED BY <2>4, <3>1, Zenon DEF t
  <2>11. Name \in Pictures(dir')
    <3>1. \E i \in DOMAIN dir' : dir'[i].name = Name /\ ~ dir'[i].tmp
          BY <2>7, <2>8, <2>10, Zenon
    <3> QED BY <2>7, <3>1, PicturesAt
  <2>12. Pictures(dir) \subseteq Pictures(dir')
    <3> SUFFICES ASSUME NEW n \in Pictures(dir), n # Name PROVE n \in Pictures(dir')
        BY <2>11
    <3>1. PICK i \in DOMAIN dir : dir[i].name = n /\ ~ dir[i].tmp
          BY <2>2, PicturesAt
    <3>2. PICK j \in DOMAIN w : w[j] = dir[i]
          BY <2>4, <3>1, Zenon
    <3>3. dir'[j].name = n /\ ~ dir'[j].tmp /\ j \in DOMAIN dir'
          BY <2>7, <2>8, <3>1, <3>2, Zenon
    <3> QED BY <2>7, <3>3, PicturesAt
  <2>13. PicturesWhole'
    <3>1. \A i \in DOMAIN dir : dir[i].tmp \/ dir[i].whole \/ dir[i].name \in failed
          BY <1>2, <2>2, WholeAt
    <3>2. ASSUME NEW j \in DOMAIN w PROVE dir'[j].tmp \/ dir'[j].whole \/ dir'[j].name \in failed
      <4>1. PICK i \in DOMAIN dir : w[j] = dir[i]
            BY <2>4, Zenon
      <4>2. CASE w[j].name # Name
            BY <2>8, <3>1, <4>1, <4>2, Zenon
      <4>3. CASE w[j].name = Name /\ Name \in failed
            BY <2>8, <4>3, Zenon
      <4>4. CASE w[j].name = Name /\ Name \notin failed
        <5>1. dir # <<>> /\ Top.name = Name /\ Top.tmp /\ Top.whole
              BY <1>2, <4>4
        <5>2. Len(dir) \in DOMAIN dir
              BY <2>2, <5>1, TopFacts
        <5>3. dir[i].tmp = TRUE /\ Top.tmp = TRUE
              BY <2>2, <2>5, <4>1, <4>4, <5>1, <5>2 DEF Top
        <5>4. i = Len(dir)
              BY <2>2, <4>1, <4>4, <5>1, <5>2, <5>3, Zenon DEF NamesOnce, Top
        <5> QED BY <2>8, <4>1, <5>1, <5>4, Zenon DEF Top
      <4> QED BY <4>2, <4>3, <4>4
    <3>3. \A g \in Range(dir') : \E i \in DOMAIN dir' : g = dir'[i]
          BY Zenon DEF Range
    <3> QED BY <1>1, <2>7, <3>2, <3>3, Zenon DEF PicturesWhole
  <2>14. InHand'
    <3>1. SUFFICES ASSUME Name \notin failed PROVE dir' # <<>> /\ Top'.name = Name /\ ~ Top'.tmp
          BY <1>1, <1>2, Zenon DEF InHand
    <3>2. w # <<>> /\ w[Len(w)].name = Name
      <4>1. dir # <<>> /\ Top.name = Name /\ Top.tmp
            BY <1>2, <3>1
      <4> QED BY <2>4, <4>1, Zenon DEF t
    <3>3. Len(w) \in DOMAIN w /\ dir' # <<>>
          BY <2>4, <2>7, <3>2
    <3> QED BY <2>7, <2>8, <3>2, <3>3, Zenon DEF Top
  <2>15. Disk'
         BY <1>1, <1>2, <2>7, <2>9 DEF Disk
  <2> QED BY <2>11, <2>12, <2>13, <2>14, <2>15 DEF DiskInd
<1> QED BY <1>3, <1>4

\* The look at the disk never takes the picture just saved.
LEMMA CountDisk ==
  ASSUME DiskInd, Count, excused \subseteq Event
  PROVE  /\ DiskInd' /\ excused \subseteq excused' /\ excused' \subseteq Event
         /\ Pictures(dir) \subseteq Pictures(dir') \union excused' \union failed
<1>1. /\ ioPc = "count" /\ ioPc' = "poll" /\ job' = <<>> /\ stamp' = 0 /\ failed' = failed
      /\ \/ dir' = dir /\ excused' = excused
         \/ /\ dir' = Kept(dir)
            /\ excused' = excused \union ((Pictures(dir) \ Pictures(dir')) \ {Name})
      BY DEF Count, At
<1>2. /\ Disk /\ job \in Event /\ PicturesWhole
      /\ Name \in failed \/ (dir # <<>> /\ Top.name = Name /\ ~ Top.tmp)
      BY <1>1 DEF DiskInd, InHand, Busy
<1>3. InHand' /\ 0 \in Second
      BY <1>1, EvidenceAssumption DEF InHand, Busy
<1>4. CASE dir' = dir /\ excused' = excused
  <2>1. Disk' /\ PicturesWhole'
        BY <1>1, <1>2, <1>3, <1>4 DEF Disk, PicturesWhole
  <2> QED BY <1>3, <1>4, <2>1 DEF DiskInd
<1>5. CASE /\ dir' = Kept(dir)
           /\ excused' = excused \union ((Pictures(dir) \ Pictures(dir')) \ {Name})
  <2>1. /\ dir' \in Seq(File) /\ NamesOnce(dir')
        /\ \A j \in DOMAIN dir' : \E i \in DOMAIN dir : dir'[j] = dir[i]
        /\ dir # <<>> => dir' # <<>> /\ dir'[Len(dir')] = Top
        BY <1>2, <1>5, KeptFacts DEF Disk, Top
  <2>2. Disk'
        BY <1>1, <1>2, <1>3, <2>1 DEF Disk
  <2>3. PicturesWhole'
    <3>1. \A i \in DOMAIN dir : dir[i].tmp \/ dir[i].whole \/ dir[i].name \in failed
          BY <1>2, WholeAt DEF Disk
    <3>2. \A g \in Range(dir') : \E i \in DOMAIN dir' : g = dir'[i]
          BY Zenon DEF Range
    <3>3. \A i \in DOMAIN dir' : dir'[i].tmp \/ dir'[i].whole \/ dir'[i].name \in failed
          BY <2>1, <3>1, Zenon
    <3> QED BY <1>1, <3>2, <3>3, Zenon DEF PicturesWhole
  <2>4. Name \in Pictures(dir') \union failed
    <3>1. SUFFICES ASSUME dir # <<>>, Top.name = Name, ~ Top.tmp PROVE Name \in Pictures(dir')
          BY <1>2
    <3>2. Len(dir') \in DOMAIN dir'
          BY <2>1, <3>1
    <3> QED BY <2>1, <3>1, <3>2, PicturesAt
  <2>5. Pictures(dir) \subseteq Event
    <3>1. \A f \in File : f.name \in Event
          BY DEF File
    <3> QED BY <1>2, <3>1 DEF Disk, Pictures, Range
  <2> QED BY <1>3, <1>5, <2>2, <2>3, <2>4, <2>5 DEF DiskInd
<1> QED BY <1>1, <1>4, <1>5

-----------------------------------------------------------------------------
(***************************************************************************)
(* Both threads.  A name is answered when its picture is there, on its way *)
(* or excused.  No step but the death of the process takes a name back, so *)
(* a row is answered for as long as it is in the table.                    *)
(***************************************************************************)
Answered == Pictures(dir) \union Awaited \union excused \union failed

Naming ==
  /\ aiPc \in {"fill", "read"} => naming \in Event /\ naming \in Answered
  /\ aiPc = "read" /\ tm.by = "ai" => tm.second = naming[1]
  /\ ioPc = "stamp" /\ tm.by = "io" => tm.second = job[1]

EvidenceInd == DiskInd /\ RowsAnswered /\ Naming

LEMMA QueueRange ==
  ASSUME NEW q \in Seq(Event)
  PROVE  /\ Range(q) \subseteq Event
         /\ \A e \in Event : Range(Append(q, e)) = Range(q) \union {e}
         /\ q # <<>> => /\ Head(q) \in Event /\ Tail(q) \in Seq(Event) /\ Len(Tail(q)) = Len(q) - 1
                        /\ Range(q) = Range(Tail(q)) \union {Head(q)}
<1>1. Len(q) \in Nat /\ DOMAIN q = 1..Len(q) /\ \A i \in 1..Len(q) : q[i] \in Event
      OBVIOUS
<1>2. ASSUME NEW e \in Event PROVE Range(Append(q, e)) = Range(q) \union {e}
  <2> DEFINE r == Append(q, e)
  <2>1. DOMAIN r = 1..(Len(q) + 1) /\ r[Len(q) + 1] = e /\ \A i \in 1..Len(q) : r[i] = q[i]
        BY <1>1
  <2> HIDE DEF r
  <2>2. \A i \in DOMAIN r : i = Len(q) + 1 \/ i \in 1..Len(q)
        BY <1>1, <2>1
  <2>3. 1..Len(q) \subseteq DOMAIN r /\ Len(q) + 1 \in DOMAIN r
        BY <1>1, <2>1
  <2>4. Range(r) = Range(q) \union {e}
        BY <1>1, <2>1, <2>2, <2>3 DEF Range
  <2> QED BY <2>4 DEF r
<1>3. ASSUME q # <<>>
      PROVE  /\ Head(q) \in Event /\ Tail(q) \in Seq(Event) /\ Len(Tail(q)) = Len(q) - 1
             /\ Range(q) = Range(Tail(q)) \union {Head(q)}
  <2> DEFINE r == Tail(q)
  <2>1. /\ Head(q) \in Event /\ r \in Seq(Event) /\ Len(r) = Len(q) - 1
        /\ \A i \in 1..Len(r) : r[i] = q[i + 1]
        BY <1>3, HeadTailProperties
  <2>2. Head(q) = q[1] /\ DOMAIN r = 1..Len(r) /\ 1 \in 1..Len(q)
        BY <1>1, <1>3, <2>1
  <2> HIDE DEF r
  <2>3. \A i \in 1..Len(q) : i = 1 \/ (i - 1 \in 1..Len(r) /\ q[i] = r[i - 1])
        BY <1>1, <2>1
  <2>4. \A i \in 1..Len(r) : i + 1 \in 1..Len(q)
        BY <1>1, <2>1
  <2>5. Range(q) \subseteq Range(r) \union {Head(q)}
        BY <1>1, <2>2, <2>3 DEF Range
  <2>6. \A i \in 1..Len(r) : r[i] \in Range(q)
        BY <1>1, <2>1, <2>4, Zenon DEF Range
  <2>7. Range(r) \subseteq Range(q) /\ Head(q) \in Range(q)
        BY <1>1, <2>2, <2>6, Zenon DEF Range
  <2> QED BY <2>1, <2>5, <2>7 DEF r
<1>4. Range(q) \subseteq Event
      BY <1>1 DEF Range
<1> QED BY <1>2, <1>3, <1>4

\* What must be shown of a step of the IO thread or of the surroundings.
LEMMA Carried ==
  ASSUME EvidenceInd, DiskInd', EvidenceType', Answered \subseteq Answered',
         UNCHANGED <<aiPc, naming, rows>>,
         \/ tm' = tm /\ (ioPc' = "stamp" => ioPc = "stamp" /\ job' = job)
         \/ tm'.by = "io" /\ tm'.second = job'[1]
  PROVE  EvidenceInd'
<1>1. Naming /\ rows \subseteq Answered
      BY DEF EvidenceInd, RowsAnswered, Answered
<1>2. tm'.by = "ai" => tm' = tm
      OBVIOUS
<1>3. aiPc' \in {"fill", "read"} => naming' \in Event /\ naming' \in Answered'
      BY <1>1 DEF Naming
<1>4. aiPc' = "read" /\ tm'.by = "ai" => tm'.second = naming'[1]
      BY <1>1, <1>2 DEF Naming
<1>5. ioPc' = "stamp" /\ tm'.by = "io" => tm'.second = job'[1]
      BY <1>1 DEF Naming
<1>6. Naming'
      BY <1>3, <1>4, <1>5 DEF Naming
<1>7. RowsAnswered'
      BY <1>1 DEF RowsAnswered, Answered
<1> QED BY <1>6, <1>7 DEF EvidenceInd

LEMMA RaiseInd ==
  ASSUME EvidenceInd, NEW k \in Kind, Raise(k)
  PROVE  EvidenceInd'
<1>1. /\ DiskInd /\ EvidenceType /\ Naming /\ rows \subseteq Answered
      BY DEF EvidenceInd, RowsAnswered, Answered
<1>2. /\ aiPc' = "fill" /\ naming' = <<now, k>>
      /\ UNCHANGED <<is_running, now, tm, rows, ioVars, dir, failed>>
      BY DEF Raise, Infer
<1>3. /\ UNCHANGED <<ioPc, job, stamp, save_counter>>
      /\ naming' \in Event
      BY <1>1, <1>2 DEF ioVars, EvidenceType, Event
<1>4. DiskInd' /\ Pictures(dir') = Pictures(dir)
      BY <1>1, <1>2, <1>3, DiskUnchanged
<1>5. /\ alarm_queue' \in Seq(Event) /\ Len(alarm_queue') <= ALARM_QUEUE
      /\ Range(alarm_queue) \subseteq Range(alarm_queue')
      /\ excused \subseteq excused' /\ excused' \subseteq Event
      /\ naming' \in excused' \/ (ioPc # "ended" /\ naming' \in Range(alarm_queue'))
  <2>0. /\ alarm_queue \in Seq(Event) /\ Len(alarm_queue) <= ALARM_QUEUE
        /\ excused \subseteq Event /\ ALARM_QUEUE \in Nat /\ Len(alarm_queue) \in Nat
        BY <1>1, EvidenceAssumption DEF EvidenceType
  <2>1. CASE Len(alarm_queue) < ALARM_QUEUE
    <3>1. alarm_queue' = Append(alarm_queue, naming')
          BY <2>1, Zenon DEF Raise
    <3>2. Range(alarm_queue') = Range(alarm_queue) \union {naming'}
          BY <1>3, <2>0, <3>1, QueueRange
    <3>3. alarm_queue' \in Seq(Event) /\ Len(alarm_queue') = Len(alarm_queue) + 1
          BY <1>3, <2>0, <3>1
    <3>4. \/ excused' = excused /\ ioPc # "ended"
          \/ excused' = excused \union {naming'}
          BY <2>1, Zenon DEF Raise
    <3> QED BY <1>3, <2>0, <2>1, <3>2, <3>3, <3>4
  <2>2. CASE ~ (Len(alarm_queue) < ALARM_QUEUE)
    <3>1. alarm_queue' = alarm_queue /\ excused' = excused \union {naming'}
          BY <2>2, Zenon DEF Raise
    <3> QED BY <1>3, <2>0, <3>1
  <2> QED BY <2>1, <2>2
<1>6. Name' = Name
      BY <1>3 DEF Name
<1>7. Answered \subseteq Answered' /\ naming' \in Answered'
      BY <1>2, <1>3, <1>4, <1>5, <1>6 DEF Answered, Awaited
<1>8. EvidenceType'
      BY <1>1, <1>2, <1>3, <1>5 DEF EvidenceType
<1>9. Naming'
      BY <1>1, <1>2, <1>3, <1>7 DEF Naming
<1>10. RowsAnswered'
       BY <1>1, <1>2, <1>7, <1>8 DEF RowsAnswered, Answered
<1> QED BY <1>4, <1>9, <1>10 DEF EvidenceInd

\* Steps that change neither the directory nor anything that answers a name.
LEMMA NothingTaken ==
  ASSUME DiskInd, UNCHANGED <<alarm_queue, ioPc, job, stamp, dir, failed>>, excused \subseteq excused'
  PROVE  DiskInd' /\ Answered \subseteq Answered'
<1>1. DiskInd' /\ Pictures(dir') = Pictures(dir)
      BY DiskUnchanged
<1>2. Awaited' = Awaited
      BY DEF Awaited, Name
<1> QED BY <1>1, <1>2 DEF Answered

LEMMA LocaltimeInd == EvidenceInd /\ Localtime => EvidenceInd'
<1> SUFFICES ASSUME EvidenceInd, Localtime PROVE EvidenceInd'
    OBVIOUS
<1>1. /\ DiskInd /\ EvidenceType /\ Naming /\ rows \subseteq Answered
      BY DEF EvidenceInd, RowsAnswered, Answered
<1>2. /\ aiPc = "fill" /\ aiPc' = "read" /\ tm' = [by |-> "ai", second |-> naming[1]]
      /\ UNCHANGED <<is_running, now, naming, rows, alarm_queue, ioVars, dir, excused, failed>>
      BY DEF Localtime, Infer
<1>3. UNCHANGED <<ioPc, job, stamp, save_counter>>
      BY <1>2 DEF ioVars
<1>4. DiskInd' /\ Answered \subseteq Answered'
      BY <1>1, <1>2, <1>3, NothingTaken
<1>5. naming \in Event /\ naming \in Answered /\ naming[1] \in Second
      BY <1>1, <1>2 DEF Naming, Event
<1>6. tm' \in [by : {"ai", "io"}, second : Second] /\ tm'.by = "ai" /\ tm'.second = naming[1]
      BY <1>2, <1>5
<1>7. EvidenceType'
      BY <1>1, <1>2, <1>3, <1>6 DEF EvidenceType
<1>8. Naming'
      BY <1>2, <1>4, <1>5, <1>6 DEF Naming
<1> QED BY <1>1, <1>2, <1>4, <1>7, <1>8 DEF EvidenceInd, RowsAnswered, Answered

\* The row: its path is the event's own unless the other thread refilled the buffer.
LEMMA SendAlarmLogInd == EvidenceInd /\ SendAlarmLog => EvidenceInd'
<1> SUFFICES ASSUME EvidenceInd, SendAlarmLog PROVE EvidenceInd'
    OBVIOUS
<1> DEFINE path == <<tm.second, naming[2]>>
<1>1. /\ DiskInd /\ EvidenceType /\ Naming /\ rows \subseteq Answered
      BY DEF EvidenceInd, RowsAnswered, Answered
<1>2. /\ aiPc = "read" /\ aiPc' = "frame" /\ naming' = <<>>
      /\ rows' = rows \union {path}
      /\ excused' = IF tm.by = "ai" THEN excused ELSE excused \union {path}
      /\ UNCHANGED <<is_running, now, tm, alarm_queue, ioVars, dir, failed>>
      BY Zenon DEF SendAlarmLog, Infer
<1>3. UNCHANGED <<ioPc, job, stamp, save_counter>> /\ excused \subseteq excused'
      BY <1>2 DEF ioVars
<1>4. DiskInd' /\ Answered \subseteq Answered'
      BY <1>1, <1>2, <1>3, NothingTaken
<1>5. path \in Event
      BY <1>1, <1>2 DEF Naming, Event, EvidenceType
<1>6. path \in Answered'
  <2>1. CASE tm.by = "ai"
    <3>1. path = naming /\ naming \in Answered
          BY <1>1, <1>2, <2>1 DEF Naming, Event
    <3> QED BY <1>4, <3>1
  <2>2. CASE tm.by # "ai"
        BY <1>2, <2>2 DEF Answered
  <2> QED BY <2>1, <2>2
<1> HIDE DEF path
<1>7. EvidenceType'
      BY <1>1, <1>2, <1>3, <1>5 DEF EvidenceType
<1>8. Naming'
      BY <1>1, <1>2, <1>3 DEF Naming
<1>9. RowsAnswered'
      BY <1>1, <1>2, <1>4, <1>6, <1>7 DEF RowsAnswered, Answered
<1> QED BY <1>4, <1>8, <1>9 DEF EvidenceInd

\* A frame begins or ends, the user asks to leave, a second passes.
LEMMA IdleInd ==
  ASSUME EvidenceInd, PopFrame \/ FrameEnds \/ OnExitClicked \/ SecondPasses
  PROVE  EvidenceInd'
<1>1. /\ DiskInd /\ EvidenceType /\ Naming /\ rows \subseteq Answered
      BY DEF EvidenceInd, RowsAnswered, Answered
<1>2. /\ UNCHANGED <<tm, naming, rows, alarm_queue, ioVars, dir, excused, failed>>
      /\ aiPc' \in {aiPc, "wait", "frame"} /\ is_running' \in {is_running, FALSE} /\ now' \in Second
      BY <1>1 DEF PopFrame, FrameEnds, OnExitClicked, SecondPasses, Infer, aiVars, EvidenceType
<1>3. UNCHANGED <<ioPc, job, stamp, save_counter>>
      BY <1>2 DEF ioVars
<1>4. DiskInd' /\ Answered \subseteq Answered'
      BY <1>1, <1>2, <1>3, NothingTaken
<1>5. EvidenceType'
      BY <1>1, <1>2, <1>3 DEF EvidenceType
<1>6. Naming'
      BY <1>1, <1>2, <1>3, <1>4 DEF Naming
<1> QED BY <1>1, <1>2, <1>4, <1>5, <1>6 DEF EvidenceInd, RowsAnswered, Answered

LEMMA PopEventInd == EvidenceInd /\ PopEvent => EvidenceInd'
<1> SUFFICES ASSUME EvidenceInd, PopEvent PROVE EvidenceInd'
    OBVIOUS
<1>1. /\ DiskInd /\ EvidenceType /\ Naming /\ rows \subseteq Answered
      BY DEF EvidenceInd, RowsAnswered, Answered
<1>2. /\ ioPc = "poll" /\ ioPc' = "stamp" /\ alarm_queue # <<>>
      /\ job' = Head(alarm_queue) /\ alarm_queue' = Tail(alarm_queue)
      /\ tm' = [by |-> "io", second |-> job'[1]]
      /\ UNCHANGED <<is_running, now, aiVars, stamp, save_counter, dir, excused, failed>>
      BY DEF PopEvent
<1>3. /\ job' \in Event /\ alarm_queue' \in Seq(Event) /\ Len(alarm_queue') = Len(alarm_queue) - 1
      /\ Range(alarm_queue) = Range(alarm_queue') \union {job'} /\ Len(alarm_queue) \in Nat
      BY <1>1, <1>2, QueueRange DEF EvidenceType
<1>4. tm' \in [by : {"ai", "io"}, second : Second] /\ tm'.by = "io" /\ tm'.second = job'[1]
      BY <1>2, <1>3 DEF Event
<1>5. UNCHANGED <<aiPc, naming, rows>>
      BY <1>2 DEF aiVars
<1>6. DiskInd'
      BY <1>1, <1>2, <1>3 DEF DiskInd, Disk, InHand, PicturesWhole
<1>7. Len(alarm_queue') <= ALARM_QUEUE
      BY <1>1, <1>3, EvidenceAssumption DEF EvidenceType
<1>8. EvidenceType'
      BY <1>1, <1>2, <1>3, <1>4, <1>5, <1>7 DEF EvidenceType
<1>9. Answered \subseteq Answered'
      BY <1>2, <1>3 DEF Answered, Awaited
<1> QED BY <1>4, <1>5, <1>6, <1>8, <1>9, Carried

LEMMA StampInd == EvidenceInd /\ Stamp => EvidenceInd'
<1> SUFFICES ASSUME EvidenceInd, Stamp PROVE EvidenceInd'
    OBVIOUS
<1>1. /\ DiskInd /\ EvidenceType /\ Naming /\ rows \subseteq Answered
      BY DEF EvidenceInd, RowsAnswered, Answered
<1>2. /\ ioPc = "stamp" /\ ioPc' = "write" /\ stamp' = tm.second
      /\ excused' = IF tm.by = "io" THEN excused ELSE excused \union {job}
      /\ UNCHANGED <<is_running, now, tm, aiVars, alarm_queue, job, save_counter, dir, failed>>
      BY Zenon DEF Stamp
<1>3. UNCHANGED <<aiPc, naming, rows>>
      BY <1>2 DEF aiVars
<1>4. job \in Event /\ tm.second \in Second /\ Disk
      BY <1>1, <1>2 DEF DiskInd, InHand, Busy, EvidenceType
<1>5. DiskInd'
      BY <1>1, <1>2, <1>4 DEF DiskInd, Disk, InHand, PicturesWhole
<1>6. excused \subseteq excused' /\ excused' \subseteq Event
      BY <1>1, <1>2, <1>4 DEF EvidenceType
<1>7. job \in excused' \/ job = Name'
  <2>1. CASE tm.by = "io"
    <3>1. stamp' = job[1] /\ job' = job
          BY <1>1, <1>2, <2>1 DEF Naming
    <3> QED BY <1>4, <3>1, NameIn DEF Name
  <2>2. CASE tm.by # "io"
        BY <1>2, <2>2
  <2> QED BY <2>1, <2>2
<1>8. Answered \subseteq Answered'
      BY <1>2, <1>6, <1>7 DEF Answered, Awaited
<1>9. EvidenceType'
      BY <1>1, <1>2, <1>3, <1>4, <1>6 DEF EvidenceType
<1>10. tm' = tm /\ ioPc' # "stamp"
       BY <1>2
<1> QED BY <1>3, <1>5, <1>8, <1>9, <1>10, Carried

\* The steps that write, rename and count a picture, given what they do to the directory.
LEMMA SavingInd ==
  ASSUME EvidenceInd, NEW pc, NEW next, At(pc, next), next # "stamp", DiskInd',
         pc \in {"write", "fill", "rename", "count"},
         save_counter' \in 0..(SAVES - 1), excused \subseteq excused', excused' \subseteq Event,
         Pictures(dir) \union failed \subseteq Pictures(dir') \union excused' \union failed',
         \/ pc \in {"write", "fill"} /\ next \in {"fill", "rename"}
         \/ pc = "rename" /\ next = "count" /\ Name \in Pictures(dir') \union failed'
         \/ pc = "count" /\ next = "poll"
  PROVE  EvidenceInd'
<1>1. /\ EvidenceType /\ Disk'
      BY DEF EvidenceInd, RowsAnswered, DiskInd
<1>2. /\ ioPc = pc /\ ioPc' = next /\ UNCHANGED <<is_running, now, tm, aiVars, alarm_queue>>
      /\ next # "poll" => job' = job /\ stamp' = stamp
      BY Zenon DEF At
<1>3. UNCHANGED <<aiPc, naming, rows, alarm_queue, tm>>
      BY <1>2 DEF aiVars
<1>4. next # "poll" => Name' = Name
      BY <1>2 DEF Name
<1>5. Awaited \subseteq Awaited' \union Pictures(dir') \union failed'
      BY <1>2, <1>3, <1>4 DEF Awaited
<1>6. Answered \subseteq Answered'
      BY <1>5, Zenon DEF Answered
<1>7. EvidenceType'
      BY <1>1, <1>2, <1>3 DEF EvidenceType, Disk
<1> QED BY <1>2, <1>3, <1>6, <1>7, Carried

LEMMA SaveCounted == ASSUME NEW n \in 0..(SAVES - 1) PROVE (n + 1) % SAVES \in 0..(SAVES - 1)
<1>1. SAVES \in Nat \ {0}
      BY EvidenceAssumption
<1> QED BY <1>1

LEMMA IoInd == EvidenceInd /\ (Create \/ Fill \/ WriteFails \/ Rename \/ Count) => EvidenceInd'
<1> SUFFICES ASSUME EvidenceInd, Create \/ Fill \/ WriteFails \/ Rename \/ Count
             PROVE  EvidenceInd'
    OBVIOUS
<1>1. /\ DiskInd /\ EvidenceType
      BY DEF EvidenceInd, RowsAnswered
<1>2. save_counter \in 0..(SAVES - 1) /\ excused \subseteq Event
      BY <1>1 DEF EvidenceType
<1>3. CASE Create
  <2>1. At("write", "fill") /\ UNCHANGED <<save_counter, excused, failed>>
        BY <1>3, Zenon DEF Create
  <2>2. DiskInd' /\ Pictures(dir') = Pictures(dir)
        BY <1>1, <1>3, CreateDisk
  <2> QED BY <1>2, <2>1, <2>2, SavingInd
<1>4. CASE Fill
  <2>1. At("fill", "rename") /\ UNCHANGED <<save_counter, excused, failed>>
        BY <1>4, Zenon DEF Fill
  <2>2. DiskInd' /\ Pictures(dir') = Pictures(dir)
        BY <1>1, <1>4, FillDisk
  <2> QED BY <1>2, <2>1, <2>2, SavingInd
<1>5. CASE WriteFails
  <2>1. /\ At("write", "rename") \/ At("fill", "rename")
        /\ failed' = failed \union {Name} /\ UNCHANGED <<save_counter, dir, excused>>
        BY <1>5, Zenon DEF WriteFails
  <2>2. DiskInd' /\ Pictures(dir') = Pictures(dir)
        BY <1>1, <1>5, WriteFailsDisk
  <2> QED BY <1>2, <2>1, <2>2, SavingInd
<1>6. CASE Rename
  <2>1. At("rename", "count") /\ UNCHANGED <<save_counter, excused, failed>>
        BY <1>6, Zenon DEF Rename
  <2>2. DiskInd' /\ Pictures(dir) \subseteq Pictures(dir') /\ Name \in Pictures(dir') \union failed
        BY <1>1, <1>6, RenameDisk
  <2> QED BY <1>2, <2>1, <2>2, SavingInd
<1>7. CASE Count
  <2>1. At("count", "poll") /\ UNCHANGED failed
        BY <1>7, Zenon DEF Count
  <2>2. save_counter' \in 0..(SAVES - 1)
        BY <1>2, <1>7, SaveCounted DEF Count
  <2>3. /\ DiskInd' /\ excused \subseteq excused' /\ excused' \subseteq Event
        /\ Pictures(dir) \subseteq Pictures(dir') \union excused' \union failed
        BY <1>1, <1>2, <1>7, CountDisk
  <2> QED BY <2>1, <2>2, <2>3, SavingInd
<1> QED BY <1>3, <1>4, <1>5, <1>6, <1>7

LEMMA LeaveLoopInd == EvidenceInd /\ LeaveLoop => EvidenceInd'
<1> SUFFICES ASSUME EvidenceInd, LeaveLoop PROVE EvidenceInd'
    OBVIOUS
<1>1. /\ DiskInd /\ EvidenceType
      BY DEF EvidenceInd, RowsAnswered
<1>2. /\ ioPc = "poll" /\ ioPc' = "ended" /\ job' = job /\ stamp' = stamp
      /\ UNCHANGED <<is_running, now, tm, aiVars, alarm_queue>>
      /\ excused' = excused \union Range(alarm_queue)
      /\ UNCHANGED <<save_counter, dir, failed>>
      BY DEF LeaveLoop, At
<1>3. UNCHANGED <<aiPc, naming, rows>>
      BY <1>2 DEF aiVars
<1>4. DiskInd'
      BY <1>1, <1>2 DEF DiskInd, Disk, InHand, PicturesWhole, Busy
<1>5. Range(alarm_queue) \subseteq Event
      BY <1>1, QueueRange DEF EvidenceType
<1>6. EvidenceType'
      BY <1>1, <1>2, <1>3, <1>5 DEF EvidenceType
<1>7. Answered \subseteq Answered'
      BY <1>2 DEF Answered, Awaited
<1> QED BY <1>2, <1>3, <1>4, <1>6, <1>7, Carried

\* The death of the process at any step: the files stay, and there are no rows.
LEMMA RestartInd == EvidenceInd /\ Restart => EvidenceInd'
<1> SUFFICES ASSUME EvidenceInd, Restart PROVE EvidenceInd'
    OBVIOUS
<1>1. /\ DiskInd /\ EvidenceType
      BY DEF EvidenceInd, RowsAnswered
<1>2. /\ is_running' = TRUE /\ tm' = [by |-> "ai", second |-> 0]
      /\ aiPc' = "wait" /\ naming' = <<>> /\ rows' = {} /\ alarm_queue' = <<>>
      /\ ioPc' = "poll" /\ job' = <<>> /\ stamp' = 0 /\ save_counter' = 0
      /\ excused' = {} /\ UNCHANGED <<now, dir, failed>>
      BY DEF Restart
<1>3. DiskInd'
      BY <1>1, <1>2, EvidenceAssumption DEF DiskInd, Disk, InHand, PicturesWhole, Busy
<1>4. EvidenceType'
      BY <1>1, <1>2, EvidenceAssumption DEF EvidenceType
<1>5. Naming' /\ rows' \subseteq Answered'
      BY <1>2 DEF Naming
<1> QED BY <1>3, <1>4, <1>5 DEF EvidenceInd, RowsAnswered, Answered

LEMMA EvidenceIndInit == EvidenceInit => EvidenceInd
<1> SUFFICES ASSUME EvidenceInit PROVE EvidenceInd
    OBVIOUS
<1>1. dir = <<>> /\ ioPc = "poll" /\ job = <<>> /\ stamp = 0 /\ failed = {} /\ rows = {}
      BY DEF EvidenceInit
<1>2. DiskInd
  <2>1. Disk
        BY <1>1, EvidenceAssumption DEF Disk, NamesOnce
  <2>2. PicturesWhole
        BY <1>1 DEF PicturesWhole, Range
  <2> QED BY <1>1, <2>1, <2>2 DEF DiskInd, InHand, Busy
<1>3. EvidenceType
      BY EvidenceAssumption DEF EvidenceInit, EvidenceType
<1>4. Naming
      BY DEF EvidenceInit, Naming
<1> QED BY <1>1, <1>2, <1>3, <1>4 DEF EvidenceInd, RowsAnswered

LEMMA EvidenceIndNext == EvidenceInd /\ [EvidenceNext]_evidenceVars => EvidenceInd'
<1> SUFFICES ASSUME EvidenceInd, [EvidenceNext]_evidenceVars PROVE EvidenceInd'
    OBVIOUS
<1>1. CASE \E k \in Kind : Raise(k)
      BY <1>1, RaiseInd
<1>2. CASE Localtime \/ SendAlarmLog
      BY <1>2, LocaltimeInd, SendAlarmLogInd
<1>3. CASE PopFrame \/ FrameEnds \/ OnExitClicked \/ SecondPasses
      BY <1>3, IdleInd
<1>4. CASE PopEvent \/ Stamp
      BY <1>4, PopEventInd, StampInd
<1>5. CASE Create \/ Fill \/ WriteFails \/ Rename \/ Count
      BY <1>5, IoInd
<1>6. CASE LeaveLoop \/ Restart
      BY <1>6, LeaveLoopInd, RestartInd
<1>7. CASE UNCHANGED evidenceVars
  <2>1. UNCHANGED <<is_running, now, tm, aiVars, alarm_queue, ioVars, dir, excused, failed>>
        BY <1>7, Zenon DEF evidenceVars
  <2>2. UNCHANGED <<aiPc, naming, rows, ioPc, job, stamp, save_counter>>
        BY <2>1 DEF aiVars, ioVars
  <2>3. DiskInd' /\ Answered \subseteq Answered'
        BY <2>1, <2>2, NothingTaken DEF EvidenceInd
  <2>4. EvidenceType'
        BY <2>1, <2>2 DEF EvidenceInd, RowsAnswered, EvidenceType
  <2> QED BY <2>1, <2>2, <2>3, <2>4, Carried
<1> QED BY <1>1, <1>2, <1>3, <1>4, <1>5, <1>6, <1>7, Zenon DEF EvidenceNext

LEMMA EvidenceIndAlways == EvidenceSpec => []EvidenceInd
<1> QED BY EvidenceIndInit, EvidenceIndNext, PTL DEF EvidenceSpec

(***************************************************************************)
(* Whatever the queue, the cleaning and the number of events: a row of the *)
(* table has its picture, waits for it, or has one of the five excuses     *)
(* that the model names, though its path is computed by another thread     *)
(* than the picture's name and through a buffer that both use.             *)
(***************************************************************************)
THEOREM RowsAreAnswered == EvidenceSpec => []RowsAnswered
<1>1. EvidenceInd => RowsAnswered
      BY Zenon DEF EvidenceInd
<1> QED BY <1>1, EvidenceIndAlways, PTL

(***************************************************************************)
(* However often the process dies, a file under a final name is whole or   *)
(* its write had reported a failure.                                       *)
(***************************************************************************)
THEOREM PicturesAreWhole == EvidenceSpec => []PicturesWhole
<1>1. EvidenceInd => PicturesWhole
      BY Zenon DEF EvidenceInd, DiskInd
<1> QED BY <1>1, EvidenceIndAlways, PTL
=============================================================================
