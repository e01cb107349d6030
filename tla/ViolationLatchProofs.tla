------------------------ MODULE ViolationLatchProofs ------------------------
(***************************************************************************)
(* The lock of ViolationLatch for any tracks, thresholds and memory.  Not  *)
(* being locked, a track has exactly the violating frames counted that     *)
(* were seen in succession, and too few of them; being locked, exactly the *)
(* compliant ones, and too few.  That is inductive, and LatchInv follows.  *)
(***************************************************************************)
EXTENDS ViolationLatch, FiniteSetTheorems, TLAPS

TrackInv(s, b, g) ==
  /\ s.alarm # "locked" => s.violation = b /\ b < CONFIRM
  /\ s.alarm = "locked" => s.compliance = g /\ g < PARDON

LatchInd ==
  /\ TypeOK
  /\ \A t \in Track : TrackInv(memory[t], bad[t], good[t])
  /\ buzzer <=> \E t \in out : memory[t].alarm = "locked"

\* A violating frame: the pair of histories it leads to fits the track it leads to.
LEMMA ViolatesFits ==
  ASSUME NEW s \in Memory, NEW b \in 0..CONFIRM, NEW g \in 0..PARDON, TrackInv(s, b, g)
  PROVE  /\ Violates(s) \in Memory
         /\ TrackInv(Violates(s), Capped(b + 1, CONFIRM), 0)
         /\ s.alarm # "locked" /\ Violates(s).alarm = "locked" => Capped(b + 1, CONFIRM) = CONFIRM
         /\ s.alarm = "locked" => Violates(s).alarm = "locked"
<1> DEFINE n == Capped(s.violation + 1, CONFIRM)
           locks == s.alarm # "locked" /\ n >= CONFIRM
<1>1. n \in 0..CONFIRM /\ 0 \in 0..CONFIRM /\ 0 \in 0..PARDON /\ 0 < PARDON
  BY LatchAssumption DEF Memory, Capped
<1>2. s.alarm # "locked" => n = Capped(b + 1, CONFIRM)
  BY DEF TrackInv
<1>3. Capped(b + 1, CONFIRM) \in 0..CONFIRM
  BY LatchAssumption DEF Capped
<1>4. CASE locks
  <2>1. Violates(s) = [s EXCEPT !.compliance = 0, !.violation = 0, !.alarm = "locked"]
    BY <1>4 DEF Violates
  <2>2. /\ Violates(s) \in Memory
        /\ Violates(s).alarm = "locked" /\ Violates(s).compliance = 0
    BY <1>1, <2>1 DEF Memory
  <2>3. Capped(b + 1, CONFIRM) = CONFIRM
    BY <1>1, <1>2, <1>4, LatchAssumption
  <2> QED BY <1>1, <2>2, <2>3 DEF TrackInv
<1>5. CASE ~ locks
  <2>1. Violates(s) = [s EXCEPT !.compliance = 0, !.violation = n]
    BY <1>5 DEF Violates
  <2> HIDE DEF n
  <2>2. /\ Violates(s) \in Memory
        /\ Violates(s).alarm = s.alarm
        /\ Violates(s).compliance = 0 /\ Violates(s).violation = n
    BY <1>1, <2>1 DEF Memory
  <2>3. s.alarm # "locked" => n < CONFIRM
    BY <1>1, <1>5, LatchAssumption
  <2> QED BY <1>1, <1>2, <1>3, <2>2, <2>3 DEF TrackInv
<1> QED BY <1>4, <1>5

\* A compliant frame likewise.
LEMMA CompliesFits ==
  ASSUME NEW s \in Memory, NEW b \in 0..CONFIRM, NEW g \in 0..PARDON, TrackInv(s, b, g)
  PROVE  /\ Complies(s) \in Memory
         /\ TrackInv(Complies(s), 0, Capped(g + 1, PARDON))
         /\ s.alarm = "locked" /\ Complies(s).alarm # "locked" => Capped(g + 1, PARDON) = PARDON
         /\ s.alarm # "locked" => Complies(s).alarm # "locked"
<1> DEFINE n == Capped(s.compliance + 1, PARDON)
           frees == s.alarm = "locked" /\ n >= PARDON
<1>1. n \in 0..PARDON /\ 0 \in 0..PARDON /\ 0 \in 0..CONFIRM /\ 0 < CONFIRM
  BY LatchAssumption DEF Memory, Capped
<1>2. s.alarm = "locked" => n = Capped(g + 1, PARDON)
  BY DEF TrackInv
<1>3. Capped(g + 1, PARDON) \in 0..PARDON
  BY LatchAssumption DEF Capped
<1>4. CASE frees
  <2>1. Complies(s) = [s EXCEPT !.violation = 0, !.compliance = 0, !.alarm = "released"]
    BY <1>4 DEF Complies
  <2>2. /\ Complies(s) \in Memory
        /\ Complies(s).alarm = "released" /\ Complies(s).violation = 0
    BY <1>1, <2>1 DEF Memory
  <2>3. Capped(g + 1, PARDON) = PARDON
    BY <1>1, <1>2, <1>4, LatchAssumption
  <2> QED BY <1>1, <1>4, <2>2, <2>3 DEF TrackInv
<1>5. CASE ~ frees
  <2>1. Complies(s) = [s EXCEPT !.violation = 0, !.compliance = n]
    BY <1>5 DEF Complies
  <2> HIDE DEF n
  <2>2. /\ Complies(s) \in Memory
        /\ Complies(s).alarm = s.alarm
        /\ Complies(s).violation = 0 /\ Complies(s).compliance = n
    BY <1>1, <2>1 DEF Memory
  <2>3. s.alarm = "locked" => n < PARDON
    BY <1>1, <1>5, LatchAssumption
  <2> QED BY <1>1, <1>2, <1>3, <2>2, <2>3 DEF TrackInv
<1> QED BY <1>4, <1>5

\* A frame that shows the track is one or the other.
LEMMA SeenFits ==
  ASSUME NEW s \in Memory, NEW b \in 0..CONFIRM, NEW g \in 0..PARDON, TrackInv(s, b, g),
         NEW m \in Match
  PROVE  LET v == Judged(s, m) = "violating"
             b2 == IF v THEN Capped(b + 1, CONFIRM) ELSE 0
             g2 == IF Judged(s, m) = "compliant" THEN Capped(g + 1, PARDON) ELSE 0
         IN /\ Seen(s, m) \in Memory
            /\ b2 \in 0..CONFIRM /\ g2 \in 0..PARDON
            /\ TrackInv(Seen(s, m), b2, g2)
            /\ s.alarm # "locked" /\ Seen(s, m).alarm = "locked" => b2 = CONFIRM
            /\ s.alarm = "locked" /\ Seen(s, m).alarm # "locked" => g2 = PARDON
<1> DEFINE r == [s EXCEPT !.label = Remembered(s, m)]
<1>1. r \in Memory /\ r.alarm = s.alarm /\ TrackInv(r, b, g)
  BY DEF Memory, Match, Label, Remembered, TrackInv
<1>2. Judged(s, m) \in Label
  BY DEF Judged, Memory, Match, Label
<1>3. /\ Capped(b + 1, CONFIRM) \in 0..CONFIRM /\ 0 \in 0..CONFIRM
      /\ Capped(g + 1, PARDON) \in 0..PARDON /\ 0 \in 0..PARDON
  BY LatchAssumption DEF Capped
<1>4. CASE Judged(s, m) = "violating"
  <2>1. Seen(s, m) = Violates(r) /\ Judged(s, m) # "compliant"
    BY <1>4 DEF Seen
  <2> HIDE DEF r
  <2>2. /\ Violates(r) \in Memory
        /\ TrackInv(Violates(r), Capped(b + 1, CONFIRM), 0)
        /\ r.alarm # "locked" /\ Violates(r).alarm = "locked" => Capped(b + 1, CONFIRM) = CONFIRM
        /\ r.alarm = "locked" => Violates(r).alarm = "locked"
    BY <1>1, ViolatesFits
  <2> QED BY <1>1, <1>3, <1>4, <2>1, <2>2
<1>5. CASE Judged(s, m) = "compliant"
  <2>1. Seen(s, m) = Complies(r) /\ Judged(s, m) # "violating"
    BY <1>5 DEF Seen
  <2> HIDE DEF r
  <2>2. /\ Complies(r) \in Memory
        /\ TrackInv(Complies(r), 0, Capped(g + 1, PARDON))
        /\ r.alarm = "locked" /\ Complies(r).alarm # "locked" => Capped(g + 1, PARDON) = PARDON
        /\ r.alarm # "locked" => Complies(r).alarm # "locked"
    BY <1>1, CompliesFits
  <2> QED BY <1>1, <1>3, <1>5, <2>1, <2>2
<1> QED BY <1>2, <1>4, <1>5 DEF Label

-----------------------------------------------------------------------------
LEMMA FreshFits == Fresh \in Memory /\ Fresh.alarm # "locked" /\ TrackInv(Fresh, 0, 0)
BY LatchAssumption DEF Fresh, Memory, TrackInv

LEMMA InitInd == Init => LatchInd
<1> SUFFICES ASSUME Init PROVE LatchInd
  OBVIOUS
<1>1. TypeOK
  <2>1. buzzer \in BOOLEAN /\ is_physical_alarm \in BOOLEAN
    BY Zenon DEF Init
  <2>2. memory \in [Track -> Memory] /\ out \in SUBSET Track
    BY FreshFits DEF Init
  <2>3. /\ snap \in 0..(SNAP_GAP + 1) /\ queued \in 0..ALARM_QUEUE
        /\ bad \in [Track -> 0..CONFIRM] /\ good \in [Track -> 0..PARDON]
    BY LatchAssumption DEF Init
  <2> QED BY <2>1, <2>2, <2>3 DEF TypeOK
<1>2. \A t \in Track : TrackInv(memory[t], bad[t], good[t])
  BY FreshFits DEF Init
<1>3. buzzer <=> \E t \in out : memory[t].alarm = "locked"
  BY DEF Init
<1> QED BY <1>1, <1>2, <1>3 DEF LatchInd

\* What one frame does to one track.
LEMMA FrameTrack ==
  ASSUME LatchInd, NEW tracks \in SUBSET Track, NEW match \in [tracks -> Match],
         Frame(tracks, match), NEW t \in Track
  PROVE  /\ memory'[t] \in Memory /\ bad'[t] \in 0..CONFIRM /\ good'[t] \in 0..PARDON
         /\ TrackInv(memory'[t], bad'[t], good'[t])
         /\ memory[t].alarm # "locked" /\ memory'[t].alarm = "locked" => bad'[t] = CONFIRM
         /\ memory[t].alarm = "locked" /\ memory'[t].alarm # "locked" =>
              good'[t] = PARDON \/ (t \notin out' /\ memory'[t] = Fresh)
<1> DEFINE mem == [u \in Track |->
                     IF u \in tracks THEN Seen(memory[u], match[u]) ELSE memory[u]]
           gone == Forgets(tracks, mem)
<1>1. /\ memory[t] \in Memory /\ bad[t] \in 0..CONFIRM /\ good[t] \in 0..PARDON
      /\ TrackInv(memory[t], bad[t], good[t])
  BY DEF LatchInd, TypeOK
<1>2. gone \cap tracks = {} /\ out' = tracks
  BY DEF Forgets, Frame
<1>3. CASE t \in gone
  <2>1. memory'[t] = Fresh /\ bad'[t] = 0 /\ good'[t] = 0
    BY <1>3 DEF Frame
  <2>2. t \notin out'
    BY <1>2, <1>3
  <2> HIDE DEF gone
  <2> QED BY <2>1, <2>2, FreshFits, LatchAssumption
<1>4. CASE t \notin gone /\ t \notin tracks
  <2>1. memory'[t] = memory[t] /\ bad'[t] = bad[t] /\ good'[t] = good[t]
    BY <1>4 DEF Frame
  <2> QED BY <2>1, <1>1
<1>5. CASE t \notin gone /\ t \in tracks
  <2> DEFINE j == Judged(memory[t], match[t])
  <2>1. /\ memory'[t] = Seen(memory[t], match[t])
        /\ bad'[t] = IF j = "violating" THEN Capped(bad[t] + 1, CONFIRM) ELSE 0
        /\ good'[t] = IF j = "compliant" THEN Capped(good[t] + 1, PARDON) ELSE 0
    BY <1>5 DEF Frame
  <2>2. match[t] \in Match
    BY <1>5
  <2> QED BY <1>1, <2>1, <2>2, SeenFits
<1> QED BY <1>3, <1>4, <1>5

LEMMA FrameType ==
  ASSUME LatchInd, NEW tracks \in SUBSET Track, NEW match \in [tracks -> Match],
         Frame(tracks, match)
  PROVE  LatchInd'
<1> DEFINE mem == [u \in Track |->
                     IF u \in tracks THEN Seen(memory[u], match[u]) ELSE memory[u]]
           gone == Forgets(tracks, mem)
<1>1. \A t \in Track :
        /\ memory'[t] \in Memory /\ bad'[t] \in 0..CONFIRM /\ good'[t] \in 0..PARDON
        /\ TrackInv(memory'[t], bad'[t], good'[t])
  BY FrameTrack
<1>2. memory' \in [Track -> Memory]
  <2>1. memory' = [t \in Track |-> IF t \in gone THEN Fresh ELSE mem[t]]
    BY DEF Frame
  <2> HIDE DEF mem, gone
  <2> QED BY <1>1, <2>1
<1>3. bad' \in [Track -> 0..CONFIRM]
  <2>1. DOMAIN bad' = Track /\ bad' = [t \in Track |-> bad'[t]]
    BY DEF Frame
  <2> QED BY <1>1, <2>1
<1>4. good' \in [Track -> 0..PARDON]
  <2>1. DOMAIN good' = Track /\ good' = [t \in Track |-> good'[t]]
    BY DEF Frame
  <2> QED BY <1>1, <2>1
<1>5. buzzer' \in BOOLEAN /\ is_physical_alarm' \in BOOLEAN
  <2>1. buzzer' = Sounds(tracks, mem) /\ is_physical_alarm' = is_physical_alarm
    BY DEF Frame
  <2>2. Sounds(tracks, mem) \in BOOLEAN
    BY Zenon DEF Sounds
  <2> QED BY <2>1, <2>2, Zenon DEF LatchInd, TypeOK
<1>6. snap' \in 0..(SNAP_GAP + 1) /\ out' \in SUBSET Track
  BY LatchAssumption DEF Frame, LatchInd, TypeOK
<1>7. queued' \in 0..ALARM_QUEUE
  <2> DEFINE locks == {t \in tracks : mem[t].alarm = "locked" /\ memory[t].alarm # "locked"}
  <2>1. IsFiniteSet(locks) /\ Cardinality(locks) \in Nat
    BY LatchAssumption, FS_Subset, FS_CardinalityType
  <2>2. queued' = Capped(queued + (Cardinality(locks) + IF Snaps THEN 1 ELSE 0), ALARM_QUEUE)
    BY DEF Frame, Push
  <2>3. queued \in 0..ALARM_QUEUE
    BY DEF LatchInd, TypeOK
  <2> HIDE DEF locks
  <2> QED BY <2>1, <2>2, <2>3, LatchAssumption DEF Capped
<1>8. buzzer' <=> \E t \in out' : memory'[t].alarm = "locked"
  <2>1. \A t \in tracks : memory'[t] = mem[t]
    BY DEF Frame, Forgets
  <2>2. buzzer' = (\E t \in tracks : mem[t].alarm = "locked") /\ out' = tracks
    BY DEF Frame, Sounds
  <2> HIDE DEF mem
  <2> QED BY <2>1, <2>2
<1> HIDE DEF mem, gone
<1> QED BY <1>1, <1>2, <1>3, <1>4, <1>5, <1>6, <1>7, <1>8 DEF LatchInd, TypeOK
-----------------------------------------------------------------------------
LEMMA NextInd == LatchInd /\ [Next]_vars => LatchInd'
<1> SUFFICES ASSUME LatchInd, [Next]_vars PROVE LatchInd'
  OBVIOUS
<1> USE DEF LatchInd
<1>1. CASE FrameSome
  <2>1. PICK tracks \in SUBSET Track : \E match \in [tracks -> Match] : Frame(tracks, match)
    BY <1>1 DEF FrameSome
  <2>2. PICK match \in [tracks -> Match] : Frame(tracks, match)
    BY <2>1
  <2> QED BY <2>2, FrameType
<1>2. CASE Physical
  <2>1. is_physical_alarm' \in BOOLEAN
    BY <1>2, Zenon DEF Physical
  <2> QED BY <1>2, <2>1 DEF Physical, TypeOK
<1>3. CASE Take
  BY <1>3, LatchAssumption DEF Take, TypeOK
<1>4. CASE Second
  BY <1>4, LatchAssumption DEF Second, Capped, TypeOK
<1>5. CASE UNCHANGED vars
  BY <1>5 DEF vars, TypeOK
<1> QED BY <1>1, <1>2, <1>3, <1>4, <1>5 DEF Next

LEMMA IndImplies == LatchInd => LatchInv
<1> SUFFICES ASSUME LatchInd PROVE LatchInv
  OBVIOUS
<1>1. ASSUME NEW t \in Track
      PROVE  /\ bad[t] = CONFIRM => memory[t].alarm = "locked"
             /\ good[t] = PARDON => memory[t].alarm # "locked"
  BY LatchAssumption DEF LatchInd, TrackInv
<1> QED BY <1>1 DEF LatchInd, LatchInv

LEMMA SpecInd == Spec => []LatchInd
BY InitInd, NextInd, PTL DEF Spec

\* For any number of tracks and any thresholds: three violating frames in a row (CONFIRM)
\* leave a track locked, fifteen compliant ones (PARDON) leave it unlocked, and the buzzer is
\* asked for exactly when a locked track is in the picture.
THEOREM LatchInvariant == Spec => []LatchInv
BY SpecInd, IndImplies, PTL

\* No lock is set by fewer violating frames in a row, and none is given up by fewer compliant
\* ones, unless the memory guard forgets a track that is out of the picture.
THEOREM LockJustice == Spec => LocksAreJust
<1> DEFINE Just(t) ==
      LET was == memory[t].alarm = "locked"
          is == memory'[t].alarm = "locked"
      IN /\ ~ was /\ is => bad'[t] = CONFIRM
         /\ was /\ ~ is => good'[t] = PARDON \/ (t \notin out' /\ memory'[t] = Fresh)
<1>1. LatchInd /\ [Next]_vars => [\A t \in Track : Just(t)]_vars
  <2> SUFFICES ASSUME LatchInd, [Next]_vars, NEW t \in Track PROVE Just(t)
    OBVIOUS
  <2>1. CASE FrameSome
    <3>1. PICK tracks \in SUBSET Track : \E match \in [tracks -> Match] : Frame(tracks, match)
      BY <2>1 DEF FrameSome
    <3>2. PICK match \in [tracks -> Match] : Frame(tracks, match)
      BY <3>1
    <3> QED BY <3>2, FrameTrack
  <2>2. CASE memory' = memory
    BY <2>2
  <2> QED BY <2>1, <2>2 DEF Next, Physical, Take, Second, vars
<1>2. LocksAreJust <=> [][\A t \in Track : Just(t)]_vars
  BY PTL DEF LocksAreJust
<1> QED BY <1>1, <1>2, SpecInd, PTL DEF Spec
=============================================================================
