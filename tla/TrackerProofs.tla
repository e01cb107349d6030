---------------------------- MODULE TrackerProofs ---------------------------
(***************************************************************************)
(* Proofs about the tracker.  TrackLife: the life of a track, for any      *)
(* number of tracks, frames and detections and every MAX_TIME_LOST.        *)
(* Lapjv: the assignment of detections to tracks, for tables of every size *)
(* and all costs that are whole numbers.                                   *)
(***************************************************************************)
EXTENDS TrackLife, Lapjv, WellFoundedInduction, FiniteSetTheorems, TLAPS

LEMMA LeastOfNat == ASSUME NEW T, T \subseteq Nat, T # {}
                    PROVE  \E m \in T : \A k \in T : m <= k
<1>1. \E m \in T : \A k \in T : ~ (<<k, m>> \in OpToRel(<, Nat))
  BY NatLessThanWellFounded, WFMin
<1>2. PICK m \in T : \A k \in T : ~ (<<k, m>> \in OpToRel(<, Nat))
  BY <1>1
<1>3. \A k \in T : ~ (k < m)
  BY <1>2 DEF OpToRel
<1>4. QED
  BY <1>3

-----------------------------------------------------------------------------
(***************************************************************************)
(* The life of a track.                                                    *)
(***************************************************************************)
LEMMA InitTrackInv == Init => TrackInv
BY TrackAssumption DEF Init, TrackInv, TypeOK, TrackedInv, LostInv, BirthInv, Id

(***************************************************************************)
(* Who is who in a frame: the unconfirmed, the confirmed and the lost are  *)
(* apart, and only confirmed tracks are left for the low scores.           *)
(***************************************************************************)
LEMMA Apart ==
  ASSUME TrackInv,
         NEW first \in SUBSET Pool, NEW third \in SUBSET Unconfirmed,
         NEW second \in SUBSET Remaining(first)
  PROVE  /\ Unconfirmed \cap lost = {}
         /\ Remaining(first) = (tracked \ Unconfirmed) \ first
         /\ first \cup second \cup third \subseteq tracked \cup lost
         /\ first \cup second \cup third \subseteq 1..track_id_count
         /\ (Remaining(first) \ second) \cap (first \cup second \cup third) = {}
         /\ \A t \in Remaining(first) : is_activated[t] /\ last[t] = frame_id
<1>1. \A t \in tracked : state[t] = "Tracked" /\ last[t] = frame_id
  BY DEF TrackInv, TrackedInv
<1>2. \A t \in lost : state[t] # "Tracked" /\ t \notin tracked
  BY DEF TrackInv, LostInv
<1>3. \A t \in tracked \ Unconfirmed : is_activated[t]
  BY Zenon DEF Unconfirmed
<1>4. Unconfirmed \subseteq tracked
  BY DEF Unconfirmed
<1>5. Remaining(first) = (tracked \ Unconfirmed) \ first
  BY <1>1, <1>2, <1>4 DEF Remaining, Pool
<1>6. first \cup second \cup third \subseteq tracked \cup lost
  BY <1>4, <1>5 DEF Pool
<1>7. tracked \cup lost \subseteq 1..track_id_count
  BY DEF TrackInv, BirthInv
<1>8. QED
  BY <1>1, <1>2, <1>3, <1>4, <1>5, <1>6, <1>7

LEMMA AssociateTyped ==
  ASSUME TrackInv,
         NEW first \in SUBSET Pool, NEW third \in SUBSET Unconfirmed, NEW fresh \in Nat,
         NEW second \in SUBSET Remaining(first),
         track_id_count + fresh <= MaxTracks,
         Associate(first, second, third, fresh)
  PROVE  /\ TypeOK'
         /\ Born(fresh) \subseteq Id
         /\ Born(fresh) \cap (tracked \cup lost \cup removed) = {}
<1> DEFINE f == frame_id + 1
           old == first \cup second \cup third
           born == Born(fresh)
           missing == Remaining(first) \ second
           gone == (Unconfirmed \ third) \cup Expired(old, f)
           seen == old \cup born
<1>0. f \in Nat /\ track_id_count \in Nat /\ MaxTracks \in Nat
  BY TrackAssumption DEF TrackInv, TypeOK
<1>1. PICK overlap \in SUBSET (seen \X StillLost(seen, missing)) :
        /\ tracked' = seen \ DoubleTracked(overlap)
        /\ lost' = StillLost(seen, missing) \ Double(overlap)
  BY Zenon DEF Associate, Lists
<1>2. born \subseteq Id /\ born \subseteq 1..(track_id_count + fresh)
  BY <1>0 DEF Born, Id
<1>3. tracked \subseteq Id /\ lost \subseteq Id /\ removed \subseteq Id
  BY DEF TrackInv, TypeOK
<1>4. old \subseteq Id /\ missing \subseteq Id /\ gone \subseteq Id
  BY <1>3 DEF Unconfirmed, Pool, Remaining, Expired
<1>5. tracked' \subseteq Id /\ lost' \subseteq Id
  BY <1>1, <1>2, <1>3, <1>4 DEF StillLost
<1>6. removed' \subseteq Id
  BY <1>3, <1>4 DEF Associate
<1>7. state' \in [Id -> {"New", "Tracked", "Lost", "Removed"}]
  <2>1. state' = [t \in Id |-> IF t \in seen THEN "Tracked" ELSE IF t \in gone THEN "Removed"
                               ELSE IF t \in missing THEN "Lost" ELSE state[t]]
    BY Zenon DEF Associate, Mark
  <2>2. state \in [Id -> {"New", "Tracked", "Lost", "Removed"}]
    BY DEF TrackInv, TypeOK
  <2> HIDE DEF seen, gone, missing
  <2>3. QED
    BY <2>1, <2>2
<1>8. is_activated' \in [Id -> BOOLEAN]
  BY Zenon DEF Associate, Match
<1>9. last' \in [Id -> Nat] /\ start' \in [Id -> Nat]
  <2>1. /\ last' = [t \in Id |-> IF t \in seen THEN f ELSE last[t]]
        /\ start' = [t \in Id |-> IF t \in born THEN f ELSE start[t]]
    BY Zenon DEF Associate, Match
  <2>2. last \in [Id -> Nat] /\ start \in [Id -> Nat]
    BY DEF TrackInv, TypeOK
  <2> HIDE DEF seen, born, f
  <2>3. QED
    BY <2>1, <2>2, <1>0
<1>10. frame_id' \in Nat /\ track_id_count' \in 0..MaxTracks
  BY <1>0 DEF Associate
<1>11. born \cap (1..track_id_count) = {}
  BY <1>0 DEF Born
<1>12. QED
  BY <1>2, <1>5, <1>6, <1>7, <1>8, <1>9, <1>10, <1>11 DEF TypeOK, TrackInv, BirthInv

(***************************************************************************)
(* One frame.  The effect of Associate is first written out point by       *)
(* point; each named part of the invariant then follows from it.           *)
(***************************************************************************)
LEMMA AssociateKeeps ==
  ASSUME TrackInv,
         NEW first \in SUBSET Pool, NEW third \in SUBSET Unconfirmed, NEW fresh \in Nat,
         NEW second \in SUBSET Remaining(first),
         track_id_count + fresh <= MaxTracks,
         Associate(first, second, third, fresh)
  PROVE  TrackInv'
<1> DEFINE f == frame_id + 1
           old == first \cup second \cup third
           born == Born(fresh)
           missing == Remaining(first) \ second
           gone == (Unconfirmed \ third) \cup Expired(old, f)
           seen == old \cup born
<1>1. /\ TypeOK' /\ TypeOK
      /\ born \subseteq Id
      /\ born \cap (tracked \cup lost \cup removed) = {}
  BY AssociateTyped DEF TrackInv
<1>2. /\ Unconfirmed \cap lost = {}
      /\ missing \subseteq tracked
      /\ old \subseteq tracked \cup lost /\ old \subseteq 1..track_id_count
      /\ missing \cap seen = {}
      /\ \A t \in missing : is_activated[t] /\ last[t] = frame_id
  <2>1. /\ Unconfirmed \cap lost = {}
        /\ Remaining(first) = (tracked \ Unconfirmed) \ first
        /\ old \subseteq tracked \cup lost
        /\ old \subseteq 1..track_id_count
        /\ missing \cap old = {}
        /\ \A t \in Remaining(first) : is_activated[t] /\ last[t] = frame_id
    BY Apart, Zenon
  <2>2. missing \subseteq tracked
    BY <2>1
  <2>3. missing \cap seen = {}
    BY <1>1, <2>1, <2>2
  <2>4. \A t \in missing : is_activated[t] /\ last[t] = frame_id
    BY <2>1
  <2>5. QED
    BY <2>1, <2>2, <2>3, <2>4
<1>3. /\ tracked' \subseteq seen
      /\ lost' \subseteq ((lost \ seen) \cup missing) \ removed
  <2>1. PICK overlap \in SUBSET (seen \X StillLost(seen, missing)) :
          /\ tracked' = seen \ DoubleTracked(overlap)
          /\ lost' = StillLost(seen, missing) \ Double(overlap)
    BY Zenon DEF Associate, Lists
  <2>2. QED
    BY <2>1 DEF StillLost
<1>4. /\ frame_id' = f /\ track_id_count' = track_id_count + fresh
      /\ removed' = removed \cup gone
  BY DEF Associate
<1>5. \A t \in Id : /\ is_activated'[t] <=> is_activated[t] \/ t \in old \/ (t \in born /\ f = 1)
                    /\ last'[t] = IF t \in seen THEN f ELSE last[t]
                    /\ start'[t] = IF t \in born THEN f ELSE start[t]
  BY Zenon DEF Associate, Match
<1>6. \A t \in Id : state'[t] = IF t \in seen THEN "Tracked" ELSE IF t \in gone THEN "Removed"
                                ELSE IF t \in missing THEN "Lost" ELSE state[t]
  BY Zenon DEF Associate, Mark
<1>7. \A t \in gone : t \in Unconfirmed \/ (t \in lost \ old /\ f - last[t] > MAX_TIME_LOST)
  BY DEF Expired
<1>8. \A t \in lost \ old : f - last[t] > MAX_TIME_LOST => t \in gone
  BY DEF Expired
<1>9. \A t \in Unconfirmed : t \in tracked /\ ~ is_activated[t]
  BY Zenon DEF Unconfirmed
<1>10. /\ frame_id \in Nat /\ track_id_count \in Nat /\ MAX_TIME_LOST \in Nat \ {0}
       /\ \A t \in Id : last[t] \in Nat /\ start[t] \in Nat
       /\ tracked \subseteq Id /\ lost \subseteq Id /\ removed \subseteq Id
       /\ Unconfirmed \subseteq tracked /\ born = (track_id_count + 1)..(track_id_count + fresh)
  BY <1>1, TrackAssumption DEF TypeOK, Unconfirmed, Born
<1>11. \A t \in lost : /\ is_activated[t] /\ last[t] < frame_id /\ t \notin tracked
                       /\ t \notin removed => state[t] = "Lost"
                                              /\ frame_id - last[t] <= MAX_TIME_LOST
  BY DEF TrackInv, LostInv
<1>12. /\ tracked \cup lost \cup removed \subseteq 1..track_id_count
       /\ \A t \in Id : is_activated[t] => t <= track_id_count
       /\ \A t \in 1..track_id_count : /\ 1 <= start[t] /\ start[t] <= last[t] /\ last[t] <= frame_id
                                       /\ is_activated[t] => start[t] = 1 \/ start[t] < last[t]
  BY DEF TrackInv, BirthInv
<1>13. TrackedInv'
  <2> SUFFICES ASSUME NEW t \in tracked'
               PROVE  /\ state'[t] = "Tracked" /\ last'[t] = frame_id'
                      /\ ~ is_activated'[t] => start'[t] = frame_id'
    BY DEF TrackedInv
  <2>1. t \in seen /\ t \in Id
    BY <1>1, <1>2, <1>3, <1>10
  <2>2. state'[t] = "Tracked" /\ last'[t] = frame_id'
    BY <2>1, <1>4, <1>5, <1>6
  <2>3. ~ is_activated'[t] => t \in born
    BY <2>1, <1>5
  <2>4. QED
    BY <2>1, <2>2, <2>3, <1>4, <1>5
<1>14. LostInv'
  <2>1. tracked' \cap lost' = {}
    BY <1>2, <1>3
  <2>2. ASSUME NEW t \in lost'
        PROVE  /\ is_activated'[t] /\ last'[t] < frame_id'
               /\ IF t \in removed'
                  THEN state'[t] = "Removed" /\ frame_id' - last'[t] = MAX_TIME_LOST + 1
                  ELSE state'[t] = "Lost" /\ frame_id' - last'[t] <= MAX_TIME_LOST
    <3>1. t \in Id /\ t \notin seen /\ t \notin removed /\ t \in lost \cup missing
      BY <1>2, <1>3, <1>10
    <3>2. is_activated[t]
      BY <3>1, <1>2, <1>11
    <3>3. is_activated'[t] /\ last'[t] = last[t] /\ t \notin Unconfirmed
      BY <3>1, <3>2, <1>5, <1>9
    <3>4. state'[t] = IF t \in gone THEN "Removed" ELSE IF t \in missing THEN "Lost" ELSE state[t]
      BY <3>1, <1>6
    <3>5. t \in removed' <=> t \in gone
      BY <3>1, <1>4
    <3>6. CASE t \in lost
      <4>1. t \notin missing
        BY <3>6, <1>2, <1>11
      <4> HIDE DEF gone, missing, seen, old, born
      <4>2. QED
        BY <3>1, <3>3, <3>4, <3>5, <3>6, <4>1, <1>4, <1>7, <1>8, <1>10, <1>11 DEF seen
    <3>7. CASE t \in missing
      <4>1. t \notin gone /\ last[t] = frame_id
        BY <3>3, <3>7, <1>2, <1>7, <1>11
      <4> HIDE DEF gone, missing, seen, old, born
      <4>2. QED
        BY <3>3, <3>4, <3>5, <3>7, <4>1, <1>4, <1>10
    <3>8. QED
      BY <3>1, <3>6, <3>7
  <2>3. QED
    BY <2>1, <2>2 DEF LostInv
<1>15. BirthInv'
  <2>1. born \subseteq 1..track_id_count' /\ 1..track_id_count \subseteq 1..track_id_count'
    BY <1>4, <1>10
  <2>2. gone \subseteq tracked \cup lost
    BY <1>7, <1>9
  <2>3. tracked' \cup lost' \cup removed' \subseteq 1..track_id_count'
    BY <1>2, <1>3, <1>4, <1>12, <2>1, <2>2
  <2>4. \A t \in Id : is_activated'[t] => t <= track_id_count'
    <3> HIDE DEF old, born, f
    <3>1. QED
      BY <1>2, <1>4, <1>5, <1>10, <1>12, <2>1
  <2>5. ASSUME NEW t \in 1..track_id_count'
        PROVE  /\ 1 <= start'[t] /\ start'[t] <= last'[t] /\ last'[t] <= frame_id'
               /\ is_activated'[t] => start'[t] = 1 \/ start'[t] < last'[t]
    <3>1. t \in born \/ t \in 1..track_id_count
      BY <1>4, <1>10
    <3>2. t \in Id
      BY <1>4, <1>10, TrackAssumption DEF Id
    <3>3. CASE t \in born
      <4>1. ~ is_activated[t] /\ t \notin old
        BY <3>2, <3>3, <1>2, <1>10, <1>12
      <4>2. is_activated'[t] => f = 1
        BY <3>2, <4>1, <1>5
      <4>3. last'[t] = f /\ start'[t] = f
        BY <3>2, <3>3, <1>5
      <4>4. QED
        BY <4>2, <4>3, <1>4, <1>10
    <3>4. CASE t \in 1..track_id_count
      <4>1. t \notin born
        BY <3>4, <1>10
      <4>2. start'[t] = start[t] /\ last'[t] = IF t \in old THEN f ELSE last[t]
        BY <3>2, <4>1, <1>5
      <4>3. t \notin old => (is_activated'[t] <=> is_activated[t])
        BY <3>2, <4>1, <1>5
      <4>4. QED
        BY <3>2, <3>4, <4>2, <4>3, <1>4, <1>10, <1>12
    <3>5. QED
      BY <3>1, <3>3, <3>4
  <2>6. QED
    BY <2>3, <2>4, <2>5 DEF BirthInv
<1>16. QED
  BY <1>1, <1>13, <1>14, <1>15 DEF TrackInv

LEMMA NextTrackInv == TrackInv /\ [Next]_vars => TrackInv'
<1> SUFFICES ASSUME TrackInv, [Next]_vars PROVE TrackInv'
  OBVIOUS
<1>1. CASE Update
  <2>1. PICK first \in SUBSET Pool, third \in SUBSET Unconfirmed, fresh \in 0..MaxDetections :
          /\ track_id_count + fresh <= MaxTracks
          /\ \E second \in SUBSET Remaining(first) : Associate(first, second, third, fresh)
    BY <1>1, Zenon DEF Update
  <2>2. PICK second \in SUBSET Remaining(first) : Associate(first, second, third, fresh)
    BY <2>1
  <2>3. fresh \in Nat
    BY TrackAssumption
  <2>4. QED
    BY <2>1, <2>2, <2>3, AssociateKeeps
<1>2. CASE UNCHANGED vars
  BY <1>2, Zenon DEF vars, lists, track, TrackInv, TypeOK, TrackedInv, LostInv, BirthInv
<1>3. QED
  BY <1>1, <1>2 DEF Next

(***************************************************************************)
(* For any number of tracks and detections and every MAX_TIME_LOST: no     *)
(* track is on two lists of update, what is tracked was matched in this    *)
(* frame, and lost tracks are activated ones that have not expired, or did *)
(* so in this very frame.                                                  *)
(***************************************************************************)
THEOREM TrackInvariant == Spec => []TrackInv
<1>1. QED
  BY InitTrackInv, NextTrackInv, PTL DEF Spec

(***************************************************************************)
(* Eliminating doubles pair by pair never goes round in a circle: whatever *)
(* overlaps with what, one of those followed for longest stays.            *)
(***************************************************************************)
LEMMA OneStays ==
  ASSUME NEW seen, NEW still, NEW overlap \in SUBSET (seen \X still),
         NEW f \in Nat,
         \A s \in seen \cup still : Life(s) \in Int /\ Life(s) <= f,
         NEW t \in seen \cup still
  PROVE  \E s \in (seen \ DoubleTracked(overlap)) \cup (still \ Double(overlap)) :
           Life(s) >= Life(t)
<1> DEFINE All == {u \in seen \cup still : Life(u) >= Life(t)}
           Age == {f - Life(u) : u \in All}
<1>1. Age \subseteq Nat /\ Age # {}
  <2>1. t \in All
    OBVIOUS
  <2>2. \A u \in All : f - Life(u) \in Nat
    OBVIOUS
  <2>3. QED
    BY <2>1, <2>2
<1>2. PICK m \in Age : \A k \in Age : m <= k
  <2> HIDE DEF Age
  <2>1. QED
    BY <1>1, LeastOfNat
<1>3. PICK s \in All : m = f - Life(s)
  BY <1>2
<1>4. \A u \in All : Life(u) <= Life(s)
  <2> SUFFICES ASSUME NEW u \in All PROVE Life(u) <= Life(s)
    OBVIOUS
  <2>1. f - Life(s) <= f - Life(u)
    BY <1>2, <1>3
  <2>2. Life(u) \in Int /\ Life(s) \in Int
    OBVIOUS
  <2>3. QED
    BY <2>1, <2>2
<1>5. CASE \E u \in All \cap still : Life(u) = Life(s)
  <2>1. PICK u \in All \cap still : Life(u) = Life(s)
    BY <1>5
  <2>2. ASSUME u \in Double(overlap) PROVE FALSE
    <3>1. PICK p \in overlap : Life(p[1]) > Life(p[2]) /\ p[2] = u
      BY <2>2 DEF Double
    <3>2. p[1] \in seen
      BY <3>1
    <3>3. p[1] \in All
      BY <3>1, <3>2, <2>1
    <3>4. QED
      BY <3>1, <3>3, <2>1, <1>4
  <2>3. QED
    BY <2>1, <2>2
<1>6. CASE ~ \E u \in All \cap still : Life(u) = Life(s)
  <2>1. s \in seen
    BY <1>6, <1>3
  <2>2. ASSUME s \in DoubleTracked(overlap) PROVE FALSE
    <3>1. PICK p \in overlap : Life(p[1]) <= Life(p[2]) /\ p[1] = s
      BY <2>2 DEF DoubleTracked
    <3>2. p[2] \in still
      BY <3>1
    <3>3. p[2] \in All /\ Life(p[2]) = Life(s)
      BY <3>1, <3>2, <1>3, <1>4
    <3>4. QED
      BY <3>2, <3>3, <1>6
  <2>3. QED
    BY <2>1, <2>2
<1>7. QED
  BY <1>5, <1>6

LEMMA AssociateLongest ==
  ASSUME TrackInv,
         NEW first \in SUBSET Pool, NEW third \in SUBSET Unconfirmed, NEW fresh \in Nat,
         NEW second \in SUBSET Remaining(first),
         track_id_count + fresh <= MaxTracks,
         Associate(first, second, third, fresh),
         NEW t \in tracked \cup lost
  PROVE  \/ t \in tracked' \cup lost'
         \/ ~ is_activated[t] /\ state'[t] = "Removed"
         \/ t \in removed
         \/ \E s \in tracked' \cup lost' : Life(s) >= Life(t)
<1> DEFINE old == first \cup second \cup third
           missing == Remaining(first) \ second
           gone == (Unconfirmed \ third) \cup Expired(old, frame_id + 1)
           seen == old \cup Born(fresh)
           still == StillLost(seen, missing)
<1>1. PICK overlap \in SUBSET (seen \X still) :
        /\ tracked' = seen \ DoubleTracked(overlap)
        /\ lost' = still \ Double(overlap)
  BY Zenon DEF Associate, Lists
<1>2. TrackInv'
  BY AssociateKeeps
<1>3. TypeOK /\ frame_id' \in Nat
  BY <1>2 DEF TrackInv, TypeOK
<1>4. /\ Remaining(first) = (tracked \ Unconfirmed) \ first
      /\ old \subseteq 1..track_id_count
      /\ tracked \cup lost \subseteq 1..track_id_count
  <2>1. Remaining(first) = (tracked \ Unconfirmed) \ first
    BY Apart, Zenon
  <2>2. first \cup second \cup third \subseteq 1..track_id_count
    BY Apart, Zenon
  <2>3. QED
    BY <2>1, <2>2 DEF TrackInv, BirthInv
<1>5. \A s \in seen \cup still : Life(s) \in Int /\ Life(s) <= frame_id'
  <2>1. seen \cup still \subseteq 1..track_id_count'
    <3>1. track_id_count' = track_id_count + fresh /\ track_id_count \in Nat
      BY <1>3 DEF Associate, TypeOK
    <3>2. Born(fresh) \subseteq 1..track_id_count' /\ 1..track_id_count \subseteq 1..track_id_count'
      BY <3>1 DEF Born
    <3>3. still \subseteq lost \cup tracked
      BY <1>4 DEF StillLost
    <3>4. QED
      BY <1>4, <3>2, <3>3
  <2>2. \A s \in 1..track_id_count' : /\ 1 <= start'[s] /\ last'[s] <= frame_id'
                                      /\ s \in Id
    BY <1>2, TrackAssumption DEF TrackInv, BirthInv, TypeOK, Id
  <2>3. \A s \in Id : last'[s] \in Nat /\ start'[s] \in Nat
    BY <1>2 DEF TrackInv, TypeOK
  <2>4. ASSUME NEW s \in seen \cup still PROVE Life(s) \in Int /\ Life(s) <= frame_id'
    <3>1. s \in Id /\ 1 <= start'[s] /\ last'[s] <= frame_id'
      BY <2>1, <2>2
    <3>2. last'[s] \in Nat /\ start'[s] \in Nat
      BY <3>1, <2>3
    <3>3. QED
      BY <3>1, <3>2, <1>3 DEF Life
  <2>5. QED
    BY <2>4
<1>6. CASE t \in seen \cup still
  <2> HIDE DEF seen, still
  <2>1. \E s \in (seen \ DoubleTracked(overlap)) \cup (still \ Double(overlap)) :
          Life(s) >= Life(t)
    BY <1>3, <1>5, <1>6, OneStays
  <2>2. QED
    BY <1>1, <2>1
<1>7. CASE t \notin seen \cup still /\ t \notin removed
  <2>1. t \in Unconfirmed \ third
    BY <1>4, <1>7 DEF StillLost, Unconfirmed
  <2>2. ~ is_activated[t]
    BY <2>1, Zenon DEF Unconfirmed
  <2>3. t \in gone /\ t \notin seen /\ t \in Id
    BY <2>1, <1>3, <1>7 DEF Unconfirmed, TypeOK
  <2>4. state' = [i \in Id |-> IF i \in seen THEN "Tracked" ELSE IF i \in gone THEN "Removed"
                               ELSE IF i \in missing THEN "Lost" ELSE state[i]]
    BY Zenon DEF Associate, Mark
  <2>5. state'[t] = "Removed"
    <3> HIDE DEF seen, gone, missing
    <3>1. QED
      BY <2>3, <2>4
  <2>6. QED
    BY <2>2, <2>5, Zenon
<1>8. QED
  BY <1>6, <1>7, Zenon

(***************************************************************************)
(* For any number of tracks: an activated track leaves the lists only      *)
(* because it had expired or for the sake of one that stays and has been   *)
(* followed for at least as long.                                          *)
(***************************************************************************)
THEOREM LongestTracksStay == Spec => LongestStays
<1>1. ASSUME TrackInv, [Next]_vars
      PROVE  [\A t \in tracked \cup lost :
               \/ t \in tracked' \cup lost'
               \/ ~ is_activated[t] /\ state'[t] = "Removed"
               \/ t \in removed
               \/ \E s \in tracked' \cup lost' : Life(s) >= Life(t)]_vars
  <2>1. CASE Update
    <3>1. PICK first \in SUBSET Pool, third \in SUBSET Unconfirmed, fresh \in 0..MaxDetections :
            /\ track_id_count + fresh <= MaxTracks
            /\ \E second \in SUBSET Remaining(first) : Associate(first, second, third, fresh)
      BY <2>1, Zenon DEF Update
    <3>2. PICK second \in SUBSET Remaining(first) : Associate(first, second, third, fresh)
      BY <3>1
    <3>3. fresh \in Nat
      BY TrackAssumption
    <3>4. \A t \in tracked \cup lost :
               \/ t \in tracked' \cup lost'
               \/ ~ is_activated[t] /\ state'[t] = "Removed"
               \/ t \in removed
               \/ \E s \in tracked' \cup lost' : Life(s) >= Life(t)
      <4> TAKE t \in tracked \cup lost
      <4>1. QED
        BY <1>1, <3>1, <3>2, <3>3, AssociateLongest
    <3>5. QED
      BY <3>4, Zenon
  <2>2. CASE UNCHANGED vars
    BY <2>2
  <2>3. QED
    BY <1>1, <2>1, <2>2 DEF Next
<1>2. QED
  BY <1>1, TrackInvariant, PTL DEF Spec, LongestStays

-----------------------------------------------------------------------------
(***************************************************************************)
(* The assignment.                                                         *)
(***************************************************************************)

LapjvType ==
  /\ rows \in Nat /\ cols \in Nat
  /\ cost \in [Index -> [Index -> Nat]]
  /\ pc \in {"start", "transfer", "reduce", "path", "find", "scan", "flip", "thrown", "solved", "done"}
  /\ x \in [Index -> Index \cup {None}] /\ y \in [Index -> Index \cup {None}]
  /\ v \in [Index -> Int]
  /\ free \in [Index -> Index]
  /\ row \in Nat /\ nFree \in 0..n /\ current \in Nat /\ new \in Nat
  /\ rr \in Nat /\ round \in Nat /\ pending \in Nat /\ flips \in Nat
  /\ d \in [Index -> Int] /\ pred \in [Index -> Index]
  /\ ready \subseteq Index /\ scanning \subseteq Index
  /\ at \in Index \cup {None, 0}

\* A column of row i that is not dearer than any other at the prices p.
Fair(p, i, j) == \A k \in Index : cost[i][j] - p[j] <= cost[i][k] - p[k]

Below(p) == \A i, j \in Index : p[j] <= cost[i][j]

\* The rows on the places P of the list are those that no column has, but for one column
\* that is about to be given another row.
ListKept(f, P, yy, xx, hole) ==
  /\ \A k, l \in P : f[k] = f[l] => k = l
  /\ \A k \in P, j \in Index \ {hole} : yy[j] # f[k]
  /\ \A i \in Index : (\E j \in Index \ {hole} : yy[j] = i) \/ (\E k \in P : f[k] = i)
  /\ \A j \in Index \ {hole} : yy[j] >= 0 => xx[yy[j]] = j

Places ==
  IF pc = "reduce" THEN (0..(new - 1)) \cup (current..(nFree - 1))
  ELSE IF pc \in {"path", "find", "scan", "flip"} THEN pending..(nFree - 1)
  ELSE {}

Phases ==
  /\ pc \in {"start", "done"} \/ (rows > 0 /\ cols > 0)
  /\ rows = 0 \/ cols = 0 => \A j \in Index : y[j] = None
  /\ pc = "start" => row = 0 /\ nFree = 0 /\ \A j \in Index : v[j] = 0 /\ y[j] = None
  /\ pc \in {"start", "transfer"} => current = 0 /\ new = 0
  /\ pc \in {"start", "transfer", "reduce"} => pending = 0
  /\ pc = "reduce" => new <= current /\ current <= nFree
  /\ pc \in {"find", "scan", "flip"} => pending < nFree
  /\ pc = "find" => scanning = {}

\* The transfer: columns not yet looked at have the price of their row's cost.
Transferring ==
  pc = "transfer" =>
    /\ row <= n /\ nFree <= row
    /\ \A i \in Index : x[i] >= 0 => y[x[i]] = i
    /\ \A j \in Index : y[j] >= 0 => x[y[j]] = j
    /\ \A i \in Index : (x[i] < 0 <=> Won(i) = {}) /\ (Won(i) # {} => x[i] \in Won(i))
    /\ \A i \in Index : i >= row /\ x[i] >= 0 => v[x[i]] = cost[i][x[i]]
    /\ \A k \in 0..(nFree - 1) : free[k] < row /\ x[free[k]] < 0
    /\ \A k, l \in 0..(nFree - 1) : free[k] = free[l] => k = l
    /\ \A i \in Index : i < row /\ x[i] < 0 => \E k \in 0..(nFree - 1) : free[k] = i

Listing ==
  pc \in {"reduce", "path", "find", "scan", "flip", "solved", "done"} /\ rows > 0 /\ cols > 0
    => ListKept(free, Places, y, x, IF pc = "flip" THEN at ELSE None)

Way(dd, j, k) == (cost[y[j]][k] - v[k]) - ((cost[y[j]][j] - v[j]) - dd[j])

\* The tree of shortest paths, R the columns whose row was scanned and S those to be scanned
Tree(R, S, dd, pp) ==
  /\ R \cap S = {} /\ \A j \in R \cup S : y[j] >= 0
  /\ \A k \in Index : dd[k] <= cost[Root][k] - v[k] /\ \A j \in R : dd[k] <= Way(dd, j, k)
  /\ \A j \in R \cup S, k \in Index \ R : dd[j] <= dd[k]
  /\ \A k \in Index : \/ pp[k] = Root /\ dd[k] = cost[Root][k] - v[k]
                      \/ \E j \in R : pp[k] = y[j] /\ dd[k] = Way(dd, j, k)

\* Every column was reached from the root or from a column scanned before it.
Ranked(R, pp, r, m) ==
  /\ \A k \in Index : (k \in R => r[k] < m) /\ (k \notin R => r[k] = m)
  /\ \A k \in Index : pp[k] = Root \/ \E j \in R : pp[k] = y[j] /\ r[j] < r[k]

Searching ==
  pc \in {"find", "scan"} =>
    /\ Tree(ready, scanning, d, pred)
    /\ \E r \in [Index -> Nat], m \in Nat : Ranked(ready, pred, r, m)

Tight == {k \in Index : Fair(v, pred[k], k)}

Back(r) ==
  \A k \in Tight : r[k] <= r[at] =>
     pred[k] = Root \/ \E j \in Tight : r[j] < r[k] /\ y[j] = pred[k]

Flipping ==
  pc = "flip" => at \in Tight /\ \E r \in [Index -> Nat] : Back(r)

LapjvInd ==
  LapjvType /\ Below(v) /\ Phases /\ Transferring /\ Listing /\ Searching /\ Flipping /\ PricesFair

-----------------------------------------------------------------------------
(***************************************************************************)
(* Least elements.                                                         *)
(***************************************************************************)
LEMMA LeastFacts ==
  ASSUME NEW S, S \subseteq Nat, S # {}, NEW f, \A a \in S : f[a] \in Nat
  PROVE  Least(S, f) \in S /\ \A b \in S : f[Least(S, f)] <= f[b]
<1> DEFINE T == {f[a] : a \in S}
<1>1. PICK m \in T : \A k \in T : m <= k
  BY LeastOfNat
<1> DEFINE U == {a \in S : f[a] = m}
<1>2. U \subseteq Nat /\ U # {}
  BY <1>1
<1>3. PICK a \in U : \A b \in U : a <= b
  BY <1>2, LeastOfNat, Zenon
<1>4. a \in S /\ f[a] = m /\ \A b \in S : f[b] \in T
  BY <1>3
<1>5. \A b \in S : f[a] < f[b] \/ (f[a] = f[b] /\ a <= b)
  <2> SUFFICES ASSUME NEW b \in S PROVE f[a] < f[b] \/ (f[a] = f[b] /\ a <= b)
    OBVIOUS
  <2>1. m <= f[b] /\ m \in Nat /\ f[b] \in Nat
    BY <1>1, <1>4
  <2>2. CASE f[b] = m
    <3>1. b \in U
      BY <2>2
    <3> QED BY <1>3, <1>4, <2>2, <3>1
  <2>3. CASE f[b] # m
    BY <1>4, <2>1, <2>3
  <2> QED BY <2>2, <2>3
<1> DEFINE l == Least(S, f)
<1>6. l \in S /\ \A b \in S : f[l] < f[b] \/ (f[l] = f[b] /\ l <= b)
  BY <1>4, <1>5, Zenon DEF Least
<1> HIDE DEF l
<1>7. \A b \in S : f[l] <= f[b]
  <2> SUFFICES ASSUME NEW b \in S PROVE f[l] <= f[b]
    OBVIOUS
  <2>1. f[l] \in Nat /\ f[b] \in Nat
    BY <1>6
  <2> QED BY <1>6, <2>1
<1> QED BY <1>6, <1>7 DEF l

LEMMA MinFacts ==
  ASSUME NEW T, T \subseteq Nat, T # {}
  PROVE  Min(T) \in T /\ \A k \in T : Min(T) <= k
<1>1. \E m \in T : \A k \in T : m <= k
  BY LeastOfNat
<1> QED BY <1>1, Zenon DEF Min

LEMMA MaxFacts ==
  ASSUME NEW b \in Nat, NEW S, S \subseteq 0..b, S # {}
  PROVE  Max(S) \in S
<1> DEFINE T == {b - s : s \in S}
<1>1. T \subseteq Nat /\ T # {}
  OBVIOUS
<1>2. PICK m \in T : \A k \in T : m <= k
  BY <1>1, LeastOfNat, Zenon
<1>3. PICK s \in S : m = b - s
  BY <1>2
<1>4. \A k \in S : b - s <= b - k
  BY <1>2, <1>3
<1>5. \A k \in S : s >= k
  BY <1>3, <1>4
<1> QED BY <1>3, <1>5, Zenon DEF Max

LEMMA IndexFacts ==
  ASSUME rows \in Nat, cols \in Nat
  PROVE  /\ n \in Nat /\ None \notin Index /\ Index \subseteq Nat /\ None \in Int /\ None < 0
         /\ \A i \in Index : i \in Nat /\ i \in Int /\ i >= 0 /\ i < n
         /\ \A i \in Nat : i < n => i \in Index
         /\ rows > 0 /\ cols > 0 => 0 \in Index /\ n >= 2 /\ \A i \in Index : Index \ {i} # {}
<1>1. n \in Nat /\ Index = 0..(n - 1) /\ None = -1
  BY DEF n, Index, None
<1>2. rows > 0 /\ cols > 0 => n >= 2
  BY DEF n
<1>3. n >= 2 => 0 \in Index /\ 1 \in Index
  BY <1>1
<1>4. \A i \in Index : i \in Nat /\ i \in Int /\ i >= 0 /\ i < n
  BY <1>1
<1>5. None \notin Index /\ Index \subseteq Nat /\ None \in Int /\ None < 0
      /\ \A i \in Nat : i < n => i \in Index
  BY <1>1
<1> QED BY <1>1, <1>2, <1>3, <1>4, <1>5

-----------------------------------------------------------------------------
(***************************************************************************)
(* The list of free rows.                                                  *)
(***************************************************************************)

\* A row from the list takes the column that was without one.
LEMMA GiveRow ==
  ASSUME rows \in Nat, cols \in Nat,
         NEW f, NEW P, NEW yy \in [Index -> Index \cup {None}],
         NEW xx \in [Index -> Index \cup {None}], NEW h \in Index,
         ListKept(f, P, yy, xx, h), NEW p \in P, f[p] \in Index
  PROVE  ListKept(f, P \ {p}, [yy EXCEPT ![h] = f[p]], [xx EXCEPT ![f[p]] = h], None)
<1> DEFINE i == f[p]
           y1 == [yy EXCEPT ![h] = i]
           x1 == [xx EXCEPT ![i] = h]
<1>0. /\ \A k, l \in P : f[k] = f[l] => k = l
      /\ \A k \in P, j \in Index \ {h} : yy[j] # f[k]
      /\ \A r \in Index : (\E j \in Index \ {h} : yy[j] = r) \/ (\E k \in P : f[k] = r)
      /\ \A j \in Index \ {h} : yy[j] >= 0 => xx[yy[j]] = j
  BY DEF ListKept
<1>1. /\ y1[h] = i /\ \A j \in Index \ {h} : y1[j] = yy[j]
      /\ x1[i] = h /\ \A r \in Index \ {i} : x1[r] = xx[r]
  OBVIOUS
<1>2. Index \ {None} = Index /\ i \in Index
  BY IndexFacts
<1>3. \A j \in Index : j = h \/ j \in Index \ {h}
  OBVIOUS
<1> HIDE DEF i, y1, x1
<1>4. i = f[p]
  BY DEF i
<1>5. \A k \in P \ {p}, j \in Index : y1[j] # f[k]
  BY <1>0, <1>1, <1>3, <1>4
<1>6. \A r \in Index : (\E j \in Index : y1[j] = r) \/ (\E k \in P \ {p} : f[k] = r)
  <2> SUFFICES ASSUME NEW r \in Index
               PROVE  (\E j \in Index : y1[j] = r) \/ (\E k \in P \ {p} : f[k] = r)
    OBVIOUS
  <2>1. CASE r = i
    BY <1>1, <2>1
  <2>2. CASE r # i
    BY <1>0, <1>1, <1>4, <2>2
  <2> QED BY <2>1, <2>2
<1>7. \A j \in Index : y1[j] >= 0 => x1[y1[j]] = j
  <2> SUFFICES ASSUME NEW j \in Index, y1[j] >= 0 PROVE x1[y1[j]] = j
    OBVIOUS
  <2>1. CASE j = h
    BY <1>1, <2>1
  <2>2. CASE j # h
    <3>1. y1[j] = yy[j] /\ yy[j] # i
      BY <1>0, <1>1, <1>4, <2>2
    <3>2. yy[j] \in Index
      BY <3>1, IndexFacts
    <3> QED BY <1>0, <1>1, <2>2, <3>1, <3>2
  <2> QED BY <2>1, <2>2
<1>8. ListKept(f, P \ {p}, y1, x1, None)
  BY <1>0, <1>2, <1>5, <1>6, <1>7 DEF ListKept
<1> QED BY <1>8 DEF y1, x1, i

\* A column without a row can be the one left out.
LEMMA OpenHole ==
  ASSUME rows \in Nat, cols \in Nat,
         NEW f, NEW P, NEW yy \in [Index -> Index \cup {None}], NEW xx, NEW h \in Index,
         ListKept(f, P, yy, xx, None), yy[h] < 0
  PROVE  ListKept(f, P, yy, xx, h)
<1>1. Index \ {None} = Index
  BY IndexFacts
<1>2. \A i \in Index : yy[h] # i
  BY IndexFacts
<1> QED BY <1>1, <1>2 DEF ListKept

\* A row from the list takes a column from another row, which is put on the list.
LEMMA TradeRow ==
  ASSUME rows \in Nat, cols \in Nat,
         NEW f \in [Index -> Index], NEW P, P \subseteq Index,
         NEW yy \in [Index -> Index \cup {None}], NEW xx \in [Index -> Index \cup {None}],
         NEW h \in Index, NEW p \in P, NEW q \in Index, q \notin P \ {p},
         ListKept(f, P, yy, xx, None), yy[h] >= 0
  PROVE  ListKept([f EXCEPT ![q] = yy[h]], (P \ {p}) \cup {q},
                  [yy EXCEPT ![h] = f[p]], [xx EXCEPT ![f[p]] = h], None)
<1> DEFINE i == f[p]
           g == [f EXCEPT ![q] = yy[h]]
           y1 == [yy EXCEPT ![h] = i]
           x1 == [xx EXCEPT ![i] = h]
           Q == (P \ {p}) \cup {q}
<1>0. Index \ {None} = Index /\ yy[h] \in Index /\ i \in Index
  BY IndexFacts
<1>1. /\ \A k, l \in P : f[k] = f[l] => k = l
      /\ \A k \in P, j \in Index : yy[j] # f[k]
      /\ \A r \in Index : (\E j \in Index : yy[j] = r) \/ (\E k \in P : f[k] = r)
      /\ \A j \in Index : yy[j] >= 0 => xx[yy[j]] = j
  BY <1>0 DEF ListKept
<1>2. /\ g[q] = yy[h] /\ \A k \in P \ {p} : g[k] = f[k] /\ k # q
      /\ y1[h] = i /\ \A c \in Index \ {h} : y1[c] = yy[c]
      /\ x1[i] = h /\ \A r \in Index \ {i} : x1[r] = xx[r]
  BY <1>0
<1>3. i = f[p] /\ \A k \in Q : k = q \/ k \in P \ {p}
  OBVIOUS
<1> HIDE DEF g, y1, x1, i
<1>4. \A k, l \in Q : g[k] = g[l] => k = l
  <2> SUFFICES ASSUME NEW k \in Q, NEW l \in Q, g[k] = g[l] PROVE k = l
    OBVIOUS
  <2>1. \A m \in P \ {p} : g[m] = f[m] /\ f[m] # yy[h]
    BY <1>1, <1>2
  <2> QED BY <1>1, <1>2, <1>3, <2>1
<1>5. \A k \in Q, j \in Index : y1[j] # g[k]
  <2> SUFFICES ASSUME NEW k \in Q, NEW j \in Index, y1[j] = g[k] PROVE FALSE
    OBVIOUS
  <2>1. CASE j = h /\ k = q
    BY <1>1, <1>2, <1>3, <2>1
  <2>2. CASE j = h /\ k \in P \ {p}
    BY <1>1, <1>2, <1>3, <2>2
  <2>3. CASE j # h /\ k = q
    <3>1. yy[j] = yy[h]
      BY <1>2, <2>3
    <3>2. xx[yy[j]] = j /\ xx[yy[h]] = h
      BY <1>1, <3>1
    <3> QED BY <2>3, <3>1, <3>2
  <2>4. CASE j # h /\ k \in P \ {p}
    BY <1>1, <1>2, <2>4
  <2> QED BY <1>3, <2>1, <2>2, <2>3, <2>4
<1>6. \A r \in Index : (\E j \in Index : y1[j] = r) \/ (\E k \in Q : g[k] = r)
  <2> SUFFICES ASSUME NEW r \in Index
               PROVE  (\E j \in Index : y1[j] = r) \/ (\E k \in Q : g[k] = r)
    OBVIOUS
  <2>1. CASE r = i
    BY <1>2, <2>1
  <2>2. CASE r = yy[h]
    BY <1>2, <2>2
  <2>3. CASE r # i /\ r # yy[h] /\ \E j \in Index : yy[j] = r
    BY <1>2, <2>3
  <2>4. CASE r # i /\ r # yy[h] /\ \E k \in P : f[k] = r
    BY <1>2, <1>3, <2>4
  <2> QED BY <1>1, <2>1, <2>2, <2>3, <2>4
<1>7. \A j \in Index : y1[j] >= 0 => x1[y1[j]] = j
  <2> SUFFICES ASSUME NEW j \in Index, y1[j] >= 0 PROVE x1[y1[j]] = j
    OBVIOUS
  <2>1. CASE j = h
    BY <1>2, <2>1
  <2>2. CASE j # h
    <3>1. y1[j] = yy[j] /\ yy[j] # i
      BY <1>1, <1>2, <1>3, <2>2
    <3>2. yy[j] \in Index
      BY <3>1, IndexFacts
    <3> QED BY <1>1, <1>2, <2>2, <3>1, <3>2
  <2> QED BY <2>1, <2>2
<1>8. ListKept(g, Q, y1, x1, None)
  BY <1>0, <1>4, <1>5, <1>6, <1>7 DEF ListKept
<1> QED BY <1>8 DEF g, y1, x1, i

\* The column left out takes the row of another, which is left out in its place.
LEMMA PassHole ==
  ASSUME rows \in Nat, cols \in Nat,
         NEW f, NEW P, NEW yy \in [Index -> Index \cup {None}],
         NEW xx \in [Index -> Index \cup {None}], NEW h \in Index, NEW j \in Index, j # h,
         ListKept(f, P, yy, xx, h), yy[j] \in Index
  PROVE  /\ xx[yy[j]] = j
         /\ ListKept(f, P, [yy EXCEPT ![h] = yy[j]], [xx EXCEPT ![yy[j]] = h], j)
<1> DEFINE i == yy[j]
<1> DEFINE y1 == [yy EXCEPT ![h] = i]
           x1 == [xx EXCEPT ![i] = h]
<1>7. i = yy[j] /\ i \in Index
  OBVIOUS
<1>0. /\ \A k, l \in P : f[k] = f[l] => k = l
      /\ \A k \in P, c \in Index \ {h} : yy[c] # f[k]
      /\ \A r \in Index : (\E c \in Index \ {h} : yy[c] = r) \/ (\E k \in P : f[k] = r)
      /\ \A c \in Index \ {h} : yy[c] >= 0 => xx[yy[c]] = c
  BY DEF ListKept
<1>1. /\ y1[h] = i /\ \A c \in Index \ {h} : y1[c] = yy[c]
      /\ x1[i] = h /\ \A r \in Index \ {i} : x1[r] = xx[r]
  OBVIOUS
<1>2. xx[i] = j
  BY <1>0, IndexFacts
<1> HIDE DEF y1, x1, i
<1>3. \A k \in P, c \in Index \ {j} : y1[c] # f[k]
  BY <1>0, <1>1, <1>7
<1>4. \A r \in Index : (\E c \in Index \ {j} : y1[c] = r) \/ (\E k \in P : f[k] = r)
  BY <1>0, <1>1, <1>7
<1>5. \A c \in Index \ {j} : y1[c] >= 0 => x1[y1[c]] = c
  <2> SUFFICES ASSUME NEW c \in Index \ {j}, y1[c] >= 0 PROVE x1[y1[c]] = c
    OBVIOUS
  <2>1. CASE c = h
    BY <1>1, <2>1
  <2>2. CASE c # h
    <3>1. y1[c] = yy[c] /\ yy[c] # i
      BY <1>0, <1>1, <1>2, <1>7, <2>2
    <3>2. yy[c] \in Index
      BY <3>1, IndexFacts
    <3> QED BY <1>0, <1>1, <2>2, <3>1, <3>2
  <2> QED BY <2>1, <2>2
<1>6. ListKept(f, P, y1, x1, j)
  BY <1>0, <1>3, <1>4, <1>5 DEF ListKept
<1> QED BY <1>2, <1>6 DEF y1, x1, i

-----------------------------------------------------------------------------
(***************************************************************************)
(* The search for a shortest path.                                         *)
(***************************************************************************)

\* Scanning column j: the columns to which it shortens the way.
Near(R, S, dd, j) == {k \in Index \ (R \cup S) : Way(dd, j, k) < dd[k]}
DistBy(R, S, dd, j) == [k \in Index |-> IF k \in Near(R, S, dd, j) THEN Way(dd, j, k) ELSE dd[k]]
PredBy(R, S, dd, pp, j) == [k \in Index |-> IF k \in Near(R, S, dd, j) THEN y[j] ELSE pp[k]]

\* One column of the SCAN list: nothing behind it is nearer.
LEMMA ShortenTree ==
  ASSUME LapjvType, Root \in Index,
         NEW R, NEW S, R \subseteq Index, S \subseteq Index,
         NEW dd \in [Index -> Int], NEW pp \in [Index -> Index],
         Tree(R, S, dd, pp), NEW j \in S, Fair(v, y[j], j)
  PROVE  /\ Tree(R \cup {j}, S \ {j}, DistBy(R, S, dd, j), PredBy(R, S, dd, pp, j))
         /\ DistBy(R, S, dd, j) \in [Index -> Int]
         /\ PredBy(R, S, dd, pp, j) \in [Index -> Index]
         /\ \A k \in Index \ R : dd[j] <= DistBy(R, S, dd, j)[k]
<1> DEFINE near == Near(R, S, dd, j)
           d1 == DistBy(R, S, dd, j)
           p1 == PredBy(R, S, dd, pp, j)
<1>00. /\ near = {k \in Index \ (R \cup S) : Way(dd, j, k) < dd[k]}
       /\ d1 = [k \in Index |-> IF k \in near THEN Way(dd, j, k) ELSE dd[k]]
       /\ p1 = [k \in Index |-> IF k \in near THEN y[j] ELSE pp[k]]
  BY DEF Near, DistBy, PredBy
<1> HIDE DEF near, d1, p1
<1>0. /\ R \cap S = {} /\ \A c \in R \cup S : y[c] >= 0
      /\ \A k \in Index : dd[k] <= cost[Root][k] - v[k] /\ \A c \in R : dd[k] <= Way(dd, c, k)
      /\ \A c \in R \cup S, k \in Index \ R : dd[c] <= dd[k]
      /\ \A k \in Index : \/ pp[k] = Root /\ dd[k] = cost[Root][k] - v[k]
                          \/ \E c \in R : pp[k] = y[c] /\ dd[k] = Way(dd, c, k)
  BY DEF Tree
<1>1. /\ j \in Index /\ \A c \in R \cup S : c \in Index /\ y[c] \in Index
      /\ \A i, k \in Index : cost[i][k] \in Int
      /\ \A k \in Index : v[k] \in Int /\ dd[k] \in Int
  BY <1>0, IndexFacts DEF LapjvType
<1>2. \A c \in R \cup S, k \in Index :
        Way(dd, c, k) = (cost[y[c]][k] - v[k]) - ((cost[y[c]][c] - v[c]) - dd[c])
        /\ Way(dd, c, k) \in Int
  BY <1>1 DEF Way
<1>3. \A k \in Index : Way(dd, j, k) >= dd[j]
  <2> SUFFICES ASSUME NEW k \in Index PROVE Way(dd, j, k) >= dd[j]
    OBVIOUS
  <2>1. cost[y[j]][j] - v[j] <= cost[y[j]][k] - v[k]
    BY DEF Fair
  <2>2. /\ cost[y[j]][j] \in Int /\ cost[y[j]][k] \in Int
        /\ v[j] \in Int /\ v[k] \in Int /\ dd[j] \in Int
    BY <1>1
  <2> QED BY <1>2, <2>1, <2>2
<1>4. /\ \A k \in Index : d1[k] = IF k \in near THEN Way(dd, j, k) ELSE dd[k]
      /\ \A k \in Index : p1[k] = IF k \in near THEN y[j] ELSE pp[k]
  BY <1>00
<1>5. d1 \in [Index -> Int] /\ p1 \in [Index -> Index]
  BY <1>00, <1>1, <1>2
<1>6. /\ \A k \in near : k \in Index /\ k \notin R /\ k \notin S /\ Way(dd, j, k) < dd[k]
      /\ \A k \in Index : k \notin R /\ k \notin S /\ k \notin near => dd[k] <= Way(dd, j, k)
  BY <1>00, <1>1, <1>2
<1>7. \A k \in R \cup S : dd[k] <= dd[j]
  BY <1>0, <1>1
<1>8. \A k \in Index : d1[k] <= dd[k] /\ d1[k] <= Way(dd, j, k)
  <2> SUFFICES ASSUME NEW k \in Index PROVE d1[k] <= dd[k] /\ d1[k] <= Way(dd, j, k)
    OBVIOUS
  <2>1. dd[k] \in Int /\ dd[j] \in Int /\ Way(dd, j, k) \in Int
    BY <1>1, <1>2
  <2>2. CASE k \in near
    BY <1>4, <1>6, <2>1, <2>2
  <2>3. CASE k \in R \cup S
    BY <1>3, <1>4, <1>6, <1>7, <2>1, <2>3
  <2>4. CASE k \notin near /\ k \notin R \cup S
    BY <1>4, <1>6, <2>1, <2>4
  <2> QED BY <2>2, <2>3, <2>4
<1>9. \A k \in Index \ R : dd[j] <= d1[k]
  <2> SUFFICES ASSUME NEW k \in Index \ R PROVE dd[j] <= d1[k]
    OBVIOUS
  <2>1. dd[j] <= dd[k] /\ dd[j] <= Way(dd, j, k)
    BY <1>0, <1>1, <1>2, <1>3
  <2> QED BY <1>4, <2>1
<1>10. \A c \in R \cup {j} : d1[c] = dd[c] /\ \A k \in Index : Way(d1, c, k) = Way(dd, c, k)
  <2>1. \A c \in R \cup {j} : c \notin near /\ c \in Index
    BY <1>1, <1>6
  <2> QED BY <1>4, <2>1 DEF Way
<1>11. \A k \in Index : /\ d1[k] <= cost[Root][k] - v[k]
                        /\ \A c \in R \cup {j} : d1[k] <= Way(d1, c, k)
  <2> SUFFICES ASSUME NEW k \in Index
               PROVE  /\ d1[k] <= cost[Root][k] - v[k]
                      /\ \A c \in R \cup {j} : d1[k] <= Way(dd, c, k)
    BY <1>10
  <2>1. d1[k] \in Int /\ dd[k] \in Int /\ cost[Root][k] \in Int /\ v[k] \in Int
        /\ \A c \in R \cup {j} : Way(dd, c, k) \in Int
    BY <1>1, <1>2, <1>5
  <2>2. d1[k] <= dd[k] /\ dd[k] <= cost[Root][k] - v[k] /\ d1[k] <= Way(dd, j, k)
        /\ \A c \in R : dd[k] <= Way(dd, c, k)
    BY <1>0, <1>8
  <2> QED BY <2>1, <2>2
<1>12. \A c \in (R \cup {j}) \cup (S \ {j}), k \in Index \ (R \cup {j}) : d1[c] <= d1[k]
  <2> SUFFICES ASSUME NEW c \in R \cup S, NEW k \in Index \ (R \cup {j})
               PROVE  d1[c] <= d1[k]
    OBVIOUS
  <2>1. d1[c] = dd[c]
    BY <1>1, <1>4, <1>6
  <2>2. dd[c] <= dd[j] /\ dd[j] <= d1[k]
    BY <1>7, <1>9
  <2>3. dd[c] \in Int /\ dd[j] \in Int /\ d1[k] \in Int
    BY <1>1, <1>5
  <2> QED BY <2>1, <2>2, <2>3
<1>13. \A k \in Index : \/ p1[k] = Root /\ d1[k] = cost[Root][k] - v[k]
                        \/ \E c \in R \cup {j} : p1[k] = y[c] /\ d1[k] = Way(d1, c, k)
  <2> SUFFICES ASSUME NEW k \in Index
               PROVE  \/ p1[k] = Root /\ d1[k] = cost[Root][k] - v[k]
                      \/ \E c \in R \cup {j} : p1[k] = y[c] /\ d1[k] = Way(d1, c, k)
    OBVIOUS
  <2>1. CASE k \in near
    <3>1. p1[k] = y[j] /\ d1[k] = Way(d1, j, k)
      BY <1>4, <1>10, <2>1
    <3> QED BY <3>1
  <2>2. CASE k \notin near /\ \E c \in R : pp[k] = y[c] /\ dd[k] = Way(dd, c, k)
    <3>1. PICK c \in R : pp[k] = y[c] /\ dd[k] = Way(dd, c, k)
      BY <2>2
    <3>2. p1[k] = y[c] /\ d1[k] = Way(d1, c, k)
      BY <1>4, <1>10, <2>2, <3>1
    <3> QED BY <3>2
  <2>3. CASE k \notin near /\ pp[k] = Root /\ dd[k] = cost[Root][k] - v[k]
    BY <1>4, <2>3
  <2> QED BY <1>0, <2>1, <2>2, <2>3
<1>14. (R \cup {j}) \cap (S \ {j}) = {} /\ \A c \in (R \cup {j}) \cup (S \ {j}) : y[c] >= 0
  BY <1>0
<1>15. Tree(R \cup {j}, S \ {j}, d1, p1)
  BY <1>11, <1>12, <1>13, <1>14, Zenon DEF Tree
<1> QED BY <1>5, <1>9, <1>15 DEF d1, p1

\* The column scanned ranks before all that it may lead to.
LEMMA ShortenRank ==
  ASSUME NEW R, NEW j \in Index, j \notin R, y[j] >= 0, R \subseteq Index,
         NEW pp, NEW near \in SUBSET Index, near \cap (R \cup {j}) = {},
         NEW p1, p1 = [k \in Index |-> IF k \in near THEN y[j] ELSE pp[k]],
         \E r \in [Index -> Nat], m \in Nat : Ranked(R, pp, r, m)
  PROVE  \E r \in [Index -> Nat], m \in Nat : Ranked(R \cup {j}, p1, r, m)
<1>1. PICK r \in [Index -> Nat], m \in Nat : Ranked(R, pp, r, m)
  OBVIOUS
<1>2. /\ \A k \in Index : (k \in R => r[k] < m) /\ (k \notin R => r[k] = m)
      /\ \A k \in Index : pp[k] = Root \/ \E c \in R : pp[k] = y[c] /\ r[c] < r[k]
  BY <1>1 DEF Ranked
<1> DEFINE r1 == [k \in Index |-> IF k \in R \cup {j} THEN r[k] ELSE m + 1]
<1>3. r1 \in [Index -> Nat] /\ m + 1 \in Nat
  OBVIOUS
<1>4. \A k \in Index : r1[k] = IF k \in R \cup {j} THEN r[k] ELSE m + 1
  OBVIOUS
<1> HIDE DEF r1
<1>5. \A k \in Index : (k \in R \cup {j} => r1[k] < m + 1) /\ (k \notin R \cup {j} => r1[k] = m + 1)
  BY <1>2, <1>4
<1>6. \A k \in Index : p1[k] = Root \/ \E c \in R \cup {j} : p1[k] = y[c] /\ r1[c] < r1[k]
  <2> SUFFICES ASSUME NEW k \in Index
               PROVE  p1[k] = Root \/ \E c \in R \cup {j} : p1[k] = y[c] /\ r1[c] < r1[k]
    OBVIOUS
  <2>1. CASE k \in near
    <3>1. p1[k] = y[j] /\ r1[k] = m + 1 /\ r1[j] = m
      BY <1>2, <1>4, <2>1
    <3> QED BY <3>1
  <2>2. CASE k \notin near /\ pp[k] # Root
    <3>1. PICK c \in R : pp[k] = y[c] /\ r[c] < r[k]
      BY <1>2, <2>2
    <3>2. p1[k] = y[c] /\ r1[c] = r[c] /\ r[c] \in Nat /\ r[k] \in Nat
      BY <1>4, <2>2, <3>1
    <3>3. r[k] <= r1[k]
      BY <1>2, <1>4, <3>2
    <3> QED BY <1>3, <3>1, <3>2, <3>3
  <2>3. CASE k \notin near /\ pp[k] = Root
    BY <2>3
  <2> QED BY <2>1, <2>2, <2>3
<1>7. Ranked(R \cup {j}, p1, r1, m + 1)
  BY <1>5, <1>6, Zenon DEF Ranked
<1> QED BY <1>3, <1>7

\* The prices when the search ends at column e.
Raised(R, dd, e) == [k \in Index |-> IF k \in R THEN v[k] + dd[k] - dd[e] ELSE v[k]]

\* The search ends at column e: at the new prices no row is better off than along the path,
\* nor than with the column it has.
LEMMA ReachFair ==
  ASSUME LapjvType, Root \in Index, Below(v),
         \A j \in Index : y[j] >= 0 => Fair(v, y[j], j),
         NEW R, NEW S, R \subseteq Index, S \subseteq Index,
         NEW dd \in [Index -> Int], NEW pp \in [Index -> Index],
         Tree(R, S, dd, pp), NEW e \in Index, e \notin R,
         \A k \in Index \ R : dd[e] <= dd[k]
  PROVE  /\ Raised(R, dd, e) \in [Index -> Int] /\ Below(Raised(R, dd, e))
         /\ \A j \in Index : y[j] >= 0 => Fair(Raised(R, dd, e), y[j], j)
         /\ \A k \in R \cup {e} : Fair(Raised(R, dd, e), pp[k], k)
<1> DEFINE w == Raised(R, dd, e)
<1>00. w = [k \in Index |-> IF k \in R THEN v[k] + dd[k] - dd[e] ELSE v[k]]
  BY DEF Raised
<1> HIDE DEF w
<1>0. /\ \A c \in R : y[c] >= 0
      /\ \A k \in Index : dd[k] <= cost[Root][k] - v[k] /\ \A c \in R : dd[k] <= Way(dd, c, k)
      /\ \A c \in R, k \in Index \ R : dd[c] <= dd[k]
      /\ \A k \in Index : \/ pp[k] = Root /\ dd[k] = cost[Root][k] - v[k]
                          \/ \E c \in R : pp[k] = y[c] /\ dd[k] = Way(dd, c, k)
  BY DEF Tree
<1>1. /\ \A c \in R : c \in Index /\ y[c] \in Index
      /\ \A i, k \in Index : cost[i][k] \in Int
      /\ \A k \in Index : v[k] \in Int /\ dd[k] \in Int
  BY <1>0, IndexFacts DEF LapjvType
<1>2. \A c \in R, k \in Index :
        Way(dd, c, k) = (cost[y[c]][k] - v[k]) - ((cost[y[c]][c] - v[c]) - dd[c])
  BY DEF Way
<1>3. \A k \in Index : w[k] = (IF k \in R THEN v[k] + dd[k] - dd[e] ELSE v[k]) /\ w[k] \in Int
  BY <1>00, <1>1
<1>4. w \in [Index -> Int]
  BY <1>00, <1>1
<1>5. \A c \in R : dd[c] <= dd[e]
  BY <1>0
<1>6. \A k \in Index : w[k] <= v[k]
  <2> SUFFICES ASSUME NEW k \in Index PROVE w[k] <= v[k]
    OBVIOUS
  <2>1. v[k] \in Int /\ dd[k] \in Int /\ dd[e] \in Int
    BY <1>1
  <2> QED BY <1>3, <1>5, <2>1
<1>7. Below(w)
  <2> SUFFICES ASSUME NEW i \in Index, NEW k \in Index PROVE w[k] <= cost[i][k]
    BY DEF Below
  <2>1. v[k] <= cost[i][k] /\ v[k] \in Int /\ cost[i][k] \in Int
    BY <1>1 DEF Below
  <2> QED BY <1>3, <1>6, <2>1
\* What every column costs the root, and a row in the tree, at the new prices.
<1>8. \A l \in Index : cost[Root][l] - w[l] >= dd[e]
  <2> SUFFICES ASSUME NEW l \in Index PROVE cost[Root][l] - w[l] >= dd[e]
    OBVIOUS
  <2>1. /\ cost[Root][l] \in Int /\ v[l] \in Int /\ dd[l] \in Int /\ dd[e] \in Int
        /\ dd[l] <= cost[Root][l] - v[l] /\ (l \notin R => dd[e] <= dd[l])
    BY <1>0, <1>1
  <2> QED BY <1>3, <2>1
<1>9. \A c \in R, l \in Index :
        cost[y[c]][l] - w[l] >= (cost[y[c]][c] - v[c]) - dd[c] + dd[e]
  <2> SUFFICES ASSUME NEW c \in R, NEW l \in Index
               PROVE  cost[y[c]][l] - w[l] >= (cost[y[c]][c] - v[c]) - dd[c] + dd[e]
    OBVIOUS
  <2>1. /\ cost[y[c]][l] \in Int /\ cost[y[c]][c] \in Int /\ v[l] \in Int /\ v[c] \in Int
        /\ dd[l] \in Int /\ dd[e] \in Int /\ dd[c] \in Int
    BY <1>1
  <2>2. dd[l] <= (cost[y[c]][l] - v[l]) - ((cost[y[c]][c] - v[c]) - dd[c])
    BY <1>0, <1>2
  <2>3. l \notin R => dd[e] <= dd[l]
    OBVIOUS
  <2> QED BY <1>3, <2>1, <2>2, <2>3
<1>10. \A k \in R \cup {e} : k \in Index /\ w[k] = v[k] + dd[k] - dd[e]
  BY <1>1, <1>3
<1>11. ASSUME NEW k \in R \cup {e} PROVE Fair(w, pp[k], k)
  <2> SUFFICES ASSUME NEW l \in Index
               PROVE  cost[pp[k]][k] - w[k] <= cost[pp[k]][l] - w[l]
    BY DEF Fair
  <2>0. k \in Index /\ w[k] = v[k] + dd[k] - dd[e]
    BY <1>10
  <2>1. CASE pp[k] = Root /\ dd[k] = cost[Root][k] - v[k]
    <3>1. /\ cost[Root][k] \in Int /\ cost[Root][l] \in Int /\ v[k] \in Int /\ w[l] \in Int
          /\ dd[k] \in Int /\ dd[e] \in Int
      BY <1>1, <1>3, <2>0
    <3>2. cost[Root][l] - w[l] >= dd[e]
      BY <1>8
    <3> QED BY <2>0, <2>1, <3>1, <3>2
  <2>2. CASE \E c \in R : pp[k] = y[c] /\ dd[k] = Way(dd, c, k)
    <3>1. PICK c \in R : pp[k] = y[c] /\ dd[k] = Way(dd, c, k)
      BY <2>2
    <3>2. /\ cost[y[c]][l] \in Int /\ cost[y[c]][c] \in Int /\ cost[y[c]][k] \in Int
          /\ v[c] \in Int /\ v[k] \in Int /\ w[l] \in Int
          /\ dd[k] \in Int /\ dd[e] \in Int /\ dd[c] \in Int
      BY <1>1, <1>3, <2>0
    <3>3. cost[y[c]][l] - w[l] >= (cost[y[c]][c] - v[c]) - dd[c] + dd[e]
      BY <1>9
    <3>4. dd[k] = (cost[y[c]][k] - v[k]) - ((cost[y[c]][c] - v[c]) - dd[c])
      BY <1>2, <2>0, <3>1
    <3> QED BY <2>0, <3>1, <3>2, <3>3, <3>4
  <2> QED BY <1>0, <2>0, <2>1, <2>2
<1>12. ASSUME NEW j \in Index, y[j] >= 0 PROVE Fair(w, y[j], j)
  <2> SUFFICES ASSUME NEW l \in Index
               PROVE  cost[y[j]][j] - w[j] <= cost[y[j]][l] - w[l]
    BY DEF Fair
  <2>0. y[j] \in Index
    BY <1>12, IndexFacts DEF LapjvType
  <2>1. /\ cost[y[j]][l] \in Int /\ cost[y[j]][j] \in Int /\ v[j] \in Int /\ v[l] \in Int
        /\ w[l] \in Int /\ dd[j] \in Int /\ dd[e] \in Int
    BY <1>1, <1>3, <2>0
  <2>2. CASE j \in R
    <3>1. cost[y[j]][l] - w[l] >= (cost[y[j]][j] - v[j]) - dd[j] + dd[e]
      BY <1>9, <2>2
    <3> QED BY <1>3, <2>1, <2>2, <3>1
  <2>3. CASE j \notin R
    <3>1. cost[y[j]][j] - v[j] <= cost[y[j]][l] - v[l]
      BY <1>12 DEF Fair
    <3>2. w[j] = v[j] /\ w[l] <= v[l]
      BY <1>3, <1>6, <2>3
    <3> QED BY <2>1, <3>1, <3>2
  <2> QED BY <2>2, <2>3
<1> QED BY <1>4, <1>7, <1>11, <1>12 DEF w

-----------------------------------------------------------------------------
(***************************************************************************)
(* The steps.                                                              *)
(***************************************************************************)

\* The table does not change during a call.
LEMMA SameShape ==
  ASSUME UNCHANGED shape
  PROVE  /\ rows' = rows /\ cols' = cols /\ cost' = cost /\ n' = n /\ Index' = Index
         /\ \A i : Won(i)' = Won(i)
  BY DEF shape, n, Index, Won, LeastRow

LEMMA FairPrices ==
  PricesFair <=> (pc \notin {"start", "thrown"} => \A j \in Index : y[j] >= 0 => Fair(v, y[j], j))
  BY DEF PricesFair, Price, Fair

LEMMA FairPricesNext ==
  ASSUME UNCHANGED shape
  PROVE  PricesFair' <=>
           (pc' \notin {"start", "thrown"} => \A j \in Index : y'[j] >= 0 => Fair(v', y'[j], j))
  BY SameShape DEF PricesFair, Price, Fair

LEMMA BelowNext ==
  ASSUME UNCHANGED shape
  PROVE  Below(v)' <=> Below(v')
  BY SameShape DEF Below

LEMMA InitInd == LapjvInit => LapjvInd
<1> SUFFICES ASSUME LapjvInit PROVE LapjvInd
  OBVIOUS
<1>1. rows \in Nat /\ cols \in Nat /\ n \in Nat
  BY LapjvAssumption DEF LapjvInit, n
<1>2. Index \subseteq Nat /\ Index = 0..(rows + cols - 1) /\ (\A i \in Index : 0 \in Index)
  BY <1>1 DEF Index, n
<1>3. cost \in [Index -> [Index -> Nat]]
  <2>1. PICK t \in [0..(rows - 1) -> [0..(cols - 1) -> Costs]] : cost = Extend(t, rows, cols)
    BY DEF LapjvInit
  <2>2. ASSUME NEW i \in Index, NEW j \in Index, i < rows, j < cols PROVE t[i][j] \in Nat
    <3>1. i \in 0..(rows - 1) /\ j \in 0..(cols - 1)
      BY <1>1, <1>2, <2>2
    <3>2. t[i] \in [0..(cols - 1) -> Costs]
      BY <3>1
    <3>3. t[i][j] \in Costs
      BY <3>1, <3>2
    <3> QED BY <3>3, LapjvAssumption
  <2>3. cost = [i \in Index |-> [j \in Index |->
                 IF i < rows /\ j < cols THEN t[i][j] ELSE IF i >= rows /\ j >= cols THEN 0 ELSE HalfLimit]]
    BY <1>2, <2>1, Zenon DEF Extend
  <2>4. \A i, j \in Index :
          (IF i < rows /\ j < cols THEN t[i][j] ELSE IF i >= rows /\ j >= cols THEN 0 ELSE HalfLimit) \in Nat
    BY <2>2, LapjvAssumption
  <2> QED BY <2>3, <2>4
<1>4. LapjvType
  BY <1>1, <1>2, <1>3 DEF LapjvInit, LapjvType
<1>5. Below(v)
  BY <1>3 DEF LapjvInit, Below
<1>6. pc = "start"
  BY DEF LapjvInit
<1>7. Phases
  BY DEF LapjvInit, Phases
<1> QED BY <1>4, <1>5, <1>6, <1>7 DEF LapjvInd, Transferring, Listing, Searching, Flipping, PricesFair

LEMMA EmptyInd == LapjvInd /\ Empty => LapjvInd'
<1> SUFFICES ASSUME LapjvInd, Empty PROVE LapjvInd'
  OBVIOUS
<1>1. /\ pc = "start" /\ (rows = 0 \/ cols = 0) /\ pc' = "done"
      /\ UNCHANGED <<shape, duals, row, list, pending, search, at, flips>>
  BY DEF Empty
<1>2. /\ UNCHANGED shape
      /\ UNCHANGED <<x, y, v, row, free, nFree, current, new, rr, round, pending, d, pred, ready,
                    scanning, at, flips>>
  BY <1>1 DEF duals, list, search
<1>3. Index' = Index /\ rows' = rows /\ cols' = cols /\ cost' = cost /\ n' = n
  BY <1>2, SameShape
<1>4. \A j \in Index : y[j] = None
  BY <1>1 DEF LapjvInd, Phases
<1>5. LapjvType'
  BY <1>1, <1>2, <1>3 DEF LapjvInd, LapjvType
<1>6. Below(v)'
  BY <1>2, <1>3 DEF LapjvInd, Below
<1>7. Phases'
  BY <1>1, <1>2, <1>3, <1>4 DEF Phases
<1>8. PricesFair'
  BY <1>2, <1>3, <1>4, IndexFacts DEF LapjvInd, LapjvType, PricesFair
<1>9. Transferring' /\ Listing' /\ Searching' /\ Flipping'
  BY <1>1, <1>3 DEF Transferring, Listing, Searching, Flipping
<1> QED BY <1>5, <1>6, <1>7, <1>8, <1>9 DEF LapjvInd

\* Steps between phases that leave the assignment and the prices alone.
LEMMA FinishInd == LapjvInd /\ Finish => LapjvInd'
<1> SUFFICES ASSUME LapjvInd, Finish PROVE LapjvInd'
  OBVIOUS
<1>1. /\ pc = "solved" /\ pc' = "done"
      /\ UNCHANGED <<shape, duals, row, list, pending, search, at, flips>>
  BY DEF Finish
<1>2. /\ UNCHANGED shape
      /\ UNCHANGED <<x, y, v, row, free, nFree, current, new, rr, round, pending, d, pred, ready,
                    scanning, at, flips>>
  BY <1>1 DEF duals, list, search
<1>3. Index' = Index /\ rows' = rows /\ cols' = cols /\ cost' = cost /\ n' = n
  BY <1>2, SameShape
<1>4. LapjvType'
  BY <1>1, <1>2, <1>3 DEF LapjvInd, LapjvType
<1>5. Below(v)'
  BY <1>2, <1>3 DEF LapjvInd, Below
<1>6. Phases'
  BY <1>1, <1>2, <1>3 DEF LapjvInd, Phases
<1>7. PricesFair'
  BY <1>1, <1>2, <1>3, FairPrices, FairPricesNext DEF LapjvInd
<1>8. Listing'
  BY <1>1, <1>2, <1>3 DEF LapjvInd, Listing, ListKept, Places
<1>9. Transferring' /\ Searching' /\ Flipping'
  BY <1>1 DEF Transferring, Searching, Flipping
<1> QED BY <1>4, <1>5, <1>6, <1>7, <1>8, <1>9 DEF LapjvInd

LEMMA StutterInd == LapjvInd /\ UNCHANGED lapjvVars => LapjvInd'
<1> SUFFICES ASSUME LapjvInd, UNCHANGED lapjvVars PROVE LapjvInd'
  OBVIOUS
<1>2. /\ UNCHANGED shape /\ pc' = pc
      /\ UNCHANGED <<x, y, v, row, free, nFree, current, new, rr, round, pending, d, pred, ready,
                    scanning, at, flips>>
  BY DEF lapjvVars, duals, list, search
<1>3. Index' = Index /\ rows' = rows /\ cols' = cols /\ cost' = cost /\ n' = n /\ \A i : Won(i)' = Won(i)
  BY <1>2, SameShape
<1>4. LapjvType'
  BY <1>2, <1>3 DEF LapjvInd, LapjvType
<1>5. Below(v)'
  BY <1>2, <1>3 DEF LapjvInd, Below
<1>6. Phases'
  BY <1>2, <1>3 DEF LapjvInd, Phases
<1>7. PricesFair'
  BY <1>2, <1>3, FairPrices, FairPricesNext DEF LapjvInd
<1>8. Listing'
  BY <1>2, <1>3 DEF LapjvInd, Listing, ListKept, Places
<1>9. Transferring'
  BY <1>2, <1>3 DEF LapjvInd, Transferring
<1>10. Root' = Root
  BY <1>2 DEF Root
<1>11. Searching'
  BY <1>2, <1>3, <1>10 DEF LapjvInd, Searching, Tree, Ranked, Way
<1>12. Tight' = Tight
  BY <1>2, <1>3 DEF Tight, Fair
<1>13. Flipping'
  BY <1>2, <1>3, <1>10, <1>12 DEF LapjvInd, Flipping, Back
<1> QED BY <1>4, <1>5, <1>6, <1>7, <1>8, <1>9, <1>11, <1>13 DEF LapjvInd

\* The row of the least cost in a column.
LEMMA LeastRowFacts ==
  ASSUME LapjvType, NEW j \in Index
  PROVE  LeastRow(j) \in Index /\ \A i \in Index : cost[LeastRow(j)][j] <= cost[i][j]
<1> DEFINE f == [i \in Index |-> cost[i][j]]
<1>1. /\ Index \subseteq Nat /\ Index # {}
      /\ \A i \in Index : f[i] = cost[i][j] /\ f[i] \in Nat
  BY IndexFacts DEF LapjvType
<1>2. LeastRow(j) = Least(Index, f)
  BY DEF LeastRow
<1> HIDE DEF f
<1>3. Least(Index, f) \in Index /\ \A i \in Index : f[Least(Index, f)] <= f[i]
  BY <1>1, LeastFacts
<1> QED BY <1>1, <1>2, <1>3

LEMMA ColumnReduceInd == LapjvInd /\ ColumnReduce => LapjvInd'
<1> SUFFICES ASSUME LapjvInd, ColumnReduce PROVE LapjvInd'
  OBVIOUS
<1>1. /\ pc = "start" /\ rows > 0 /\ cols > 0 /\ pc' = "transfer"
      /\ v' = [j \in Index |-> cost[LeastRow(j)][j]]
      /\ x' = [i \in Index |-> IF Won(i) = {} THEN None ELSE Max(Won(i))]
      /\ y' = [j \in Index |-> IF j = Max(Won(LeastRow(j))) THEN LeastRow(j) ELSE None]
      /\ UNCHANGED <<shape, row, list, pending, search, at, flips>>
  BY Zenon DEF ColumnReduce
<1>2. /\ UNCHANGED shape
      /\ UNCHANGED <<row, free, nFree, current, new, rr, round, pending, d, pred, ready, scanning,
                    at, flips>>
  BY <1>1 DEF list, search
<1>3. /\ Index' = Index /\ rows' = rows /\ cols' = cols /\ cost' = cost /\ n' = n
      /\ \A i : Won(i)' = Won(i)
  BY <1>2, SameShape
<1>4. LapjvType /\ row = 0 /\ nFree = 0 /\ current = 0 /\ new = 0 /\ pending = 0
  BY <1>1 DEF LapjvInd, Phases
<1>5. /\ Index \subseteq Nat /\ None \notin Index /\ n \in Nat /\ None \in Int /\ None < 0
      /\ ~ (None >= 0)
      /\ \A i, j \in Index : cost[i][j] \in Nat
  BY <1>4, IndexFacts DEF LapjvType
<1>6. \A j \in Index : LeastRow(j) \in Index /\ \A i \in Index : cost[LeastRow(j)][j] <= cost[i][j]
  BY <1>4, LeastRowFacts
<1>7. \A i \in Index : Won(i) \subseteq Index /\ (Won(i) # {} => Max(Won(i)) \in Won(i))
  <2> SUFFICES ASSUME NEW i \in Index, Won(i) # {} PROVE Max(Won(i)) \in Won(i)
    BY DEF Won
  <2>1. Won(i) \subseteq 0..n
    BY <1>5 DEF Won, Index
  <2> QED BY <1>5, <2>1, MaxFacts
<1>8. \A i, j \in Index : j \in Won(i) <=> LeastRow(j) = i
  BY DEF Won
<1>9. /\ \A i \in Index : x'[i] = IF Won(i) = {} THEN None ELSE Max(Won(i))
      /\ \A j \in Index : v'[j] = cost[LeastRow(j)][j]
      /\ \A j \in Index : y'[j] = IF j = Max(Won(LeastRow(j))) THEN LeastRow(j) ELSE None
  BY <1>1
<1>10. /\ x' \in [Index -> Index \cup {None}] /\ y' \in [Index -> Index \cup {None}]
       /\ v' \in [Index -> Int]
  <2>1. \A i \in Index : Won(i) # {} => Max(Won(i)) \in Index
    BY <1>7
  <2>2. x' \in [Index -> Index \cup {None}]
    BY <1>1, <2>1
  <2>3. y' \in [Index -> Index \cup {None}]
    BY <1>1, <1>6
  <2>4. v' \in [Index -> Int]
    <3>1. ASSUME NEW j \in Index PROVE cost[LeastRow(j)][j] \in Int
      <4>1. LeastRow(j) \in Index
        BY <1>6
      <4>2. cost[LeastRow(j)][j] \in Nat
        BY <1>5, <4>1
      <4> QED BY <4>2
    <3> QED BY <1>1, <3>1
  <2> QED BY <2>2, <2>3, <2>4
<1>11. LapjvType'
  BY <1>1, <1>2, <1>3, <1>4, <1>10 DEF LapjvType
<1>12. Below(v')
  BY <1>6, <1>9 DEF Below
<1>13. ASSUME NEW i \in Index, x'[i] >= 0
       PROVE  x'[i] \in Index /\ x'[i] \in Won(i) /\ y'[x'[i]] = i /\ v'[x'[i]] = cost[i][x'[i]]
  <2>1. Won(i) # {} /\ x'[i] = Max(Won(i))
    BY <1>5, <1>9, <1>13
  <2>2. x'[i] \in Won(i) /\ x'[i] \in Index
    BY <1>7, <2>1
  <2>3. LeastRow(x'[i]) = i
    BY <2>2, Zenon DEF Won
  <2> QED BY <1>9, <2>1, <2>2, <2>3
<1>14. ASSUME NEW j \in Index, y'[j] >= 0
       PROVE  y'[j] \in Index /\ x'[y'[j]] = j /\ v'[j] = cost[y'[j]][j]
  <2>1. y'[j] = LeastRow(j) /\ j = Max(Won(LeastRow(j))) /\ LeastRow(j) \in Index
    BY <1>5, <1>6, <1>9, <1>14
  <2>2. j \in Won(LeastRow(j))
    BY DEF Won
  <2>3. x'[LeastRow(j)] = Max(Won(LeastRow(j)))
    BY <1>9, <2>1, <2>2
  <2> QED BY <1>9, <2>1, <2>3
<1>15. \A i \in Index : (x'[i] < 0 <=> Won(i) = {}) /\ (Won(i) # {} => x'[i] \in Won(i))
  <2> SUFFICES ASSUME NEW i \in Index
               PROVE  (x'[i] < 0 <=> Won(i) = {}) /\ (Won(i) # {} => x'[i] \in Won(i))
    OBVIOUS
  <2>1. CASE Won(i) = {}
    BY <1>5, <1>9, <2>1
  <2>2. CASE Won(i) # {}
    <3>1. x'[i] = Max(Won(i))
      BY <1>9, <2>2
    <3>2. x'[i] \in Won(i) /\ x'[i] \in Index
      BY <1>7, <2>2, <3>1
    <3>3. x'[i] \in Nat
      BY <1>5, <3>2
    <3> QED BY <2>2, <3>2, <3>3
  <2> QED BY <2>1, <2>2
<1>16. Transferring'
  BY <1>2, <1>3, <1>4, <1>5, <1>13, <1>14, <1>15 DEF Transferring
<1>17. Phases'
  BY <1>1, <1>2, <1>3, <1>4 DEF Phases
<1>18. PricesFair'
  <2>1. ASSUME NEW j \in Index, y'[j] >= 0 PROVE Fair(v', y'[j], j)
    <3> SUFFICES ASSUME NEW k \in Index PROVE cost[y'[j]][j] - v'[j] <= cost[y'[j]][k] - v'[k]
      BY DEF Fair
    <3>1. y'[j] \in Index /\ v'[j] = cost[y'[j]][j] /\ v'[k] <= cost[y'[j]][k]
      BY <1>12, <1>14, <2>1 DEF Below
    <3>2. v'[j] \in Int /\ v'[k] \in Int /\ cost[y'[j]][k] \in Int
      <4>1. v'[j] \in Int /\ v'[k] \in Int
        BY <1>10
      <4>2. cost[y'[j]][k] \in Nat
        BY <1>5, <3>1
      <4> QED BY <4>1, <4>2
    <3> QED BY <3>1, <3>2
  <2> QED BY <1>2, <2>1, FairPricesNext
<1>19. Listing' /\ Searching' /\ Flipping' /\ Below(v)'
  BY <1>1, <1>2, <1>12, BelowNext DEF Listing, Searching, Flipping
<1> QED BY <1>11, <1>16, <1>17, <1>18, <1>19 DEF LapjvInd

\* The transfer makes the price of a row's column no fairer to others and stays fair to the row.
LEMMA TransferPrices ==
  ASSUME LapjvType, Below(v), row \in Index, rows > 0, cols > 0,
         x[row] >= 0, y[x[row]] = row, v[x[row]] = cost[row][x[row]],
         \A j \in Index : y[j] >= 0 => Fair(v, y[j], j) /\ x[y[j]] = j, Transfer(row)
  PROVE  /\ x[row] \in Index /\ v' \in [Index -> Int] /\ Below(v')
         /\ \A j \in Index : j # x[row] => v'[j] = v[j]
         /\ \A j \in Index : y[j] >= 0 => Fair(v', y[j], j)
<1> DEFINE c == x[row]
           T == {Price(row, j) : j \in Index \ {c}}
           w == v[c] - Min(T)
<1>1. c \in Index
  BY IndexFacts DEF LapjvType
<1>2. /\ \A i, j \in Index : cost[i][j] \in Int /\ v[j] \in Int /\ v[j] <= cost[i][j]
      /\ v \in [Index -> Int] /\ Index \ {c} # {}
      /\ \A j \in Index : y[j] >= 0 => y[j] \in Index
  BY <1>1, IndexFacts DEF LapjvType, Below
<1>3. CASE Cardinality(Won(row)) # 1
  <2>1. v' = v
    BY <1>3 DEF Transfer
  <2> QED BY <1>1, <1>2, <2>1
<1>4. CASE Cardinality(Won(row)) = 1
  <2>1. T \subseteq Nat /\ T # {}
    <3>1. \A j \in Index : Price(row, j) \in Nat
      BY <1>2 DEF Price
    <3> QED BY <1>2, <3>1
  <2>2. Min(T) \in Nat /\ \A j \in Index : j # c => Min(T) <= cost[row][j] - v[j]
    <3>1. Min(T) \in T /\ \A k \in T : Min(T) <= k
      BY <2>1, MinFacts, Zenon
    <3> QED BY <2>1, <3>1 DEF Price
  <2>3. v' = [v EXCEPT ![c] = w]
    BY <1>4 DEF Transfer
  <2> HIDE DEF c, T
  <2>4. v'[c] = w /\ \A j \in Index : j # c => v'[j] = v[j]
    BY <1>1, <1>2, <2>3
  <2>5. w \in Int /\ w <= v[c] /\ w = v[c] - Min(T)
    BY <1>1, <1>2, <2>2
  <2> HIDE DEF w
  <2>6. v' \in [Index -> Int]
    BY <1>2, <2>3, <2>5
  <2>7. \A j \in Index : v'[j] <= v[j] /\ v'[j] \in Int
    BY <1>2, <2>4, <2>5
  <2>8. Below(v')
    <3> SUFFICES ASSUME NEW i \in Index, NEW j \in Index PROVE v'[j] <= cost[i][j]
      BY DEF Below
    <3> QED BY <1>2, <2>7
  <2>9. ASSUME NEW j \in Index, y[j] >= 0 PROVE Fair(v', y[j], j)
    <3> SUFFICES ASSUME NEW k \in Index PROVE cost[y[j]][j] - v'[j] <= cost[y[j]][k] - v'[k]
      BY DEF Fair
    <3>1. y[j] \in Index /\ cost[y[j]][j] \in Int /\ cost[y[j]][k] \in Int
      BY <1>2, <2>9
    <3>2. v'[j] <= v[j] /\ v'[k] <= v[k] /\ v'[j] \in Int /\ v'[k] \in Int /\ v[j] \in Int /\ v[k] \in Int
      BY <1>2, <2>7
    <3>3. CASE j # c
      <4>1. cost[y[j]][j] - v[j] <= cost[y[j]][k] - v[k]
        BY <2>9 DEF Fair
      <4> QED BY <2>4, <3>1, <3>2, <3>3, <4>1
    <3>4. CASE j = c /\ k # c
      <4>1. y[j] = row /\ v[c] = cost[row][c] /\ Min(T) <= cost[row][k] - v[k] /\ v'[k] = v[k]
        BY <2>2, <2>4, <3>4 DEF c
      <4> QED BY <2>2, <2>4, <2>5, <3>1, <3>2, <3>4, <4>1
    <3>5. CASE j = c /\ k = c
      BY <3>1, <3>2, <3>5
    <3> QED BY <3>3, <3>4, <3>5
  <2> QED BY <1>1, <2>4, <2>6, <2>8, <2>9 DEF c
<1> QED BY <1>3, <1>4

\* What a transfer step relies on, in one place.
LEMMA TransferFacts ==
  ASSUME LapjvInd, pc = "transfer"
  PROVE  /\ LapjvType /\ Below(v) /\ rows > 0 /\ cols > 0
         /\ row \in Nat /\ nFree \in Nat /\ n \in Nat /\ row <= n /\ nFree <= row
         /\ current = 0 /\ new = 0 /\ pending = 0
         /\ Index \subseteq Nat /\ \A i \in Nat : i < n => i \in Index
         /\ \A i \in Index : i \in Int /\ i >= 0 /\ i < n /\ x[i] \in Index \cup {None}
         /\ None \in Int /\ None < 0 /\ None \notin Index
         /\ \A j \in Index : y[j] >= 0 => Fair(v, y[j], j) /\ x[y[j]] = j
         /\ \A i \in Index : x[i] >= 0 => x[i] \in Index /\ y[x[i]] = i
         /\ \A i \in Index : i >= row /\ x[i] >= 0 => v[x[i]] = cost[i][x[i]]
<1>1. LapjvType /\ Below(v) /\ Transferring /\ PricesFair /\ Phases
  BY DEF LapjvInd
<1>2. rows > 0 /\ cols > 0 /\ current = 0 /\ new = 0 /\ pending = 0
  BY <1>1 DEF Phases
<1>3. /\ row <= n
      /\ \A i \in Index : x[i] >= 0 => y[x[i]] = i
      /\ \A j \in Index : y[j] >= 0 => x[y[j]] = j
      /\ \A i \in Index : i >= row /\ x[i] >= 0 => v[x[i]] = cost[i][x[i]]
      /\ nFree <= row
  BY <1>1 DEF Transferring
<1>4. \A j \in Index : y[j] >= 0 => Fair(v, y[j], j)
  BY <1>1, FairPrices
<1>5. row \in Nat /\ nFree \in Nat /\ \A i \in Index : x[i] \in Index \cup {None}
  BY <1>1 DEF LapjvType
<1>6. /\ Index \subseteq Nat /\ (\A i \in Nat : i < n => i \in Index) /\ n \in Nat
      /\ (\A i \in Index : i \in Int /\ i >= 0 /\ i < n) /\ None \in Int /\ None < 0 /\ None \notin Index
  BY <1>1, IndexFacts DEF LapjvType
<1> QED BY <1>1, <1>2, <1>3, <1>4, <1>5, <1>6

LEMMA TransferRowInd == LapjvInd /\ TransferRow => LapjvInd'
<1> SUFFICES ASSUME LapjvInd, TransferRow PROVE LapjvInd'
  OBVIOUS
<1>1. /\ pc = "transfer" /\ row < n /\ row' = row + 1
      /\ \/ x[row] < 0 /\ Listed(row) /\ UNCHANGED v
         \/ x[row] >= 0 /\ Transfer(row) /\ UNCHANGED <<free, nFree>>
      /\ UNCHANGED <<shape, pc, x, y, current, new, rr, round, pending, search, at, flips>>
  BY DEF TransferRow
<1>2. /\ UNCHANGED shape /\ pc' = "transfer"
      /\ UNCHANGED <<x, y, current, new, rr, round, pending, d, pred, ready, scanning, at, flips>>
  BY <1>1 DEF search
<1>3. /\ Index' = Index /\ rows' = rows /\ cols' = cols /\ cost' = cost /\ n' = n
      /\ \A i : Won(i)' = Won(i)
  BY <1>2, SameShape
<1>4. /\ LapjvType /\ Below(v) /\ rows > 0 /\ cols > 0
      /\ row \in Nat /\ nFree \in Nat /\ n \in Nat /\ row <= n /\ nFree <= row
      /\ current = 0 /\ new = 0 /\ pending = 0
      /\ Index \subseteq Nat /\ \A i \in Nat : i < n => i \in Index
      /\ \A i \in Index : i \in Int /\ i >= 0 /\ i < n /\ x[i] \in Index \cup {None}
      /\ None \in Int /\ None < 0 /\ None \notin Index
  BY <1>1, TransferFacts
<1>5. /\ \A j \in Index : y[j] >= 0 => Fair(v, y[j], j) /\ x[y[j]] = j
      /\ \A i \in Index : x[i] >= 0 => x[i] \in Index /\ y[x[i]] = i
      /\ \A i \in Index : i >= row /\ x[i] >= 0 => v[x[i]] = cost[i][x[i]]
  BY <1>1, TransferFacts
<1>6. /\ \A i \in Index : (x[i] < 0 <=> Won(i) = {}) /\ (Won(i) # {} => x[i] \in Won(i))
      /\ \A k \in 0..(nFree - 1) : free[k] < row /\ x[free[k]] < 0
      /\ \A k, l \in 0..(nFree - 1) : free[k] = free[l] => k = l
      /\ \A i \in Index : i < row /\ x[i] < 0 => \E k \in 0..(nFree - 1) : free[k] = i
  BY <1>1 DEF LapjvInd, Transferring
<1>7. row \in Index /\ row' \in Nat /\ row' <= n
  BY <1>1, <1>4
<1>8. /\ free \in [Index -> Index] /\ v \in [Index -> Int] /\ nFree \in 0..n
  BY <1>4 DEF LapjvType
<1>9. /\ v' \in [Index -> Int] /\ Below(v')
      /\ \A j \in Index : y[j] >= 0 => Fair(v', y[j], j)
      /\ \A i \in Index : i >= row' /\ x[i] >= 0 => v'[x[i]] = cost[i][x[i]]
  <2>1. CASE UNCHANGED v
    <3>1. \A i \in Index : i >= row' => i >= row
      BY <1>1, <1>4
    <3> QED BY <1>4, <1>5, <1>8, <2>1, <3>1
  <2>2. CASE x[row] >= 0 /\ Transfer(row)
    <3>1. y[x[row]] = row /\ v[x[row]] = cost[row][x[row]]
      BY <1>4, <1>5, <1>7, <2>2
    <3>2. /\ v' \in [Index -> Int] /\ Below(v')
          /\ \A j \in Index : j # x[row] => v'[j] = v[j]
          /\ \A j \in Index : y[j] >= 0 => Fair(v', y[j], j)
      BY <1>4, <1>5, <1>7, <2>2, <3>1, TransferPrices
    <3>3. ASSUME NEW i \in Index, i >= row', x[i] >= 0 PROVE v'[x[i]] = cost[i][x[i]]
      <4>1. i >= row /\ i # row
        BY <1>1, <1>4, <3>3
      <4>2. x[i] \in Index /\ x[i] # x[row]
        BY <1>5, <3>1, <3>3, <4>1
      <4> QED BY <1>5, <3>2, <3>3, <4>1, <4>2
    <3> QED BY <3>2, <3>3
  <2> QED BY <1>1, <2>1, <2>2
<1>10. /\ free' \in [Index -> Index] /\ nFree' \in Nat /\ nFree' <= row'
       /\ \A k \in 0..(nFree' - 1) : free'[k] < row' /\ x[free'[k]] < 0
       /\ \A k, l \in 0..(nFree' - 1) : free'[k] = free'[l] => k = l
       /\ \A i \in Index : i < row' /\ x[i] < 0 => \E k \in 0..(nFree' - 1) : free'[k] = i
  <2>1. CASE x[row] < 0 /\ Listed(row)
    <3>1. free' = [free EXCEPT ![nFree] = row] /\ nFree' = nFree + 1
      BY <2>1 DEF Listed
    <3>2. nFree \in Index /\ \A k \in 0..(nFree - 1) : k \in Index /\ k # nFree /\ k \in 0..(nFree' - 1)
      BY <1>1, <1>4, <3>1
    <3>3. free'[nFree] = row /\ \A k \in 0..(nFree - 1) : free'[k] = free[k] /\ free[k] \in Index
      BY <1>8, <3>1, <3>2
    <3>4. \A k \in 0..(nFree' - 1) : k = nFree \/ k \in 0..(nFree - 1)
      BY <1>4, <3>1
    <3>5. \A k \in 0..(nFree - 1) : free'[k] < row /\ free'[k] # row /\ x[free'[k]] < 0
      BY <1>4, <1>6, <3>3
    <3>6. ASSUME NEW k \in 0..(nFree' - 1) PROVE free'[k] < row' /\ x[free'[k]] < 0
      <4>1. CASE k = nFree
        BY <1>1, <1>4, <2>1, <3>3, <4>1
      <4>2. CASE k \in 0..(nFree - 1)
        <5>1. free'[k] < row /\ free'[k] \in Int
          BY <1>4, <3>3, <3>5, <4>2
        <5> QED BY <1>1, <1>4, <3>5, <4>2, <5>1
      <4> QED BY <3>4, <4>1, <4>2
    <3>7. \A k, l \in 0..(nFree' - 1) : free'[k] = free'[l] => k = l
      BY <1>6, <3>3, <3>4, <3>5
    <3>8. ASSUME NEW i \in Index, i < row', x[i] < 0 PROVE \E k \in 0..(nFree' - 1) : free'[k] = i
      <4>1. CASE i = row
        <5>1. nFree \in 0..(nFree' - 1)
          BY <1>4, <3>1
        <5> QED BY <3>3, <4>1, <5>1
      <4>2. CASE i # row
        <5>1. i < row
          BY <1>1, <1>4, <3>8, <4>2
        <5>2. PICK k \in 0..(nFree - 1) : free[k] = i
          BY <1>6, <3>8, <5>1
        <5> QED BY <3>2, <3>3, <5>2
      <4> QED BY <4>1, <4>2
    <3>9. free' \in [Index -> Index] /\ nFree' \in Nat /\ nFree' <= row'
      BY <1>1, <1>4, <1>7, <1>8, <3>1, <3>2
    <3> QED BY <3>6, <3>7, <3>8, <3>9
  <2>2. CASE x[row] >= 0 /\ UNCHANGED <<free, nFree>>
    <3>1a. x[row] \in Int
      BY <1>4, <1>7
    <3>1. \A i \in Index : i < row' /\ x[i] < 0 => i < row
      <4> SUFFICES ASSUME NEW i \in Index, i < row', x[i] < 0 PROVE i < row
        OBVIOUS
      <4>1. i # row
        BY <1>4, <2>2, <3>1a
      <4> QED BY <1>1, <1>4, <4>1
    <3>2. nFree <= row' /\ \A k \in 0..(nFree - 1) : free[k] < row'
      <4>1. ASSUME NEW k \in 0..(nFree - 1) PROVE k \in Index /\ free[k] \in Int
        <5>1. k \in Nat /\ k < n
          BY <1>4
        <5>2. k \in Index /\ free[k] \in Index
          BY <1>4, <1>8, <5>1
        <5> QED BY <1>4, <5>2
      <4> QED BY <1>1, <1>4, <1>6, <4>1
    <3> QED BY <1>4, <1>6, <1>8, <2>2, <3>1, <3>2
  <2> QED BY <1>1, <2>1, <2>2
<1>11. nFree' \in 0..n
  BY <1>4, <1>7, <1>10
<1>12. LapjvType'
  BY <1>2, <1>3, <1>4, <1>7, <1>9, <1>10, <1>11 DEF LapjvType
<1>13. Transferring'
  BY <1>2, <1>3, <1>5, <1>6, <1>7, <1>9, <1>10 DEF Transferring
<1>14. Phases'
  BY <1>2, <1>3, <1>4 DEF Phases
<1>15. PricesFair' /\ Below(v)'
  BY <1>2, <1>9, FairPricesNext, BelowNext
<1>16. Listing' /\ Searching' /\ Flipping'
  BY <1>2 DEF Listing, Searching, Flipping
<1> QED BY <1>12, <1>13, <1>14, <1>15, <1>16 DEF LapjvInd

LEMMA TransferEndInd == LapjvInd /\ TransferEnd => LapjvInd'
<1> SUFFICES ASSUME LapjvInd, TransferEnd PROVE LapjvInd'
  OBVIOUS
<1>1. /\ pc = "transfer" /\ row = n
      /\ pc' = IF nFree > 0 THEN "reduce" ELSE "solved"
      /\ UNCHANGED <<shape, duals, row, list, pending, search, at, flips>>
  BY DEF TransferEnd
<1>2. /\ UNCHANGED shape
      /\ UNCHANGED <<x, y, v, row, free, nFree, current, new, rr, round, pending, d, pred, ready,
                    scanning, at, flips>>
  BY <1>1 DEF duals, list, search
<1>3. Index' = Index /\ rows' = rows /\ cols' = cols /\ cost' = cost /\ n' = n
  BY <1>2, SameShape
<1>4. /\ LapjvType /\ Below(v) /\ rows > 0 /\ cols > 0
      /\ nFree \in Nat /\ n \in Nat
      /\ current = 0 /\ new = 0 /\ pending = 0
      /\ Index \subseteq Nat
      /\ \A i \in Index : i \in Int /\ i >= 0 /\ i < n /\ x[i] \in Index \cup {None}
      /\ None \in Int /\ None < 0 /\ None \notin Index
      /\ \A j \in Index : y[j] >= 0 => x[y[j]] = j
      /\ \A i \in Index : x[i] >= 0 => x[i] \in Index /\ y[x[i]] = i
  BY <1>1, TransferFacts
<1>5. /\ \A k \in 0..(nFree - 1) : x[free[k]] < 0
      /\ \A k, l \in 0..(nFree - 1) : free[k] = free[l] => k = l
      /\ \A i \in Index : i < row /\ x[i] < 0 => \E k \in 0..(nFree - 1) : free[k] = i
  BY <1>1 DEF LapjvInd, Transferring
<1>6. ListKept(free, 0..(nFree - 1), y, x, None)
  <2>0. Index \ {None} = Index
    BY <1>4
  <2>1. ASSUME NEW j \in Index PROVE y[j] = None \/ (y[j] \in Index /\ x[y[j]] = j)
    <3>1. y[j] = None \/ y[j] \in Index
      BY <1>4 DEF LapjvType
    <3> QED BY <1>4, <3>1
  <2>2. ASSUME NEW k \in 0..(nFree - 1), NEW j \in Index, y[j] = free[k] PROVE FALSE
    <3>0. k \in Index
      <4>1. nFree <= n /\ nFree \in Int
        BY <1>4 DEF LapjvType
      <4> QED BY <1>4, <4>1 DEF Index
    <3>1. y[j] \in Index
      <4>1. free[k] \in Index
        BY <1>4, <3>0 DEF LapjvType
      <4> QED BY <2>2, <4>1
    <3>2. x[free[k]] = j /\ j >= 0 /\ j \in Int
      BY <1>4, <2>1, <2>2, <3>1
    <3> QED BY <1>5, <3>2
  <2>3. ASSUME NEW i \in Index
        PROVE  (\E j \in Index : y[j] = i) \/ (\E k \in 0..(nFree - 1) : free[k] = i)
    <3>1. CASE x[i] = None
      BY <1>1, <1>4, <1>5, <3>1
    <3>2. CASE x[i] \in Index
      <4>1. x[i] >= 0
        BY <1>4, <3>2
      <4> QED BY <1>4, <4>1
    <3> QED BY <1>4, <3>1, <3>2
  <2> QED BY <1>4, <1>5, <2>0, <2>2, <2>3 DEF ListKept
<1>7. Listing'
  <2>1. Places' = 0..(nFree - 1)
    <3>1. CASE nFree > 0
      BY <1>1, <1>2, <1>4, <3>1 DEF Places
    <3>2. CASE ~ (nFree > 0)
      BY <1>1, <1>2, <1>4, <3>2 DEF Places
    <3> QED BY <3>1, <3>2
  <2> QED BY <1>1, <1>2, <1>3, <1>6, <2>1 DEF Listing, ListKept
<1>8. LapjvType'
  BY <1>1, <1>2, <1>3, <1>4 DEF LapjvType
<1>9. Below(v)' /\ PricesFair'
  BY <1>1, <1>2, <1>4, BelowNext, FairPrices, FairPricesNext DEF LapjvInd
<1>10. Phases'
  BY <1>1, <1>2, <1>3, <1>4 DEF Phases
<1>11. Transferring' /\ Searching' /\ Flipping'
  BY <1>1 DEF Transferring, Searching, Flipping
<1> QED BY <1>7, <1>8, <1>9, <1>10, <1>11 DEF LapjvInd

\* The prices that row i sees, and its cheapest and second cheapest column.
Prices(i) == [j \in Index |-> Price(i, j)]
First(i) == Least(Index, Prices(i))
Second(i) == Least(Index \ {First(i)}, Prices(i))

\* The row reduction: at the new prices no column is cheaper for row i than the one it takes.
LEMMA ReducePrices ==
  ASSUME LapjvType, Below(v), rows > 0, cols > 0, NEW i \in Index,
         NEW w, NEW j1,
         \/ /\ Prices(i)[Second(i)] > Prices(i)[First(i)] /\ j1 = First(i)
            /\ w = [v EXCEPT ![First(i)] = @ - (Prices(i)[Second(i)] - Prices(i)[First(i)])]
         \/ w = v /\ (j1 = First(i) \/ (~ (Prices(i)[Second(i)] > Prices(i)[First(i)]) /\ j1 = Second(i))),
         \A j \in Index : y[j] >= 0 => Fair(v, y[j], j)
  PROVE  /\ First(i) \in Index /\ Second(i) \in Index /\ j1 \in Index
         /\ w \in [Index -> Int] /\ Below(w) /\ Fair(w, i, j1)
         /\ \A j \in Index : j # j1 /\ y[j] >= 0 => Fair(w, y[j], j)
<1> DEFINE p == Prices(i)
           first == First(i)
           second == Second(i)
<1>0. /\ p = [j \in Index |-> Price(i, j)] /\ first = Least(Index, p) /\ second = Least(Index \ {first}, p)
      /\ \/ /\ p[second] > p[first] /\ j1 = first
            /\ w = [v EXCEPT ![first] = v[first] - (p[second] - p[first])]
         \/ w = v /\ (j1 = first \/ (~ (p[second] > p[first]) /\ j1 = second))
  BY Zenon DEF Prices, First, Second
<1>00. /\ first = First(i) /\ second = Second(i)
  OBVIOUS
<1> HIDE DEF p, first, second
<1>1. /\ \A a, j \in Index : cost[a][j] \in Int /\ v[j] \in Int /\ v[j] <= cost[a][j]
      /\ v \in [Index -> Int] /\ Index \subseteq Nat /\ Index # {}
      /\ \A j \in Index : Index \ {j} # {}
      /\ \A j \in Index : y[j] >= 0 => y[j] \in Index
  BY IndexFacts DEF LapjvType, Below
<1>2. \A j \in Index : p[j] = cost[i][j] - v[j] /\ p[j] \in Nat
  BY <1>0, <1>1 DEF Price
<1>3. first \in Index /\ \A j \in Index : p[first] <= p[j]
  BY <1>0, <1>1, <1>2, LeastFacts
<1>4. second \in Index /\ second # first /\ \A j \in Index : j # first => p[second] <= p[j]
  <2>1. /\ Index \ {first} \subseteq Nat /\ Index \ {first} # {}
        /\ \A j \in Index \ {first} : p[j] \in Nat
    BY <1>1, <1>2, <1>3
  <2>2. second \in Index \ {first} /\ \A j \in Index \ {first} : p[second] <= p[j]
    BY <1>0, <2>1, LeastFacts
  <2> QED BY <2>2
<1>5. CASE /\ p[second] > p[first] /\ j1 = first
           /\ w = [v EXCEPT ![first] = v[first] - (p[second] - p[first])]
  <2>1. j1 = first /\ w = [v EXCEPT ![first] = v[first] - (p[second] - p[first])]
        /\ p[second] > p[first]
    BY <1>5
  <2>2. /\ w[first] = v[first] - (p[second] - p[first])
        /\ \A j \in Index : j # first => w[j] = v[j]
    BY <1>1, <1>3, <2>1
  <2>3. /\ p[first] \in Int /\ p[second] \in Int /\ v[first] \in Int /\ cost[i][first] \in Int
        /\ p[first] = cost[i][first] - v[first]
    BY <1>1, <1>2, <1>3, <1>4
  <2>4. w[first] \in Int /\ w[first] <= v[first] /\ cost[i][first] - w[first] = p[second]
    BY <2>1, <2>2, <2>3
  <2>5. w \in [Index -> Int]
    BY <1>1, <2>1, <2>2, <2>4
  <2>6. \A j \in Index : w[j] \in Int /\ w[j] <= v[j]
    BY <1>1, <2>2, <2>4
  <2>7. Below(w)
    <3> SUFFICES ASSUME NEW a \in Index, NEW j \in Index PROVE w[j] <= cost[a][j]
      BY DEF Below
    <3>1. v[j] \in Int /\ cost[a][j] \in Int /\ w[j] \in Int /\ w[j] <= v[j]
      BY <1>1, <2>6
    <3>2. v[j] <= cost[a][j]
      BY <1>1
    <3> QED BY <3>1, <3>2
  <2>8. Fair(w, i, first)
    <3> SUFFICES ASSUME NEW k \in Index PROVE cost[i][first] - w[first] <= cost[i][k] - w[k]
      BY DEF Fair
    <3>1. CASE k = first
      BY <2>3, <2>4, <3>1
    <3>2. CASE k # first
      BY <1>2, <1>4, <2>2, <2>4, <3>2
    <3> QED BY <3>1, <3>2
  <2>9. ASSUME NEW j \in Index, j # first, y[j] >= 0 PROVE Fair(w, y[j], j)
    <3> SUFFICES ASSUME NEW k \in Index PROVE cost[y[j]][j] - w[j] <= cost[y[j]][k] - w[k]
      BY DEF Fair
    <3>1. y[j] \in Index
      BY <1>1, <2>9
    <3>2. /\ cost[y[j]][j] \in Int /\ cost[y[j]][k] \in Int /\ v[k] \in Int /\ v[j] \in Int
          /\ w[j] = v[j] /\ w[k] <= v[k] /\ w[k] \in Int
      BY <1>1, <2>2, <2>6, <2>9, <3>1
    <3>3. cost[y[j]][j] - v[j] <= cost[y[j]][k] - v[k]
      BY <2>9 DEF Fair
    <3> QED BY <3>2, <3>3
  <2> QED BY <1>00, <1>3, <1>4, <2>1, <2>5, <2>7, <2>8, <2>9
<1>6. CASE w = v /\ (j1 = first \/ (~ (p[second] > p[first]) /\ j1 = second))
  <2>1. w = v
    BY <1>6
  <2>2. j1 \in Index /\ \A k \in Index : p[j1] <= p[k]
    <3>1. CASE j1 = first
      BY <1>3, <3>1
    <3>2. CASE j1 = second /\ ~ (p[second] > p[first])
      <4>1. p[second] \in Nat /\ p[first] \in Nat
        BY <1>2, <1>3, <1>4
      <4>2. p[second] <= p[first]
        BY <3>2, <4>1
      <4> SUFFICES ASSUME NEW k \in Index PROVE p[second] <= p[k]
        BY <1>4, <3>2
      <4>3. p[k] \in Nat /\ p[first] <= p[k]
        BY <1>2, <1>3
      <4> QED BY <4>1, <4>2, <4>3
    <3> QED BY <1>6, <3>1, <3>2
  <2>3. Fair(w, i, j1)
    <3> SUFFICES ASSUME NEW k \in Index PROVE cost[i][j1] - v[j1] <= cost[i][k] - v[k]
      BY <2>1 DEF Fair
    <3> QED BY <1>2, <2>2
  <2> QED BY <1>00, <1>1, <1>3, <1>4, <2>1, <2>2, <2>3
<1> QED BY <1>0, <1>5, <1>6

LEMMA ReduceRowInd == LapjvInd /\ ReduceRow => LapjvInd'
<1> SUFFICES ASSUME LapjvInd, ReduceRow PROVE LapjvInd'
  OBVIOUS
<1> DEFINE i == free[current]
           p == [j \in Index |-> Price(i, j)]
           first == Least(Index, p)
           second == Least(Index \ {first}, p)
           in_time == rr + 1 < (current + 1) * n
           lowers == p[second] > p[first]
           j1 == IF in_time /\ ~ lowers /\ y[first] >= 0 THEN second ELSE first
           i0 == y[j1]
           lowered == in_time /\ lowers
<1>1. /\ pc = "reduce" /\ current < nFree
      /\ v' = IF lowered THEN [v EXCEPT ![first] = @ - (p[second] - p[first])] ELSE v
      /\ x' = [x EXCEPT ![i] = j1]
      /\ y' = [y EXCEPT ![j1] = i]
      /\ \/ i0 < 0 /\ current' = current + 1 /\ UNCHANGED <<free, new>>
         \/ i0 >= 0 /\ in_time /\ lowers /\ PutBack(i0)
         \/ i0 >= 0 /\ ~ (in_time /\ lowers) /\ PutOff(i0)
      /\ rr' = rr + 1
      /\ UNCHANGED <<shape, pc, row, nFree, round, pending, search, at, flips>>
  BY Zenon DEF ReduceRow
<1>2. /\ UNCHANGED shape /\ pc' = "reduce"
      /\ UNCHANGED <<row, nFree, round, pending, d, pred, ready, scanning, at, flips>>
  BY <1>1 DEF search
<1>3. /\ Index' = Index /\ rows' = rows /\ cols' = cols /\ cost' = cost /\ n' = n
  BY <1>2, SameShape
<1>4. /\ LapjvType /\ Below(v) /\ rows > 0 /\ cols > 0
      /\ pending = 0 /\ new <= current /\ current <= nFree
      /\ \A j \in Index : y[j] >= 0 => Fair(v, y[j], j)
      /\ ListKept(free, Places, y, x, None)
  BY <1>1, FairPrices DEF LapjvInd, Phases, Listing
<1>5. /\ current \in Nat /\ new \in Nat /\ nFree \in Nat /\ nFree <= n /\ n \in Nat /\ rr \in Nat
      /\ free \in [Index -> Index]
      /\ x \in [Index -> Index \cup {None}] /\ y \in [Index -> Index \cup {None}]
      /\ rows \in Nat /\ cols \in Nat
  BY <1>4, IndexFacts DEF LapjvType
<1>6. current \in Index /\ new \in Index /\ i \in Index
  BY <1>1, <1>4, <1>5, IndexFacts
<1>7. /\ Places = (0..(new - 1)) \cup (current..(nFree - 1))
      /\ Places' = (0..(new' - 1)) \cup (current'..(nFree - 1))
  BY <1>1, <1>2 DEF Places
<1>8. current \in Places /\ Places \subseteq Index /\ new \notin Places \ {current}
  <2>1. \A k \in Places : k \in Nat /\ k < n
    BY <1>1, <1>4, <1>5, <1>7
  <2>2. Places \subseteq Index
    BY <1>5, <2>1, IndexFacts
  <2> QED BY <1>1, <1>4, <1>5, <1>7, <2>2
<1>9. /\ j1 \in Index /\ v' \in [Index -> Int] /\ Below(v') /\ Fair(v', i, j1)
      /\ \A j \in Index : j # j1 /\ y[j] >= 0 => Fair(v', y[j], j)
  <2>1. p = Prices(i) /\ first = First(i) /\ second = Second(i)
    BY Zenon DEF Prices, First, Second
  <2>2. \/ /\ p[second] > p[first] /\ j1 = first
           /\ v' = [v EXCEPT ![first] = @ - (p[second] - p[first])]
        \/ v' = v /\ (j1 = first \/ (~ (p[second] > p[first]) /\ j1 = second))
    <3>1. v' = IF lowered THEN [v EXCEPT ![first] = @ - (p[second] - p[first])] ELSE v
      BY <1>1, Zenon
    <3>2. lowered => p[second] > p[first] /\ j1 = first
      BY Zenon
    <3>3. j1 = first \/ (~ (p[second] > p[first]) /\ j1 = second)
      BY Zenon
    <3> HIDE DEF p, first, second, lowered, j1
    <3> QED BY <3>1, <3>2, <3>3, Zenon
  <2>3. /\ LapjvType /\ Below(v) /\ rows > 0 /\ cols > 0 /\ i \in Index
        /\ \A j \in Index : y[j] >= 0 => Fair(v, y[j], j)
    BY <1>4, <1>6
  <2> HIDE DEF i, p, first, second, lowered, j1
  <2> QED BY <2>1, <2>2, <2>3, ReducePrices
<1>10. i0 \in Index \cup {None} /\ (i0 >= 0 => i0 \in Index) /\ (i0 < 0 <=> ~ (i0 >= 0))
  BY <1>5, <1>9, IndexFacts
<1>11. \/ i0 < 0 /\ current' = current + 1 /\ free' = free /\ new' = new
       \/ i0 >= 0 /\ PutBack(i0)
       \/ i0 >= 0 /\ PutOff(i0)
  BY <1>1
<1> HIDE DEF first, second, p, in_time, lowers, j1
<1>12. /\ ListKept(free', Places', y', x', None)
       /\ free' \in [Index -> Index] /\ current' \in Nat /\ new' \in Nat
       /\ new' <= current' /\ current' <= nFree
  <2>1. CASE i0 < 0 /\ current' = current + 1 /\ free' = free /\ new' = new
    <3>1. Places' = Places \ {current}
      BY <1>1, <1>4, <1>5, <1>7, <2>1
    <3>2. ListKept(free, Places, y, x, j1)
      BY <1>4, <1>5, <1>9, <2>1, OpenHole
    <3>3. ListKept(free, Places \ {current}, y', x', None)
      BY <1>1, <1>5, <1>6, <1>8, <1>9, <3>2, GiveRow
    <3> QED BY <1>1, <1>4, <1>5, <2>1, <3>1, <3>3
  <2>2. CASE i0 >= 0 /\ PutBack(i0)
    <3>1. free' = [free EXCEPT ![current] = i0] /\ current' = current /\ new' = new
      BY <2>2 DEF PutBack
    <3>2. Places' = (Places \ {current}) \cup {current}
      BY <1>7, <1>8, <3>1
    <3>3. ListKept([free EXCEPT ![current] = i0], (Places \ {current}) \cup {current}, y', x', None)
      BY <1>1, <1>4, <1>5, <1>6, <1>8, <1>9, <2>2, TradeRow
    <3>4. free' \in [Index -> Index]
      BY <1>5, <1>10, <2>2, <3>1
    <3> QED BY <1>4, <1>5, <3>1, <3>2, <3>3, <3>4
  <2>3. CASE i0 >= 0 /\ PutOff(i0)
    <3>1. free' = [free EXCEPT ![new] = i0] /\ current' = current + 1 /\ new' = new + 1
      BY <2>3 DEF PutOff
    <3>2. Places' = (Places \ {current}) \cup {new}
      BY <1>1, <1>4, <1>5, <1>7, <3>1
    <3>3. ListKept([free EXCEPT ![new] = i0], (Places \ {current}) \cup {new}, y', x', None)
      BY <1>1, <1>4, <1>5, <1>6, <1>8, <1>9, <2>3, TradeRow
    <3>4. free' \in [Index -> Index]
      BY <1>5, <1>10, <2>3, <3>1
    <3> QED BY <1>1, <1>4, <1>5, <3>1, <3>2, <3>3, <3>4
  <2> QED BY <1>11, <2>1, <2>2, <2>3
<1>13. x' \in [Index -> Index \cup {None}] /\ y' \in [Index -> Index \cup {None}] /\ rr' \in Nat
  BY <1>1, <1>5, <1>6, <1>9
<1>14. LapjvType'
  BY <1>2, <1>3, <1>4, <1>9, <1>12, <1>13 DEF LapjvType
<1>15. PricesFair' /\ Below(v)'
  <2>1. ASSUME NEW j \in Index, y'[j] >= 0 PROVE Fair(v', y'[j], j)
    <3>1. CASE j = j1
      BY <1>1, <1>5, <1>9, <3>1
    <3>2. CASE j # j1
      BY <1>1, <1>5, <1>9, <2>1, <3>2
    <3> QED BY <3>1, <3>2
  <2> QED BY <1>2, <1>9, <2>1, FairPricesNext, BelowNext
<1>16. Phases'
  BY <1>2, <1>3, <1>4, <1>12 DEF Phases
<1>17. Listing'
  BY <1>2, <1>3, <1>12 DEF Listing, ListKept
<1>18. Transferring' /\ Searching' /\ Flipping'
  BY <1>2 DEF Transferring, Searching, Flipping
<1> QED BY <1>14, <1>15, <1>16, <1>17, <1>18 DEF LapjvInd

LEMMA ReduceEndInd == LapjvInd /\ ReduceEnd => LapjvInd'
<1> SUFFICES ASSUME LapjvInd, ReduceEnd PROVE LapjvInd'
  OBVIOUS
<1>1. /\ pc = "reduce" /\ current = nFree
      /\ nFree' = new /\ current' = 0 /\ new' = 0 /\ rr' = 0 /\ round' = round + 1
      /\ pc' = IF new = 0 THEN "solved" ELSE IF round = 0 THEN "reduce" ELSE "path"
      /\ UNCHANGED <<shape, duals, row, free, pending, search, at, flips>>
  BY DEF ReduceEnd
<1>2. /\ UNCHANGED shape
      /\ UNCHANGED <<x, y, v, row, free, pending, d, pred, ready, scanning, at, flips>>
  BY <1>1 DEF duals, search
<1>3. Index' = Index /\ rows' = rows /\ cols' = cols /\ cost' = cost /\ n' = n
  BY <1>2, SameShape
<1>4. /\ LapjvType /\ Below(v) /\ rows > 0 /\ cols > 0 /\ pending = 0 /\ new <= nFree
      /\ ListKept(free, Places, y, x, None)
  BY <1>1 DEF LapjvInd, Phases, Listing
<1>5. new \in Nat /\ nFree \in 0..n /\ n \in Nat /\ round \in Nat
  BY <1>4, IndexFacts DEF LapjvType
<1>6. pc' \in {"solved", "reduce", "path"} /\ (pc' = "solved" => new = 0)
  BY <1>1
<1>7. Places' = Places
  <2>1. Places = 0..(new - 1)
    BY <1>1, <1>5 DEF Places
  <2>2. CASE pc' = "solved"
    BY <1>5, <1>6, <2>1, <2>2 DEF Places
  <2>3. CASE pc' = "reduce"
    BY <1>1, <1>5, <2>1, <2>3 DEF Places
  <2>4. CASE pc' = "path"
    BY <1>1, <1>2, <1>4, <2>1, <2>4 DEF Places
  <2> QED BY <1>6, <2>2, <2>3, <2>4
<1>8. Listing'
  BY <1>2, <1>3, <1>4, <1>6, <1>7 DEF Listing, ListKept
<1>9. LapjvType'
  <2>1. nFree' \in 0..n
    BY <1>1, <1>4, <1>5
  <2> QED BY <1>1, <1>2, <1>3, <1>4, <1>5, <1>6, <2>1 DEF LapjvType
<1>10. Phases'
  BY <1>1, <1>2, <1>3, <1>4, <1>5, <1>6 DEF Phases
<1>11. PricesFair' /\ Below(v)'
  BY <1>1, <1>2, <1>4, FairPrices, FairPricesNext, BelowNext DEF LapjvInd
<1>12. Transferring' /\ Searching' /\ Flipping'
  BY <1>6 DEF Transferring, Searching, Flipping
<1> QED BY <1>8, <1>9, <1>10, <1>11, <1>12 DEF LapjvInd

\* What the search relies on, in one place.
LEMMA SearchFacts ==
  ASSUME LapjvInd, pc \in {"path", "find", "scan", "flip"}
  PROVE  /\ LapjvType /\ Below(v) /\ rows > 0 /\ cols > 0 /\ rows \in Nat /\ cols \in Nat
         /\ \A j \in Index : y[j] >= 0 => Fair(v, y[j], j)
         /\ ListKept(free, pending..(nFree - 1), y, x, IF pc = "flip" THEN at ELSE None)
         /\ pending \in Nat /\ nFree \in 0..n /\ n \in Nat
         /\ pending < nFree => pending \in Index /\ Root \in Index /\ pending \in pending..(nFree - 1)
         /\ pc # "path" => pending < nFree
<1>1. /\ LapjvType /\ Below(v) /\ rows > 0 /\ cols > 0
      /\ \A j \in Index : y[j] >= 0 => Fair(v, y[j], j)
      /\ pc # "path" => pending < nFree
  BY FairPrices DEF LapjvInd, Phases
<1>2. ListKept(free, pending..(nFree - 1), y, x, IF pc = "flip" THEN at ELSE None)
  BY <1>1 DEF LapjvInd, Listing, Places
<1>3. pending \in Nat /\ nFree \in 0..n /\ n \in Nat /\ rows \in Nat /\ cols \in Nat
  BY <1>1, IndexFacts DEF LapjvType
<1>4. pending < nFree => pending \in Index /\ pending \in pending..(nFree - 1)
  BY <1>3, IndexFacts
<1>5. pending < nFree => Root \in Index
  BY <1>1, <1>4 DEF Root, LapjvType
<1> QED BY <1>1, <1>2, <1>3, <1>4, <1>5

\* The tree speaks of the prices, the assignment and the root, which the search leaves alone.
LEMMA TreeNext ==
  ASSUME UNCHANGED <<shape, v, y, free, pending>>
  PROVE  /\ Tree(ready, scanning, d, pred)' <=> Tree(ready', scanning', d', pred')
         /\ \A r, m : Ranked(ready, pred, r, m)' <=> Ranked(ready', pred', r, m)
<1>1. UNCHANGED shape /\ v' = v /\ y' = y /\ Root' = Root
  BY DEF Root
<1>2. Index' = Index /\ cost' = cost
  BY <1>1, SameShape
<1> QED BY <1>1, <1>2 DEF Tree, Ranked, Way

LEMMA PathEndInd == LapjvInd /\ PathEnd => LapjvInd'
<1> SUFFICES ASSUME LapjvInd, PathEnd PROVE LapjvInd'
  OBVIOUS
<1>1. /\ pc = "path" /\ pending = nFree /\ pc' = "solved"
      /\ UNCHANGED <<shape, duals, row, list, pending, search, at, flips>>
  BY DEF PathEnd
<1>2. /\ UNCHANGED shape
      /\ UNCHANGED <<x, y, v, row, free, nFree, current, new, rr, round, pending, d, pred, ready,
                    scanning, at, flips>>
  BY <1>1 DEF duals, list, search
<1>3. Index' = Index /\ rows' = rows /\ cols' = cols /\ cost' = cost /\ n' = n
  BY <1>2, SameShape
<1>4. /\ LapjvType /\ Below(v) /\ rows > 0 /\ cols > 0
      /\ \A j \in Index : y[j] >= 0 => Fair(v, y[j], j)
      /\ ListKept(free, pending..(nFree - 1), y, x, None)
      /\ pending \in Nat
  BY <1>1, SearchFacts
<1>5. Places' = pending..(nFree - 1)
  BY <1>1, <1>4 DEF Places
<1>6. Listing'
  BY <1>1, <1>2, <1>3, <1>4, <1>5 DEF Listing, ListKept
<1>7. LapjvType'
  BY <1>1, <1>2, <1>3, <1>4 DEF LapjvType
<1>8. Phases'
  BY <1>1, <1>2, <1>3, <1>4 DEF Phases
<1>9. PricesFair' /\ Below(v)'
  BY <1>2, <1>4, FairPricesNext, BelowNext
<1>10. Transferring' /\ Searching' /\ Flipping'
  BY <1>1 DEF Transferring, Searching, Flipping
<1> QED BY <1>6, <1>7, <1>8, <1>9, <1>10 DEF LapjvInd

LEMMA PathStartInd == LapjvInd /\ PathStart => LapjvInd'
<1> SUFFICES ASSUME LapjvInd, PathStart PROVE LapjvInd'
  OBVIOUS
<1>1. /\ pc = "path" /\ pending < nFree /\ pc' = "find"
      /\ d' = [j \in Index |-> Price(Root, j)]
      /\ pred' = [j \in Index |-> Root]
      /\ ready' = {} /\ scanning' = {}
      /\ UNCHANGED <<shape, duals, row, list, pending, at, flips>>
  BY DEF PathStart
<1>2. /\ UNCHANGED shape
      /\ UNCHANGED <<x, y, v, row, free, nFree, current, new, rr, round, pending, at, flips>>
  BY <1>1 DEF duals, list
<1>3. Index' = Index /\ rows' = rows /\ cols' = cols /\ cost' = cost /\ n' = n
  BY <1>2, SameShape
<1>4. /\ LapjvType /\ Below(v) /\ rows > 0 /\ cols > 0
      /\ \A j \in Index : y[j] >= 0 => Fair(v, y[j], j)
      /\ ListKept(free, pending..(nFree - 1), y, x, None)
      /\ pending \in Nat /\ Root \in Index
  BY <1>1, SearchFacts
<1>5. /\ d' \in [Index -> Int] /\ pred' \in [Index -> Index]
      /\ \A j \in Index : d'[j] = cost[Root][j] - v[j] /\ pred'[j] = Root /\ d'[j] <= cost[Root][j] - v[j]
  <2>1. \A j \in Index : cost[Root][j] \in Int /\ v[j] \in Int
    BY <1>4 DEF LapjvType
  <2> QED BY <1>1, <1>4, <2>1 DEF Price
<1>6. Tree(ready', scanning', d', pred')
  BY <1>1, <1>5 DEF Tree
<1>7. \E r \in [Index -> Nat], m \in Nat : Ranked(ready', pred', r, m)
  <2> DEFINE z == [k \in Index |-> 0]
  <2>1. z \in [Index -> Nat] /\ \A k \in Index : z[k] = 0
    OBVIOUS
  <2> HIDE DEF z
  <2>2. Ranked(ready', pred', z, 0)
    BY <1>1, <1>5, <2>1 DEF Ranked
  <2> QED BY <2>1, <2>2
<1>8. Searching'
  BY <1>2, <1>3, <1>6, <1>7, TreeNext DEF Searching
<1>9. Places' = pending..(nFree - 1)
  BY <1>1, <1>2 DEF Places
<1>10. Listing'
  BY <1>1, <1>2, <1>3, <1>4, <1>9 DEF Listing, ListKept
<1>11. LapjvType'
  BY <1>1, <1>2, <1>3, <1>4, <1>5 DEF LapjvType
<1>12. Phases'
  BY <1>1, <1>2, <1>3, <1>4 DEF Phases
<1>13. PricesFair' /\ Below(v)'
  BY <1>2, <1>4, FairPricesNext, BelowNext
<1>14. Transferring' /\ Flipping'
  BY <1>1 DEF Transferring, Flipping
<1> QED BY <1>8, <1>10, <1>11, <1>12, <1>13, <1>14 DEF LapjvInd

\* The search ends at the free column e, the columns of R scanned: prices change, and the
\* way back from e leads through columns that are no dearer than others at the new prices.
LEMMA ReachInd ==
  ASSUME LapjvInd, pc \in {"find", "scan"},
         NEW R \in SUBSET Index, NEW S \in SUBSET Index,
         Tree(R, S, d', pred'),
         \E r \in [Index -> Nat], m \in Nat : Ranked(R, pred', r, m),
         d' \in [Index -> Int], pred' \in [Index -> Index],
         NEW e \in Index, e \notin R, y[e] < 0, \A k \in Index \ R : d'[e] <= d'[k],
         v' = [k \in Index |-> IF k \in R THEN v[k] + d'[k] - d'[e] ELSE v[k]],
         at' = e, flips' = 0, pc' = "flip", ready' = ready, scanning' \subseteq Index,
         UNCHANGED <<shape, x, y, row, list, pending>>
  PROVE  LapjvInd'
<1>1. /\ UNCHANGED shape
      /\ UNCHANGED <<x, y, row, free, nFree, current, new, rr, round, pending>>
  BY DEF list
<1>2. Index' = Index /\ rows' = rows /\ cols' = cols /\ cost' = cost /\ n' = n
  BY <1>1, SameShape
<1>3. /\ LapjvType /\ Below(v) /\ rows > 0 /\ cols > 0 /\ rows \in Nat /\ cols \in Nat
      /\ \A j \in Index : y[j] >= 0 => Fair(v, y[j], j)
      /\ ListKept(free, pending..(nFree - 1), y, x, None)
      /\ pending \in Nat /\ Root \in Index /\ pending < nFree
  BY SearchFacts
<1>4. /\ v' \in [Index -> Int] /\ Below(v')
      /\ \A j \in Index : y[j] >= 0 => Fair(v', y[j], j)
      /\ \A k \in R \cup {e} : Fair(v', pred'[k], k)
  <2>1. R \subseteq Index /\ S \subseteq Index /\ v' = Raised(R, d', e)
    BY DEF Raised
  <2>2. PICK dd, pp : dd = d' /\ pp = pred'
    OBVIOUS
  <2>3. dd \in [Index -> Int] /\ pp \in [Index -> Index] /\ Tree(R, S, dd, pp)
        /\ \A k \in Index \ R : dd[e] <= dd[k]
    BY <2>2, Zenon
  <2>4. /\ Raised(R, dd, e) \in [Index -> Int] /\ Below(Raised(R, dd, e))
        /\ \A j \in Index : y[j] >= 0 => Fair(Raised(R, dd, e), y[j], j)
        /\ \A k \in R \cup {e} : Fair(Raised(R, dd, e), pp[k], k)
    BY <1>3, <2>1, <2>3, ReachFair
  <2> QED BY <2>1, <2>2, <2>4
<1>5. Root' = Root
  BY <1>1 DEF Root
<1>6. Tight' = {k \in Index : Fair(v', pred'[k], k)}
  BY <1>2 DEF Tight, Fair
<1>7. Flipping'
  <2>1. at' \in Tight' /\ R \subseteq Tight'
    BY <1>4, <1>6
  <2>2. PICK r \in [Index -> Nat], m \in Nat : Ranked(R, pred', r, m)
    OBVIOUS
  <2>3. \A k \in Tight' : pred'[k] = Root \/ \E j \in Tight' : r[j] < r[k] /\ y[j] = pred'[k]
    BY <1>6, <2>1, <2>2 DEF Ranked
  <2>4. Back(r)'
    BY <1>1, <1>5, <2>3 DEF Back
  <2> QED BY <1>2, <2>1, <2>2, <2>4 DEF Flipping
<1>8. Listing'
  <2>1. Places' = pending..(nFree - 1)
    BY <1>1 DEF Places
  <2>2. ListKept(free, pending..(nFree - 1), y, x, e)
    BY <1>3, OpenHole DEF LapjvType
  <2> QED BY <1>1, <1>2, <2>1, <2>2 DEF Listing, ListKept
<1>9. LapjvType'
  BY <1>1, <1>2, <1>3, <1>4 DEF LapjvInd, LapjvType
<1>10. Phases'
  BY <1>1, <1>2, <1>3 DEF Phases
<1>11. PricesFair' /\ Below(v)'
  BY <1>1, <1>4, FairPricesNext, BelowNext
<1>12. Transferring' /\ Searching'
  BY DEF Transferring, Searching
<1> QED BY <1>7, <1>8, <1>9, <1>10, <1>11, <1>12 DEF LapjvInd

LEMMA FindFreeInd == LapjvInd /\ FindFree => LapjvInd'
<1> SUFFICES ASSUME LapjvInd, FindFree PROVE LapjvInd'
  OBVIOUS
<1>1. /\ pc = "find" /\ scanning' = Nearest
      /\ UNCHANGED <<shape, x, y, row, list, pending, d, pred, ready>>
  BY DEF FindFree
<1>2. PICK e \in Nearest : y[e] < 0 /\ Reach(e, d[e])
  BY DEF FindFree
<1>3. /\ d \in [Index -> Int] /\ pred \in [Index -> Index] /\ ready \in SUBSET Index
      /\ scanning = {}
      /\ Tree(ready, {}, d, pred)
      /\ \E r \in [Index -> Nat], m \in Nat : Ranked(ready, pred, r, m)
  BY <1>1 DEF LapjvInd, LapjvType, Phases, Searching
<1>4. /\ e \in Index /\ e \notin ready /\ \A k \in Index \ ready : d[e] <= d[k]
      /\ Nearest \subseteq Index
  BY <1>3 DEF Nearest, Todo
<1>5. /\ v' = [k \in Index |-> IF k \in ready THEN v[k] + d[k] - d[e] ELSE v[k]]
      /\ at' = e /\ flips' = 0 /\ pc' = "flip"
  BY <1>2 DEF Reach
<1>6. {} \in SUBSET Index /\ d' = d /\ pred' = pred
  BY <1>1
<1> QED BY <1>1, <1>2, <1>3, <1>4, <1>5, <1>6, ReachInd

LEMMA FindInd == LapjvInd /\ Find => LapjvInd'
<1> SUFFICES ASSUME LapjvInd, Find PROVE LapjvInd'
  OBVIOUS
<1>1. /\ pc = "find" /\ pc' = "scan" /\ scanning' = Nearest /\ \A j \in Nearest : y[j] >= 0
      /\ UNCHANGED <<shape, duals, row, list, pending, d, pred, ready, at, flips>>
  BY DEF Find
<1>2. /\ UNCHANGED shape
      /\ UNCHANGED <<x, y, v, row, free, nFree, current, new, rr, round, pending, d, pred, ready,
                    at, flips>>
  BY <1>1 DEF duals, list
<1>3. Index' = Index /\ rows' = rows /\ cols' = cols /\ cost' = cost /\ n' = n
  BY <1>2, SameShape
<1>4. /\ LapjvType /\ Below(v) /\ rows > 0 /\ cols > 0
      /\ \A j \in Index : y[j] >= 0 => Fair(v, y[j], j)
      /\ ListKept(free, pending..(nFree - 1), y, x, None)
      /\ pending \in Nat /\ pending < nFree
  BY <1>1, SearchFacts
<1>5. /\ Tree(ready, {}, d, pred) /\ scanning = {}
      /\ \E r \in [Index -> Nat], m \in Nat : Ranked(ready, pred, r, m)
  BY <1>1 DEF LapjvInd, Phases, Searching
<1>6. /\ Nearest \subseteq Index \ ready
      /\ \A j \in Nearest, k \in Index \ ready : d[j] <= d[k]
  BY <1>5 DEF Nearest, Todo
<1>7. Tree(ready, Nearest, d, pred)
  BY <1>1, <1>5, <1>6 DEF Tree
<1>8. Searching'
  BY <1>1, <1>2, <1>3, <1>5, <1>7, TreeNext DEF Searching
<1>9. Places' = pending..(nFree - 1)
  BY <1>1, <1>2 DEF Places
<1>10. Listing'
  BY <1>1, <1>2, <1>3, <1>4, <1>9 DEF Listing, ListKept
<1>11. LapjvType'
  BY <1>1, <1>2, <1>3, <1>4, <1>6 DEF LapjvType
<1>12. Phases'
  BY <1>1, <1>2, <1>3, <1>4 DEF Phases
<1>13. PricesFair' /\ Below(v)'
  BY <1>2, <1>4, FairPricesNext, BelowNext
<1>14. Transferring' /\ Flipping'
  BY <1>1 DEF Transferring, Flipping
<1> QED BY <1>8, <1>10, <1>11, <1>12, <1>13, <1>14 DEF LapjvInd

\* What scanning one column does to the tree.
LEMMA ShortenFacts ==
  ASSUME LapjvInd, pc = "scan", NEW j \in scanning, Shorten(j)
  PROVE  /\ j \in Index /\ j \notin ready /\ ready \subseteq Index /\ scanning \subseteq Index
         /\ Tree(ready \cup {j}, scanning \ {j}, d', pred')
         /\ \E r \in [Index -> Nat], m \in Nat : Ranked(ready \cup {j}, pred', r, m)
         /\ d' \in [Index -> Int] /\ pred' \in [Index -> Index]
         /\ \A k \in Index \ ready : d[j] <= d'[k]
         /\ \A k \in ready \cup {j} : d'[k] = d[k]
         /\ \A k \in Joining(j) : k \in Index \ (ready \cup scanning) /\ d'[k] = d[j]
<1>1. /\ LapjvType /\ \A c \in Index : y[c] >= 0 => Fair(v, y[c], c)
      /\ Root \in Index
  BY SearchFacts
<1>2. /\ Tree(ready, scanning, d, pred)
      /\ \E r \in [Index -> Nat], m \in Nat : Ranked(ready, pred, r, m)
  BY DEF LapjvInd, Searching
<1>3. /\ d \in [Index -> Int] /\ pred \in [Index -> Index]
      /\ ready \subseteq Index /\ scanning \subseteq Index /\ j \in Index
  BY <1>1 DEF LapjvType
<1>4. j \notin ready /\ y[j] >= 0 /\ Fair(v, y[j], j)
  BY <1>1, <1>2, <1>3 DEF Tree
<1> DEFINE near == Near(ready, scanning, d, j)
           d1 == DistBy(ready, scanning, d, j)
           p1 == PredBy(ready, scanning, d, pred, j)
<1>5. near = Nearer(j)
  BY DEF Near, Nearer, Todo, Through, Price, Way
<1>6. /\ near = {k \in Index \ (ready \cup scanning) : Way(d, j, k) < d[k]}
      /\ d1 = [k \in Index |-> IF k \in near THEN Way(d, j, k) ELSE d[k]]
      /\ p1 = [k \in Index |-> IF k \in near THEN y[j] ELSE pred[k]]
  BY DEF Near, DistBy, PredBy
<1>7. d' = d1 /\ pred' = p1
  <2>1. \A k \in Index : Through(j, k) = Way(d, j, k)
    BY DEF Through, Price, Way
  <2>2. /\ d' = [k \in Index |-> IF k \in Nearer(j) THEN Through(j, k) ELSE d[k]]
        /\ pred' = [k \in Index |-> IF k \in Nearer(j) THEN y[j] ELSE pred[k]]
    BY DEF Shorten
  <2> HIDE DEF near, d1, p1
  <2> QED BY <1>5, <1>6, <2>1, <2>2
<1>8. /\ Tree(ready \cup {j}, scanning \ {j}, d1, p1)
      /\ d1 \in [Index -> Int] /\ p1 \in [Index -> Index]
      /\ \A k \in Index \ ready : d[j] <= d1[k]
  BY <1>1, <1>2, <1>3, <1>4, ShortenTree
<1> HIDE DEF near, d1, p1
<1>9. \E r \in [Index -> Nat], m \in Nat : Ranked(ready \cup {j}, p1, r, m)
  <2>1. near \in SUBSET Index /\ near \cap (ready \cup {j}) = {}
    BY <1>6
  <2> QED BY <1>2, <1>3, <1>4, <1>6, <2>1, ShortenRank
<1>10. \A k \in ready \cup {j} : k \in Index /\ k \notin near
  BY <1>3, <1>6
<1>11. \A k \in Joining(j) : k \in Index \ (ready \cup scanning) /\ d1[k] = d[j]
  <2> SUFFICES ASSUME NEW k \in Joining(j)
               PROVE  k \in Index \ (ready \cup scanning) /\ d1[k] = d[j]
    OBVIOUS
  <2>1. k \in near /\ Through(j, k) = d[j]
    BY <1>5 DEF Joining
  <2>2. Way(d, j, k) = d[j]
    BY <2>1 DEF Through, Price, Way
  <2> QED BY <1>6, <2>1, <2>2
<1>12. \A k \in ready \cup {j} : d1[k] = d[k]
  BY <1>6, <1>10
<1> QED BY <1>3, <1>4, <1>7, <1>8, <1>9, <1>11, <1>12

LEMMA ScanFreeInd == LapjvInd /\ ScanFree => LapjvInd'
<1> SUFFICES ASSUME LapjvInd, ScanFree PROVE LapjvInd'
  OBVIOUS
<1>1. /\ pc = "scan"
      /\ UNCHANGED <<shape, x, y, row, list, pending, ready, scanning>>
  BY DEF ScanFree
<1>2. PICK j \in scanning :
        /\ \E k \in Joining(j) : y[k] < 0 /\ Reach(k, d[j])
        /\ Shorten(j)
  BY DEF ScanFree
<1>3. PICK e \in Joining(j) : y[e] < 0 /\ Reach(e, d[j])
  BY <1>2
<1>4. PICK R, S : R = ready \cup {j} /\ S = scanning \ {j}
  OBVIOUS
<1>5. /\ j \in Index /\ j \notin ready /\ ready \subseteq Index /\ scanning \subseteq Index
      /\ Tree(R, S, d', pred')
      /\ \E r \in [Index -> Nat], m \in Nat : Ranked(R, pred', r, m)
      /\ d' \in [Index -> Int] /\ pred' \in [Index -> Index]
      /\ \A k \in Index \ ready : d[j] <= d'[k]
      /\ \A k \in R : d'[k] = d[k]
      /\ e \in Index \ (ready \cup scanning) /\ d'[e] = d[j]
  BY <1>1, <1>2, <1>3, <1>4, ShortenFacts
<1>6. /\ at' = e /\ flips' = 0 /\ pc' = "flip"
      /\ v' = [k \in Index |-> IF k \in ready THEN v[k] + d[k] - d[j] ELSE v[k]]
  BY <1>3 DEF Reach
<1>7. v' = [k \in Index |-> IF k \in R THEN v[k] + d'[k] - d'[e] ELSE v[k]]
  <2>1. \A k \in Index : v[k] \in Int /\ d[k] \in Int
    BY DEF LapjvInd, LapjvType
  <2>2. ASSUME NEW k \in Index
        PROVE  (IF k \in ready THEN v[k] + d[k] - d[j] ELSE v[k])
               = (IF k \in R THEN v[k] + d'[k] - d'[e] ELSE v[k])
    <3>1. CASE k \in ready
      BY <1>4, <1>5, <3>1
    <3>2. CASE k = j
      BY <1>4, <1>5, <2>1, <3>2
    <3>3. CASE k \notin R
      BY <1>4, <3>3
    <3> QED BY <1>4, <3>1, <3>2, <3>3
  <2> QED BY <1>6, <2>2
<1>8. /\ R \in SUBSET Index /\ S \in SUBSET Index
      /\ e \in Index /\ e \notin R /\ \A k \in Index \ R : d'[e] <= d'[k]
      /\ pc \in {"find", "scan"} /\ ready' = ready /\ scanning' \subseteq Index
      /\ UNCHANGED <<shape, x, y, row, list, pending>>
  BY <1>1, <1>2, <1>4, <1>5
<1> QED BY <1>3, <1>5, <1>6, <1>7, <1>8, ReachInd

LEMMA ScanInd == LapjvInd /\ Scan => LapjvInd'
<1> SUFFICES ASSUME LapjvInd, Scan PROVE LapjvInd'
  OBVIOUS
<1>1. /\ pc = "scan" /\ pc' = IF scanning' = {} THEN "find" ELSE "scan"
      /\ UNCHANGED <<shape, duals, row, list, pending, at, flips>>
  BY DEF Scan
<1>2. PICK j \in scanning :
        /\ \A k \in Joining(j) : y[k] >= 0
        /\ Shorten(j)
        /\ ready' = ready \cup {j}
        /\ scanning' = (scanning \ {j}) \cup Joining(j)
  BY DEF Scan
<1>3. /\ UNCHANGED shape
      /\ UNCHANGED <<x, y, v, row, free, nFree, current, new, rr, round, pending, at, flips>>
  BY <1>1 DEF duals, list
<1>4. Index' = Index /\ rows' = rows /\ cols' = cols /\ cost' = cost /\ n' = n
  BY <1>3, SameShape
<1>5. /\ LapjvType /\ Below(v) /\ rows > 0 /\ cols > 0
      /\ \A c \in Index : y[c] >= 0 => Fair(v, y[c], c)
      /\ ListKept(free, pending..(nFree - 1), y, x, None)
      /\ pending \in Nat /\ pending < nFree
  BY <1>1, SearchFacts
<1>6. /\ j \in Index /\ j \notin ready /\ ready \subseteq Index /\ scanning \subseteq Index
      /\ Tree(ready \cup {j}, scanning \ {j}, d', pred')
      /\ \E r \in [Index -> Nat], m \in Nat : Ranked(ready \cup {j}, pred', r, m)
      /\ d' \in [Index -> Int] /\ pred' \in [Index -> Index]
      /\ \A k \in Index \ ready : d[j] <= d'[k]
      /\ \A k \in ready \cup {j} : d'[k] = d[k]
      /\ \A k \in Joining(j) : k \in Index \ (ready \cup scanning) /\ d'[k] = d[j]
  BY <1>1, <1>2, ShortenFacts
<1>7. Tree(ready', scanning', d', pred')
  <2>1. /\ ready' \cap scanning' = {} /\ \A c \in ready' \cup scanning' : y[c] >= 0
    BY <1>2, <1>6 DEF Tree
  <2>2. \A c \in ready' \cup scanning', k \in Index \ ready' : d'[c] <= d'[k]
    BY <1>2, <1>6 DEF Tree
  <2> QED BY <1>2, <1>6, <2>1, <2>2 DEF Tree
<1>8. Searching'
  BY <1>2, <1>3, <1>4, <1>6, <1>7, TreeNext DEF Searching
<1>9. pc' \in {"find", "scan"} /\ (pc' = "find" => scanning' = {})
  BY <1>1
<1>10. Places' = pending..(nFree - 1)
  BY <1>3, <1>9 DEF Places
<1>11. Listing'
  BY <1>3, <1>4, <1>5, <1>9, <1>10 DEF Listing, ListKept
<1>12. LapjvType'
  <2>1. ready' \subseteq Index /\ scanning' \subseteq Index
    BY <1>2, <1>6
  <2> QED BY <1>3, <1>4, <1>5, <1>6, <1>9, <2>1 DEF LapjvType
<1>13. Phases'
  BY <1>3, <1>4, <1>5, <1>9 DEF Phases
<1>14. PricesFair' /\ Below(v)'
  BY <1>3, <1>5, FairPricesNext, BelowNext
<1>15. Transferring' /\ Flipping'
  BY <1>9 DEF Transferring, Flipping
<1> QED BY <1>8, <1>11, <1>12, <1>13, <1>14, <1>15 DEF LapjvInd

LEMMA FlipInd == LapjvInd /\ Flip => LapjvInd'
<1> SUFFICES ASSUME LapjvInd, Flip PROVE LapjvInd'
  OBVIOUS
<1> DEFINE i == pred[at]
<1>1. /\ pc = "flip"
      /\ y' = [y EXCEPT ![at] = i]
      /\ x' = [x EXCEPT ![i] = at]
      /\ at' = x[i]
      /\ flips' = flips + 1
      /\ \/ pc' = "thrown" /\ UNCHANGED pending
         \/ i = Root /\ pc' = "path" /\ pending' = pending + 1
         \/ i # Root /\ pc' = "flip" /\ UNCHANGED pending
      /\ UNCHANGED <<shape, v, row, list, search>>
  BY Zenon DEF Flip
<1>2. /\ UNCHANGED shape
      /\ UNCHANGED <<v, row, free, nFree, current, new, rr, round, d, pred, ready, scanning>>
  BY <1>1 DEF list, search
<1>3. Index' = Index /\ rows' = rows /\ cols' = cols /\ cost' = cost /\ n' = n
  BY <1>2, SameShape
<1>4. /\ LapjvType /\ Below(v) /\ rows > 0 /\ cols > 0 /\ rows \in Nat /\ cols \in Nat
      /\ \A j \in Index : y[j] >= 0 => Fair(v, y[j], j)
      /\ ListKept(free, pending..(nFree - 1), y, x, at)
      /\ pending \in Nat /\ nFree \in 0..n /\ n \in Nat /\ pending < nFree
      /\ Root \in Index /\ pending \in pending..(nFree - 1)
  BY <1>1, SearchFacts
<1>5. at \in Tight /\ \E r \in [Index -> Nat] : Back(r)
  BY <1>1 DEF LapjvInd, Flipping
<1>6. /\ at \in Index /\ pred \in [Index -> Index] /\ i \in Index /\ Fair(v, i, at)
      /\ x \in [Index -> Index \cup {None}] /\ y \in [Index -> Index \cup {None}]
  BY <1>4, <1>5 DEF Tight, LapjvType
<1> HIDE DEF i
<1>7. /\ x' \in [Index -> Index \cup {None}] /\ y' \in [Index -> Index \cup {None}]
      /\ at' \in Index \cup {None}
      /\ y'[at] = i /\ \A j \in Index \ {at} : y'[j] = y[j]
  BY <1>1, <1>6
<1>8. LapjvType'
  <2>1. pending' \in Nat /\ flips' \in Nat /\ pc' \in {"thrown", "path", "flip"}
    BY <1>1, <1>4 DEF LapjvType
  <2>2. at' \in Index' \cup {None, 0}
    BY <1>3, <1>7
  <2> QED BY <1>2, <1>3, <1>4, <1>7, <2>1, <2>2 DEF LapjvType
<1>9. PricesFair' /\ Below(v)'
  <2>1. ASSUME NEW j \in Index, y'[j] >= 0 PROVE Fair(v', y'[j], j)
    BY <1>2, <1>4, <1>6, <1>7, <2>1
  <2> QED BY <1>2, <1>4, <2>1, FairPricesNext, BelowNext
<1>10. Phases'
  BY <1>1, <1>2, <1>3, <1>4 DEF Phases
<1>11. Transferring' /\ Searching'
  BY <1>1 DEF Transferring, Searching
<1>12. Listing' /\ Flipping'
  <2>1. CASE pc' = "thrown"
    BY <2>1 DEF Listing, Flipping
  <2>2. CASE i = Root /\ pc' = "path" /\ pending' = pending + 1
    <3>1. Places' = (pending..(nFree - 1)) \ {pending}
      BY <1>2, <1>4, <2>2 DEF Places
    <3>2. i = free[pending]
      BY <2>2 DEF Root
    <3>3. ListKept(free, (pending..(nFree - 1)) \ {pending},
                   [y EXCEPT ![at] = free[pending]], [x EXCEPT ![free[pending]] = at], None)
      BY <1>4, <1>6, <3>2, GiveRow
    <3> QED BY <1>1, <1>2, <1>3, <2>2, <3>1, <3>2, <3>3 DEF Listing, Flipping, ListKept
  <2>3. CASE i # Root /\ pc' = "flip" /\ pending' = pending
    <3>1. PICK r \in [Index -> Nat] : Back(r)
      BY <1>5
    <3>2. PICK j \in Tight : r[j] < r[at] /\ y[j] = i
      <4>1. pred[at] # Root /\ pred[at] = i /\ r[at] <= r[at]
        BY <1>6, <2>3, <3>1 DEF i
      <4> QED BY <1>5, <3>1, <4>1 DEF Back
    <3>3. j \in Index /\ j # at
      BY <1>6, <3>1, <3>2 DEF Tight
    <3>4. x[i] = j /\ ListKept(free, pending..(nFree - 1), y', x', j)
      <4>1. x[i] = j /\ ListKept(free, pending..(nFree - 1),
                                 [y EXCEPT ![at] = i], [x EXCEPT ![i] = at], j)
        <5>1. /\ at \in Index /\ j \in Index /\ j # at /\ i \in Index /\ y[j] = i
              /\ ListKept(free, pending..(nFree - 1), y, x, at)
              /\ rows \in Nat /\ cols \in Nat
              /\ x \in [Index -> Index \cup {None}] /\ y \in [Index -> Index \cup {None}]
          BY <1>4, <1>6, <3>2, <3>3
        <5>2. /\ x[y[j]] = j
              /\ ListKept(free, pending..(nFree - 1),
                          [y EXCEPT ![at] = y[j]], [x EXCEPT ![y[j]] = at], j)
          BY <5>1, PassHole
        <5> QED BY <5>1, <5>2
      <4> QED BY <1>1, <4>1, Zenon
    <3>5. at' = j /\ Places' = pending..(nFree - 1)
      BY <1>1, <1>2, <2>3, <3>4 DEF Places
    <3>6. Listing'
      BY <1>2, <1>3, <2>3, <3>4, <3>5 DEF Listing, ListKept
    <3>7. Tight' = Tight /\ Root' = Root
      BY <1>2, <1>3, <2>3 DEF Tight, Fair, Root
    <3>8. ASSUME NEW k \in Tight, r[k] <= r[j]
          PROVE  pred[k] = Root \/ \E c \in Tight : r[c] < r[k] /\ y'[c] = pred[k]
      <4>1. k \in Index /\ r[k] \in Nat /\ r[j] \in Nat /\ r[at] \in Nat
        BY <1>6, <3>1, <3>3 DEF Tight
      <4>2. r[k] <= r[at]
        BY <3>2, <3>8, <4>1
      <4>3. CASE \E c \in Tight : r[c] < r[k] /\ y[c] = pred[k]
        <5>1. PICK c \in Tight : r[c] < r[k] /\ y[c] = pred[k]
          BY <4>3
        <5>2. c \in Index /\ r[c] \in Nat
          BY <3>1, <5>1 DEF Tight
        <5>3. c # at
          BY <3>2, <3>8, <4>1, <5>1, <5>2
        <5> QED BY <1>7, <5>1, <5>2, <5>3
      <4> QED BY <3>1, <4>2, <4>3 DEF Back
    <3>9. Back(r)'
      BY <1>2, <3>5, <3>7, <3>8 DEF Back
    <3> QED BY <1>3, <3>1, <3>2, <3>5, <3>6, <3>7, <3>9 DEF Flipping
  <2> QED BY <1>1, <2>1, <2>2, <2>3
<1> QED BY <1>8, <1>9, <1>10, <1>11, <1>12 DEF LapjvInd

LEMMA StepInd == LapjvInd /\ [LapjvNext]_lapjvVars => LapjvInd'
<1> SUFFICES ASSUME LapjvInd, [LapjvNext]_lapjvVars PROVE LapjvInd'
  OBVIOUS
<1>1. CASE Empty
  BY <1>1, EmptyInd
<1>2. CASE ColumnReduce
  BY <1>2, ColumnReduceInd
<1>3. CASE TransferRow
  BY <1>3, TransferRowInd
<1>4. CASE TransferEnd
  BY <1>4, TransferEndInd
<1>5. CASE ReduceRow
  BY <1>5, ReduceRowInd
<1>6. CASE ReduceEnd
  BY <1>6, ReduceEndInd
<1>7. CASE PathStart
  BY <1>7, PathStartInd
<1>8. CASE PathEnd
  BY <1>8, PathEndInd
<1>9. CASE FindFree
  BY <1>9, FindFreeInd
<1>10. CASE Find
  BY <1>10, FindInd
<1>11. CASE ScanFree
  BY <1>11, ScanFreeInd
<1>12. CASE Scan
  BY <1>12, ScanInd
<1>13. CASE Flip
  BY <1>13, FlipInd
<1>14. CASE Finish
  BY <1>14, FinishInd
<1>15. CASE UNCHANGED lapjvVars
  BY <1>15, StutterInd
<1> QED
  BY <1>1, <1>2, <1>3, <1>4, <1>5, <1>6, <1>7, <1>8, <1>9, <1>10, <1>11, <1>12, <1>13, <1>14, <1>15
  DEF LapjvNext

LEMMA IndKept == LapjvInd => LapjvInv
<1> SUFFICES ASSUME LapjvInd PROVE LapjvInv
  OBVIOUS
<1>1. /\ rows \in Nat /\ cols \in Nat /\ n \in Nat
      /\ \A i \in Nat : i < n => i \in Index
      /\ y \in [Index -> Index \cup {None}] /\ None \in Int /\ None < 0
      /\ free \in [Index -> Index]
      /\ row \in Nat /\ nFree \in 0..n /\ current \in Nat /\ new \in Nat /\ pending \in Nat
      /\ \A i \in Index : i \in Int /\ i >= 0 /\ i # None
  BY IndexFacts DEF LapjvInd, LapjvType
<1>2. pc \in {"start", "transfer"} => row \in 0..n
  BY <1>1 DEF LapjvInd, Phases, Transferring
<1>3. pc = "reduce" => new <= current /\ current <= nFree
  BY DEF LapjvInd, Phases
<1>4. ASSUME pc \in Settled, rows > 0, cols > 0
      PROVE  ListKept(free, Places, y, x, None)
  BY <1>4 DEF LapjvInd, Listing, Settled
<1>5. \A j \in Index : j \in Index \ {None}
  BY <1>1
<1>6. ASSUME pc \in Settled PROVE \A j \in Index : y[j] >= 0 => x[y[j]] = j
  <2>1. CASE rows = 0 \/ cols = 0
    BY <1>1, <2>1 DEF LapjvInd, Phases
  <2>2. CASE rows > 0 /\ cols > 0
    BY <1>4, <1>5, <1>6, <2>2 DEF ListKept
  <2> QED BY <1>1, <2>1, <2>2
<1>7. ASSUME pc \in Settled, rows > 0, cols > 0
      PROVE  Waiting \cap Assigned = {} /\ Waiting \cup Assigned = Index
  <2>1. Waiting = {free[k] : k \in Places}
    BY <1>7 DEF Waiting, Places, Settled
  <2>2. Places \subseteq Index
    <3> SUFFICES ASSUME NEW k \in Places PROVE k \in Nat /\ k < n
      BY <1>1
    <3>1. CASE pc = "reduce"
      BY <1>1, <1>3, <3>1 DEF Places
    <3>2. CASE pc # "reduce"
      BY <1>1, <3>2 DEF Places
    <3> QED BY <3>1, <3>2
  <2>3. /\ \A k \in Places, j \in Index : y[j] # free[k]
        /\ \A i \in Index : (\E j \in Index : y[j] = i) \/ (\E k \in Places : free[k] = i)
    BY <1>4, <1>5, <1>7 DEF ListKept
  <2>4. Assigned \subseteq Index /\ \A i \in Index : i \in Assigned <=> \E j \in Index : y[j] = i
    <3>1. \A j \in Index : y[j] >= 0 <=> y[j] \in Index
      BY <1>1
    <3> QED BY <3>1 DEF Assigned
  <2>5. Waiting \subseteq Index
    BY <1>1, <2>1, <2>2
  <2> QED BY <2>1, <2>3, <2>4, <2>5
<1>8. PricesFair
  BY DEF LapjvInd
<1> QED BY <1>2, <1>3, <1>6, <1>7, <1>8 DEF LapjvInv, RowsKept

(***************************************************************************)
(* Through all phases of a call, while free_rows is read and written in    *)
(* one place and prices change in three ways: no row is lost or listed     *)
(* although it has a column, rows and columns of the assignment agree, and *)
(* no row has a column dearer, after the price, than another.              *)
(***************************************************************************)
THEOREM RowsAndPricesKept == LapjvSpec => []LapjvInv
<1>1. LapjvInit => LapjvInd
  BY InitInd
<1>2. LapjvInd /\ [LapjvNext]_lapjvVars => LapjvInd'
  BY StepInd
<1>3. LapjvInd => LapjvInv
  BY IndKept
<1>4. QED
  BY <1>1, <1>2, <1>3, PTL DEF LapjvSpec

-----------------------------------------------------------------------------
(***************************************************************************)
(* The answer.                                                             *)
(***************************************************************************)

\* An answer of OptimalMatching, of whatever weight.
AnswerWhole ==
  \A a \in answer :
    \E m \in SUBSET ((0..(rows - 1)) \X (0..(cols - 1))) :
      Matching!IsMatching(m) /\ a = Matching!Answer(m)

\* Once solved, every row has a column of its own, of the table or of its extension.
LEMMA SolvedFacts ==
  ASSUME LapjvInd, pc = "solved"
  PROVE  /\ rows \in Nat /\ cols \in Nat
         /\ \A i \in 0..(rows - 1) : i \in Index /\ x[i] \in Index /\ y[x[i]] = i
         /\ \A j \in 0..(cols - 1) : j \in Index /\ y[j] \in Index \cup {None}
                                     /\ (y[j] \in Index => x[y[j]] = j)
<1>1. /\ rows \in Nat /\ cols \in Nat /\ rows > 0 /\ cols > 0
      /\ ListKept(free, {}, y, x, None)
      /\ y \in [Index -> Index \cup {None}]
  BY DEF LapjvInd, LapjvType, Phases, Listing, Places
<1>2. /\ Index \ {None} = Index /\ \A i \in Index : i \in Nat /\ i >= 0
      /\ \A i \in 0..(rows - 1) : i \in Index
      /\ \A j \in 0..(cols - 1) : j \in Index
  <2>1. n = rows + cols
    BY DEF n
  <2> QED BY <1>1, <2>1, IndexFacts
<1>3. /\ \A i \in Index : \E j \in Index : y[j] = i
      /\ \A j \in Index : y[j] >= 0 => x[y[j]] = j
  BY <1>1, <1>2 DEF ListKept
<1>4. \A i \in Index : x[i] \in Index /\ y[x[i]] = i
  BY <1>2, <1>3
<1> QED BY <1>1, <1>2, <1>3, <1>4

LEMMA AnswerWholeNext ==
  ASSUME UNCHANGED shape
  PROVE  AnswerWhole' <=>
           \A a \in answer' :
             \E m \in SUBSET ((0..(rows - 1)) \X (0..(cols - 1))) :
               Matching!IsMatching(m) /\ a = Matching!Answer(m)
<1>1. rows' = rows /\ cols' = cols
  BY DEF shape
<1> QED BY <1>1 DEF AnswerWhole, Matching!Answer, Matching!IsMatching

LEMMA FinishWhole == LapjvInd /\ Finish => AnswerWhole'
<1> SUFFICES ASSUME LapjvInd, Finish PROVE AnswerWhole'
  OBVIOUS
<1>1. pc = "solved" /\ answer' = {Result} /\ UNCHANGED shape
  BY DEF Finish
<1>2. rows' = rows /\ cols' = cols
  BY <1>1 DEF shape
<1>3. /\ rows \in Nat /\ cols \in Nat
      /\ \A i \in 0..(rows - 1) : i \in Index /\ x[i] \in Index /\ y[x[i]] = i
      /\ \A j \in 0..(cols - 1) : j \in Index /\ y[j] \in Index \cup {None}
                                  /\ (y[j] \in Index => x[y[j]] = j)
  BY <1>1, SolvedFacts
<1>4. None \in Int /\ None < 0 /\ None \notin Index /\ \A i \in Index : i \in Int /\ i >= 0
  BY <1>3, IndexFacts
<1> DEFINE T == 0..(rows - 1)
           D == 0..(cols - 1)
           rowsol == [i \in T |-> IF x[i] >= cols THEN None ELSE x[i]]
           colsol == [j \in D |-> IF y[j] >= rows THEN None ELSE y[j]]
           given == {i \in T : x[i] \in D}
           m == {<<i, x[i]>> : i \in given}
<1>5. \A i \in T : (rowsol[i] >= 0 <=> i \in given) /\ (rowsol[i] < 0 <=> i \notin given)
                   /\ (i \in given => rowsol[i] = x[i])
  BY <1>3, <1>4
<1>6. \A j \in D : colsol[j] < 0 <=> ~ \E i \in given : x[i] = j
  <2> SUFFICES ASSUME NEW j \in D PROVE colsol[j] < 0 <=> ~ \E i \in given : x[i] = j
    OBVIOUS
  <2>1. colsol[j] < 0 <=> y[j] \notin T
    BY <1>3, <1>4
  <2>2. y[j] \in T => y[j] \in given /\ x[y[j]] = j
    BY <1>3
  <2>3. \A i \in given : x[i] = j => y[j] \in T
    BY <1>3
  <2> QED BY <2>1, <2>2, <2>3
<1>7. Result = [matches     |-> {<<i, rowsol[i]>> : i \in {k \in T : rowsol[k] >= 0}},
                a_unmatched |-> {i \in T : rowsol[i] < 0},
                b_unmatched |-> {j \in D : colsol[j] < 0}]
  BY DEF Result
<1>8. \A i \in given : i \in T /\ x[i] \in D
  OBVIOUS
<1>9. given \subseteq T
  OBVIOUS
<1>10. \A p : p \in m <=> \E i \in given : p = <<i, x[i]>>
  OBVIOUS
<1> HIDE DEF rowsol, colsol, given
<1>11. m \in SUBSET (T \X D)
  BY <1>8
<1>12. Matching!IsMatching(m)
  <2> SUFFICES ASSUME NEW p \in m, NEW q \in m, p[1] = q[1] \/ p[2] = q[2] PROVE p = q
    BY DEF Matching!IsMatching
  <2>1. PICK i \in given : p = <<i, x[i]>>
    BY <1>10
  <2>2. PICK k \in given : q = <<k, x[k]>>
    BY <1>10
  <2>3. i = k
    BY <1>3, <1>8, <2>1, <2>2
  <2> QED BY <2>1, <2>2, <2>3
<1>13. m = {<<i, rowsol[i]>> : i \in {k \in T : rowsol[k] >= 0}}
  BY <1>5, <1>9
<1>14. \A p \in m : p[1] \in given /\ x[p[1]] = p[2]
  BY <1>10
<1>15. \A i \in given : \E p \in m : p[1] = i /\ p[2] = x[i]
  <2> SUFFICES ASSUME NEW i \in given PROVE \E p \in m : p[1] = i /\ p[2] = x[i]
    OBVIOUS
  <2>1. <<i, x[i]>> \in m /\ <<i, x[i]>>[1] = i /\ <<i, x[i]>>[2] = x[i]
    BY <1>10
  <2> QED BY <2>1
<1> HIDE DEF m
<1>16. T \ {p[1] : p \in m} = {i \in T : rowsol[i] < 0}
  BY <1>5, <1>9, <1>14, <1>15
<1>17. D \ {p[2] : p \in m} = {j \in D : colsol[j] < 0}
  BY <1>6, <1>14, <1>15
<1>18. Result = Matching!Answer(m)
  BY <1>7, <1>13, <1>16, <1>17, Zenon DEF Matching!Answer
<1>19. \A a \in answer' : \E o \in SUBSET (T \X D) : Matching!IsMatching(o) /\ a = Matching!Answer(o)
  BY <1>1, <1>11, <1>12, <1>18
<1> QED BY <1>1, <1>19, AnswerWholeNext

LEMMA EmptyWhole == LapjvInd /\ Empty => AnswerWhole'
<1> SUFFICES ASSUME LapjvInd, Empty PROVE AnswerWhole'
  OBVIOUS
<1>1. /\ answer' = {[matches |-> {}, a_unmatched |-> 0..(rows - 1), b_unmatched |-> 0..(cols - 1)]}
      /\ UNCHANGED shape
  BY DEF Empty
<1>2. /\ {} \in SUBSET ((0..(rows - 1)) \X (0..(cols - 1)))
      /\ Matching!IsMatching({})
  BY DEF Matching!IsMatching
<1>3. [matches |-> {}, a_unmatched |-> 0..(rows - 1), b_unmatched |-> 0..(cols - 1)]
      = Matching!Answer({})
  BY DEF Matching!Answer
<1> QED BY <1>1, <1>2, <1>3, AnswerWholeNext

(***************************************************************************)
(* Whatever linearAssignment answers is a matching, with exactly the other *)
(* rows and columns as unmatched: although it reads the pairs and lonely   *)
(* rows from x and the lonely columns from y, no detection is given to two *)
(* tracks, or given to one and left for a new track.                       *)
(***************************************************************************)
THEOREM AnswersAreMatchings == LapjvSpec => []AnswerWhole
<1>1. LapjvInit => LapjvInd /\ AnswerWhole
  BY InitInd DEF LapjvInit, AnswerWhole
<1>2. (LapjvInd /\ AnswerWhole) /\ [LapjvNext]_lapjvVars => (LapjvInd /\ AnswerWhole)'
  <2> SUFFICES ASSUME LapjvInd, AnswerWhole, [LapjvNext]_lapjvVars PROVE AnswerWhole'
    BY StepInd
  <2>1. CASE Empty
    BY <2>1, EmptyWhole
  <2>2. CASE Finish
    BY <2>2, FinishWhole
  <2>3. CASE UNCHANGED <<shape, answer>>
    BY <2>3, AnswerWholeNext DEF AnswerWhole
  <2>4. [LapjvNext]_lapjvVars => Empty \/ Finish \/ UNCHANGED <<shape, answer>>
    BY DEF LapjvNext, ColumnReduce, TransferRow, TransferEnd, ReduceRow, ReduceEnd, PathStart,
           PathEnd, FindFree, Find, ScanFree, Scan, Flip, lapjvVars
  <2> QED BY <2>1, <2>2, <2>3, <2>4
<1>3. QED
  BY <1>1, <1>2, PTL DEF LapjvSpec
=============================================================================
