----------------------------- MODULE TrackLife -----------------------------
(***************************************************************************)
(* BYTETracker::update and STrack: the life of a track.  A track is born   *)
(* from a detection, must be matched again in the next frame to be         *)
(* activated, may be lost and found for a while, and is removed.  The      *)
(* tracker keeps three lists: tracked, lost and removed.  The violation    *)
(* latch keeps its locks by the ids given here.                            *)
(* A frame is one step.  Boxes, scores and the Kalman filter are left out: *)
(* whatever their values, an association picks some matching (module       *)
(* OptimalMatching), and since distances are free here, any set of tracks  *)
(* may be the matched ones and any pair may overlap.                       *)
(***************************************************************************)
EXTENDS Integers, FiniteSets

CONSTANTS
  MaxTracks,      \* ids that are given out, a bound
  MaxFrame,       \* frames, a bound
  MaxDetections,  \* detections of a frame of either score class, a bound
  MAX_TIME_LOST   \* frames after which a lost track expires

ASSUME TrackAssumption ==
  /\ MaxTracks \in Nat /\ MaxFrame \in Nat /\ MaxDetections \in Nat
  /\ MAX_TIME_LOST \in Nat \ {0}

Id == 1..MaxTracks

VARIABLES
  frame_id, track_id_count,
  tracked, lost, removed,     \* tracked_stracks_, lost_stracks_, removed_stracks_
  state, is_activated,        \* of each track
  last, start                 \* frame_id_ and start_frame_id_ of each track

lists == <<tracked, lost, removed>>
track == <<state, is_activated, last, start>>
vars == <<frame_id, track_id_count, lists, track>>

Init ==
  /\ frame_id = 0 /\ track_id_count = 0
  /\ tracked = {} /\ lost = {} /\ removed = {}
  /\ state = [t \in Id |-> "New"]
  /\ is_activated = [t \in Id |-> FALSE]
  /\ last = [t \in Id |-> 0] /\ start = [t \in Id |-> 0]

(* The association --------------------------------------------------------- *)

Unconfirmed == {t \in tracked : ~ is_activated[t]}

\* jointStracks(active_stracks, lost_stracks_)
Pool == (tracked \ Unconfirmed) \cup lost

\* Tracks left for the detections of low score: a lost one is not tried again.
Remaining(first) == {t \in Pool \ first : state[t] = "Tracked"}

Born(new) == (track_id_count + 1)..(track_id_count + new)

(* STrack ------------------------------------------------------------------ *)

\* update, reActivate and activate; the first frame activates at once.
Match(hit, born, f) ==
  /\ is_activated' = [t \in Id |-> is_activated[t] \/ t \in hit \/ (t \in born /\ f = 1)]
  /\ last' = [t \in Id |-> IF t \in hit \cup born THEN f ELSE last[t]]
  /\ start' = [t \in Id |-> IF t \in born THEN f ELSE start[t]]

\* markAsLost and markAsRemoved for those that are not matched.
Mark(hit, missing, gone) ==
  state' = [t \in Id |-> IF t \in hit THEN "Tracked" ELSE IF t \in gone THEN "Removed"
                         ELSE IF t \in missing THEN "Lost" ELSE state[t]]

Expired(hit, f) == {t \in lost \ hit : f - last[t] > MAX_TIME_LOST}

(* The lists --------------------------------------------------------------- *)

\* Slip: a track that is found again stays on the lost list.
StillLostAll(hit, missing) == (lost \cup missing) \ removed

\* The removed list used here is that of the frame before: a track that expires now stays
\* on the lost list, and may be found, for one more frame.
StillLost(hit, missing) == ((lost \ hit) \cup missing) \ removed

\* How long a track has been followed.
Life(t) == last'[t] - start'[t]

\* Slip: of two tracks of the same age neither is kept.
DoubleLost(overlap) == {p[2] : p \in {q \in overlap : Life(q[1]) >= Life(q[2])}}

\* removeDuplicateStracks: of a tracked and a lost track on the same place the one followed
\* for longer is kept, and the lost one of two equals.
Double(overlap) == {p[2] : p \in {q \in overlap : Life(q[1]) > Life(q[2])}}

DoubleTracked(overlap) == {p[1] : p \in {q \in overlap : Life(q[1]) <= Life(q[2])}}

Lists(seen, still, overlap) ==
  /\ tracked' = seen \ DoubleTracked(overlap)
  /\ lost' = still \ Double(overlap)

(* update ------------------------------------------------------------------ *)

\* first: matched with detections of high score; second: with the low ones; third: the
\* unconfirmed matched with what is left of the high ones; new: the tracks those start
\* whose score is at least high_thresh_.
Associate(first, second, third, new) ==
  LET f == frame_id + 1
      old == first \cup second \cup third
      born == Born(new)
      missing == Remaining(first) \ second
      gone == (Unconfirmed \ third) \cup Expired(old, f)
      seen == old \cup born
      still == StillLost(seen, missing)
  IN  /\ frame_id' = f
      /\ track_id_count' = track_id_count + new
      /\ Match(old, born, f)
      /\ Mark(seen, missing, gone)
      /\ removed' = removed \cup gone
      /\ \E overlap \in SUBSET (seen \X still) : Lists(seen, still, overlap)

Update ==
  /\ frame_id < MaxFrame
  /\ \E first \in SUBSET Pool, third \in SUBSET Unconfirmed, new \in 0..MaxDetections :
       /\ Cardinality(first) + Cardinality(third) + new <= MaxDetections
       /\ track_id_count + new <= MaxTracks
       /\ \E second \in SUBSET Remaining(first) :
            /\ Cardinality(second) <= MaxDetections
            /\ Associate(first, second, third, new)

Next == Update

Spec == Init /\ [][Next]_vars

-----------------------------------------------------------------------------
TypeOK ==
  /\ frame_id \in Nat /\ track_id_count \in 0..MaxTracks
  /\ tracked \subseteq Id /\ lost \subseteq Id /\ removed \subseteq Id
  /\ state \in [Id -> {"New", "Tracked", "Lost", "Removed"}]
  /\ is_activated \in [Id -> BOOLEAN]
  /\ last \in [Id -> Nat] /\ start \in [Id -> Nat]

(***************************************************************************)
(* What the user of update may rely on.  No track is on two lists at once; *)
(* what is tracked was matched in this very frame, so the violation latch  *)
(* never counts a stale box; a track not yet activated is one born in this *)
(* frame; only activated tracks are kept when lost, for MAX_TIME_LOST      *)
(* frames and one more; and but for the first frame no track is activated  *)
(* by a single detection.                                                  *)
(***************************************************************************)
TrackedInv ==
  \A t \in tracked : /\ state[t] = "Tracked" /\ last[t] = frame_id
                     /\ ~ is_activated[t] => start[t] = frame_id

LostInv ==
  /\ tracked \cap lost = {}
  /\ \A t \in lost : /\ is_activated[t] /\ last[t] < frame_id
                     /\ IF t \in removed
                        THEN state[t] = "Removed" /\ frame_id - last[t] = MAX_TIME_LOST + 1
                        ELSE state[t] = "Lost" /\ frame_id - last[t] <= MAX_TIME_LOST

BirthInv ==
  /\ tracked \cup lost \cup removed \subseteq 1..track_id_count
  /\ \A t \in Id : is_activated[t] => t <= track_id_count
  /\ \A t \in 1..track_id_count :
       /\ 1 <= start[t] /\ start[t] <= last[t] /\ last[t] <= frame_id
       /\ is_activated[t] => start[t] = 1 \/ start[t] < last[t]

TrackInv == TypeOK /\ TrackedInv /\ LostInv /\ BirthInv

(***************************************************************************)
(* An activated track goes from the lists only when it had expired once    *)
(* before, or as a double of a track that stays and was followed for at    *)
(* least as long: eliminating doubles, which compares pair by pair, never  *)
(* eliminates the last track of a person, whatever overlaps with what.     *)
(***************************************************************************)
LongestStays ==
  [][\A t \in tracked \cup lost :
       \/ t \in tracked' \cup lost'
       \/ ~ is_activated[t] /\ state'[t] = "Removed"
       \/ t \in removed
       \/ \E s \in tracked' \cup lost' : Life(s) >= Life(t)]_vars
=============================================================================
