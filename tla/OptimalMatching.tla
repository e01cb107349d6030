-------------------------- MODULE OptimalMatching --------------------------
(***************************************************************************)
(* What BYTETracker::update may expect of linearAssignment: asked to match *)
(* tracks with detections, it answers once, with a matching of least       *)
(* weight.  The weight of a matching is the cost of its pairs plus half    *)
(* the limit for each track and each detection left alone; so no pair is   *)
(* made whose cost is above the limit.                                     *)
(***************************************************************************)
EXTENDS Integers, FiniteSets, FiniteSetsExt

CONSTANT HalfLimit    \* half of the cost above which no pair is made

VARIABLES tracks, detections,   \* what is to be matched
          distance,             \* distance[t][d]: the cost of matching t with d
          answer                \* {} until answered, then {the answer}

IsMatching(m) == \A p, q \in m : p[1] = q[1] \/ p[2] = q[2] => p = q

Matchings == {m \in SUBSET (tracks \X detections) : IsMatching(m)}

Weight(m) ==
  MapThenSumSet(LAMBDA p : distance[p[1]][p[2]], m)
  + HalfLimit * (Cardinality(tracks) + Cardinality(detections) - 2 * Cardinality(m))

Lightest ==
  LET weight == [m \in Matchings |-> Weight(m)]
  IN  {m \in Matchings : \A o \in Matchings : weight[m] <= weight[o]}

Answer(m) ==
  [matches     |-> m,
   a_unmatched |-> tracks \ {p[1] : p \in m},
   b_unmatched |-> detections \ {p[2] : p \in m}]

\* Any two sets and any costs may be asked about.
Init == answer = {}

Reply ==
  /\ answer = {}
  /\ \E m \in Lightest : answer' = {Answer(m)}
  /\ UNCHANGED <<tracks, detections, distance>>

asked == <<tracks, detections, distance, answer>>

Spec == Init /\ [][Reply]_asked /\ WF_asked(Reply)
=============================================================================
