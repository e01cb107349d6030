--------------------------- MODULE ViolationLatch ---------------------------
(***************************************************************************)
(* inference_thread_func (src/inference_node.cpp) from the tracker's       *)
(* output on: which workers are locked as violators, what the buzzer is    *)
(* asked to do, which events go to the evidence thread, and what the       *)
(* memory guard forgets.  One step of Frame is one pass of the loop.  The  *)
(* tracker is seen from here: it may return any of the tracks in any frame *)
(* and drop and bring back a track as it likes.  The classes are told      *)
(* apart as compliant (0-3) and violating (4-7).                           *)
(***************************************************************************)
EXTENDS Integers, FiniteSets

CONSTANTS
  Track,       \* track ids
  CONFIRM,     \* violating frames that lock a track: 3
  PARDON,      \* compliant frames that unlock it: 15
  MEMORY,      \* entries of alarmed_ids beyond which history is forgotten: 5000
  SNAP_GAP,    \* whole seconds between two pictures of a fire are more than this: 3
  ALARM_QUEUE  \* events that alarm_queue holds: 19, one less than its slots

ASSUME LatchAssumption ==
  /\ IsFiniteSet(Track)
  /\ CONFIRM \in Nat \ {0} /\ PARDON \in Nat \ {0}
  /\ MEMORY \in Nat /\ SNAP_GAP \in Nat /\ ALARM_QUEUE \in Nat

Label == {"compliant", "violating"}

\* The detection that overlaps the track most, by more than 0.3 or less.  Without any the
\* label is 0, a helmet: a weak compliant match.
Match == [iou : {"strong", "weak"}, label : Label]

VARIABLES
  memory,  \* per track: track_id_to_label, alarmed_ids, violation_streak, compliance_streak
  out,     \* output_stracks of the last frame
  buzzer,  \* what set_buzzer was last asked for; the interface is told the same
  is_physical_alarm,
  snap,    \* seconds since last_fire_snap
  queued,  \* events in alarm_queue
  bad,     \* history: successive frames in which the track was seen violating
  good     \* history: successive frames in which it was seen compliant

vars == <<memory, out, buzzer, is_physical_alarm, snap, queued, bad, good>>

\* The streaks are compared with one threshold each, and told apart up to it.
Capped(n, top) == IF n > top THEN top ELSE n

Fresh == [label |-> "none", alarm |-> "absent", violation |-> 0, compliance |-> 0]

Init ==
  /\ memory = [t \in Track |-> Fresh]
  /\ out = {} /\ buzzer = FALSE
  /\ is_physical_alarm = FALSE /\ snap = SNAP_GAP + 1
  /\ queued = 0
  /\ bad = [t \in Track |-> 0] /\ good = [t \in Track |-> 0]

(* One track -------------------------------------------------------------- *)

\* The label the frame gives the track: its own, or the one it had.
Judged(s, m) == IF m.iou = "strong" \/ s.label = "none" THEN m.label ELSE s.label

Remembered(s, m) == IF m.iou = "strong" THEN m.label ELSE s.label

Violates(s) ==
  LET n == Capped(s.violation + 1, CONFIRM)
  IN IF s.alarm # "locked" /\ n >= CONFIRM
     THEN [s EXCEPT !.compliance = 0, !.violation = 0, !.alarm = "locked"]
     ELSE [s EXCEPT !.compliance = 0, !.violation = n]

\* Slip: a compliant frame leaves the violating frames counted.
CompliesKeepingStreak(s) ==
  LET n == Capped(s.compliance + 1, PARDON)
  IN IF s.alarm = "locked" /\ n >= PARDON
     THEN [s EXCEPT !.compliance = 0, !.alarm = "released"]
     ELSE [s EXCEPT !.compliance = n]

Complies(s) ==
  LET n == Capped(s.compliance + 1, PARDON)
  IN IF s.alarm = "locked" /\ n >= PARDON
     THEN [s EXCEPT !.violation = 0, !.compliance = 0, !.alarm = "released"]
     ELSE [s EXCEPT !.violation = 0, !.compliance = n]

Seen(s, m) ==
  LET r == [s EXCEPT !.label = Remembered(s, m)]
  IN IF Judged(s, m) = "violating" THEN Violates(r) ELSE Complies(r)

(* One frame -------------------------------------------------------------- *)

\* Slip: every locked worker counts, in the picture or not.
SoundsForAll(tracks, mem) == \E t \in Track : mem[t].alarm = "locked"

\* The violators in the picture sound the buzzer; one that is out of it does not.
Sounds(tracks, mem) == \E t \in tracks : mem[t].alarm = "locked"

\* Slip: the guard also forgets who is in the picture.
ForgetsAll(tracks, mem) ==
  IF Cardinality({t \in Track : mem[t].alarm # "absent"}) > MEMORY
  THEN Track ELSE {}

Forgets(tracks, mem) ==
  IF Cardinality({t \in Track : mem[t].alarm # "absent"}) > MEMORY
  THEN Track \ tracks ELSE {}

\* A full queue drops the event; the lock and the picture's time are kept all the same.
Push(n) == queued' = Capped(queued + n, ALARM_QUEUE)

Snaps == is_physical_alarm /\ snap > SNAP_GAP

Frame(tracks, match) ==
  LET mem == [t \in Track |-> IF t \in tracks THEN Seen(memory[t], match[t]) ELSE memory[t]]
      gone == Forgets(tracks, mem)
      locks == {t \in tracks : mem[t].alarm = "locked" /\ memory[t].alarm # "locked"}
      sees(t, l) == Judged(memory[t], match[t]) = l
  IN /\ memory' = [t \in Track |-> IF t \in gone THEN Fresh ELSE mem[t]]
     /\ out' = tracks
     /\ buzzer' = Sounds(tracks, mem)
     /\ snap' = IF Snaps THEN 0 ELSE snap
     /\ Push(Cardinality(locks) + IF Snaps THEN 1 ELSE 0)
     /\ bad' = [t \in Track |->
                  IF t \in gone THEN 0
                  ELSE IF t \notin tracks THEN bad[t]
                  ELSE IF sees(t, "violating") THEN Capped(bad[t] + 1, CONFIRM) ELSE 0]
     /\ good' = [t \in Track |->
                  IF t \in gone THEN 0
                  ELSE IF t \notin tracks THEN good[t]
                  ELSE IF sees(t, "compliant") THEN Capped(good[t] + 1, PARDON) ELSE 0]
     /\ UNCHANGED is_physical_alarm

FrameSome == \E tracks \in SUBSET Track : \E match \in [tracks -> Match] : Frame(tracks, match)

(* Around the loop -------------------------------------------------------- *)

\* The receive thread turns the fire status on and off (AlarmDebounce).
Physical ==
  /\ is_physical_alarm' = ~ is_physical_alarm
  /\ UNCHANGED <<memory, out, buzzer, snap, queued, bad, good>>

\* The evidence thread takes an event.
Take ==
  /\ queued > 0
  /\ queued' = queued - 1
  /\ UNCHANGED <<memory, out, buzzer, is_physical_alarm, snap, bad, good>>

Second ==
  /\ snap' = Capped(snap + 1, SNAP_GAP + 1)
  /\ UNCHANGED <<memory, out, buzzer, is_physical_alarm, queued, bad, good>>

-----------------------------------------------------------------------------
Next == FrameSome \/ Physical \/ Take \/ Second

Spec == Init /\ [][Next]_vars

\* The camera goes on delivering frames.
FairSpec == Spec /\ WF_vars(FrameSome)

-----------------------------------------------------------------------------
Memory == [label : {"none"} \union Label, alarm : {"absent", "released", "locked"},
           violation : 0..CONFIRM, compliance : 0..PARDON]

TypeOK ==
  /\ memory \in [Track -> Memory]
  /\ out \in SUBSET Track /\ buzzer \in BOOLEAN
  /\ is_physical_alarm \in BOOLEAN /\ snap \in 0..(SNAP_GAP + 1)
  /\ queued \in 0..ALARM_QUEUE
  /\ bad \in [Track -> 0..CONFIRM] /\ good \in [Track -> 0..PARDON]

(***************************************************************************)
(* The lock is what the worker's frames make it, whatever order frames,    *)
(* absences, label gaps and the memory guard come in: who was seen         *)
(* violating CONFIRM times in succession is locked, who was seen compliant *)
(* PARDON times in succession is not, and a worker seen in the last frame  *)
(* sounds the buzzer exactly when locked.                                  *)
(***************************************************************************)
LatchInv ==
  /\ TypeOK
  /\ \A t \in Track :
       /\ bad[t] = CONFIRM => memory[t].alarm = "locked"
       /\ good[t] = PARDON => memory[t].alarm # "locked"
  /\ buzzer <=> \E t \in out : memory[t].alarm = "locked"

(***************************************************************************)
(* A lock is set by the last of CONFIRM successive violating frames, and   *)
(* given up after PARDON successive compliant ones or, for a worker who is *)
(* not in the picture, by the memory guard.                                *)
(***************************************************************************)
LocksAreJust == [][\A t \in Track :
  LET was == memory[t].alarm = "locked"
      is == memory'[t].alarm = "locked"
  IN /\ ~ was /\ is => bad'[t] = CONFIRM
     /\ was /\ ~ is => good'[t] = PARDON \/ (t \notin out' /\ memory'[t] = Fresh)]_vars

(***************************************************************************)
(* When at last nobody in the picture is seen violating, the buzzer comes  *)
(* to rest, however often locked workers come and go meanwhile.            *)
(***************************************************************************)
BuzzerRests == (<>[](\A t \in out : bad[t] = 0)) => <>[](~ buzzer)
=============================================================================
