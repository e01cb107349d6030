----------------------------- MODULE SlaveAlarm -----------------------------
(***************************************************************************)
(* The local alarm of the slave core: Execute_Alarm_Arbitration            *)
(* (Baremetal_Slave_Node/src/slaver_00_example.c) and the driver of the    *)
(* flame detector (src/fire_sensor.c).  The arbitration runs in two        *)
(* contexts of one core, the main loop and the detector's interrupt        *)
(* handler, which preempts the loop between any two of its steps.  Both    *)
(* probe the same pin: pull it down, read, pull it up, read, let go; two   *)
(* readings that differ mean a cut wire.                                   *)
(***************************************************************************)
Line == {"fire", "calm", "cut"}   \* a burning or quiet detector, or no detector at all
Context == {"loop", "irq"}

VARIABLES
  line,      \* the detector
  pull,      \* pull resistor of the pin
  trig,      \* edge that raises the interrupt
  pending,   \* interrupt raised and not yet taken
  step,      \* where each context is in the arbitration
  why,       \* the loop probes for an arbitration or for a periodic report
  first,     \* value kept from a context's first reading
  seen,      \* what a context took the detector for
  flag_ai_alarm_req, buzzer,
  told,      \* last fire report sent to the master
  missed     \* history: see LineChange, IrqEnter and Probe

contexts == <<step, why, first, seen>>
outputs == <<flag_ai_alarm_req, buzzer, told>>
arbVars == <<line, pull, trig, pending, contexts, outputs, missed>>

\* FRpmsgEchoApp enables the interrupt and then arbitrates once.
ArbInit ==
  /\ line \in Line /\ pull = "none" /\ trig = "falling" /\ pending = FALSE
  /\ step = [c \in Context |-> IF c = "loop" THEN "probe" ELSE "idle"] /\ why = "arbitrate"
  /\ first = [c \in Context |-> 1] /\ seen = [c \in Context |-> "calm"]
  /\ flag_ai_alarm_req = FALSE /\ buzzer = FALSE /\ told = "calm"
  /\ missed = TRUE

(* The pin ---------------------------------------------------------------- *)

\* A flame pulls the pin low; an open pin follows the resistor, or floats.
Level ==
  CASE line = "fire" -> {0}
    [] line = "calm" -> {1}
    [] line = "cut"  -> CASE pull = "down" -> {0} [] pull = "up" -> {1} [] OTHER -> {0, 1}

\* A context that has begun to read for an arbitration and has not acted on it yet.
Midway(c) == step[c] \in {"down", "up", "set"} /\ (c = "loop" => why = "arbitrate")

\* Whether a change from line to l may leave the interrupt pending.
Latched(l) ==
  CASE line = "calm" /\ l = "fire" -> {pending \/ trig = "falling"}
    [] line = "fire" /\ l = "calm" -> {pending \/ trig = "rising"}
    [] OTHER                       -> {pending, TRUE}

\* missed: the change raised no interrupt, or came while the pin was being read.
LineChange(l) ==
  /\ l # line /\ line' = l
  /\ pending' \in Latched(l)
  /\ missed' = (missed \/ ~ pending' \/ Midway("loop"))
  /\ UNCHANGED <<pull, trig, contexts, outputs>>

(* Fire_Sensor_IRQ_Handler ------------------------------------------------ *)

Go(c, from, to) == step[c] = from /\ step' = [step EXCEPT ![c] = to]

\* missed: the handler came between the loop's reading and the loop's acting on it.
IrqEnter ==
  /\ pending /\ pending' = FALSE
  /\ Go("irq", "idle", "look")
  /\ missed' = Midway("loop")
  /\ UNCHANGED <<line, pull, trig, why, first, seen, outputs>>

IrqLook ==
  /\ Go("irq", "look", "trig")
  /\ \E v \in Level : first' = [first EXCEPT !["irq"] = v]
  /\ UNCHANGED <<line, pull, trig, pending, why, seen, outputs, missed>>

\* Slip: the handler leaves the arbitration to the main loop.
IrqTrigDeferred ==
  /\ Go("irq", "trig", "idle")
  /\ trig' = IF first["irq"] = 0 THEN "rising" ELSE "falling"
  /\ UNCHANGED <<line, pull, pending, why, first, seen, outputs, missed>>

IrqTrig ==
  /\ Go("irq", "trig", "probe")
  /\ trig' = IF first["irq"] = 0 THEN "rising" ELSE "falling"
  /\ UNCHANGED <<line, pull, pending, why, first, seen, outputs, missed>>

(* Main loop -------------------------------------------------------------- *)

\* The interrupt has priority 0 and is never masked.
Runs(c) == c = "loop" => step["irq"] = "idle" /\ ~ pending

\* A BUZZER packet of the master.
LoopBuzzer(b) ==
  /\ Runs("loop") /\ Go("loop", "idle", "probe")
  /\ flag_ai_alarm_req' = b
  /\ why' = "arbitrate"
  /\ UNCHANGED <<line, pull, trig, pending, first, seen, buzzer, told, missed>>

\* Slip: without the periodic look at the detector.
LoopTickNone ==
  /\ Runs("loop") /\ step["loop"] = "idle"
  /\ UNCHANGED arbVars

\* Every 500 ms the detector is probed for a report; nothing is arbitrated.
LoopTick ==
  /\ Runs("loop") /\ Go("loop", "idle", "probe")
  /\ why' = "report"
  /\ UNCHANGED <<line, pull, trig, pending, first, seen, outputs, missed>>

(* Execute_Alarm_Arbitration, in either context --------------------------- *)

\* Moving the resistor of an open pin moves the pin, which may raise the interrupt.
Pull(p) ==
  /\ pull' = p
  /\ pending' \in IF line = "cut" THEN {pending, TRUE} ELSE {pending}

\* missed: an arbitration begins, so earlier changes are seen; one nested in the
\* loop's keeps the mark of IrqEnter.
Probe(c) ==
  /\ Runs(c) /\ Go(c, "probe", "down")
  /\ Pull("down")
  /\ missed' = (missed /\ ~ (c = "loop" /\ why = "arbitrate"))
  /\ UNCHANGED <<line, trig, why, first, seen, outputs>>

ReadDown(c) ==
  /\ Runs(c) /\ Go(c, "down", "up")
  /\ \E v \in Level : first' = [first EXCEPT ![c] = v]
  /\ Pull("up")
  /\ UNCHANGED <<line, trig, why, seen, outputs, missed>>

Verdict(down, up) ==
  IF down # up THEN "cut" ELSE IF down = 0 THEN "fire" ELSE "calm"

ReadUp(c) ==
  /\ Runs(c)
  /\ Go(c, "up", IF c = "loop" /\ why = "report" THEN "send" ELSE "set")
  /\ \E v \in Level : seen' = [seen EXCEPT ![c] = Verdict(first[c], v)]
  /\ Pull("none")
  /\ UNCHANGED <<line, trig, why, first, outputs, missed>>

Sounds(l, ai) == l = "fire" \/ (ai /\ l # "cut")

\* Slip: fire or request, without a look at the wire.
SetBuzzerCut(c) ==
  /\ Runs(c) /\ Go(c, "set", "send")
  /\ buzzer' = (seen[c] = "fire" \/ flag_ai_alarm_req)
  /\ UNCHANGED <<line, pull, trig, pending, why, first, seen, flag_ai_alarm_req, told, missed>>

SetBuzzer(c) ==
  /\ Runs(c) /\ Go(c, "set", "send")
  /\ buzzer' = Sounds(seen[c], flag_ai_alarm_req)
  /\ UNCHANGED <<line, pull, trig, pending, why, first, seen, flag_ai_alarm_req, told, missed>>

\* The handler may leave with a new edge pending, and is then entered again.
SendReport(c) ==
  /\ Runs(c) /\ Go(c, "send", "idle")
  /\ told' = seen[c]
  /\ UNCHANGED <<line, pull, trig, pending, why, first, seen, flag_ai_alarm_req, buzzer, missed>>

Arbitrate(c) == Probe(c) \/ ReadDown(c) \/ ReadUp(c) \/ SetBuzzer(c) \/ SendReport(c)

-----------------------------------------------------------------------------
Irq == IrqEnter \/ IrqLook \/ IrqTrig \/ Arbitrate("irq")

ArbNext ==
  \/ \E l \in Line : LineChange(l)
  \/ Irq
  \/ \E b \in BOOLEAN : LoopBuzzer(b)
  \/ LoopTick
  \/ Arbitrate("loop")

ArbSpec == ArbInit /\ [][ArbNext]_arbVars

\* The core runs, and the 500 ms tick comes again and again.
ArbFairness == WF_arbVars(Irq) /\ WF_arbVars(Arbitrate("loop")) /\ SF_arbVars(LoopTick)

FairArbSpec == ArbSpec /\ ArbFairness

-----------------------------------------------------------------------------
ArbType ==
  /\ line \in Line /\ pull \in {"none", "down", "up"} /\ trig \in {"falling", "rising"}
  /\ pending \in BOOLEAN /\ missed \in BOOLEAN
  /\ step \in [Context -> {"idle", "look", "trig", "probe", "down", "up", "set", "send"}]
  /\ why \in {"arbitrate", "report"}
  /\ first \in [Context -> {0, 1}] /\ seen \in [Context -> Line]
  /\ flag_ai_alarm_req \in BOOLEAN /\ buzzer \in BOOLEAN /\ told \in Line

\* No context is reading or about to.
Rest == ~ pending /\ step["irq"] = "idle" /\ step["loop"] \in {"idle", "send"}

(***************************************************************************)
(* Both contexts move one resistor.  The handler, which nothing preempts,  *)
(* reads under the pull it has chosen; the loop may find its own undone,   *)
(* but leaves none behind: out of a probe, the pin is let go.              *)
(***************************************************************************)
PinInv ==
  /\ ArbType
  /\ step["irq"] \in {"down", "up"} => pull = step["irq"]
  /\ step["irq"] \in {"set", "send"} => pull = "none"
  /\ step["irq"] = "idle" /\ step["loop"] \notin {"down", "up"} => pull = "none"

(***************************************************************************)
(* At rest the buzzer is what the detector and the master's request call   *)
(* for, unless a change of the detector was missed: it raised no interrupt *)
(* because the handler had armed the other edge, or it (or the handler)    *)
(* came between a reading of the loop and the act that follows it.  So     *)
(* nothing goes wrong between the two contexts but through those windows.  *)
(* What they share of the pin stays in order as well (PinInv).             *)
(***************************************************************************)
BuzzerAgrees ==
  /\ PinInv
  /\ Rest /\ ~ missed => buzzer = Sounds(line, flag_ai_alarm_req)

(***************************************************************************)
(* A flame whose edge was latched sounds the buzzer whatever the loop was  *)
(* doing, unless the flame is gone before.                                 *)
(***************************************************************************)
EdgeSounds ==
  (pending /\ step["irq"] = "idle" /\ line = "fire") ~> (buzzer \/ line # "fire")

(***************************************************************************)
(* The master's view heals: once the detector stays as it is, the last     *)
(* report is about that, though an overtaken report may have been sent     *)
(* after a newer one, and though the buzzer itself may never heal.         *)
(***************************************************************************)
ReportHeals == \A l \in {"fire", "calm"} : (<>[](line = l)) => <>[](told = l)
=============================================================================
