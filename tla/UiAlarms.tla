------------------------------ MODULE UiAlarms ------------------------------
(***************************************************************************)
(* What MainWindow (src/ui_main_window.cpp) makes of the signals that the  *)
(* receive thread and the inference thread send it: the four alarm flags,  *)
(* the three-colour light, the score of the day and the log, whose entries *)
(* feed the Advisor.  The signals come in any order: their senders are     *)
(* AlarmDebounce and ViolationLatch.  One step is one event handler.       *)
(* Scores are counted in steps of 5 points, the cost of one violation.     *)
(***************************************************************************)
EXTENDS Advisor

CONSTANTS
  HOLD,      \* m_aiAlarmHoldTimer: 3 s
  FULL,      \* m_todayScore at the start: 100 points, 20 steps
  EMERGENCY  \* the most that a day with an emergency gets: 45 points, 9 steps

ASSUME UiAssumption == HOLD \in Nat \ {0} /\ FULL \in Nat /\ EMERGENCY \in 0..FULL

Flag == {"fire", "gas", "ai", "env"}

VARIABLES
  alerted,       \* m_fireAlerted, m_gasAlerted, m_aiAlerted, m_tempHumidAlerted
  hold,          \* m_aiAlarmHoldTimer
  prev, light,   \* what the light was last drawn for, and as
  violations,    \* the five counters together, up to FULL
  m_todayScore,
  since,         \* history: time since the last AI alarm, up to HOLD
  emergency      \* history: there has been an emergency

lightVars == <<prev, light>>
scoreVars == <<violations, m_todayScore>>
uiVars == <<alerted, hold, lightVars, scoreVars, since, emergency>>
vars == <<advisorVars, uiVars>>

Lesser(m, n) == IF m < n THEN m ELSE n

Emergency(a) == a["fire"] \/ a["gas"]
Warning(a) == a["ai"] \/ a["env"]
Colour(a) == IF Emergency(a) THEN "red" ELSE IF Warning(a) THEN "yellow" ELSE "green"

Init ==
  /\ AdvisorInit
  /\ alerted = [f \in Flag |-> FALSE] /\ hold = Off
  /\ prev = <<FALSE, FALSE>> /\ light = "green"
  /\ violations = 0 /\ m_todayScore = FULL
  /\ since = HOLD /\ emergency = FALSE

(* Helpers of the handlers ------------------------------------------------ *)

Set(flag, b) ==
  /\ alerted' = [alerted EXCEPT ![flag] = b]
  /\ emergency' = (emergency \/ Emergency(alerted'))

\* updateThreeColorLights draws nothing when neither of its two inputs has changed.
UpdateLights ==
  LET now == <<Emergency(alerted'), Warning(alerted')>>
  IN IF now = prev THEN UNCHANGED lightVars ELSE prev' = now /\ light' = Colour(alerted')

\* Slip: the score is the present state's, not the day's worst.
UpdateScoreNow ==
  m_todayScore' = Lesser(FULL - violations', IF Emergency(alerted') THEN EMERGENCY ELSE FULL)

UpdateScore ==
  m_todayScore' = Lesser(m_todayScore,
    Lesser(FULL - violations', IF Emergency(alerted') THEN EMERGENCY ELSE FULL))

\* addLogEntry: n violations of a counted kind, or none.
AddLogEntry(n) ==
  /\ violations' = Lesser(violations + n, FULL)
  /\ UpdateScore /\ UpdateLights /\ Pend

(* Handlers --------------------------------------------------------------- *)

\* applyPhysicalAlarmStatus
PhysicalAlarm(status) ==
  /\ Set("fire", status = 1)
  /\ UNCHANGED violations /\ UpdateScore /\ UpdateLights
  /\ UNCHANGED <<advisorVars, hold, since>>

GasRises ==
  /\ ~ alerted["gas"] /\ Set("gas", TRUE)
  /\ AddLogEntry(0)
  /\ UNCHANGED <<hold, since>>

\* A repeated alarm, a cut wire or clean air.
GasOther(status) ==
  /\ status = 1 => alerted["gas"]
  /\ Set("gas", status = 1)
  /\ UNCHANGED violations /\ UpdateScore /\ UpdateLights
  /\ UNCHANGED <<advisorVars, hold, since>>

EnvRises ==
  /\ ~ alerted["env"] /\ Set("env", TRUE)
  /\ AddLogEntry(0)
  /\ UNCHANGED <<hold, since>>

\* Still too warm, between the thresholds, or back below both of them.
EnvOther(level) ==
  /\ level = "high" => alerted["env"]
  /\ Set("env", IF level = "low" THEN FALSE ELSE alerted["env"])
  /\ UpdateLights
  /\ UNCHANGED <<advisorVars, hold, scoreVars, since>>

AiAlarmOn ==
  /\ Set("ai", TRUE) /\ hold' = HOLD /\ since' = 0
  /\ UpdateLights
  /\ UNCHANGED <<advisorVars, scoreVars>>

\* Slip: the end of the AI alarm counts at once.
AiAlarmOffAtOnce ==
  /\ Set("ai", FALSE) /\ hold' = Off
  /\ UpdateLights
  /\ UNCHANGED <<advisorVars, scoreVars, since>>

AiAlarmOff ==
  /\ hold = Off
  /\ Set("ai", FALSE)
  /\ UpdateLights
  /\ UNCHANGED <<advisorVars, hold, scoreVars, since>>

\* Slip: the flag falls and the light is not looked at.
HoldTimeoutUndrawn ==
  /\ hold = 0 /\ hold' = Off
  /\ Set("ai", FALSE)
  /\ UNCHANGED <<advisorVars, lightVars, scoreVars, since>>

\* Slip: the timer leaves the flag to the next signal, and inference may be at rest.
HoldTimeoutIdle ==
  /\ hold = 0 /\ hold' = Off
  /\ UNCHANGED <<advisorVars, alerted, lightVars, scoreVars, since, emergency>>

HoldTimeout ==
  /\ hold = 0 /\ hold' = Off
  /\ Set("ai", FALSE)
  /\ UpdateLights
  /\ UNCHANGED <<advisorVars, scoreVars, since>>

\* sendAlarmLog: a violation, or a picture of a fire, which is not counted.
AlarmLog(n) ==
  /\ UNCHANGED <<alerted, emergency>>
  /\ AddLogEntry(n)
  /\ UNCHANGED <<hold, since>>

Advise == (AdvisorTimers \/ ReplyFinished) /\ UNCHANGED uiVars

Tick ==
  /\ hold # 0 /\ AdvisorTick
  /\ hold' = Running(hold)
  /\ since' = Lesser(since + 1, HOLD)
  /\ UNCHANGED <<alerted, lightVars, scoreVars, emergency>>

-----------------------------------------------------------------------------
Next ==
  \/ \E status \in 0..2 : PhysicalAlarm(status) \/ GasOther(status)
  \/ \E level \in {"high", "between", "low"} : EnvOther(level)
  \/ GasRises \/ EnvRises
  \/ AiAlarmOn \/ AiAlarmOff \/ HoldTimeout
  \/ \E n \in 0..1 : AlarmLog(n)
  \/ Advise \/ Tick

Spec == Init /\ [][Next]_vars

\* Time goes on and the event loop handles the timers that are due.
FairSpec ==
  /\ Spec
  /\ WF_vars(Tick) /\ WF_vars(HoldTimeout) /\ WF_vars(AdvisorTimers /\ UNCHANGED uiVars)

-----------------------------------------------------------------------------
UiType ==
  /\ alerted \in [Flag -> BOOLEAN] /\ hold \in {Off} \union 0..HOLD
  /\ prev \in BOOLEAN \X BOOLEAN /\ light \in {"red", "yellow", "green"}
  /\ violations \in 0..FULL /\ m_todayScore \in 0..FULL
  /\ since \in 0..HOLD /\ emergency \in BOOLEAN

(***************************************************************************)
(* The light, which is drawn only on a change and from static copies, is   *)
(* the one the four flags call for after every handler; the AI flag is up  *)
(* exactly while its timer runs.                                           *)
(***************************************************************************)
UiInv ==
  /\ UiType
  /\ light = Colour(alerted)
  /\ prev = <<Emergency(alerted), Warning(alerted)>>
  /\ alerted["ai"] <=> hold # Off

(***************************************************************************)
(* The score of the day is its worst: the counted violations cost a step   *)
(* each, a day with an emergency is capped, and neither the end of an      *)
(* alarm nor the order of handlers gives a point back.                     *)
(***************************************************************************)
ScoreInv == m_todayScore = Lesser(FULL - violations, IF emergency THEN EMERGENCY ELSE FULL)

(***************************************************************************)
(* The warning of an AI alarm stays for HOLD after the last alarm signal   *)
(* and then falls, though the signals may cease with no "off" among them.  *)
(***************************************************************************)
WarningHeld == [][alerted["ai"] /\ ~ alerted'["ai"] => since = HOLD]_vars

WarningEnds == alerted["ai"] ~> (~ alerted["ai"] \/ since = 0)
=============================================================================
