--------------------------- MODULE UiAlarmsProofs ---------------------------
(***************************************************************************)
(* Theorems about UiAlarms for all timers and scores.                      *)
(***************************************************************************)
EXTENDS UiAlarms, SequenceTheorems, TLAPS

\* The hold timer and the time since the last AI alarm add up while it runs.
HoldInd == hold # Off => since = HOLD - hold

UiInd == UiInv /\ HoldInd

LEMMA UiIndInit == Init => UiInd
<1> SUFFICES ASSUME Init PROVE UiInd
    OBVIOUS
<1>1. \A f \in Flag : alerted[f] = FALSE
      BY Zenon DEF Init
<1>2. ~ Emergency(alerted) /\ ~ Warning(alerted) /\ ~ alerted["ai"]
      BY <1>1, Zenon DEF Emergency, Warning, Flag
<1>3. Emergency(alerted) = FALSE /\ Warning(alerted) = FALSE
      BY <1>2, <1>1, Zenon DEF Emergency, Warning, Flag
<1>4. light = Colour(alerted) /\ prev = <<Emergency(alerted), Warning(alerted)>>
      BY <1>2, <1>3, Zenon DEF Init, Colour
<1>5. alerted \in [Flag -> BOOLEAN] /\ emergency \in BOOLEAN
      BY Zenon DEF Init
<1>6. prev \in BOOLEAN \X BOOLEAN /\ light \in {"red", "yellow", "green"}
      BY DEF Init
<1>7. /\ hold = Off /\ since \in 0..HOLD
      /\ violations \in 0..FULL /\ m_todayScore \in 0..FULL
      BY UiAssumption, SMT DEF Init
<1> QED BY <1>2, <1>4, <1>5, <1>6, <1>7, Zenon DEF UiInd, UiInv, UiType, HoldInd

\* What Set and UpdateLights do together, whatever the handler.
LEMMA Drawn ==
  ASSUME UiInv, NEW f \in Flag, NEW b \in BOOLEAN, Set(f, b), UpdateLights
  PROVE  /\ alerted' \in [Flag -> BOOLEAN] /\ emergency' \in BOOLEAN
         /\ alerted'[f] = b /\ \A g \in Flag \ {f} : alerted'[g] = alerted[g]
         /\ prev' \in BOOLEAN \X BOOLEAN /\ light' \in {"red", "yellow", "green"}
         /\ light' = Colour(alerted') /\ prev' = <<Emergency(alerted'), Warning(alerted')>>
<1>1. alerted' \in [Flag -> BOOLEAN]
      BY DEF Set, UiInv, UiType
<1>2. Emergency(alerted') \in BOOLEAN /\ Warning(alerted') \in BOOLEAN
      BY <1>1, Zenon DEF Emergency, Warning, Flag
<1>3. emergency' \in BOOLEAN
      BY <1>2, Zenon DEF Set, UiInv, UiType
<1>4. alerted'[f] = b /\ \A g \in Flag \ {f} : alerted'[g] = alerted[g]
      BY DEF Set, UiInv, UiType
<1>5. light' = Colour(alerted') /\ prev' = <<Emergency(alerted'), Warning(alerted')>>
  <2>1. CASE <<Emergency(alerted'), Warning(alerted')>> = prev
    <3>1. UNCHANGED lightVars
          BY <2>1, Zenon DEF UpdateLights
    <3>2. prev' = prev /\ light' = light
          BY <3>1 DEF lightVars
    <3>3. Emergency(alerted) = Emergency(alerted') /\ Warning(alerted) = Warning(alerted')
          BY <2>1, SMT DEF UiInv
    <3>4. Colour(alerted) = Colour(alerted')
          BY <3>3, Zenon DEF Colour
    <3> QED BY <3>2, <3>4, <2>1, Zenon DEF UiInv
  <2>2. CASE <<Emergency(alerted'), Warning(alerted')>> # prev
        BY <2>2, Zenon DEF UpdateLights
  <2> QED BY <2>1, <2>2, Zenon
<1>6. light' \in {"red", "yellow", "green"}
      BY <1>5, Zenon DEF Colour
<1>7. prev' \in BOOLEAN \X BOOLEAN
      BY <1>5, <1>2
<1> QED BY <1>1, <1>3, <1>4, <1>5, <1>6, <1>7, Zenon

\* A log entry without a new flag draws the same light again.
LEMMA DrawnAgain ==
  ASSUME UiInv, UNCHANGED alerted, UpdateLights
  PROVE  UNCHANGED lightVars
<1>1. <<Emergency(alerted'), Warning(alerted')>> = prev
      BY Zenon DEF UiInv
<1> QED BY <1>1, Zenon DEF UpdateLights

LEMMA LesserAssociates ==
  ASSUME NEW full \in Nat, NEW v \in 0..full, NEW v1 \in v..full,
         NEW w \in 0..full, NEW c \in 0..full
  PROVE  /\ Lesser(Lesser(full - v, w), Lesser(full - v1, c)) = Lesser(full - v1, Lesser(w, c))
         /\ Lesser(full - v1, Lesser(w, c)) \in 0..full
  BY SMT DEF Lesser

\* The score follows the day's worst whenever it is computed.
LEMMA Scored ==
  ASSUME UiInv, ScoreInv, violations' \in violations..FULL, UpdateScore,
         emergency' = (emergency \/ Emergency(alerted'))
  PROVE  m_todayScore' \in 0..FULL /\ violations' \in 0..FULL /\ ScoreInv'
<1> DEFINE cap == IF Emergency(alerted') THEN EMERGENCY ELSE FULL
           worst == IF emergency THEN EMERGENCY ELSE FULL
           worst1 == IF emergency' THEN EMERGENCY ELSE FULL
<1>1. m_todayScore' = Lesser(m_todayScore, Lesser(FULL - violations', cap))
      BY Zenon DEF UpdateScore
<1>2. m_todayScore = Lesser(FULL - violations, worst)
      BY Zenon DEF ScoreInv
<1>3. cap \in {EMERGENCY, FULL} /\ worst \in {EMERGENCY, FULL}
      OBVIOUS
<1>4. worst1 = Lesser(worst, cap)
  <2>1. Lesser(EMERGENCY, FULL) = EMERGENCY /\ Lesser(FULL, EMERGENCY) = EMERGENCY
        /\ Lesser(FULL, FULL) = FULL /\ Lesser(EMERGENCY, EMERGENCY) = EMERGENCY
        BY UiAssumption, SMT DEF Lesser
  <2> QED BY <2>1, Zenon
<1>5. FULL \in Nat /\ EMERGENCY \in 0..FULL /\ violations \in 0..FULL
      /\ violations' \in violations..FULL
      BY UiAssumption DEF UiInv, UiType
<1> HIDE DEF cap, worst, worst1
<1>6. m_todayScore' \in 0..FULL /\ violations' \in 0..FULL
      /\ m_todayScore' = Lesser(FULL - violations', worst1)
  <2>1. cap \in 0..FULL /\ worst \in 0..FULL
        BY <1>3, <1>5, SMT
  <2>2. violations' \in 0..FULL
        BY <1>5, SMT
  <2>3. /\ Lesser(Lesser(FULL - violations, worst), Lesser(FULL - violations', cap))
           = Lesser(FULL - violations', Lesser(worst, cap))
        /\ Lesser(FULL - violations', Lesser(worst, cap)) \in 0..FULL
        BY <2>1, <1>5, LesserAssociates
  <2> QED BY <2>2, <2>3, <1>1, <1>2, <1>4, Zenon
<1> QED BY <1>6, Zenon DEF ScoreInv, worst1

LEMMA Counted ==
  ASSUME UiInv, NEW n \in Nat
  PROVE  Lesser(violations + n, FULL) \in violations..FULL
  BY UiAssumption, SMT DEF UiInv, UiType, Lesser

\* The history agrees with the flags; only fire and gas are emergencies.
EmergencyInd == Emergency(alerted) => emergency

LEMMA Remembered ==
  ASSUME UiInv, NEW f \in Flag, NEW b \in BOOLEAN, Set(f, b)
  PROVE  EmergencyInd' /\ (f \in {"ai", "env"} /\ EmergencyInd => emergency' = emergency)
<1>1. emergency' = (emergency \/ Emergency(alerted')) /\ emergency \in BOOLEAN
      BY Zenon DEF Set, UiInv, UiType
<1>2. ASSUME f \in {"ai", "env"}, EmergencyInd PROVE emergency' = emergency
  <2>1. alerted'["fire"] = alerted["fire"] /\ alerted'["gas"] = alerted["gas"]
        BY <1>2, SMT DEF Set, UiInv, UiType, Flag
  <2>2. Emergency(alerted') = Emergency(alerted)
        BY <2>1, Zenon DEF Emergency
  <2> QED BY <2>2, <1>1, <1>2, Zenon DEF EmergencyInd
<1> QED BY <1>1, <1>2, Zenon DEF EmergencyInd

Ind == UiInd /\ ScoreInv /\ EmergencyInd

LEMMA IndInit == Init => Ind
<1> SUFFICES ASSUME Init PROVE Ind
    OBVIOUS
<1>1. ScoreInv
  <2>1. ~ emergency /\ m_todayScore = FULL /\ violations = 0
        BY Zenon DEF Init
  <2>2. FULL = Lesser(FULL - 0, FULL)
        BY UiAssumption, SMT DEF Lesser
  <2> QED BY <2>1, <2>2, Zenon DEF ScoreInv
<1>2. EmergencyInd
  <2>1. ~ alerted["fire"] /\ ~ alerted["gas"]
        BY DEF Init, Flag
  <2> QED BY <2>1, Zenon DEF EmergencyInd, Emergency
<1> QED BY <1>1, <1>2, UiIndInit, Zenon DEF Ind

\* A handler of another flag than "ai", which computes the score or changes nothing of it.
LEMMA FlagHandler ==
  ASSUME Ind, NEW f \in {"fire", "gas", "env"}, NEW b \in BOOLEAN, Set(f, b), UpdateLights,
         UNCHANGED <<hold, since>>,
         \/ violations' \in violations..FULL /\ UpdateScore
         \/ f = "env" /\ UNCHANGED scoreVars
  PROVE  Ind'
<1>1. UiInv /\ HoldInd /\ ScoreInv /\ EmergencyInd
      BY Zenon DEF Ind, UiInd
<1>2. f \in Flag /\ "ai" \in Flag \ {f}
      BY DEF Flag
<1>3. EmergencyInd' /\ (f = "env" => emergency' = emergency)
      BY <1>1, <1>2, Remembered
<1>4. violations' \in 0..FULL /\ m_todayScore' \in 0..FULL /\ ScoreInv'
  <2>1. CASE violations' \in violations..FULL /\ UpdateScore
    <3>1. emergency' = (emergency \/ Emergency(alerted'))
          BY Zenon DEF Set
    <3> QED BY <1>1, <2>1, <3>1, Scored
  <2>2. CASE f = "env" /\ UNCHANGED scoreVars
    <3>1. violations' = violations /\ m_todayScore' = m_todayScore /\ emergency' = emergency
          BY <1>3, <2>2 DEF scoreVars
    <3>2. ScoreInv'
          BY <1>1, <3>1, Zenon DEF ScoreInv
    <3> QED BY <1>1, <3>1, <3>2, Zenon DEF UiInv, UiType
  <2> QED BY <2>1, <2>2
<1>5. /\ alerted' \in [Flag -> BOOLEAN] /\ emergency' \in BOOLEAN
      /\ alerted'["ai"] = alerted["ai"]
      /\ prev' \in BOOLEAN \X BOOLEAN /\ light' \in {"red", "yellow", "green"}
      /\ light' = Colour(alerted') /\ prev' = <<Emergency(alerted'), Warning(alerted')>>
      BY <1>1, <1>2, Drawn, Zenon
<1>6. hold' = hold /\ since' = since
      OBVIOUS
<1>7. UiType'
      BY <1>1, <1>4, <1>5, <1>6, Zenon DEF UiInv, UiType
<1>8. UiInv'
      BY <1>1, <1>5, <1>6, <1>7, Zenon DEF UiInv
<1>9. HoldInd'
      BY <1>1, <1>6, Zenon DEF HoldInd
<1> QED BY <1>3, <1>4, <1>8, <1>9, Zenon DEF Ind, UiInd

\* A handler of "ai": the flag goes with the timer.
LEMMA AiHandler ==
  ASSUME Ind, NEW b \in BOOLEAN, Set("ai", b), UpdateLights, UNCHANGED scoreVars,
         hold' \in {Off} \union 0..HOLD, since' \in 0..HOLD,
         b <=> hold' # Off, hold' # Off => since' = HOLD - hold'
  PROVE  Ind'
<1>1. UiInv /\ HoldInd /\ ScoreInv /\ EmergencyInd /\ "ai" \in Flag
      BY Zenon DEF Ind, UiInd, Flag
<1>2. EmergencyInd' /\ emergency' = emergency
      BY <1>1, Remembered, Zenon
<1>3. /\ alerted' \in [Flag -> BOOLEAN] /\ emergency' \in BOOLEAN /\ alerted'["ai"] = b
      /\ prev' \in BOOLEAN \X BOOLEAN /\ light' \in {"red", "yellow", "green"}
      /\ light' = Colour(alerted') /\ prev' = <<Emergency(alerted'), Warning(alerted')>>
      BY <1>1, Drawn, Zenon
<1>4. violations' = violations /\ m_todayScore' = m_todayScore
      BY DEF scoreVars
<1>5. UiType'
      BY <1>1, <1>3, <1>4, Zenon DEF UiInv, UiType
<1>6. UiInv' /\ HoldInd'
      BY <1>3, <1>5, Zenon DEF UiInv, HoldInd
<1>7. ScoreInv'
      BY <1>1, <1>2, <1>4, Zenon DEF ScoreInv
<1> QED BY <1>2, <1>6, <1>7, Zenon DEF Ind, UiInd

\* Handlers that leave the flags alone.
LEMMA OtherHandler ==
  ASSUME Ind, UNCHANGED <<alerted, emergency, lightVars>>,
         violations' \in 0..FULL, m_todayScore' \in 0..FULL, ScoreInv',
         hold' \in {Off} \union 0..HOLD, since' \in 0..HOLD, hold' = Off <=> hold = Off,
         hold' # Off => since' = HOLD - hold'
  PROVE  Ind'
<1>1. UiInv /\ EmergencyInd
      BY Zenon DEF Ind, UiInd
<1>2. alerted' = alerted /\ emergency' = emergency /\ prev' = prev /\ light' = light
      BY DEF lightVars
<1>3. UiType'
      BY <1>1, <1>2, Zenon DEF UiInv, UiType
<1>4. EmergencyInd'
  <2>1. Emergency(alerted') <=> Emergency(alerted)
        BY <1>2, SMT DEF Emergency
  <2>2. emergency' <=> emergency
        BY <1>2, SMT
  <2> QED BY <1>1, <2>1, <2>2, Zenon DEF EmergencyInd
<1>5. HoldInd'
      BY Zenon DEF HoldInd
<1>6. light' = Colour(alerted') /\ prev' = <<Emergency(alerted'), Warning(alerted')>>
      BY <1>1, <1>2, Zenon DEF UiInv
<1>7. alerted'["ai"] <=> hold' # Off
      BY <1>1, <1>2, Zenon DEF UiInv
<1>8. UiInv'
      BY <1>3, <1>6, <1>7, Zenon DEF UiInv
<1> QED BY <1>4, <1>5, <1>8, Zenon DEF Ind, UiInd

LEMMA IndNext == Ind /\ [Next]_vars => Ind'
<1> SUFFICES ASSUME Ind, [Next]_vars PROVE Ind'
    OBVIOUS
<1>1. UiInv /\ HoldInd /\ ScoreInv
      BY Zenon DEF Ind, UiInd
<1>2. /\ HOLD \in Nat \ {0} /\ hold \in {Off} \union 0..HOLD /\ since \in 0..HOLD
      /\ violations \in 0..FULL /\ m_todayScore \in 0..FULL /\ FULL \in Nat
      BY <1>1, UiAssumption, Zenon DEF UiInv, UiType
<1>3. violations \in violations..FULL
      BY <1>2, SMT
<1>4. ASSUME NEW status \in 0..2, PhysicalAlarm(status) PROVE Ind'
  <2>1. (status = 1) \in BOOLEAN
        OBVIOUS
  <2>2. Set("fire", status = 1) /\ UpdateLights /\ UpdateScore
        BY <1>4, Zenon DEF PhysicalAlarm
  <2>3. UNCHANGED <<hold, since>> /\ violations' \in violations..FULL
        BY <1>3, <1>4 DEF PhysicalAlarm
  <2> QED BY <2>1, <2>2, <2>3, FlagHandler
<1>5. ASSUME NEW status \in 0..2, GasOther(status) PROVE Ind'
  <2>1. (status = 1) \in BOOLEAN
        OBVIOUS
  <2>2. Set("gas", status = 1) /\ UpdateLights /\ UpdateScore
        BY <1>5, Zenon DEF GasOther
  <2>3. UNCHANGED <<hold, since>> /\ violations' \in violations..FULL
        BY <1>3, <1>5 DEF GasOther
  <2> QED BY <2>1, <2>2, <2>3, FlagHandler
<1>6. CASE GasRises
  <2>1. Set("gas", TRUE) /\ AddLogEntry(0) /\ UNCHANGED <<hold, since>>
        BY <1>6, Zenon DEF GasRises
  <2>2. violations' \in violations..FULL /\ UpdateScore /\ UpdateLights
        BY <1>1, <2>1, Counted, SMT DEF AddLogEntry
  <2> QED BY <2>1, <2>2, FlagHandler
<1>7. CASE EnvRises
  <2>1. Set("env", TRUE) /\ AddLogEntry(0) /\ UNCHANGED <<hold, since>>
        BY <1>7, Zenon DEF EnvRises
  <2>2. violations' \in violations..FULL /\ UpdateScore /\ UpdateLights
        BY <1>1, <2>1, Counted, SMT DEF AddLogEntry
  <2> QED BY <2>1, <2>2, FlagHandler
<1>8. ASSUME NEW level \in {"high", "between", "low"}, EnvOther(level) PROVE Ind'
  <2> DEFINE b == IF level = "low" THEN FALSE ELSE alerted["env"]
  <2>1. b \in BOOLEAN
    <3>1. alerted["env"] \in BOOLEAN
          BY <1>1 DEF UiInv, UiType, Flag
    <3> QED BY <3>1, Zenon
  <2>2. Set("env", b) /\ UpdateLights /\ UNCHANGED scoreVars
        BY <1>8, Zenon DEF EnvOther
  <2>3. UNCHANGED <<hold, since>>
        BY <1>8 DEF EnvOther
  <2> HIDE DEF b
  <2> QED BY <2>1, <2>2, <2>3, FlagHandler
<1>9. CASE AiAlarmOn
  <2>1. Set("ai", TRUE) /\ UpdateLights /\ UNCHANGED scoreVars
        BY <1>9, Zenon DEF AiAlarmOn
  <2>2. /\ hold' \in {Off} \union 0..HOLD /\ since' \in 0..HOLD
        /\ hold' # Off /\ since' = HOLD - hold'
        BY <1>2, <1>9, SMT DEF AiAlarmOn, Off
  <2> QED BY <2>1, <2>2, AiHandler
<1>10. CASE AiAlarmOff
  <2>1. Set("ai", FALSE) /\ UpdateLights /\ UNCHANGED scoreVars
        BY <1>10, Zenon DEF AiAlarmOff
  <2>2. hold' \in {Off} \union 0..HOLD /\ since' \in 0..HOLD /\ hold' = Off
        BY <1>2, <1>10, SMT DEF AiAlarmOff
  <2> QED BY <2>1, <2>2, AiHandler
<1>11. CASE HoldTimeout
  <2>1. Set("ai", FALSE) /\ UpdateLights /\ UNCHANGED scoreVars
        BY <1>11, Zenon DEF HoldTimeout
  <2>2. hold' \in {Off} \union 0..HOLD /\ since' \in 0..HOLD /\ hold' = Off
        BY <1>2, <1>11, SMT DEF HoldTimeout
  <2> QED BY <2>1, <2>2, AiHandler
<1>12. ASSUME NEW n \in 0..1, AlarmLog(n) PROVE Ind'
  <2>1. alerted' = alerted /\ emergency' = emergency /\ hold' = hold /\ since' = since
        /\ AddLogEntry(n)
        BY <1>12 DEF AlarmLog
  <2>2. violations' \in violations..FULL /\ UpdateScore /\ UpdateLights
        BY <1>1, <2>1, Counted, SMT DEF AddLogEntry
  <2>3. emergency' = (emergency \/ Emergency(alerted'))
    <3>1. emergency \in BOOLEAN /\ EmergencyInd
          BY Zenon DEF Ind, UiInd, UiInv, UiType
    <3> QED BY <2>1, <3>1, Zenon DEF EmergencyInd
  <2>4. m_todayScore' \in 0..FULL /\ violations' \in 0..FULL /\ ScoreInv'
        BY <1>1, <2>2, <2>3, Scored
  <2>5. UNCHANGED lightVars
        BY <1>1, <2>1, <2>2, DrawnAgain
  <2>6. UNCHANGED <<alerted, emergency, lightVars>>
        BY <2>1, <2>5
  <2>7. /\ hold' \in {Off} \union 0..HOLD /\ since' \in 0..HOLD /\ (hold' = Off <=> hold = Off)
        /\ (hold' # Off => since' = HOLD - hold')
        BY <1>1, <1>2, <2>1, Zenon DEF HoldInd
  <2> QED BY <2>4, <2>6, <2>7, OtherHandler
<1>13. ASSUME UNCHANGED uiVars PROVE Ind'
  <2>1. UNCHANGED <<alerted, emergency, lightVars>> /\ UNCHANGED <<hold, since, scoreVars>>
        BY <1>13 DEF uiVars
  <2>2. ScoreInv' /\ violations' \in 0..FULL /\ m_todayScore' \in 0..FULL
        BY <1>1, <1>2, <2>1, Zenon DEF ScoreInv, scoreVars
  <2>3. /\ hold' \in {Off} \union 0..HOLD /\ since' \in 0..HOLD /\ (hold' = Off <=> hold = Off)
        /\ (hold' # Off => since' = HOLD - hold')
        BY <1>1, <1>2, <2>1, Zenon DEF HoldInd
  <2> QED BY <2>1, <2>2, <2>3, OtherHandler
<1>14. CASE Tick
  <2>1. UNCHANGED <<alerted, emergency, lightVars>> /\ UNCHANGED scoreVars
        BY <1>14 DEF Tick
  <2>2. ScoreInv' /\ violations' \in 0..FULL /\ m_todayScore' \in 0..FULL
        BY <1>1, <1>2, <2>1, Zenon DEF ScoreInv, scoreVars
  <2>3. /\ hold' \in {Off} \union 0..HOLD /\ since' \in 0..HOLD /\ (hold' = Off <=> hold = Off)
        /\ (hold' # Off => since' = HOLD - hold')
        BY <1>1, <1>2, <1>14, SMT DEF Tick, HoldInd, Running, Lesser, Off
  <2> QED BY <2>1, <2>2, <2>3, OtherHandler
<1>15. CASE Advise
       BY <1>13, <1>15, Zenon DEF Advise
<1>16. CASE UNCHANGED vars
  <2>1. UNCHANGED uiVars
        BY <1>16 DEF vars
  <2> QED BY <1>13, <2>1
<1> QED
  BY <1>4, <1>5, <1>6, <1>7, <1>8, <1>9, <1>10, <1>11, <1>12, <1>14, <1>15, <1>16, Zenon DEF Next

LEMMA IndAlways == Spec => []Ind
<1> QED BY IndInit, IndNext, PTL DEF Spec

(***************************************************************************)
(* Whatever the timers and whatever order the signals come in, the light   *)
(* shows what the four flags call for, and the AI flag and its hold timer  *)
(* agree.                                                                  *)
(***************************************************************************)
THEOREM UiInvariant == Spec => []UiInv
<1>1. Ind => UiInv
      BY Zenon DEF Ind, UiInd
<1> QED BY <1>1, IndAlways, PTL

(***************************************************************************)
(* The score of the day is its worst, for every full score and cap.        *)
(***************************************************************************)
THEOREM ScoreIsWorst == Spec => []ScoreInv
<1>1. Ind => ScoreInv
      BY Zenon DEF Ind
<1> QED BY <1>1, IndAlways, PTL

(***************************************************************************)
(* The AI warning never falls before its time: HoldInd makes the timer     *)
(* that lets it fall a measure of the time since the last alarm.           *)
(***************************************************************************)
THEOREM WarningIsHeld == Spec => WarningHeld
<1>1. Ind /\ [Next]_vars => [alerted["ai"] /\ ~ alerted'["ai"] => since = HOLD]_vars
  <2> SUFFICES ASSUME Ind, Next, alerted["ai"], ~ alerted'["ai"] PROVE since = HOLD
      BY Zenon
  <2>1. /\ alerted \in [Flag -> BOOLEAN] /\ (alerted["ai"] <=> hold # Off)
        /\ (hold # Off => since = HOLD - hold)
        BY Zenon DEF Ind, UiInd, UiInv, UiType, HoldInd
  <2>2. ASSUME NEW f \in Flag, f # "ai", NEW b, Set(f, b) PROVE FALSE
        BY <2>1, <2>2 DEF Set
  <2>3. alerted' # alerted
        BY Zenon
  <2>4. ~ AiAlarmOn
        BY <2>1, SMT DEF AiAlarmOn, Set, Flag
  <2>5. ~ AiAlarmOff
        BY <2>1, Zenon DEF AiAlarmOff
  <2>6. HoldTimeout => since = HOLD
        BY <2>1, UiAssumption, SMT DEF HoldTimeout, Off
  <2>7. ~ Tick /\ ~ Advise /\ \A n \in 0..1 : ~ AlarmLog(n)
        BY <2>3 DEF Tick, Advise, AlarmLog, uiVars
  <2>8. /\ "fire" \in Flag /\ "gas" \in Flag /\ "env" \in Flag
        /\ "fire" # "ai" /\ "gas" # "ai" /\ "env" # "ai"
        BY DEF Flag
  <2>9. ~ GasRises /\ ~ EnvRises
        BY <2>2, <2>8, Zenon DEF GasRises, EnvRises
  <2>10. \A status \in 0..2 : ~ PhysicalAlarm(status) /\ ~ GasOther(status)
        BY <2>2, <2>8, Zenon DEF PhysicalAlarm, GasOther
  <2>11. \A level \in {"high", "between", "low"} : ~ EnvOther(level)
        BY <2>2, <2>8, Zenon DEF EnvOther
  <2> QED BY <2>4, <2>5, <2>6, <2>7, <2>9, <2>10, <2>11, Zenon DEF Next
<1> QED BY <1>1, IndAlways, PTL DEF Spec, WarningHeld
-----------------------------------------------------------------------------
(***************************************************************************)
(* The advisor.  The timers of simulated answers come due in the order in  *)
(* which they were started, so that none is still behind the first one     *)
(* when time passes; and with simulated answers only the timeout gives the *)
(* preset advice, after which m_isTimeout holds back those on their way.   *)
(***************************************************************************)
MocksInOrder == \A i \in DOMAIN mocks : \A j \in 1..i : mocks[j] <= mocks[i]

MockHeldBack == useMock /\ panel = "fallback" => m_isTimeout

AdvisorInd == AdvisorInv /\ MocksInOrder /\ MockHeldBack

LEMMA AdvisorIndInit == AdvisorInit => AdvisorInd
<1> SUFFICES ASSUME AdvisorInit PROVE AdvisorInd
    OBVIOUS
<1>1. AdvisorType /\ MocksInOrder
  <2>1. mocks = <<>> /\ mocks \in Seq(0..MOCK_DELAY)
        BY DEF AdvisorInit
  <2>2. MocksInOrder
        BY <2>1 DEF MocksInOrder
  <2>3. panel \in {"none", "analysing", "advice", "fallback"} /\ answers \in 0..2
        BY SMT DEF AdvisorInit
  <2> QED BY <2>1, <2>2, <2>3 DEF AdvisorInit, AdvisorType
<1>2. AdvisorInv /\ MockHeldBack
      BY <1>1, SMT DEF AdvisorInit, AdvisorInv, MockHeldBack
<1> QED BY <1>1, <1>2, Zenon DEF AdvisorInd

LEMMA OneLess ==
  ASSUME NEW m \in Nat, NEW s \in Seq(0..m), NEW t, t = [i \in DOMAIN s |-> s[i] - 1],
         \A i \in DOMAIN s : s[i] # 0,
         \A i \in DOMAIN s : \A j \in 1..i : s[j] <= s[i]
  PROVE  t \in Seq(0..m) /\ \A i \in DOMAIN t : \A j \in 1..i : t[j] <= t[i]
<1>1. Len(s) \in Nat /\ DOMAIN s = 1..Len(s) /\ \A i \in 1..Len(s) : s[i] \in 0..m
      OBVIOUS
<1>2. \A i \in 1..Len(s) : s[i] - 1 \in 0..m
      BY <1>1
<1>3. t \in [1..Len(s) -> 0..m]
      BY <1>1, <1>2, Zenon
<1>4. t \in Seq(0..m)
      BY <1>1, <1>3, SeqDef
<1>5. ASSUME NEW i \in 1..Len(s), NEW j \in 1..i PROVE t[j] <= t[i]
  <2>0. j \in 1..Len(s)
        BY <1>1
  <2>1. t[i] = s[i] - 1 /\ t[j] = s[j] - 1 /\ s[j] <= s[i]
        BY <1>1, <2>0, Zenon
  <2>2. s[i] \in 0..m /\ s[j] \in 0..m
        BY <1>1, <2>0, Zenon
  <2>3. \A a, b \in 0..m : a <= b => a - 1 <= b - 1
        OBVIOUS
  <2>4. s[j] - 1 <= s[i] - 1
        BY <2>1, <2>2, <2>3, Zenon
  <2> QED BY <2>1, <2>4, Zenon
<1> QED BY <1>1, <1>4, <1>5, Zenon

\* What an event does to the simulated answers that are on their way.
LEMMA MocksNext ==
  ASSUME AdvisorType, MocksInOrder,
         \/ mocks' = mocks
         \/ mocks' = Append(mocks, MOCK_DELAY)
         \/ mocks # <<>> /\ mocks' = Tail(mocks)
         \/ ~ Due /\ mocks' = [i \in DOMAIN mocks |-> mocks[i] - 1]
  PROVE  mocks' \in Seq(0..MOCK_DELAY) /\ MocksInOrder'
<1>1. mocks \in Seq(0..MOCK_DELAY) /\ MOCK_DELAY \in Nat
      BY AdvisorAssumption DEF AdvisorType
<1>2. \A i \in DOMAIN mocks : \A j \in 1..i : mocks[j] <= mocks[i]
      BY Zenon DEF MocksInOrder
<1>3. /\ DOMAIN mocks = 1..Len(mocks) /\ Len(mocks) \in Nat
      /\ \A i \in DOMAIN mocks : mocks[i] \in 0..MOCK_DELAY
      BY <1>1
<1>4. CASE mocks' = mocks
      BY <1>1, <1>4, Zenon DEF MocksInOrder
<1>5. CASE mocks' = Append(mocks, MOCK_DELAY)
  <2>1. mocks' \in Seq(0..MOCK_DELAY)
        BY <1>1, <1>5
  <2>2. \A i \in DOMAIN mocks' : \A j \in 1..i : mocks'[j] <= mocks'[i]
        BY <1>1, <1>2, <1>3, <1>5
  <2> QED BY <2>1, <2>2, Zenon DEF MocksInOrder
<1>6. CASE mocks # <<>> /\ mocks' = Tail(mocks)
  <2>1. mocks' \in Seq(0..MOCK_DELAY)
        BY <1>1, <1>6
  <2>2. \A i \in DOMAIN mocks' : \A j \in 1..i : mocks'[j] <= mocks'[i]
        BY <1>1, <1>2, <1>6
  <2> QED BY <2>1, <2>2, Zenon DEF MocksInOrder
<1>7. CASE ~ Due /\ mocks' = [i \in DOMAIN mocks |-> mocks[i] - 1]
  <2>1. \A i \in DOMAIN mocks : mocks[i] # 0
    <3>1. mocks # <<>> => Head(mocks) # 0
          BY <1>7, Zenon DEF Due
    <3> QED BY <1>1, <1>2, <1>3, <3>1
  <2>4. mocks' \in Seq(0..MOCK_DELAY)
        /\ \A i \in DOMAIN mocks' : \A j \in 1..i : mocks'[j] <= mocks'[i]
        BY <1>1, <1>2, <1>7, <2>1, OneLess
  <2> QED BY <2>4, Zenon DEF MocksInOrder
<1> QED BY <1>4, <1>5, <1>6, <1>7

\* The events of the advisor: the end of addLogEntry, its timers, a reply, and time.
AdvisorNext == Pend \/ AdvisorTimers \/ ReplyFinished \/ AdvisorTick

LEMMA AdvisorIndNext == AdvisorInd /\ [AdvisorNext]_advisorVars => AdvisorInd'
<1> SUFFICES ASSUME AdvisorInd, [AdvisorNext]_advisorVars PROVE AdvisorInd'
    OBVIOUS
<1>1. AdvisorInv /\ AdvisorType /\ MocksInOrder /\ MockHeldBack
      BY Zenon DEF AdvisorInd, AdvisorInv
<1> USE AdvisorAssumption
<1>2. CASE Pend
  <2>1. mocks' = mocks
        BY <1>2 DEF Pend
  <2>2. mocks' \in Seq(0..MOCK_DELAY) /\ MocksInOrder'
        BY <1>1, <2>1, MocksNext
  <2>3. AdvisorInv' /\ MockHeldBack'
        BY <1>1, <1>2, <2>2, SMT DEF Pend, AdvisorInv, AdvisorType, MockHeldBack, Off
  <2> QED BY <2>2, <2>3, Zenon DEF AdvisorInd
<1>3. CASE AggregationTimeout
  <2>1. mocks' = mocks \/ mocks' = Append(mocks, MOCK_DELAY)
        BY <1>3, Zenon DEF AggregationTimeout
  <2>2. mocks' \in Seq(0..MOCK_DELAY) /\ MocksInOrder'
        BY <1>1, <2>1, MocksNext
  <2>3. ~ useMock => mocks' = mocks
        BY <1>3, Zenon DEF AggregationTimeout
  <2>4. m_currentReply' \in BOOLEAN /\ (m_currentReply' <=> ~ useMock') /\ useMock' = useMock
        BY <1>3, Zenon DEF AggregationTimeout
  <2>5. AdvisorType'
    <3>1. /\ pending' = FALSE /\ m_isTimeout' = FALSE /\ aggregation' = Off /\ deadline' = TIMEOUT
          /\ panel' = "analysing" /\ answers' = 0
          BY <1>3, Zenon DEF AggregationTimeout
    <3>2. TIMEOUT \in 0..TIMEOUT
          OBVIOUS
    <3>3. answers' \in 0..2 /\ FALSE \in BOOLEAN
          BY <3>1, SMT
    <3> QED BY <1>1, <2>2, <2>4, <3>1, <3>2, <3>3, Zenon DEF AdvisorType
  <2>6. /\ panel' = "analysing" /\ deadline' # Off /\ aggregation' = Off /\ ~ pending'
        /\ answers' = 0 /\ ~ m_isTimeout' /\ (~ useMock' => mocks' = <<>>)
        BY <1>1, <1>3, <2>3, <2>4, SMT DEF AggregationTimeout, AdvisorInv, Off
  <2>7. AdvisorInv' /\ MockHeldBack'
        BY <2>4, <2>5, <2>6, SMT DEF AdvisorInv, MockHeldBack
  <2> QED BY <2>2, <2>7, Zenon DEF AdvisorInd
<1>4. CASE MockTimeout
  <2>1. mocks # <<>> /\ mocks' = Tail(mocks)
        BY <1>4, Zenon DEF MockTimeout
  <2>2. mocks' \in Seq(0..MOCK_DELAY) /\ MocksInOrder'
        BY <1>1, <2>1, MocksNext
  <2>3. useMock
        BY <1>1, <2>1, Zenon DEF AdvisorInv
  <2>4. CASE m_isTimeout
        BY <1>1, <1>4, <2>2, <2>3, <2>4, SMT
           DEF MockTimeout, AdvisorInd, AdvisorInv, AdvisorType, MockHeldBack, Off
  <2>5. CASE ~ m_isTimeout
        BY <1>1, <1>4, <2>2, <2>3, <2>5, SMT
           DEF MockTimeout, AdvisorInd, AdvisorInv, AdvisorType, MockHeldBack, Off, Answer, OneMore
  <2> QED BY <2>4, <2>5
<1>5. CASE RequestTimeout
  <2>1. mocks' = mocks
        BY <1>5 DEF RequestTimeout
  <2>2. mocks' \in Seq(0..MOCK_DELAY) /\ MocksInOrder'
        BY <1>1, <2>1, MocksNext
  <2>3. answers' \in 0..2 /\ (answers = 0 => answers' = 1)
        BY <1>1, <1>5, SMT DEF RequestTimeout, Answer, OneMore, AdvisorType
  <2>4. panel = "analysing"
        BY <1>1, <1>5, SMT DEF RequestTimeout, AdvisorInv, Off
  <2>5. /\ deadline' = Off /\ m_isTimeout' = TRUE /\ m_currentReply' = FALSE
        /\ panel' = "fallback" /\ UNCHANGED <<useMock, pending, aggregation, mocks>>
        BY <1>5, Zenon DEF RequestTimeout, Answer
  <2>6. AdvisorType'
        BY <1>1, <2>2, <2>3, <2>5 DEF AdvisorType
  <2>7. ~ useMock => answers' <= 1 /\ mocks' = <<>>
        BY <1>1, <2>3, <2>4, <2>5, SMT DEF AdvisorInv
  <2>8. AdvisorInv' /\ MockHeldBack'
        BY <1>1, <2>5, <2>6, <2>7 DEF AdvisorInv, MockHeldBack
  <2> QED BY <2>2, <2>8, Zenon DEF AdvisorInd
<1>6. CASE ReplyFinished
  <2>1. mocks' = mocks
        BY <1>6 DEF ReplyFinished
  <2>2. mocks' \in Seq(0..MOCK_DELAY) /\ MocksInOrder'
        BY <1>1, <2>1, MocksNext
  <2>3. answers' \in 0..2 /\ (answers = 0 => answers' = 1)
        BY <1>1, <1>6, SMT DEF ReplyFinished, Answer, OneMore, AdvisorType
  <2>4. ~ useMock /\ panel = "analysing" /\ panel' \in {"advice", "fallback"}
        BY <1>1, <1>6, Zenon DEF ReplyFinished, AdvisorInv, Answer
  <2>5. /\ deadline' = Off /\ m_currentReply' = FALSE
        /\ UNCHANGED <<useMock, pending, aggregation, mocks, m_isTimeout>> /\ ~ m_isTimeout
        BY <1>6, Zenon DEF ReplyFinished
  <2>6. AdvisorType'
        BY <1>1, <2>2, <2>3, <2>4, <2>5 DEF AdvisorType
  <2>7. answers' <= 1 /\ mocks' = <<>>
        BY <1>1, <2>3, <2>4, <2>5, SMT DEF AdvisorInv
  <2>8. AdvisorInv' /\ MockHeldBack'
        BY <1>1, <2>4, <2>5, <2>6, <2>7 DEF AdvisorInv, MockHeldBack
  <2> QED BY <2>2, <2>8, Zenon DEF AdvisorInd
<1>7. CASE AdvisorTick
  <2>1. ~ Due /\ mocks' = [i \in DOMAIN mocks |-> mocks[i] - 1]
        BY <1>7, Zenon DEF AdvisorTick
  <2>2. mocks' \in Seq(0..MOCK_DELAY) /\ MocksInOrder'
        BY <1>1, <2>1, MocksNext
  <2>3. ~ useMock => mocks' = <<>>
        BY <1>1, <2>1 DEF AdvisorInv
  <2>4. aggregation # 0 /\ deadline # 0
        BY <2>1, Zenon DEF Due
  <2>5. AdvisorInv' /\ MockHeldBack'
        BY <1>1, <1>7, <2>2, <2>3, <2>4, SMT
           DEF AdvisorTick, AdvisorInv, AdvisorType, MockHeldBack, Off, Running
  <2> QED BY <2>2, <2>5, Zenon DEF AdvisorInd
<1>8. CASE UNCHANGED advisorVars
  <2>1. mocks' = mocks
        BY <1>8 DEF advisorVars
  <2>2. mocks' \in Seq(0..MOCK_DELAY) /\ MocksInOrder'
        BY <1>1, <2>1, MocksNext
  <2>3. AdvisorInv' /\ MockHeldBack'
        BY <1>1, <1>8, <2>2, SMT DEF advisorVars, AdvisorInv, AdvisorType, MockHeldBack
  <2> QED BY <2>2, <2>3, Zenon DEF AdvisorInd
<1> QED BY <1>2, <1>3, <1>4, <1>5, <1>6, <1>7, <1>8, Zenon DEF AdvisorNext, AdvisorTimers

\* Every handler of the window is an event of the advisor or leaves it alone.
LEMMA WindowStepsAdvisor == [Next]_vars => [AdvisorNext]_advisorVars
<1> SUFFICES ASSUME [Next]_vars PROVE [AdvisorNext]_advisorVars
    OBVIOUS
<1>1. CASE UNCHANGED vars
      BY <1>1 DEF vars
<1>2. CASE \/ \E status \in 0..2 : PhysicalAlarm(status) \/ GasOther(status)
           \/ \E level \in {"high", "between", "low"} : EnvOther(level)
           \/ AiAlarmOn \/ AiAlarmOff \/ HoldTimeout
      BY <1>2 DEF PhysicalAlarm, GasOther, EnvOther, AiAlarmOn, AiAlarmOff, HoldTimeout
<1>3. CASE GasRises \/ EnvRises \/ \E n \in 0..1 : AlarmLog(n)
      BY <1>3, Zenon DEF GasRises, EnvRises, AlarmLog, AddLogEntry, AdvisorNext
<1>4. CASE Advise \/ Tick
      BY <1>4, Zenon DEF Advise, Tick, AdvisorNext
<1> QED BY <1>1, <1>2, <1>3, <1>4, Zenon DEF Next

LEMMA AdvisorIndAlways == Spec => []AdvisorInd
<1>1. Init => AdvisorInd
      BY AdvisorIndInit, Zenon DEF Init
<1>2. AdvisorInd /\ [Next]_vars => AdvisorInd'
      BY WindowStepsAdvisor, AdvisorIndNext, Zenon
<1> QED BY <1>1, <1>2, PTL DEF Spec

(***************************************************************************)
(* Every request has somebody who will answer it, and with an API key it   *)
(* is answered once, whatever the three timers are: the aggregation of     *)
(* violations, the timeout, the reply and the next request meet in any     *)
(* order.                                                                  *)
(***************************************************************************)
THEOREM AdvisorInvariant == Spec => []AdvisorInv
<1>1. AdvisorInd => AdvisorInv
      BY Zenon DEF AdvisorInd
<1> QED BY <1>1, AdvisorIndAlways, PTL

(***************************************************************************)
(* The model's advice and the preset one never replace each other before   *)
(* the next request, though simulated answers are never cancelled.         *)
(***************************************************************************)
THEOREM AnswersStand == Spec => AnswerStands
<1>1. ASSUME AdvisorInd, AdvisorNext, panel \in {"advice", "fallback"}
      PROVE  panel' = panel \/ panel' = "analysing"
  <2>1. AdvisorInv /\ AdvisorType /\ MockHeldBack
        BY <1>1, Zenon DEF AdvisorInd, AdvisorInv
  <2>2. ~ ReplyFinished
        BY <1>1, <2>1 DEF ReplyFinished, AdvisorInv
  <2>3. ~ RequestTimeout
        BY <1>1, <2>1, SMT DEF RequestTimeout, AdvisorInv, Off
  <2>4. CASE MockTimeout
    <3>1. useMock
          BY <2>1, <2>4, Zenon DEF MockTimeout, AdvisorInv
    <3> QED BY <1>1, <2>1, <2>4, <3>1 DEF MockTimeout, Answer, MockHeldBack
  <2>5. CASE Pend \/ AggregationTimeout \/ AdvisorTick
        BY <2>5 DEF Pend, AggregationTimeout, AdvisorTick
  <2> QED BY <1>1, <2>2, <2>3, <2>4, <2>5, Zenon DEF AdvisorNext, AdvisorTimers
<1>2. AdvisorInd /\ [Next]_vars
        => [(panel \in {"advice", "fallback"}) => panel' = panel \/ panel' = "analysing"]_advisorVars
      BY <1>1, WindowStepsAdvisor, Zenon
<1> QED BY <1>2, AdvisorIndAlways, PTL DEF Spec, AnswerStands
=============================================================================
