-------------------------- MODULE SlaveNodeProofs ---------------------------
(***************************************************************************)
(* Proofs about the slave core for all values of its limits.               *)
(***************************************************************************)
EXTENDS SlaveSensors, TLAPS

USE LimitAssumption

LEMMA InitNodeInv == Init => NodeInv
<1> SUFFICES ASSUME Init PROVE NodeInv
  OBVIOUS
<1>1. /\ ready \in BOOLEAN /\ g_wdt_started \in BOOLEAN /\ due \in BOOLEAN
      /\ g_has_received_first_heartbeat \in BOOLEAN /\ shutdown_req \in BOOLEAN
      /\ flag_ai_alarm_req \in BOOLEAN /\ fire \in BOOLEAN /\ buzzer \in BOOLEAN
  BY Zenon DEF Init
<1>2. QED
  BY <1>1 DEF Init, NodeInv, TypeOK, CountInv, DogInv, ModeInv

LEMMA NextNodeInv == NodeInv /\ [Next]_vars => NodeInv'
<1> SUFFICES ASSUME NodeInv, [Next]_vars PROVE NodeInv'
  OBVIOUS
<1> USE DEF NodeInv, TypeOK, CountInv, DogInv, ModeInv, wdt, heart, alarm
<1>1. CASE Boot
  <2>1. /\ ready' \in BOOLEAN /\ g_wdt_started' \in BOOLEAN /\ due' \in BOOLEAN
       /\ g_has_received_first_heartbeat' \in BOOLEAN /\ shutdown_req' \in BOOLEAN /\ flag_ai_alarm_req' \in BOOLEAN
       /\ fire' \in BOOLEAN /\ buzzer' \in BOOLEAN
    BY <1>1, Zenon DEF Boot
  <2>2. QED
    BY <1>1, <2>1 DEF Boot
<1>2. CASE Tick
  BY <1>2 DEF Tick
<1>3. CASE WdtFires
  BY <1>3 DEF WdtFires
<1>4. CASE FireChange
  BY <1>4 DEF FireChange, Powered
<1>5. CASE HeardOther
  BY <1>5 DEF HeardOther, Heard
<1>6. ASSUME NEW b \in BOOLEAN, HeardBuzzer(b) PROVE NodeInv'
  BY <1>6 DEF HeardBuzzer, Heard
<1>7. CASE HeardShutdown
  BY <1>7 DEF HeardShutdown, Heard
<1>8. CASE HeardCrcTest
  BY <1>8 DEF HeardCrcTest, Heard
<1>9. CASE CrcRound
  BY <1>9 DEF CrcRound
<1>10. CASE Unbind
  BY <1>10 DEF Unbind, Spin
<1>11. CASE HandleTickIdle
  <2>1. due' \in BOOLEAN
    BY <1>11, Zenon DEF HandleTickIdle
  <2>2. QED
    BY <1>11, <2>1 DEF HandleTickIdle, Listens
<1>12. CASE HandleTickMiss
  <2>1. due' \in BOOLEAN
    BY <1>12, Zenon DEF HandleTickMiss
  <2>2. QED
    BY <1>12, <2>1 DEF HandleTickMiss, Listens
<1>13. CASE HandleTickFailSafe
  <2>1. due' \in BOOLEAN
    BY <1>13, Zenon DEF HandleTickFailSafe
  <2>2. QED
    BY <1>13, <2>1 DEF HandleTickFailSafe, Spin, Listens
<1>14. CASE Stop
  BY <1>14 DEF Stop
<1>15. CASE UNCHANGED vars
  BY <1>15 DEF vars
<1> HIDE DEF NodeInv
<1>16. QED
  BY <1>1, <1>2, <1>3, <1>4, <1>5, <1>6, <1>7, <1>8, <1>9, <1>10, <1>11, <1>12, <1>13, <1>14,
     <1>15 DEF Next

(***************************************************************************)
(* The inductive invariant of the slave core holds for all limits with     *)
(* 0 < MissLimit <= WdtLimit, whatever the timeout on the way to a reset.  *)
(***************************************************************************)
THEOREM NodeInvariant == Spec => []NodeInv
<1>1. QED
  BY InitNodeInv, NextNodeInv, PTL DEF Spec

LEMMA ResetStep ==
  NodeInv /\ [Next]_vars => (mode' = "reset" /\ mode # "reset" =>
    mode = "unbound" \/ (mode # "off" /\ silent >= MissLimit - 1))
<1> SUFFICES ASSUME NodeInv, [Next]_vars, mode' = "reset", mode # "reset", mode # "unbound"
             PROVE  mode # "off" /\ silent >= MissLimit - 1
  OBVIOUS
<1>1. WdtFires
  BY DEF Next, vars, wdt, heart, alarm, Boot, Tick, FireChange, HeardOther, HeardBuzzer,
         HeardShutdown, HeardCrcTest, Heard, CrcRound, Unbind, Spin, HandleTickIdle,
         HandleTickMiss, HandleTickFailSafe, Stop
<1>2. mode # "off"
  BY <1>1 DEF WdtFires, NodeInv, ModeInv
<1>3. CASE mode = "failsafe"
  BY <1>2, <1>3 DEF NodeInv, ModeInv
<1>4. CASE mode # "failsafe"
  <2>1. mode \in {"run", "crcTest"}
    BY <1>2, <1>4 DEF NodeInv, TypeOK
  <2>2. left + silent >= WdtLimit /\ left = 0
    BY <1>1, <2>1 DEF WdtFires, NodeInv, DogInv
  <2>3. QED
    BY <1>2, <2>2 DEF NodeInv, TypeOK
<1>5. QED
  BY <1>3, <1>4

(***************************************************************************)
(* For all limits, the board is reset only after the master's endpoint was *)
(* destroyed, or by a running core that has heard no valid packet for      *)
(* MissLimit - 1 ticks.                                                    *)
(***************************************************************************)
THEOREM ResetsAreJustified == Spec => ResetJustified
<1>1. NodeInv /\ [Next]_vars => [mode' = "reset" /\ mode # "reset" =>
        mode = "unbound" \/ (mode # "off" /\ silent >= MissLimit - 1)]_vars
  BY ResetStep
<1>2. QED
  BY <1>1, NodeInvariant, PTL DEF Spec, ResetJustified

(* The sensor ---------------------------------------------------------------- *)

LEMMA BenchStep == [BenchNext]_benchVars => [Next]_vars
<1>1. BenchBoot => Next
  BY DEF BenchBoot, Next
<1>2. ReportTick => Next
  BY DEF ReportTick, Next
<1>3. OtherStep => Next
  BY DEF OtherStep, Next
<1>4. BusChange => UNCHANGED vars
  BY DEF BusChange
<1>5. UNCHANGED benchVars => UNCHANGED vars
  BY DEF benchVars
<1>6. QED
  BY <1>1, <1>2, <1>3, <1>4, <1>5 DEF BenchNext

(***************************************************************************)
(* With its sensor the node still does only what SlaveNode allows, so that *)
(* all that is proved of Spec holds of BenchSpec.                          *)
(***************************************************************************)
THEOREM BenchImplementsNode == BenchSpec => Spec
<1>1. BenchInit => Init
  BY DEF BenchInit
<1>2. QED
  BY <1>1, BenchStep, PTL DEF BenchSpec, Spec

\* What the driver's operations return, by the state of the bus.
LEMMA SetUpResult ==
  ASSUME NEW d \in Driver, NEW r \in SetUp(d)
  PROVE  /\ r.driver \in Driver /\ r.ok \in BOOLEAN
         /\ r.driver.present = d.present
         /\ ~ Fails => r.ok
<1> DEFINE down == [d EXCEPT !.is_ready = FALSE]
           up == [d EXCEPT !.is_ready = TRUE]
<1>1. /\ down \in Driver /\ down.present = d.present
      /\ up \in Driver /\ up.present = d.present
  BY DEF Driver
<1> HIDE DEF down, up
<1>2. \/ r = [driver |-> up, ok |-> TRUE]
      \/ Fails /\ r \in {[driver |-> down, ok |-> FALSE], [driver |-> up, ok |-> FALSE]}
  BY DEF SetUp, down, up
<1>3. r.driver \in {down, up}
  BY <1>2
<1>4. r.ok = TRUE \/ (Fails /\ r.ok = FALSE)
  BY <1>2
<1>5. QED
  BY <1>1, <1>3, <1>4, Zenon DEF Fails

LEMMA ProbeResult ==
  ASSUME NEW d \in Driver, NEW p \in Probe(d)
  PROVE  /\ p \in Driver
         /\ ~ Fails => p.present = d.present /\ p.init_ok
BY DEF Probe, Driver, Fails, Works

LEMMA InitResult ==
  ASSUME NEW d \in Driver, NEW r \in AHT20_Init(d)
  PROVE  /\ r.driver \in Driver /\ r.ok \in BOOLEAN
         /\ ~ Fails => /\ r.ok /\ r.driver.present = d.present
                       /\ d.present => r.driver.init_ok
<1>1. CASE d.init_ok \/ ~ d.present
  <2>1. r = [driver |-> d, ok |-> TRUE]
    BY <1>1, Zenon DEF AHT20_Init
  <2>2. r.driver = d /\ r.ok = TRUE
    BY <2>1
  <2>3. QED
    BY <1>1, <2>2, Zenon
<1>2. CASE ~ (d.init_ok \/ ~ d.present)
  <2>1. PICK s \in SetUp(d) :
          r \in IF s.ok THEN {[driver |-> p, ok |-> TRUE] : p \in Probe(s.driver)} ELSE {s}
    BY <1>2 DEF AHT20_Init
  <2>2. /\ s.driver \in Driver /\ s.ok \in BOOLEAN
        /\ s.driver.present = d.present
        /\ ~ Fails => s.ok
    BY SetUpResult, Zenon
  <2>3. CASE s.ok
    <3>1. PICK p \in Probe(s.driver) : r = [driver |-> p, ok |-> TRUE]
      BY <2>1, <2>3, Zenon
    <3>2. p \in Driver /\ (~ Fails => p.present = s.driver.present /\ p.init_ok)
      BY <2>2, ProbeResult, Zenon
    <3>3. r.driver = p /\ r.ok = TRUE
      BY <3>1
    <3>4. QED
      BY <2>2, <3>2, <3>3, Zenon
  <2>4. CASE ~ s.ok
    <3>1. r = s
      BY <2>1, <2>4, Zenon
    <3>2. QED
      BY <2>2, <2>4, <3>1, Zenon
  <2>5. QED
    BY <2>3, <2>4
<1>3. QED
  BY <1>1, <1>2

LEMMA ReadResult ==
  ASSUME NEW d \in Driver, NEW r \in AHT20_Read_Sensor(d)
  PROVE  /\ r.driver \in Driver /\ r.ok \in BOOLEAN
         /\ bus = "good" => r.ok
         /\ bus = "busy" => ~ r.ok /\ r.driver.init_ok
         /\ bus = "absent" => ~ r.ok
<1>1. PICK a \in Awake(d) :
        r \in IF a.ok /\ a.driver.present THEN Measure(a.driver)
              ELSE {[driver |-> a.driver, ok |-> FALSE]}
  BY DEF AHT20_Read_Sensor
<1>2. a.driver \in Driver /\ (~ Fails => a.ok /\ a.driver.present /\ a.driver.init_ok)
  <2>1. CASE d.present /\ d.init_ok
    <3>1. a = [driver |-> d, ok |-> TRUE]
      BY <2>1, Zenon DEF Awake
    <3>2. a.driver = d /\ a.ok = TRUE
      BY <3>1
    <3>3. QED
      BY <2>1, <3>2, Zenon
  <2>2. CASE ~ (d.present /\ d.init_ok)
    <3> DEFINE e == [d EXCEPT !.present = TRUE, !.init_ok = FALSE]
    <3>1. e \in Driver /\ e.present = TRUE
      BY DEF Driver
    <3>2. a \in AHT20_Init(e)
      BY <2>2, Zenon DEF Awake
    <3> HIDE DEF e
    <3>3. /\ a.driver \in Driver
          /\ ~ Fails => a.ok /\ a.driver.present = e.present /\ (e.present => a.driver.init_ok)
      BY <3>1, <3>2, InitResult, Zenon
    <3>4. QED
      BY <3>1, <3>3, Zenon
  <2>3. QED
    BY <2>1, <2>2
<1>3. CASE a.ok /\ a.driver.present
  <2> DEFINE e == a.driver
             again == [e EXCEPT !.init_ok = FALSE]
  <2>1. e \in Driver /\ again \in Driver
    BY <1>2 DEF Driver
  <2> HIDE DEF e, again
  <2>2. r \in Measure(e)
    BY <1>1, <1>3, Zenon DEF e
  <2>3. \/ bus \in {"good", "flaky"} /\ r = [driver |-> e, ok |-> TRUE]
        \/ bus \in {"busy", "flaky"} /\ r = [driver |-> e, ok |-> FALSE]
        \/ Fails /\ r = [driver |-> again, ok |-> FALSE]
    BY <2>2 DEF Measure, again
  <2>4. \/ bus \in {"good", "flaky"} /\ r.driver = e /\ r.ok = TRUE
        \/ bus \in {"busy", "flaky"} /\ r.driver = e /\ r.ok = FALSE
        \/ Fails /\ r.driver = again /\ r.ok = FALSE
    BY <2>3
  <2>5. Fails <=> bus \in {"flaky", "absent"}
    BY DEF Fails
  <2>6. bus = "busy" => e.init_ok
    BY <1>2, <2>5 DEF e
  <2>7. QED
    BY <2>1, <2>4, <2>5, <2>6
<1>4. CASE ~ (a.ok /\ a.driver.present)
  <2>1. r = [driver |-> a.driver, ok |-> FALSE]
    BY <1>1, <1>4, Zenon
  <2>2. r.driver = a.driver /\ r.ok = FALSE
    BY <2>1
  <2>3. bus \in {"good", "busy"} => ~ Fails
    BY DEF Fails
  <2>4. QED
    BY <1>2, <1>4, <2>2, <2>3
<1>5. QED
  BY <1>3, <1>4

LEMMA SensorTypeInvariant == BenchSpec => []SensorType
<1>1. BenchInit => SensorType
  <2> SUFFICES ASSUME BenchInit PROVE SensorType
    OBVIOUS
  <2>1. PICK r \in AHT20_Init(Loaded) : aht20 = r.driver
    BY DEF BenchInit
  <2>2. Loaded \in Driver
    BY DEF Loaded, Driver
  <2>3. aht20 \in Driver
    BY <2>1, <2>2, InitResult, Zenon
  <2>4. QED
    BY <2>3 DEF BenchInit, SensorType
<1>2. SensorType /\ [BenchNext]_benchVars => SensorType'
  <2> SUFFICES ASSUME SensorType, [BenchNext]_benchVars PROVE SensorType'
    OBVIOUS
  <2>1. CASE BenchBoot
    <3>1. PICK r \in AHT20_Init(Loaded) : aht20' = r.driver
      BY <2>1 DEF BenchBoot
    <3>2. Loaded \in Driver
      BY DEF Loaded, Driver
    <3>3. aht20' \in Driver
      BY <3>1, <3>2, InitResult, Zenon
    <3>4. QED
      BY <2>1, <3>3 DEF BenchBoot, SensorType
  <2>2. CASE ReportTick
    <3>1. PICK r \in AHT20_Read_Sensor(aht20) :
            aht20' = r.driver /\ env' = IF r.ok THEN "value" ELSE "ERR"
      BY <2>2 DEF ReportTick
    <3>2. aht20' \in Driver
      BY <3>1, ReadResult, Zenon DEF SensorType
    <3>3. env' \in {"value", "ERR"}
      BY <3>1
    <3>4. QED
      BY <2>2, <3>2, <3>3 DEF ReportTick, SensorType
  <2>3. CASE OtherStep
    BY <2>3 DEF OtherStep, sensorVars, SensorType
  <2>4. CASE BusChange
    BY <2>4 DEF BusChange, SensorType
  <2>5. CASE UNCHANGED benchVars
    BY <2>5 DEF benchVars, sensorVars, SensorType
  <2>6. QED
    BY <2>1, <2>2, <2>3, <2>4, <2>5 DEF BenchNext
<1>3. QED
  BY <1>1, <1>2, PTL DEF BenchSpec

(***************************************************************************)
(* Whatever the driver has been through, a tick handled with a sound wire  *)
(* reads the sensor: a measurement, or an error if the sensor is busy, and *)
(* then the controller stays set up; without a wire it is an error.        *)
(***************************************************************************)
THEOREM SensorIsTruthful == BenchSpec => SensorTruth
<1>1. ASSUME SensorType, [BenchNext]_benchVars
      PROVE  [Handled => /\ bus = "good" => env' = "value"
                         /\ bus = "busy" => env' = "ERR" /\ aht20'.init_ok
                         /\ bus = "absent" => env' = "ERR"]_benchVars
  <2>1. CASE ReportTick
    <3>1. PICK r \in AHT20_Read_Sensor(aht20) :
            aht20' = r.driver /\ env' = IF r.ok THEN "value" ELSE "ERR"
      BY <2>1 DEF ReportTick
    <3>2. /\ bus = "good" => r.ok
          /\ bus = "busy" => ~ r.ok /\ r.driver.init_ok
          /\ bus = "absent" => ~ r.ok
      BY <1>1, ReadResult, Zenon DEF SensorType
    <3>3. QED
      BY <3>1, <3>2
  <2>2. CASE BenchBoot
    BY <2>2 DEF BenchBoot, Boot, Handled
  <2>3. CASE OtherStep
    <3>1. ~ Handled
      BY <2>3 DEF OtherStep, Handled, Tick, WdtFires, FireChange, HeardOther, HeardBuzzer,
             HeardShutdown, HeardCrcTest, Heard, CrcRound, Unbind, Spin, HandleTickFailSafe, Stop,
             heart
    <3>2. QED
      BY <3>1
  <2>4. CASE BusChange
    BY <2>4 DEF BusChange, vars, heart, Handled
  <2>5. CASE UNCHANGED benchVars
    BY <2>5
  <2>6. QED
    BY <1>1, <2>1, <2>2, <2>3, <2>4, <2>5 DEF BenchNext
<1>2. QED
  BY <1>1, SensorTypeInvariant, PTL DEF BenchSpec, SensorTruth

=============================================================================
