---------------------------- MODULE SlaveSensors ----------------------------
(***************************************************************************)
(* The temperature sensor of the slave node: the driver (aht20.c) with its *)
(* two static flags and the I2C controller below it, called by slave_init  *)
(* once and by the main loop at every tick it handles, before the reports  *)
(* of gas and fire.  A read is one step of the loop.  The wire may be      *)
(* pulled and put back, or have a loose contact, between any two ticks,    *)
(* and the sensor itself may be slow.                                      *)
(***************************************************************************)
EXTENDS SlaveNode

VARIABLES
  aht20,     \* the driver: init_ok, present, and is_ready of i2c_instance
  bus,       \* external: every transfer works (good, busy), none does (absent), or each as
             \* it likes (flaky); the sensor has measured by the time it is read (good), has
             \* not (busy), or either (flaky)
  env        \* last DEVICE_CORE_ENV_REPORT sent: none, value, ERR

sensorVars == <<aht20, bus, env>>
benchVars == <<vars, sensorVars>>

Driver == [init_ok : BOOLEAN, present : BOOLEAN, is_ready : BOOLEAN]

Bus == {"good", "busy", "flaky", "absent"}

Works == bus # "absent"
Fails == bus \in {"flaky", "absent"}

\* A device without the statics' initial values: as loaded with the image.
Loaded == [init_ok |-> FALSE, present |-> TRUE, is_ready |-> FALSE]

(* The driver -------------------------------------------------------------- *)

\* Slip: a controller that is set up already is set up again, which the SDK refuses.
SetUpTwice(d) ==
  IF d.is_ready THEN {[driver |-> d, ok |-> FALSE]}
  ELSE {[driver |-> [d EXCEPT !.is_ready = TRUE], ok |-> TRUE]}
         \union (IF Fails THEN {[driver |-> d, ok |-> FALSE]} ELSE {})

\* The controller is taken down and set up; with a bad bus either may fail.
SetUp(d) ==
  LET down == [d EXCEPT !.is_ready = FALSE]
      up == [d EXCEPT !.is_ready = TRUE]
  IN {[driver |-> up, ok |-> TRUE]}
       \union (IF Fails THEN {[driver |-> down, ok |-> FALSE], [driver |-> up, ok |-> FALSE]}
               ELSE {})

\* No answer to the probe is no error, so that a missing sensor does not stop the start.
Probe(d) ==
  (IF Works THEN {[d EXCEPT !.init_ok = TRUE]} ELSE {})
    \union (IF Fails THEN {[d EXCEPT !.present = FALSE]} ELSE {})

\* AHT20_Init: the driver after it and whether it returned success.  The status word and
\* the calibration are tried once and their failure is ignored.
AHT20_Init(d) ==
  IF d.init_ok \/ ~ d.present
  THEN {[driver |-> d, ok |-> TRUE]}
  ELSE UNION {IF r.ok THEN {[driver |-> p, ok |-> TRUE] : p \in Probe(r.driver)} ELSE {r} :
                r \in SetUp(d)}

\* A sensor that was missing or failed is set up once more before it is read.
Awake(d) ==
  IF d.present /\ d.init_ok
  THEN {[driver |-> d, ok |-> TRUE]}
  ELSE AHT20_Init([d EXCEPT !.present = TRUE, !.init_ok = FALSE])

\* Trigger, 80 ms, six bytes.  A failed transfer has the controller set up next time.  The
\* bytes of a sensor that is still busy come over a sound wire too, and leave it alone.
Measure(d) ==
  LET Answer(r, cause) == IF cause THEN {r} ELSE {}
  IN Answer([driver |-> d, ok |-> TRUE], bus \in {"good", "flaky"})
       \union Answer([driver |-> d, ok |-> FALSE], bus \in {"busy", "flaky"})
       \union Answer([driver |-> [d EXCEPT !.init_ok = FALSE], ok |-> FALSE], Fails)

AHT20_Read_Sensor(d) ==
  UNION {IF r.ok /\ r.driver.present THEN Measure(r.driver)
         ELSE {[driver |-> r.driver, ok |-> FALSE]} : r \in Awake(d)}

(* The slave node around it ------------------------------------------------ *)

BenchInit ==
  /\ Init
  /\ bus \in Bus
  /\ aht20 \in {r.driver : r \in AHT20_Init(Loaded)}
  /\ env = "none"

BenchBoot ==
  /\ Boot
  /\ aht20' \in {r.driver : r \in AHT20_Init(Loaded)}
  /\ env' = "none"
  /\ UNCHANGED bus

\* A tick that does not end in fail-safe reads the sensor and reports.
ReportTick ==
  /\ HandleTickIdle \/ HandleTickMiss
  /\ \E r \in AHT20_Read_Sensor(aht20) :
       /\ aht20' = r.driver
       /\ env' = IF r.ok THEN "value" ELSE "ERR"
  /\ UNCHANGED bus

OtherStep ==
  /\ \/ Tick \/ WdtFires \/ FireChange
     \/ HeardOther \/ (\E b \in BOOLEAN : HeardBuzzer(b)) \/ HeardShutdown \/ HeardCrcTest
     \/ CrcRound \/ Unbind \/ HandleTickFailSafe \/ Stop
  /\ UNCHANGED sensorVars

BusChange ==
  /\ bus' \in Bus \ {bus}
  /\ UNCHANGED <<vars, aht20, env>>

-----------------------------------------------------------------------------
BenchNext == BenchBoot \/ ReportTick \/ OtherStep \/ BusChange

BenchSpec == BenchInit /\ [][BenchNext]_benchVars

BenchFairSpec == BenchSpec /\ Fairness

-----------------------------------------------------------------------------
SensorType ==
  /\ aht20 \in Driver
  /\ bus \in Bus /\ env \in {"none", "value", "ERR"}

Handled == mode = "run" /\ mode' = "run" /\ due /\ ~ due'

(***************************************************************************)
(* Whatever failed before, at whatever stage, the first tick handled with  *)
(* a sound wire reads the sensor: it reports a measurement, or an error    *)
(* because the sensor is still busy, and that costs no new set-up.  One    *)
(* without a wire reports an error.  So neither a missing sensor nor a     *)
(* half set-up controller sticks, and nothing half measured is reported.   *)
(***************************************************************************)
SensorTruth == [][Handled =>
  /\ bus = "good" => env' = "value"
  /\ bus = "busy" => env' = "ERR" /\ aht20'.init_ok
  /\ bus = "absent" => env' = "ERR"]_benchVars
=============================================================================
