----------------------------- MODULE SlaveNode ------------------------------
(***************************************************************************)
(* The slave core as its master sees it (slaver_00_example.c): packets,    *)
(* the heartbeat it counts, the hardware watchdog and the ways to stop.    *)
(* Time goes in ticks of 500 ms.  The main loop handles a tick some time   *)
(* after it has come, several that came meanwhile as one: a send can wait  *)
(* for a buffer.  The arbitration is one step here; SlaveAlarm opens it.   *)
(***************************************************************************)
EXTENDS Naturals

CONSTANTS
  MissLimit,   \* ticks without a packet before fail-safe: 10
  WdtLimit,    \* first timeout of the watchdog: 20 ticks
  SpinLimit,   \* timeout it is given on the way to a cold reset: 2 ticks
  Rounds       \* packets of a CRC test: 5

ASSUME LimitAssumption ==
  /\ MissLimit \in Nat /\ WdtLimit \in Nat /\ SpinLimit \in Nat /\ Rounds \in Nat \ {0}
  /\ 0 < MissLimit /\ MissLimit <= WdtLimit

VARIABLES
  mode,         \* run, crcTest, failsafe or unbound (both spin for ever), off, reset
  ready,        \* g_wdt_ctrl.is_ready
  g_wdt_started, limit, left,   \* watchdog: counting, timeout, ticks left
  g_has_received_first_heartbeat, g_heartbeat_miss_count,
  due,          \* 500 ms have gone since last_tick
  round,        \* packets the CRC test has still to send
  shutdown_req, flag_ai_alarm_req,
  fire, buzzer,
  silent        \* history: ticks since the last valid packet, up to WdtLimit

wdt == <<ready, g_wdt_started, limit, left>>
heart == <<g_has_received_first_heartbeat, g_heartbeat_miss_count, due>>
alarm == <<flag_ai_alarm_req, fire, buzzer>>
vars == <<mode, wdt, heart, round, shutdown_req, alarm, silent>>

Powered == mode \in {"run", "crcTest", "failsafe", "unbound"}

(* slave_init and the start of FRpmsgEchoApp ------------------------------ *)

Init ==
  /\ mode = "run"
  /\ ready \in BOOLEAN /\ g_wdt_started = FALSE /\ limit = WdtLimit /\ left = WdtLimit
  /\ g_has_received_first_heartbeat = FALSE /\ g_heartbeat_miss_count = 0 /\ due = FALSE
  /\ round = 0
  /\ shutdown_req = FALSE /\ flag_ai_alarm_req = FALSE
  /\ fire \in BOOLEAN /\ buzzer = fire
  /\ silent = 0

\* A remoteproc start after a stop, or the board coming up again; both load the image anew.
Boot ==
  /\ mode \in {"off", "reset"} /\ mode' = "run"
  /\ ready' \in BOOLEAN /\ g_wdt_started' = FALSE /\ limit' = WdtLimit /\ left' = WdtLimit
  /\ g_has_received_first_heartbeat' = FALSE /\ g_heartbeat_miss_count' = 0 /\ due' = FALSE
  /\ round' = 0
  /\ shutdown_req' = FALSE /\ flag_ai_alarm_req' = FALSE
  /\ fire' = fire /\ buzzer' = fire
  /\ silent' = 0

(* Time, the detector and the watchdog ------------------------------------ *)

\* The watchdog is hardware: a core that is off or in an endless loop does not stop it.
Tick ==
  /\ mode # "reset"
  /\ g_wdt_started => left > 0
  /\ due' = TRUE
  /\ left' = IF g_wdt_started THEN left - 1 ELSE left
  /\ silent' = IF silent < WdtLimit THEN silent + 1 ELSE silent
  /\ UNCHANGED <<mode, ready, g_wdt_started, limit, g_has_received_first_heartbeat,
                 g_heartbeat_miss_count, round, shutdown_req, alarm>>

WdtFires ==
  /\ mode # "reset"
  /\ g_wdt_started /\ left = 0
  /\ mode' = "reset"
  /\ UNCHANGED <<wdt, heart, round, shutdown_req, alarm, silent>>

\* The handler of the detector works in every mode, the endless loops included.
FireChange ==
  /\ Powered
  /\ fire' = ~ fire
  /\ buzzer' = (fire' \/ flag_ai_alarm_req)
  /\ UNCHANGED <<mode, wdt, heart, round, shutdown_req, flag_ai_alarm_req, silent>>

(* rpmsg_endpoint_cb ------------------------------------------------------ *)

\* What any valid packet does, before its command is looked at.
Heard ==
  /\ mode = "run"
  /\ g_has_received_first_heartbeat' = TRUE
  /\ g_heartbeat_miss_count' = 0
  /\ g_wdt_started' = ready
  /\ left' = IF ready THEN limit ELSE left
  /\ silent' = 0
  /\ UNCHANGED <<ready, limit, due>>

\* LED, START, CHECK and unknown commands; the CHECK case feeds the watchdog once more.
HeardOther ==
  /\ Heard
  /\ UNCHANGED <<mode, round, shutdown_req, alarm>>

\* Slip (BUG of docs/debug-log.md:535): only a heartbeat counts as a sign of life.
HeardBuzzerDeaf(b) ==
  /\ mode = "run" /\ silent' = 0
  /\ flag_ai_alarm_req' = b
  /\ buzzer' = (fire \/ b)
  /\ UNCHANGED <<mode, wdt, heart, round, shutdown_req, fire>>

HeardBuzzer(b) ==
  /\ Heard
  /\ flag_ai_alarm_req' = b
  /\ buzzer' = (fire \/ b)
  /\ UNCHANGED <<mode, round, shutdown_req, fire>>

HeardShutdown ==
  /\ Heard
  /\ shutdown_req' = TRUE
  /\ UNCHANGED <<mode, round, alarm>>

HeardCrcTest ==
  /\ Heard
  /\ mode' = "crcTest" /\ round' = Rounds
  /\ UNCHANGED <<shutdown_req, alarm>>

\* Slip: the test never counts its packets.
CrcRoundForever ==
  /\ mode = "crcTest"
  /\ g_heartbeat_miss_count' = 0
  /\ left' = IF g_wdt_started THEN limit ELSE left
  /\ UNCHANGED <<mode, ready, g_wdt_started, limit, g_has_received_first_heartbeat, due, round,
                 shutdown_req, alarm, silent>>

\* The test sends, feeds and sleeps 200 ms in the callback: the loop stands still.
CrcRound ==
  /\ mode = "crcTest"
  /\ round' = round - 1
  /\ mode' = IF round' = 0 THEN "run" ELSE "crcTest"
  /\ g_heartbeat_miss_count' = 0
  /\ left' = IF g_wdt_started THEN limit ELSE left
  /\ UNCHANGED <<ready, g_wdt_started, limit, g_has_received_first_heartbeat, due,
                 shutdown_req, alarm, silent>>

(* The main loop ---------------------------------------------------------- *)

Spin(m) ==
  /\ mode' = m
  /\ limit' = IF ready THEN SpinLimit ELSE limit
  /\ left' = IF ready THEN SpinLimit ELSE left

\* rpmsg_service_unbind
Unbind ==
  /\ mode = "run"
  /\ Spin("unbound")
  /\ UNCHANGED <<ready, g_wdt_started, heart, round, shutdown_req, alarm, silent>>

Listens == g_wdt_started /\ g_has_received_first_heartbeat

HandleTickIdle ==
  /\ mode = "run" /\ due /\ due' = FALSE
  /\ ~ Listens
  /\ UNCHANGED <<mode, wdt, g_has_received_first_heartbeat, g_heartbeat_miss_count, round,
                 shutdown_req, alarm, silent>>

HandleTickMiss ==
  /\ mode = "run" /\ due /\ due' = FALSE
  /\ Listens /\ g_heartbeat_miss_count + 1 < MissLimit
  /\ g_heartbeat_miss_count' = g_heartbeat_miss_count + 1
  /\ UNCHANGED <<mode, wdt, g_has_received_first_heartbeat, round, shutdown_req, alarm, silent>>

HandleTickFailSafe ==
  /\ mode = "run" /\ due /\ due' = FALSE
  /\ Listens /\ g_heartbeat_miss_count + 1 >= MissLimit
  /\ g_heartbeat_miss_count' = g_heartbeat_miss_count + 1
  /\ Spin("failsafe")
  /\ UNCHANGED <<ready, g_wdt_started, g_has_received_first_heartbeat, round, shutdown_req,
                 alarm, silent>>

\* Slip: the core goes off with its watchdog counting.
StopDogOn ==
  /\ mode = "run" /\ mode' = "off"
  /\ UNCHANGED <<wdt, heart, round, shutdown_req, alarm, silent>>

\* After a SHUTDOWN packet, or the stop flag that remoteproc sets at any time.
Stop ==
  /\ mode = "run" /\ mode' = "off"
  /\ \E rproc_stop_flag \in BOOLEAN : shutdown_req \/ rproc_stop_flag
  /\ g_wdt_started' = FALSE
  /\ UNCHANGED <<ready, limit, left, heart, round, shutdown_req, alarm, silent>>

-----------------------------------------------------------------------------
Next ==
  \/ Boot \/ Tick \/ WdtFires \/ FireChange
  \/ HeardOther \/ (\E b \in BOOLEAN : HeardBuzzer(b)) \/ HeardShutdown \/ HeardCrcTest
  \/ CrcRound
  \/ Unbind \/ HandleTickIdle \/ HandleTickMiss \/ HandleTickFailSafe \/ Stop

Spec == Init /\ [][Next]_vars

\* Time goes on, the watchdog is hardware, and a CRC test runs to its end.
Fairness == WF_vars(Tick) /\ WF_vars(WdtFires) /\ WF_vars(CrcRound)

FairSpec == Spec /\ Fairness

-----------------------------------------------------------------------------
TypeOK ==
  /\ mode \in {"run", "crcTest", "failsafe", "unbound", "off", "reset"}
  /\ ready \in BOOLEAN /\ g_wdt_started \in BOOLEAN
  /\ limit \in {WdtLimit, SpinLimit} /\ left \in Nat
  /\ g_has_received_first_heartbeat \in BOOLEAN /\ g_heartbeat_miss_count \in 0..MissLimit
  /\ due \in BOOLEAN /\ round \in 0..Rounds
  /\ shutdown_req \in BOOLEAN /\ flag_ai_alarm_req \in BOOLEAN
  /\ fire \in BOOLEAN /\ buzzer \in BOOLEAN
  /\ silent \in 0..WdtLimit

(***************************************************************************)
(* The count and the watchdog against the silence they measure.  The count *)
(* may run one ahead: a tick that came before a packet can be handled      *)
(* after it.  A fed watchdog cannot run out before the silence is as long  *)
(* as its timeout.                                                         *)
(***************************************************************************)
CountInv == mode \in {"run", "crcTest"} =>
  g_heartbeat_miss_count + (IF due THEN 1 ELSE 0) <= silent + 1

DogInv ==
  /\ g_wdt_started => ready /\ g_has_received_first_heartbeat
  /\ mode \in {"run", "crcTest"} => limit = WdtLimit
  /\ mode \in {"run", "crcTest"} /\ g_wdt_started => left + silent >= WdtLimit

\* What each mode has come from.
ModeInv ==
  /\ mode = "crcTest" => round > 0
  /\ mode = "failsafe" => silent >= MissLimit - 1 /\ g_wdt_started
  /\ mode = "off" => ~ g_wdt_started
  /\ mode = "run" => g_heartbeat_miss_count < MissLimit

NodeInv == TypeOK /\ CountInv /\ DogInv /\ ModeInv

(***************************************************************************)
(* A cold reset takes the Linux side down too.  It happens only after the  *)
(* master's endpoint was destroyed, or after a silence of MissLimit ticks  *)
(* but one: never while valid packets of any kind keep coming, however     *)
(* late the loop is and whatever CRC tests run, and never after the core   *)
(* was stopped on purpose.                                                 *)
(***************************************************************************)
ResetJustified == [][mode' = "reset" /\ mode # "reset" =>
  mode = "unbound" \/ (mode # "off" /\ silent >= MissLimit - 1)]_vars

(***************************************************************************)
(* Once the watchdog counts, silence ends: the master is heard again, the  *)
(* core was stopped, or the board is reset, even if the loop never handles *)
(* another tick.                                                           *)
(***************************************************************************)
SilenceEnds == g_wdt_started ~> (mode \in {"reset", "off"} \/ (mode # "unbound" /\ silent = 0))
=============================================================================
