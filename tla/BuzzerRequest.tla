--------------------------- MODULE BuzzerRequest ----------------------------
(***************************************************************************)
(* From the camera to the slave's buzzer: the camera thread fills          *)
(* cap_queue, the inference thread empties it and calls set_buzzer with    *)
(* what it saw, set_buzzer (src/rpmsg_node.cpp) sends a packet only on a   *)
(* change, and the slave takes packets one by one.  The slave may be       *)
(* stopped and started, its channel be lost and restored; RpmsgLink opens  *)
(* the link up, ViolationLatch what is a violation.                        *)
(***************************************************************************)
EXTENDS CameraSource, Sequences

CONSTANT WIRE  \* packets on their way at most: a bound of the model

ASSUME WireAssumption == WIRE \in Nat \ {0}

VARIABLES
  cap_queue,     \* a frame waits: one of the two slots stays empty
  model,         \* loading, ready, broken
  is_connected,
  is_buzzer_on,
  endpoint,      \* external: the channel behind the descriptor is alive
  slaveUp,       \* external: the slave core runs
  wire,          \* external: BUZZER packets written and not yet taken
  flag_ai_alarm_req,  \* the slave's; SlaveAlarm and SlaveNode say what it does with it
  restarted      \* history: the slave forgot a request and no packet was written since

aiVars == <<cap_queue, model>>
linkVars == <<is_connected, is_buzzer_on, endpoint, slaveUp, wire, flag_ai_alarm_req, restarted>>
vars == <<camVars, aiVars, linkVars>>

Init ==
  /\ CamInit
  /\ cap_queue = FALSE /\ model = "loading"
  /\ slaveUp \in BOOLEAN /\ endpoint = slaveUp /\ is_connected = slaveUp
  /\ is_buzzer_on = FALSE /\ flag_ai_alarm_req = FALSE
  /\ wire = <<>> /\ restarted = FALSE

(* The two threads -------------------------------------------------------- *)

\* A frame that finds the queue full is dropped.
CameraFrame ==
  /\ Frame /\ cap_queue' = TRUE
  /\ UNCHANGED <<model, linkVars>>

CameraOther ==
  /\ \/ Release \/ OpenLive \/ NotLive \/ OpenVideo \/ Clear
     \/ NotOpened \/ VideoEnds \/ EmptyFrame \/ LeaveLoop
     \/ OnLiveStreamClicked \/ OnImportVideoClicked \/ Flag \/ Stop
     \/ Plug \/ FileEnds \/ SecondPasses
  /\ UNCHANGED <<aiVars, linkVars>>

\* The files are sound, or pull_model.sh mends them.
LoadModel ==
  /\ model = "loading" /\ model' = "ready"
  /\ UNCHANGED <<camVars, cap_queue, linkVars>>

\* They are not and it does not; the camera and evidence threads end too, the window stays.
LoadFails ==
  /\ model = "loading" /\ model' = "broken"
  /\ is_running' = FALSE
  /\ UNCHANGED <<switchVars, camPc, cap, silent, uiPc, plugged, order, cap_queue, linkVars>>

\* Slip: what was asked for is kept, sent or not.
SendOrKeep(on) ==
  /\ is_buzzer_on' = on
  /\ \/ /\ endpoint /\ Len(wire) < WIRE
        /\ wire' = Append(wire, on) /\ restarted' = FALSE
        /\ UNCHANGED <<is_connected, endpoint>>
     \/ /\ is_connected' = FALSE /\ endpoint' = FALSE
        /\ UNCHANGED <<wire, restarted>>

\* A write that fails, on a dead channel or for want of a buffer, closes the descriptor.
Send(on) ==
  \/ /\ endpoint /\ Len(wire) < WIRE
     /\ wire' = Append(wire, on) /\ is_buzzer_on' = on /\ restarted' = FALSE
     /\ UNCHANGED <<is_connected, endpoint>>
  \/ /\ is_connected' = FALSE /\ endpoint' = FALSE
     /\ UNCHANGED <<is_buzzer_on, wire, restarted>>

SetBuzzer(on) ==
  /\ IF is_connected /\ is_buzzer_on # on
     THEN Send(on)
     ELSE UNCHANGED <<is_connected, is_buzzer_on, endpoint, wire, restarted>>
  /\ UNCHANGED <<slaveUp, flag_ai_alarm_req>>

Infer(has_ai_violation) ==
  /\ model = "ready" /\ is_running
  /\ cap_queue /\ cap_queue' = FALSE
  /\ SetBuzzer(has_ai_violation)
  /\ UNCHANGED <<camVars, model>>

(* The link and the slave ------------------------------------------------- *)

\* rx_task finds the channel dead, or a heartbeat's write fails.
Disconnect ==
  /\ is_connected /\ is_connected' = FALSE /\ endpoint' = FALSE
  /\ UNCHANGED <<camVars, aiVars, is_buzzer_on, slaveUp, wire, flag_ai_alarm_req, restarted>>

\* rx_task opens the newest channel; nothing is sent for it.
Reconnect ==
  /\ ~ is_connected /\ slaveUp
  /\ is_connected' = TRUE /\ endpoint' = TRUE
  /\ UNCHANGED <<camVars, aiVars, is_buzzer_on, slaveUp, wire, flag_ai_alarm_req, restarted>>

SlaveTakes ==
  /\ slaveUp /\ wire # <<>>
  /\ flag_ai_alarm_req' = Head(wire) /\ wire' = Tail(wire)
  /\ UNCHANGED <<camVars, aiVars, is_connected, is_buzzer_on, endpoint, slaveUp, restarted>>

\* What was on its way is lost with the channel.
SlaveStops ==
  /\ slaveUp /\ slaveUp' = FALSE
  /\ endpoint' = FALSE /\ wire' = <<>>
  /\ UNCHANGED <<camVars, aiVars, is_connected, is_buzzer_on, flag_ai_alarm_req, restarted>>

SlaveStarts ==
  /\ ~ slaveUp /\ slaveUp' = TRUE
  /\ flag_ai_alarm_req' = FALSE /\ restarted' = is_buzzer_on
  /\ UNCHANGED <<camVars, aiVars, is_connected, is_buzzer_on, endpoint, wire>>

-----------------------------------------------------------------------------
Next ==
  \/ CameraFrame \/ CameraOther
  \/ LoadModel \/ LoadFails
  \/ \E b \in BOOLEAN : Infer(b)
  \/ Disconnect \/ Reconnect \/ SlaveTakes \/ SlaveStops \/ SlaveStarts

Spec == Init /\ [][Next]_vars

\* Nothing is asked of the slave, of the link or of the inference thread.
FairSpec == Spec /\ CamFairness

-----------------------------------------------------------------------------
RequestType ==
  /\ cap_queue \in BOOLEAN /\ model \in {"loading", "ready", "broken"}
  /\ is_connected \in BOOLEAN /\ is_buzzer_on \in BOOLEAN
  /\ endpoint \in BOOLEAN /\ slaveUp \in BOOLEAN
  /\ wire \in Seq(BOOLEAN) /\ Len(wire) <= WIRE
  /\ flag_ai_alarm_req \in BOOLEAN /\ restarted \in BOOLEAN

\* What the slave's request will be when it has taken what is on its way.
ToCome == IF wire = <<>> THEN flag_ai_alarm_req ELSE wire[Len(wire)]

(***************************************************************************)
(* set_buzzer sends changes only, so the master's memory of what it sent   *)
(* has to be what the slave holds or will hold: a failed write, a lost     *)
(* channel or a reconnection in between must not part them.  The one thing *)
(* that does is a restart of the slave under a request, and then only      *)
(* until the next packet.                                                  *)
(***************************************************************************)
InStep ==
  /\ RequestType
  /\ slaveUp /\ ~ restarted => ToCome = is_buzzer_on
  /\ restarted => is_buzzer_on
=============================================================================
