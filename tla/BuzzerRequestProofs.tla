------------------------ MODULE BuzzerRequestProofs ------------------------
(***************************************************************************)
(* Proofs about the camera's source and the buzzer request, for every      *)
(* retry time and any number of packets on their way.                      *)
(***************************************************************************)
EXTENDS BuzzerRequest, SequenceTheorems, TLAPS

(* The camera's source ------------------------------------------------------ *)

Agree ==
  /\ cap = "file" => current_source_mode = Video
  /\ cap = "camera" => current_source_mode = Live

\* Between the look at the mode and the clearing of the flag, what was opened agrees unless
\* an order came in late.
SourceInd ==
  /\ CamType
  /\ Reading /\ uiPc = "idle" /\ order # "lost" => Agree
  /\ camPc = "clear" /\ order # "late" => Agree

LEMMA InitSource == CamInit => SourceInd
<1> SUFFICES ASSUME CamInit PROVE SourceInd
  OBVIOUS
<1>1. is_running \in BOOLEAN /\ source_changed \in BOOLEAN /\ plugged \in BOOLEAN
  BY Zenon DEF CamInit
<1>2. cap \in {"none", "camera"}
  BY DEF CamInit
<1>3. QED
  BY <1>1, <1>2, CameraAssumption
  DEF CamInit, SourceInd, CamType, Reading, AtLoop, Agree, Live, Video

LEMMA NextSource == SourceInd /\ [CamNext]_camVars => SourceInd'
<1> SUFFICES ASSUME SourceInd, [CamNext]_camVars PROVE SourceInd'
  OBVIOUS
<1> USE CameraAssumption DEF SourceInd, CamType, Reading, AtLoop, Agree, Live, Video, switchVars
<1>1. CASE Release
  BY <1>1 DEF Release
<1>2. CASE OpenLive
  BY <1>2 DEF OpenLive
<1>3. CASE NotLive
  BY <1>3 DEF NotLive
<1>4. CASE OpenVideo
  BY <1>4 DEF OpenVideo
<1>5. CASE Clear
  BY <1>5 DEF Clear
<1>6. CASE NotOpened
  <2>1. source_changed' \in BOOLEAN
    BY <1>6, Zenon DEF NotOpened, Retry
  <2>2. silent' \in 0..RETRY
    BY <1>6 DEF NotOpened, Retry
  <2>3. source_changed' \/ source_changed' = source_changed
    BY <1>6, Zenon DEF NotOpened, Retry
  <2>4. QED
    BY <1>6, <2>1, <2>2, <2>3 DEF NotOpened
<1>7. CASE VideoEnds
  BY <1>7 DEF VideoEnds
<1>8. CASE EmptyFrame
  <2>1. source_changed' \in BOOLEAN
    BY <1>8, Zenon DEF EmptyFrame, Retry
  <2>2. silent' \in 0..RETRY
    BY <1>8 DEF EmptyFrame, Retry
  <2>3. source_changed' \/ source_changed' = source_changed
    BY <1>8, Zenon DEF EmptyFrame, Retry
  <2>4. QED
    BY <1>8, <2>1, <2>2, <2>3 DEF EmptyFrame
<1>9. CASE Frame
  BY <1>9 DEF Frame
<1>10. CASE LeaveLoop
  BY <1>10 DEF LeaveLoop
<1>11. CASE OnLiveStreamClicked
  BY <1>11 DEF OnLiveStreamClicked, Stored
<1>12. CASE OnImportVideoClicked
  BY <1>12 DEF OnImportVideoClicked, Stored
<1>13. CASE Flag
  BY <1>13 DEF Flag
<1>14. CASE Stop
  BY <1>14 DEF Stop
<1>15. CASE Plug
  <2>1. plugged' \in BOOLEAN
    BY <1>15, Zenon DEF Plug
  <2>2. QED
    BY <1>15, <2>1 DEF Plug
<1>16. CASE FileEnds
  BY <1>16 DEF FileEnds
<1>17. CASE SecondPasses
  BY <1>17 DEF SecondPasses
<1>18. CASE UNCHANGED camVars
  BY <1>18 DEF camVars
<1> HIDE DEF SourceInd
<1>19. QED
  BY <1>1, <1>2, <1>3, <1>4, <1>5, <1>6, <1>7, <1>8, <1>9, <1>10, <1>11, <1>12, <1>13, <1>14,
     <1>15, <1>16, <1>17, <1>18 DEF CamNext, CameraThread

\* What the rest of the system does to the camera is nothing, or to stop it.
LEMMA CameraStep == SourceInd /\ [Next]_vars => [CamNext]_camVars
<1> SUFFICES ASSUME SourceInd, Next PROVE CamNext \/ UNCHANGED camVars
  BY DEF vars
<1>1. CASE CameraFrame
  BY <1>1 DEF CameraFrame, CamNext, CameraThread
<1>2. CASE CameraOther
  BY <1>2 DEF CameraOther, CamNext, CameraThread
<1>3. CASE LoadFails
  <2>1. CASE is_running
    <3>1. UNCHANGED <<switchVars, camPc, cap, silent, uiPc, plugged, order>>
      BY <1>3 DEF LoadFails
    <3>2. is_running' = FALSE
      BY <1>3 DEF LoadFails
    <3>3. Stop
      BY <2>1, <3>1, <3>2, Zenon DEF Stop
    <3>4. QED
      BY <3>3 DEF CamNext
  <2>2. CASE ~ is_running
    <3>1. is_running' = is_running
      BY <1>3, <2>2, Zenon DEF LoadFails, SourceInd, CamType
    <3>2. QED
      BY <1>3, <3>1 DEF LoadFails, camVars
  <2>3. QED
    BY <2>1, <2>2
<1>4. CASE LoadModel
  BY <1>4 DEF LoadModel
<1>5. ASSUME NEW b \in BOOLEAN, Infer(b) PROVE UNCHANGED camVars
  BY <1>5 DEF Infer
<1>6. CASE Disconnect \/ Reconnect \/ SlaveTakes \/ SlaveStops \/ SlaveStarts
  BY <1>6 DEF Disconnect, Reconnect, SlaveTakes, SlaveStops, SlaveStarts
<1>7. QED
  BY <1>1, <1>2, <1>3, <1>4, <1>5, <1>6 DEF Next

LEMMA SourceInvariant == Spec => []SourceInd
<1>1. Init => SourceInd
  BY InitSource DEF Init
<1>2. SourceInd /\ [Next]_vars => SourceInd'
  BY CameraStep, NextSource
<1>3. QED
  BY <1>1, <1>2, PTL DEF Spec

(***************************************************************************)
(* The composed system does with the camera only what CameraSource allows. *)
(***************************************************************************)
THEOREM CameraIsUsedAsSpecified == Spec => CamSpec
<1>1. Init => CamInit
  BY DEF Init
<1>2. QED
  BY <1>1, CameraStep, SourceInvariant, PTL DEF Spec, CamSpec

(***************************************************************************)
(* For every retry time: whenever a frame is about to be read and no order *)
(* of a button is under way or was lost, what is open is what the mode     *)
(* says.                                                                   *)
(***************************************************************************)
THEOREM SourceAgreement == Spec => []SourceAgrees
<1>1. SourceInd => SourceAgrees
  BY DEF SourceInd, SourceAgrees, Agree
<1>2. QED
  BY <1>1, SourceInvariant, PTL

(* The buzzer request -------------------------------------------------------- *)

\* A slave that is down has no channel, and nothing is on its way to it.
RequestInd ==
  /\ InStep
  /\ ~ slaveUp => ~ endpoint /\ wire = <<>>

LEMMA InitRequest == Init => RequestInd
<1> SUFFICES ASSUME Init PROVE RequestInd
  OBVIOUS
<1>1. /\ cap_queue \in BOOLEAN /\ slaveUp \in BOOLEAN /\ endpoint \in BOOLEAN
      /\ is_connected \in BOOLEAN /\ is_buzzer_on \in BOOLEAN /\ restarted \in BOOLEAN
      /\ flag_ai_alarm_req \in BOOLEAN
  BY Zenon DEF Init
<1>2. wire = <<>> /\ model = "loading"
  BY DEF Init
<1>3. is_buzzer_on = FALSE /\ flag_ai_alarm_req = FALSE /\ restarted = FALSE /\ endpoint = slaveUp
  BY DEF Init
<1>4. wire \in Seq(BOOLEAN) /\ Len(wire) <= WIRE
  BY <1>2, WireAssumption
<1>5. ToCome = is_buzzer_on
  BY <1>2, <1>3, Zenon DEF ToCome
<1>6. RequestType
  BY <1>1, <1>2, <1>4, Zenon DEF RequestType
<1>7. QED
  BY <1>2, <1>3, <1>5, <1>6, Zenon DEF RequestInd, InStep

LEMMA LastWritten ==
  ASSUME NEW S, NEW s \in Seq(S), NEW b \in S
  PROVE  /\ Append(s, b) \in Seq(S) /\ Append(s, b) # <<>>
         /\ Len(Append(s, b)) = Len(s) + 1
         /\ Append(s, b)[Len(Append(s, b))] = b
OBVIOUS

LEMMA LastTaken ==
  ASSUME NEW S, NEW s \in Seq(S), s # <<>>
  PROVE  /\ Head(s) \in S /\ Tail(s) \in Seq(S) /\ Len(Tail(s)) = Len(s) - 1
         /\ Tail(s) = <<>> => s[Len(s)] = Head(s)
         /\ Tail(s) # <<>> => Tail(s)[Len(Tail(s))] = s[Len(s)]
<1>1. Len(s) \in Nat \ {0}
  BY EmptySeq
<1>2. /\ Head(s) \in S /\ Tail(s) \in Seq(S) /\ Len(Tail(s)) = Len(s) - 1 /\ Head(s) = s[1]
      /\ \A i \in 1..Len(Tail(s)) : Tail(s)[i] = s[i + 1]
  BY HeadTailProperties
<1>3. Tail(s) = <<>> => s[Len(s)] = Head(s)
  <2>1. Tail(s) = <<>> => Len(Tail(s)) = 0
    BY EmptySeq, Zenon
  <2>2. QED
    BY <1>1, <1>2, <2>1
<1>4. ASSUME Tail(s) # <<>> PROVE Tail(s)[Len(Tail(s))] = s[Len(s)]
  <2>1. Len(Tail(s)) \in Nat \ {0}
    BY <1>2, <1>4, EmptySeq, Zenon
  <2>2. QED
    BY <1>1, <1>2, <2>1
<1>5. QED
  BY <1>2, <1>3, <1>4

LEMMA SendKeeps ==
  ASSUME RequestInd, NEW on \in BOOLEAN, Send(on),
         UNCHANGED <<model, slaveUp, flag_ai_alarm_req>>, cap_queue' \in BOOLEAN
  PROVE  RequestInd'
<1>1. CASE /\ endpoint /\ Len(wire) < WIRE
           /\ wire' = Append(wire, on) /\ is_buzzer_on' = on /\ restarted' = FALSE
           /\ UNCHANGED <<is_connected, endpoint>>
  <2>1. wire \in Seq(BOOLEAN) /\ Len(wire) \in Nat
    BY DEF RequestInd, InStep, RequestType
  <2>2. /\ wire' \in Seq(BOOLEAN) /\ wire' # <<>> /\ Len(wire') <= WIRE
        /\ wire'[Len(wire')] = on
    BY <1>1, <2>1, LastWritten, WireAssumption
  <2>3. ToCome' = is_buzzer_on'
    BY <1>1, <2>2, Zenon DEF ToCome
  <2>4. slaveUp
    BY <1>1, Zenon DEF RequestInd
  <2>5. RequestType'
    BY <1>1, <2>2, Zenon DEF RequestInd, InStep, RequestType
  <2>6. QED
    BY <1>1, <2>3, <2>4, <2>5, Zenon DEF RequestInd, InStep
<1>2. CASE /\ is_connected' = FALSE /\ endpoint' = FALSE
           /\ UNCHANGED <<is_buzzer_on, wire, restarted>>
  <2>1. RequestType'
    BY <1>2, Zenon DEF RequestInd, InStep, RequestType
  <2>2. ToCome' = ToCome
    BY <1>2, Zenon DEF ToCome
  <2>3. QED
    BY <1>2, <2>1, <2>2, Zenon DEF RequestInd, InStep
<1>3. QED
  BY <1>1, <1>2, Zenon DEF Send

LEMMA NextRequest == RequestInd /\ [Next]_vars => RequestInd'
<1> SUFFICES ASSUME RequestInd, [Next]_vars PROVE RequestInd'
  OBVIOUS
<1>1. ASSUME UNCHANGED <<linkVars, model>>, cap_queue' \in BOOLEAN PROVE RequestInd'
  BY <1>1, Zenon DEF linkVars, RequestInd, InStep, RequestType, ToCome
<1>2. cap_queue \in BOOLEAN /\ wire \in Seq(BOOLEAN)
  BY Zenon DEF RequestInd, InStep, RequestType
<1>3. CASE CameraFrame
  BY <1>1, <1>3, Zenon DEF CameraFrame
<1>4. CASE CameraOther
  BY <1>1, <1>2, <1>4, Zenon DEF CameraOther, aiVars
<1>5. CASE LoadModel
  BY <1>2, <1>5, Zenon DEF LoadModel, linkVars, RequestInd, InStep, RequestType, ToCome
<1>6. CASE LoadFails
  BY <1>2, <1>6, Zenon DEF LoadFails, linkVars, RequestInd, InStep, RequestType, ToCome
<1>7. ASSUME NEW b \in BOOLEAN, Infer(b) PROVE RequestInd'
  <2>1. cap_queue' \in BOOLEAN /\ UNCHANGED model
    BY <1>7, Zenon DEF Infer
  <2>2. /\ Send(b) \/ UNCHANGED <<is_connected, is_buzzer_on, endpoint, wire, restarted>>
        /\ UNCHANGED <<slaveUp, flag_ai_alarm_req>>
    BY <1>7, Zenon DEF Infer, SetBuzzer
  <2>3. CASE Send(b)
    BY <2>1, <2>2, <2>3, SendKeeps, Zenon
  <2>4. CASE UNCHANGED <<is_connected, is_buzzer_on, endpoint, wire, restarted>>
    BY <1>1, <2>1, <2>2, <2>4, Zenon DEF linkVars
  <2>5. QED
    BY <2>2, <2>3, <2>4
<1>8. CASE Disconnect
  BY <1>8, Zenon DEF Disconnect, aiVars, RequestInd, InStep, RequestType, ToCome
<1>9. CASE Reconnect
  BY <1>9, Zenon DEF Reconnect, aiVars, RequestInd, InStep, RequestType, ToCome
<1>10. CASE SlaveTakes
  <2>1. /\ Head(wire) \in BOOLEAN /\ Tail(wire) \in Seq(BOOLEAN) /\ Len(Tail(wire)) = Len(wire) - 1
        /\ Tail(wire) = <<>> => wire[Len(wire)] = Head(wire)
        /\ Tail(wire) # <<>> => Tail(wire)[Len(Tail(wire))] = wire[Len(wire)]
    BY <1>2, <1>10, LastTaken DEF SlaveTakes
  <2>2. Len(wire) \in Nat /\ Len(wire) <= WIRE
    BY <1>2 DEF RequestInd, InStep, RequestType
  <2>3. Len(wire') <= WIRE
    BY <1>10, <2>1, <2>2, WireAssumption DEF SlaveTakes
  <2>4. ToCome' = ToCome
    BY <1>10, <2>1, Zenon DEF SlaveTakes, ToCome
  <2>5. RequestType'
    BY <1>10, <2>1, <2>3, Zenon DEF SlaveTakes, aiVars, RequestInd, InStep, RequestType
  <2>6. QED
    BY <1>10, <2>4, <2>5, Zenon DEF SlaveTakes, RequestInd, InStep
<1>11. CASE SlaveStops
  <2>1. wire' \in Seq(BOOLEAN) /\ Len(wire') <= WIRE
    BY <1>11, WireAssumption DEF SlaveStops
  <2>2. QED
    BY <1>11, <2>1, Zenon DEF SlaveStops, aiVars, RequestInd, InStep, RequestType
<1>12. CASE SlaveStarts
  <2>1. wire' = <<>> /\ flag_ai_alarm_req' = FALSE
    BY <1>12, Zenon DEF SlaveStarts, RequestInd
  <2>2. ToCome' = FALSE
    BY <2>1, Zenon DEF ToCome
  <2>3. RequestType'
    BY <1>12, Zenon DEF SlaveStarts, aiVars, RequestInd, InStep, RequestType
  <2>4. is_buzzer_on' = is_buzzer_on /\ restarted' = is_buzzer_on /\ slaveUp' = TRUE
    BY <1>12, Zenon DEF SlaveStarts
  <2>5. is_buzzer_on \in BOOLEAN
    BY Zenon DEF RequestInd, InStep, RequestType
  <2>6. QED
    BY <2>2, <2>3, <2>4, <2>5, Zenon DEF RequestInd, InStep
<1>13. CASE UNCHANGED vars
  BY <1>1, <1>2, <1>13, Zenon DEF vars, aiVars
<1>14. QED
  BY <1>3, <1>4, <1>5, <1>6, <1>7, <1>8, <1>9, <1>10, <1>11, <1>12, <1>13 DEF Next

(***************************************************************************)
(* For any number of packets on their way: after the slave has taken them  *)
(* its request is what set_buzzer remembers, unless the slave restarted    *)
(* under a request and nothing was sent since.                             *)
(***************************************************************************)
THEOREM RequestsStayInStep == Spec => []InStep
<1>1. RequestInd => InStep
  BY DEF RequestInd
<1>2. QED
  BY <1>1, InitRequest, NextRequest, PTL DEF Spec

=============================================================================
