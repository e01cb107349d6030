---------------------------- MODULE CameraSource ----------------------------
(***************************************************************************)
(* camera_thread_func (src/camera_node.cpp) and the two buttons that tell  *)
(* it where to take frames from.  The thread and the buttons share         *)
(* current_source_mode and source_changed without a lock, so each access   *)
(* of one that matters to the other is a step.  The camera may be pulled   *)
(* out and put back at any time, and a handle opened before then is dead.  *)
(* The video's path is not followed: a file opens or it does not.          *)
(***************************************************************************)
EXTENDS Naturals

CONSTANT RETRY  \* whole seconds without a frame before the camera is opened anew: 3

ASSUME CameraAssumption == RETRY \in Nat \ {0}

Live == 0    \* current_source_mode: the camera
Video == 1   \* current_source_mode: a file

VARIABLES
  is_running,
  current_source_mode,
  source_changed,
  camPc,     \* loop; switch, other: before the two looks at the mode; clear; ended
  cap,       \* what is open: none, camera, file; dead, a camera pulled out since or a
             \* file at its end
  silent,    \* whole seconds since last_frame_time, up to RETRY
  uiPc,      \* idle; told: a button has stored the mode and not yet the flag
  plugged,   \* external: the camera is there
  order      \* history, the last order of a button: seen; given; late, if stored after the
             \* thread looked at the mode; lost, if its flag was then cleared as well

switchVars == <<current_source_mode, source_changed>>
camVars == <<is_running, switchVars, camPc, cap, silent, uiPc, plugged, order>>

CamInit ==
  /\ is_running = TRUE
  /\ current_source_mode = Live /\ source_changed = FALSE
  /\ camPc = "loop"
  /\ plugged \in BOOLEAN /\ cap = IF plugged THEN "camera" ELSE "none"
  /\ silent = 0
  /\ uiPc = "idle" /\ order = "seen"

(* The camera thread: a switch of the source ------------------------------ *)

AtLoop == camPc = "loop" /\ is_running

\* The source is released; 100 ms go by before the mode is looked at.
Release ==
  /\ AtLoop /\ source_changed
  /\ cap' = "none" /\ camPc' = "switch" /\ order' = "seen"
  /\ UNCHANGED <<is_running, switchVars, silent, uiPc, plugged>>

\* The look decides; from here to the clearing of the flag an order goes unseen.
OpenLive ==
  /\ camPc = "switch" /\ current_source_mode = Live
  /\ cap' = IF plugged THEN "camera" ELSE "none"
  /\ camPc' = "clear"
  /\ UNCHANGED <<is_running, switchVars, silent, uiPc, plugged, order>>

NotLive ==
  /\ camPc = "switch" /\ current_source_mode # Live
  /\ camPc' = "other"
  /\ UNCHANGED <<is_running, switchVars, cap, silent, uiPc, plugged, order>>

\* Slip: a file that does not open leaves the mode as it is.
OpenVideoOrStay ==
  /\ camPc = "other" /\ camPc' = "clear"
  /\ cap' \in IF current_source_mode = Video THEN {"none", "file"} ELSE {"none"}
  /\ UNCHANGED <<is_running, switchVars, silent, uiPc, plugged, order>>

\* Slip: the mode is looked at once.
OpenVideoUnchecked ==
  /\ camPc = "other" /\ camPc' = "clear"
  /\ cap' \in {"none", "file"}
  /\ current_source_mode' = IF cap' = "none" THEN Live ELSE current_source_mode
  /\ UNCHANGED <<is_running, source_changed, silent, uiPc, plugged, order>>

\* A file that does not open sends the thread back to the camera.  By the second look a
\* button may have changed the mode again; then nothing is opened.
OpenVideo ==
  /\ camPc = "other" /\ camPc' = "clear"
  /\ cap' \in IF current_source_mode = Video THEN {"none", "file"} ELSE {"none"}
  /\ current_source_mode' =
       IF current_source_mode = Video /\ cap' = "none" THEN Live ELSE current_source_mode
  /\ UNCHANGED <<is_running, source_changed, silent, uiPc, plugged, order>>

Clear ==
  /\ camPc = "clear" /\ camPc' = "loop"
  /\ source_changed' = FALSE
  /\ order' = IF order = "late" /\ uiPc = "idle" THEN "lost" ELSE order
  /\ UNCHANGED <<is_running, current_source_mode, cap, silent, uiPc, plugged>>

(* The camera thread: frames ---------------------------------------------- *)

Reading == AtLoop /\ ~ source_changed

\* Slip: the camera is not tried again.
NeverRetry == UNCHANGED <<source_changed, silent>>

\* RETRY seconds without a frame: the next pass opens the camera anew.
Retry ==
  IF current_source_mode = Live /\ silent >= RETRY
  THEN source_changed' = TRUE /\ silent' = 0
  ELSE UNCHANGED <<source_changed, silent>>

NotOpened ==
  /\ Reading /\ cap = "none"
  /\ Retry
  /\ UNCHANGED <<is_running, current_source_mode, camPc, cap, uiPc, plugged, order>>

\* An empty frame ends what is taken for a file.
VideoEnds ==
  /\ Reading /\ cap \in {"camera", "dead"} /\ current_source_mode = Video
  /\ current_source_mode' = Live /\ source_changed' = TRUE
  /\ UNCHANGED <<is_running, camPc, cap, silent, uiPc, plugged, order>>

EmptyFrame ==
  /\ Reading /\ cap \in {"camera", "dead"} /\ current_source_mode = Live
  /\ Retry
  /\ UNCHANGED <<is_running, current_source_mode, camPc, cap, uiPc, plugged, order>>

\* The frame goes to cap_queue, or nowhere if that is full.
Frame ==
  /\ Reading /\ cap \in {"camera", "file"}
  /\ silent' = 0
  /\ UNCHANGED <<is_running, switchVars, camPc, cap, uiPc, plugged, order>>

LeaveLoop ==
  /\ camPc = "loop" /\ ~ is_running
  /\ camPc' = "ended" /\ cap' = "none"
  /\ UNCHANGED <<is_running, switchVars, silent, uiPc, plugged, order>>

CameraThread ==
  \/ Release \/ OpenLive \/ NotLive \/ OpenVideo \/ Clear
  \/ NotOpened \/ VideoEnds \/ EmptyFrame \/ Frame \/ LeaveLoop

(* The buttons, the camera's plug and time -------------------------------- *)

Stored(mode) ==
  /\ current_source_mode' = mode
  /\ order' = IF camPc = "clear" THEN "late" ELSE "given"
  /\ uiPc' = "told"
  /\ UNCHANGED <<is_running, source_changed, camPc, cap, silent, plugged>>

OnLiveStreamClicked == uiPc = "idle" /\ current_source_mode # Live /\ Stored(Live)

OnImportVideoClicked == uiPc = "idle" /\ Stored(Video)

Flag ==
  /\ uiPc = "told" /\ uiPc' = "idle"
  /\ source_changed' = TRUE
  /\ UNCHANGED <<is_running, current_source_mode, camPc, cap, silent, plugged, order>>

\* The user leaves, or the inference thread found no usable model.
Stop ==
  /\ is_running /\ is_running' = FALSE
  /\ UNCHANGED <<switchVars, camPc, cap, silent, uiPc, plugged, order>>

Plug ==
  /\ plugged' = ~ plugged
  /\ cap' = IF cap = "camera" THEN "dead" ELSE cap
  /\ UNCHANGED <<is_running, switchVars, camPc, silent, uiPc, order>>

FileEnds ==
  /\ cap = "file" /\ cap' = "dead"
  /\ UNCHANGED <<is_running, switchVars, camPc, silent, uiPc, plugged, order>>

SecondPasses ==
  /\ silent < RETRY /\ silent' = silent + 1
  /\ UNCHANGED <<is_running, switchVars, camPc, cap, uiPc, plugged, order>>

-----------------------------------------------------------------------------
CamNext ==
  \/ CameraThread
  \/ OnLiveStreamClicked \/ OnImportVideoClicked \/ Flag \/ Stop
  \/ Plug \/ FileEnds \/ SecondPasses

CamSpec == CamInit /\ [][CamNext]_camVars

\* The thread runs, a handler that has begun ends, time goes on, and a file has an end.
CamFairness ==
  /\ WF_camVars(CameraThread) /\ WF_camVars(FileEnds)
  /\ WF_camVars(Flag) /\ WF_camVars(SecondPasses)

-----------------------------------------------------------------------------
CamType ==
  /\ is_running \in BOOLEAN
  /\ current_source_mode \in {Live, Video} /\ source_changed \in BOOLEAN
  /\ camPc \in {"loop", "switch", "other", "clear", "ended"}
  /\ cap \in {"none", "camera", "dead", "file"}
  /\ silent \in 0..RETRY /\ uiPc \in {"idle", "told"}
  /\ plugged \in BOOLEAN /\ order \in {"seen", "given", "late", "lost"}

(***************************************************************************)
(* What is open is what the mode says, whenever the thread is about to     *)
(* read with no order of a button under way or lost: the thread's own      *)
(* changes of the mode and the buttons' do not cross unnoticed.            *)
(***************************************************************************)
SourceAgrees ==
  /\ CamType
  /\ Reading /\ uiPc = "idle" /\ order # "lost" =>
       /\ cap = "file" => current_source_mode = Video
       /\ cap = "camera" => current_source_mode = Live

\* A click on a file of which the thread has seen the mode and not the flag: it neither
\* opens the file nor tries the camera again, until the next click.
Stranded == current_source_mode = Video /\ cap = "none" /\ order = "lost"

(***************************************************************************)
(* Once the camera is back and the buttons are left alone, the camera is   *)
(* used again and again: a handle that went dead, an opening that failed,  *)
(* a file at its end and one that does not open all lead back to it.  The  *)
(* one way to be stranded, against docs/risk_analysis.md:35, is a click    *)
(* lost while nothing was open.                                            *)
(***************************************************************************)
CameraReturns ==
  <>[](plugged /\ is_running /\ uiPc = "idle") => []<>(cap = "camera" \/ Stranded)

(***************************************************************************)
(* Once an imported file has been told, opened or not, ended or not, the   *)
(* thread comes back to the camera, unless the order was lost: stored      *)
(* after the thread had looked and flagged before it cleared the flag.     *)
(***************************************************************************)
ImportEnds ==
  (current_source_mode = Video /\ is_running /\ order # "lost")
    ~> (current_source_mode = Live \/ order = "lost" \/ uiPc = "told" \/ ~ is_running)
=============================================================================
