--------------------------- MODULE AlarmDebounce ----------------------------
(***************************************************************************)
(* rx_task (src/rpmsg_node.cpp) once a packet has been read: how reports   *)
(* of the fire and the gas detector become the statuses that the user      *)
(* interface is told.  One step is one pass of the receive loop; a pass    *)
(* handles at most one packet and then looks at both detectors for a       *)
(* release.  A pass without a link, and one with a short or damaged        *)
(* packet, ends before that look and changes nothing.  Time goes in        *)
(* seconds.                                                                *)
(***************************************************************************)
EXTENDS Integers, Sequences

CONSTANTS
  Channel,        \* the detectors: fire, gas
  CONFIRM_COUNT,  \* per detector: alarm reports that make an alarm
  CONFIRM_WINDOW, \* seconds in which they must come: 2
  RELEASE_TIMEOUT \* seconds without one that end an alarm: 3

ASSUME DebounceAssumption ==
  /\ CONFIRM_COUNT \in [Channel -> Nat \ {0}]
  /\ CONFIRM_WINDOW \in Nat /\ RELEASE_TIMEOUT \in Nat \ {0}

Value == {"0", "1", "2"}   \* quiet, alarm, wire cut

VARIABLES
  is_connected,
  ch,     \* rx_task's locals per detector: alarm, count, last status emitted, and the
          \* seconds since the first and the last report of the count
  quiet,  \* history: seconds since the last alarm report
  ones    \* history: ages of the last alarm reports, newest first

vars == <<is_connected, ch, quiet, ones>>

\* Ages are told apart up to here.
Old == CONFIRM_WINDOW + RELEASE_TIMEOUT + 1
Older(n) == IF n < Old THEN n + 1 ELSE n

Init ==
  /\ is_connected \in BOOLEAN
  /\ ch = [c \in Channel |-> [alarm |-> FALSE, count |-> 0, emitted |-> -1,
                              first |-> 0, last |-> 0]]
  /\ quiet = [c \in Channel |-> Old]
  /\ ones = [c \in Channel |-> <<>>]

(* One detector ----------------------------------------------------------- *)

WireCut(s) == [s EXCEPT !.alarm = FALSE, !.emitted = 2]

\* Slip: a quiet report ends the alarm at once.
QuietEnds(s) == [s EXCEPT !.alarm = FALSE, !.emitted = 0]

Quiet(s) == [s EXCEPT !.emitted = IF s.alarm THEN 1 ELSE 0]

Renewed(s) == [s EXCEPT !.last = 0, !.emitted = 1]

\* Slip: the window is never looked at.
CountedForever(c, s) ==
  LET n == s.count + 1
  IN IF n >= CONFIRM_COUNT[c]
     THEN [s EXCEPT !.last = 0, !.alarm = TRUE, !.count = 0, !.emitted = 1]
     ELSE [s EXCEPT !.last = 0, !.count = n]

Counted(c, s) ==
  LET fresh == s.count = 0 \/ s.first > CONFIRM_WINDOW
      n == IF fresh THEN 1 ELSE s.count + 1
      f == IF fresh THEN 0 ELSE s.first
  IN IF n >= CONFIRM_COUNT[c]
     THEN [s EXCEPT !.first = f, !.last = 0, !.alarm = TRUE, !.count = 0, !.emitted = 1]
     ELSE [s EXCEPT !.first = f, !.last = 0, !.count = n]

Reported(c, s, v) ==
  CASE v = "2" -> WireCut(s)
    [] v = "0" -> Quiet(s)
    [] v = "1" -> IF s.alarm THEN Renewed(s) ELSE Counted(c, s)

\* Slip: the status keeps the alarm that has ended.
ReleasedSilently(s) ==
  IF s.alarm /\ s.last >= RELEASE_TIMEOUT THEN [s EXCEPT !.alarm = FALSE] ELSE s

Released(s) ==
  IF s.alarm /\ s.last >= RELEASE_TIMEOUT THEN [s EXCEPT !.alarm = FALSE, !.emitted = 0] ELSE s

(* The receive loop ------------------------------------------------------- *)

Newest(n, s) == IF Len(s) > n THEN SubSeq(s, 1, n) ELSE s

Packet(c, v) ==
  /\ is_connected
  /\ ch' = [d \in Channel |-> Released(IF d = c THEN Reported(d, ch[d], v) ELSE ch[d])]
  /\ IF v = "1"
     THEN /\ quiet' = [quiet EXCEPT ![c] = 0]
          /\ ones' = [ones EXCEPT ![c] = Newest(CONFIRM_COUNT[c], <<0>> \o @)]
     ELSE UNCHANGED <<quiet, ones>>
  /\ UNCHANGED is_connected

\* Slip: only a packet of a detector leads to the look at the releases.
OtherPacketNone == is_connected /\ UNCHANGED vars

\* The poll timed out, or the packet is about something else.
OtherPacket ==
  /\ is_connected
  /\ ch' = [d \in Channel |-> Released(ch[d])]
  /\ UNCHANGED <<is_connected, quiet, ones>>

\* Reconnecting keeps every local.
Link ==
  /\ is_connected' = ~ is_connected
  /\ UNCHANGED <<ch, quiet, ones>>

Second ==
  /\ ch' = [c \in Channel |-> [ch[c] EXCEPT !.first = Older(@), !.last = Older(@)]]
  /\ quiet' = [c \in Channel |-> Older(quiet[c])]
  /\ ones' = [c \in Channel |-> [i \in DOMAIN ones[c] |-> Older(ones[c][i])]]
  /\ UNCHANGED is_connected

-----------------------------------------------------------------------------
Next ==
  \/ \E c \in Channel, v \in Value : Packet(c, v)
  \/ OtherPacket \/ Link \/ Second

Spec == Init /\ [][Next]_vars

\* Time goes on; a connected loop passes by, for poll has a timeout and the slave sends
\* its measurements every 500 ms.
Fairness == WF_vars(Second) /\ WF_vars(OtherPacket)

FairSpec == Spec /\ Fairness

-----------------------------------------------------------------------------
Age == 0..Old

Local == [alarm : BOOLEAN, count : Nat, emitted : {-1, 0, 1, 2}, first : Age, last : Age]

TypeOK ==
  /\ is_connected \in BOOLEAN
  /\ ch \in [Channel -> Local]
  /\ quiet \in [Channel -> Age]

(***************************************************************************)
(* The status the interface was last told is the alarm state, detector by  *)
(* detector, after every pass: no alarm is on without having been told, no *)
(* status stays "alarm" after its end, whatever mix of reports, cuts,      *)
(* reconnections and time led here.  The clock of an alarm is the time     *)
(* since its last report.                                                  *)
(***************************************************************************)
AlarmInv ==
  /\ TypeOK
  /\ \A c \in Channel :
       /\ ch[c].alarm <=> ch[c].emitted = 1
       /\ ch[c].alarm => ch[c].last = quiet[c]
       /\ ch[c].count < CONFIRM_COUNT[c]

(***************************************************************************)
(* An alarm ends when its wire is cut or after RELEASE_TIMEOUT seconds     *)
(* without an alarm report, never by quiet reports or the other detector's *)
(* packets in between, nor by a reconnection.                              *)
(***************************************************************************)
NoFlicker == [][\A c \in Channel : ch[c].alarm /\ ~ ch'[c].alarm =>
                  quiet[c] >= RELEASE_TIMEOUT \/ ch'[c].emitted = 2]_vars

(***************************************************************************)
(* An alarm begins with the last of CONFIRM_COUNT reports in one window,   *)
(* though the count is not reset by quiet reports, cuts or releases.       *)
(***************************************************************************)
Confirmed == [][\A c \in Channel : ~ ch[c].alarm /\ ch'[c].alarm =>
                  Len(ones'[c]) = CONFIRM_COUNT[c]
                    /\ ones'[c][CONFIRM_COUNT[c]] <= CONFIRM_WINDOW]_vars

(***************************************************************************)
(* On a link that stays, an alarm that is not renewed comes to its end.    *)
(***************************************************************************)
AlarmEnds == \A c \in Channel :
  ch[c].alarm ~> (~ ch[c].alarm \/ quiet[c] = 0 \/ ~ is_connected)
=============================================================================
