----------------------------- MODULE AlarmProofs -----------------------------
(***************************************************************************)
(* Proofs about the two places where an alarm is decided: the debounce of  *)
(* the master's receive thread, for any set of detectors and any           *)
(* parameters, and the arbitration of the slave between its main loop and  *)
(* the interrupt of the flame detector.                                    *)
(***************************************************************************)
EXTENDS AlarmDebounce, SlaveAlarm, SequenceTheorems, TLAPS

USE DebounceAssumption

\* What AlarmInv says of one detector whose last alarm report is q seconds old.
Good(c, s, q) ==
  /\ s \in Local /\ q \in Age
  /\ s.alarm <=> s.emitted = 1
  /\ s.alarm => s.last = q
  /\ s.count < CONFIRM_COUNT[c]

LEMMA AgeOlder == ASSUME NEW n \in Age PROVE Older(n) \in Age
BY DEF Age, Older, Old

LEMMA GoodFacts ==
  ASSUME NEW c \in Channel, NEW s, NEW q, Good(c, s, q)
  PROVE  s \in Local /\ 0 \in Age
BY DEF Good, Age, Old

LEMMA CountedGood ==
  ASSUME NEW c \in Channel, NEW s, NEW q, Good(c, s, q), ~ s.alarm
  PROVE  Good(c, Counted(c, s), 0)
<1> DEFINE fresh == s.count = 0 \/ s.first > CONFIRM_WINDOW
           n     == IF fresh THEN 1 ELSE s.count + 1
           f     == IF fresh THEN 0 ELSE s.first
<1>1. n \in Nat /\ f \in Age /\ s \in Local /\ 0 \in Age /\ s.emitted # 1
  BY GoodFacts DEF Good, Local
<1>2. Counted(c, s) =
        IF n >= CONFIRM_COUNT[c]
        THEN [s EXCEPT !.first = f, !.last = 0, !.alarm = TRUE, !.count = 0, !.emitted = 1]
        ELSE [s EXCEPT !.first = f, !.last = 0, !.count = n]
  BY Zenon DEF Counted
<1> HIDE DEF n, f
<1>3. CASE n >= CONFIRM_COUNT[c]
  <2> DEFINE r == [s EXCEPT !.first = f, !.last = 0, !.alarm = TRUE, !.count = 0, !.emitted = 1]
  <2>1. r \in Local
    BY <1>1 DEF Local
  <2>2. r.alarm = TRUE /\ r.emitted = 1 /\ r.count = 0 /\ r.last = 0
    BY <1>1 DEF Local
  <2>3. Good(c, r, 0)
    BY <1>1, <2>1, <2>2 DEF Good
  <2>4. QED
    BY <1>2, <1>3, <2>3
<1>4. CASE ~ (n >= CONFIRM_COUNT[c])
  <2> DEFINE r == [s EXCEPT !.first = f, !.last = 0, !.count = n]
  <2>1. r \in Local
    BY <1>1 DEF Local
  <2>2. r.alarm = s.alarm /\ r.emitted = s.emitted /\ r.count = n
    BY <1>1 DEF Local
  <2>3. n < CONFIRM_COUNT[c]
    BY <1>1, <1>4
  <2>4. Good(c, r, 0)
    BY <1>1, <2>1, <2>2, <2>3 DEF Good
  <2>5. QED
    BY <1>2, <1>4, <2>4
<1>5. QED
  BY <1>3, <1>4

LEMMA ReportedGood ==
  ASSUME NEW c \in Channel, NEW s, NEW q, Good(c, s, q), NEW v \in Value
  PROVE  Good(c, Reported(c, s, v), IF v = "1" THEN 0 ELSE q)
<1>1. CASE v = "2"
  <2>1. Reported(c, s, v) = WireCut(s)
    BY <1>1 DEF Reported
  <2>2. WireCut(s) \in Local
    <3>1. [s EXCEPT !.alarm = FALSE, !.emitted = 2] \in Local
      BY DEF Good, Local
    <3>2. QED
      BY <3>1 DEF WireCut
  <2>3. WireCut(s).alarm = FALSE /\ WireCut(s).emitted = 2 /\ WireCut(s).count = s.count
    BY GoodFacts DEF WireCut, Local
  <2>4. Good(c, WireCut(s), q)
    BY <2>2, <2>3 DEF Good
  <2>5. QED
    BY <1>1, <2>1, <2>4
<1>2. CASE v = "0"
  <2>1. Reported(c, s, v) = Quiet(s)
    BY <1>2 DEF Reported
  <2>2. Good(c, Quiet(s), q)
    BY DEF Good, Quiet, Local
  <2>3. QED
    BY <1>2, <2>1, <2>2
<1>3. CASE v = "1" /\ s.alarm
  <2>1. Reported(c, s, v) = Renewed(s)
    BY <1>3 DEF Reported
  <2>2. Good(c, Renewed(s), 0)
    BY <1>3, GoodFacts DEF Good, Renewed, Local
  <2>3. QED
    BY <1>3, <2>1, <2>2
<1>4. CASE v = "1" /\ ~ s.alarm
  <2>1. Reported(c, s, v) = Counted(c, s)
    BY <1>4 DEF Reported
  <2>2. QED
    BY <1>4, <2>1, CountedGood
<1>5. QED
  BY <1>1, <1>2, <1>3, <1>4 DEF Value

LEMMA ReleasedGood ==
  ASSUME NEW c \in Channel, NEW s, NEW q, Good(c, s, q)
  PROVE  Good(c, Released(s), q)
<1>1. CASE s.alarm /\ s.last >= RELEASE_TIMEOUT
  <2>1. Released(s) = [s EXCEPT !.alarm = FALSE, !.emitted = 0]
    BY <1>1 DEF Released
  <2> DEFINE r == [s EXCEPT !.alarm = FALSE, !.emitted = 0]
  <2>2. Good(c, r, q)
    <3>1. r \in Local
      BY DEF Good, Local
    <3>2. r.alarm = FALSE /\ r.emitted = 0 /\ r.count = s.count
      BY DEF Good, Local
    <3>3. QED
      BY <3>1, <3>2 DEF Good
  <2>3. QED
    BY <2>1, <2>2
<1>2. CASE ~ (s.alarm /\ s.last >= RELEASE_TIMEOUT)
  BY <1>2 DEF Released
<1>3. QED
  BY <1>1, <1>2

LEMMA SecondGood ==
  ASSUME NEW c \in Channel, NEW s, NEW q, Good(c, s, q)
  PROVE  Good(c, [s EXCEPT !.first = Older(@), !.last = Older(@)], Older(q))
<1>1. Older(s.first) \in Age /\ Older(s.last) \in Age /\ Older(q) \in Age
  BY AgeOlder DEF Good, Local
<1>2. QED
  BY <1>1 DEF Good, Local

\* AlarmInv, detector by detector.
LEMMA GoodInv ==
  AlarmInv <=> /\ is_connected \in BOOLEAN
               /\ ch \in [Channel -> Local] /\ quiet \in [Channel -> Age]
               /\ \A c \in Channel : Good(c, ch[c], quiet[c])
BY DEF AlarmInv, TypeOK, Good

LEMMA InitAlarmInv == Init => AlarmInv
<1> SUFFICES ASSUME Init PROVE AlarmInv
  OBVIOUS
<1>1. ch \in [Channel -> Local] /\ quiet \in [Channel -> Age]
  <2>1. 0 \in Age /\ Old \in Age
    BY DEF Age, Old
  <2>2. [alarm |-> FALSE, count |-> 0, emitted |-> -1, first |-> 0, last |-> 0] \in Local
    BY <2>1 DEF Local
  <2>3. QED
    BY <2>1, <2>2 DEF Init
<1>2. \A c \in Channel : Good(c, ch[c], quiet[c])
  <2> DEFINE r == [alarm |-> FALSE, count |-> 0, emitted |-> -1, first |-> 0, last |-> 0]
  <2>1. r.alarm = FALSE /\ r.emitted = -1 /\ r.count = 0
    OBVIOUS
  <2>2. ASSUME NEW c \in Channel PROVE r \in Local /\ Old \in Age /\ 0 < CONFIRM_COUNT[c]
    BY <1>1 DEF Init
  <2>3. ASSUME NEW c \in Channel PROVE Good(c, r, Old)
    BY <2>1, <2>2 DEF Good
  <2>4. QED
    BY <2>3 DEF Init
<1>3. is_connected \in BOOLEAN
  BY Zenon DEF Init
<1>4. QED
  BY <1>1, <1>2, <1>3, GoodInv

LEMMA NextAlarmInv == AlarmInv /\ [Next]_vars => AlarmInv'
<1> SUFFICES ASSUME AlarmInv, [Next]_vars PROVE AlarmInv'
  OBVIOUS
<1>0. /\ is_connected \in BOOLEAN
      /\ ch \in [Channel -> Local] /\ quiet \in [Channel -> Age]
      /\ \A c \in Channel : Good(c, ch[c], quiet[c])
  BY GoodInv
<1>1. ASSUME /\ is_connected' \in BOOLEAN
             /\ ch' \in [Channel -> Local] /\ quiet' \in [Channel -> Age]
             /\ \A c \in Channel : Good(c, ch'[c], quiet'[c])
      PROVE  AlarmInv'
  BY <1>1 DEF AlarmInv, TypeOK, Good
<1>2. ASSUME NEW c \in Channel, NEW v \in Value, Packet(c, v) PROVE AlarmInv'
  <2>1. \A d \in Channel : quiet'[d] = IF d = c /\ v = "1" THEN 0 ELSE quiet[d]
    BY <1>0, <1>2 DEF Packet
  <2>2. \A d \in Channel :
          Good(d, IF d = c THEN Reported(d, ch[d], v) ELSE ch[d], quiet'[d])
    BY <1>0, <2>1, ReportedGood
  <2>3. \A d \in Channel : Good(d, ch'[d], quiet'[d])
    BY <1>2, <2>2, ReleasedGood DEF Packet
  <2>4. ch' \in [Channel -> Local]
    <3>1. \A d \in Channel :
            Released(IF d = c THEN Reported(d, ch[d], v) ELSE ch[d]) \in Local
      BY <2>2, ReleasedGood DEF Good
    <3>2. QED
      BY <1>2, <3>1 DEF Packet
  <2>5. quiet' \in [Channel -> Age]
    BY <1>0, <1>2 DEF Packet, Age, Old
  <2>6. QED
    BY <1>0, <1>1, <1>2, <2>3, <2>4, <2>5 DEF Packet
<1>3. CASE OtherPacket
  <2>1. \A d \in Channel : Good(d, Released(ch[d]), quiet[d])
    BY <1>0, ReleasedGood
  <2>2. ch' \in [Channel -> Local]
    BY <1>3, <2>1 DEF OtherPacket, Good
  <2>3. QED
    BY <1>0, <1>1, <1>3, <2>1, <2>2 DEF OtherPacket
<1>4. CASE Link
  <2>1. is_connected' \in BOOLEAN
    BY <1>4, Zenon DEF Link
  <2>2. QED
    BY <1>0, <1>1, <1>4, <2>1 DEF Link
<1>5. CASE Second
  <2>1. \A d \in Channel :
          Good(d, [ch[d] EXCEPT !.first = Older(@), !.last = Older(@)], Older(quiet[d]))
    BY <1>0, SecondGood
  <2>2. ch' \in [Channel -> Local] /\ quiet' \in [Channel -> Age]
    BY <1>5, <2>1 DEF Second, Good
  <2>3. QED
    BY <1>0, <1>1, <1>5, <2>1, <2>2 DEF Second
<1>6. CASE UNCHANGED vars
  BY <1>0, <1>1, <1>6 DEF vars
<1>7. QED
  BY <1>2, <1>3, <1>4, <1>5, <1>6 DEF Next

(***************************************************************************)
(* For any detectors and parameters, what the interface was last told of a *)
(* detector is an alarm exactly while the alarm is on.                     *)
(***************************************************************************)
THEOREM AlarmInvariant == Spec => []AlarmInv
<1>1. QED
  BY InitAlarmInv, NextAlarmInv, PTL DEF Spec

LEMMA FlickerStep ==
  AlarmInv /\ [Next]_vars => \A c \in Channel : ch[c].alarm /\ ~ ch'[c].alarm =>
                               quiet[c] >= RELEASE_TIMEOUT \/ ch'[c].emitted = 2
<1> SUFFICES ASSUME AlarmInv, [Next]_vars, NEW d \in Channel, ch[d].alarm, ~ ch'[d].alarm
             PROVE  quiet[d] >= RELEASE_TIMEOUT \/ ch'[d].emitted = 2
  OBVIOUS
<1>0. ch[d] \in Local /\ ch[d].last = quiet[d] /\ quiet[d] \in Age
  BY DEF AlarmInv, TypeOK
<1>1. ASSUME NEW c \in Channel, NEW v \in Value, Packet(c, v)
      PROVE  quiet[d] >= RELEASE_TIMEOUT \/ ch'[d].emitted = 2
  <2>1. CASE c = d /\ v = "2"
    <3>1. ch'[d] = Released(WireCut(ch[d]))
      BY <1>1, <2>1 DEF Packet, Reported
    <3>2. ~ WireCut(ch[d]).alarm /\ WireCut(ch[d]).emitted = 2
      BY <1>0 DEF WireCut, Local
    <3>3. QED
      BY <3>1, <3>2 DEF Released
  <2>2. CASE c = d /\ v = "1"
    <3>1. ch'[d] = Released(Renewed(ch[d]))
      BY <1>1, <2>2 DEF Packet, Reported
    <3>2. Renewed(ch[d]).alarm /\ Renewed(ch[d]).last = 0
      BY <1>0 DEF Renewed, Local
    <3>3. QED
      BY <3>1, <3>2 DEF Released
  <2>3. CASE c = d /\ v = "0"
    BY <1>0, <1>1, <2>3 DEF Packet, Reported, Quiet, Released, Local
  <2>4. CASE c # d
    BY <1>0, <1>1, <2>4 DEF Packet, Released, Local
  <2>5. QED
    BY <2>1, <2>2, <2>3, <2>4 DEF Value
<1>2. CASE OtherPacket
  BY <1>0, <1>2 DEF OtherPacket, Released, Local
<1>3. CASE Link \/ UNCHANGED vars
  BY <1>3 DEF Link, vars
<1>4. CASE Second
  BY <1>0, <1>4 DEF Second, Local
<1>5. QED
  BY <1>1, <1>2, <1>3, <1>4 DEF Next

(***************************************************************************)
(* For any detectors and parameters, an alarm ends by a cut wire or after  *)
(* RELEASE_TIMEOUT seconds without an alarm report, and not otherwise.     *)
(***************************************************************************)
THEOREM AlarmsDoNotFlicker == Spec => NoFlicker
<1>1. AlarmInv /\ [Next]_vars =>
        [\A c \in Channel : ch[c].alarm /\ ~ ch'[c].alarm =>
           quiet[c] >= RELEASE_TIMEOUT \/ ch'[c].emitted = 2]_vars
  BY FlickerStep
<1>2. QED
  BY <1>1, AlarmInvariant, PTL DEF Spec, NoFlicker

-----------------------------------------------------------------------------
(***************************************************************************)
(* Confirmation.  A count of n was begun by the n-th newest alarm report,  *)
(* whose age is what the code keeps in first; a count is only kept while   *)
(* there is no alarm.                                                      *)
(***************************************************************************)
Tallied(s, o) ==
  /\ o \in Seq(Age)
  /\ s.count <= Len(o)
  /\ s.alarm => s.count = 0
  /\ s.count > 0 => o[s.count] = s.first

\* What an alarm report makes of the ages of the last m.
LEMMA NewestFacts ==
  ASSUME NEW m \in Nat \ {0}, NEW o \in Seq(Age), NEW r, r = Newest(m, << 0 >> \o o)
  PROVE  /\ r \in Seq(Age)
         /\ Len(r) = IF Len(o) + 1 > m THEN m ELSE Len(o) + 1
         /\ \A i \in 1..Len(r) : r[i] = IF i = 1 THEN 0 ELSE o[i - 1]
<1> DEFINE t == << 0 >> \o o
<1>1. t \in Seq(Age) /\ Len(t) = Len(o) + 1 /\ Len(o) \in Nat
      /\ \A i \in 1..Len(t) : t[i] = IF i = 1 THEN 0 ELSE o[i - 1]
  <2>1. << 0 >> \in Seq(Age) /\ Len(<< 0 >>) = 1 /\ << 0 >>[1] = 0
        BY DEF Age, Old
  <2> QED BY <2>1
<1> HIDE DEF t
<1>2. r = Newest(m, t)
      BY DEF t
<1>3. CASE Len(t) > m
  <2>1. r = SubSeq(t, 1, m)
        BY <1>2, <1>3, Zenon DEF Newest
  <2>2. m \in 1..Len(t) /\ 1 \in 1..(Len(t) + 1)
        BY <1>1, <1>3
  <2>3. r \in Seq(Age) /\ Len(r) = m /\ \A i \in 1..m : r[i] = t[i]
        BY <1>1, <2>1, <2>2, SubSeqProperties
  <2> QED BY <1>1, <1>3, <2>2, <2>3
<1>4. CASE ~ (Len(t) > m)
  <2>1. r = t
        BY <1>2, <1>4, Zenon DEF Newest
  <2> QED BY <1>1, <1>4, <2>1
<1> QED BY <1>3, <1>4

\* The step that counts: it keeps the tally, and an alarm takes the whole of it.
LEMMA CountedTallied ==
  ASSUME NEW c \in Channel, NEW s, NEW q, Good(c, s, q), NEW o, Tallied(s, o), ~ s.alarm,
         NEW r, r = Newest(CONFIRM_COUNT[c], << 0 >> \o o)
  PROVE  /\ Tallied(Counted(c, s), r)
         /\ Counted(c, s).alarm => Len(r) = CONFIRM_COUNT[c] /\ r[CONFIRM_COUNT[c]] <= CONFIRM_WINDOW
<1> DEFINE m     == CONFIRM_COUNT[c]
           fresh == s.count = 0 \/ s.first > CONFIRM_WINDOW
           n     == IF fresh THEN 1 ELSE s.count + 1
           f     == IF fresh THEN 0 ELSE s.first
<1>1. /\ s \in Local /\ s.count \in Nat /\ s.count < m /\ s.count <= Len(o) /\ s.first \in Age
      /\ m \in Nat \ {0} /\ o \in Seq(Age) /\ Len(o) \in Nat /\ CONFIRM_WINDOW \in Nat
      /\ s.count > 0 => o[s.count] = s.first
      BY DEF Good, Local, Tallied
<1>2. /\ r \in Seq(Age) /\ Len(r) = IF Len(o) + 1 > m THEN m ELSE Len(o) + 1
      /\ \A i \in 1..Len(r) : r[i] = IF i = 1 THEN 0 ELSE o[i - 1]
  <2> HIDE DEF m
  <2>1. r = Newest(m, << 0 >> \o o)
        BY DEF m
  <2> QED BY <1>1, <2>1, NewestFacts
<1>3. /\ n \in Nat \ {0} /\ n <= m /\ n <= Len(r) /\ f \in Age
      /\ f <= CONFIRM_WINDOW /\ r[n] = f
  <2> HIDE DEF m
  <2>1. CASE fresh
        BY <1>1, <1>2, <2>1 DEF Age, Old
  <2>2. CASE ~ fresh
    <3>1. /\ n = s.count + 1 /\ f = s.first /\ s.count > 0 /\ f <= CONFIRM_WINDOW
          BY <1>1, <2>2 DEF Age
    <3>2. n <= m /\ n <= Len(r) /\ n \in 1..Len(r) /\ n - 1 = s.count /\ n # 1
          BY <1>1, <1>2, <3>1
    <3>3. r[n] = o[s.count]
          BY <1>2, <3>2
    <3> QED BY <1>1, <3>1, <3>2, <3>3
  <2> QED BY <2>1, <2>2
<1>4. Counted(c, s) =
        IF n >= m
        THEN [s EXCEPT !.first = f, !.last = 0, !.alarm = TRUE, !.count = 0, !.emitted = 1]
        ELSE [s EXCEPT !.first = f, !.last = 0, !.count = n]
      BY Zenon DEF Counted
<1> HIDE DEF n, f, m
<1>5. CASE n >= m
  <2>1. Counted(c, s).count = 0
        BY <1>1, <1>4, <1>5 DEF Local
  <2>2. n = m /\ Len(r) = m /\ r[m] = f
        BY <1>1, <1>2, <1>3, <1>5
  <2>3. Tallied(Counted(c, s), r)
        BY <1>2, <2>1 DEF Tallied
  <2> QED BY <1>3, <2>2, <2>3 DEF m
<1>6. CASE ~ (n >= m)
  <2>1. Counted(c, s).count = n /\ Counted(c, s).first = f /\ ~ Counted(c, s).alarm
        BY <1>1, <1>4, <1>6 DEF Local
  <2> QED BY <1>2, <1>3, <2>1 DEF Tallied
<1> QED BY <1>5, <1>6

LEMMA ReportedTallied ==
  ASSUME NEW c \in Channel, NEW s, NEW q, Good(c, s, q), NEW o, Tallied(s, o), NEW v \in Value,
         NEW r, r = IF v = "1" THEN Newest(CONFIRM_COUNT[c], << 0 >> \o o) ELSE o
  PROVE  /\ Tallied(Reported(c, s, v), r)
         /\ ~ s.alarm /\ Reported(c, s, v).alarm
              => Len(r) = CONFIRM_COUNT[c] /\ r[CONFIRM_COUNT[c]] <= CONFIRM_WINDOW
<1>0. s \in Local /\ s.count \in Nat
      BY DEF Good, Local
<1>1. CASE v = "2"
  <2>1. Reported(c, s, v) = WireCut(s)
        BY <1>1 DEF Reported
  <2>2. ~ WireCut(s).alarm /\ WireCut(s).count = s.count /\ WireCut(s).first = s.first
        BY <1>0 DEF WireCut, Local
  <2> QED BY <1>1, <2>1, <2>2 DEF Tallied
<1>2. CASE v = "0"
  <2>1. Reported(c, s, v) = Quiet(s)
        BY <1>2 DEF Reported
  <2>2. Quiet(s).alarm = s.alarm /\ Quiet(s).count = s.count /\ Quiet(s).first = s.first
        BY <1>0 DEF Quiet, Local
  <2> QED BY <1>2, <2>1, <2>2 DEF Tallied
<1>3. CASE v = "1" /\ s.alarm
  <2>1. Reported(c, s, v) = Renewed(s)
        BY <1>3 DEF Reported
  <2>2. Renewed(s).alarm = s.alarm /\ Renewed(s).count = s.count
        BY <1>0 DEF Renewed, Local
  <2>3. r \in Seq(Age) /\ Len(r) \in Nat
        BY <1>3, NewestFacts DEF Tallied
  <2> QED BY <1>0, <1>3, <2>1, <2>2, <2>3 DEF Tallied
<1>4. CASE v = "1" /\ ~ s.alarm
  <2>1. Reported(c, s, v) = Counted(c, s) /\ r = Newest(CONFIRM_COUNT[c], << 0 >> \o o)
        BY <1>4 DEF Reported
  <2> QED BY <1>4, <2>1, CountedTallied
<1> QED BY <1>1, <1>2, <1>3, <1>4 DEF Value

LEMMA ReleasedTallied ==
  ASSUME NEW c \in Channel, NEW s, NEW q, Good(c, s, q), NEW o, Tallied(s, o)
  PROVE  Tallied(Released(s), o) /\ (Released(s).alarm => s.alarm)
<1>1. s \in Local
      BY DEF Good
<1>2. Released(s).count = s.count /\ Released(s).first = s.first
      /\ (Released(s).alarm => s.alarm)
      BY <1>1 DEF Released, Local
<1> QED BY <1>1, <1>2 DEF Tallied, Local

LEMMA SecondTallied ==
  ASSUME NEW c \in Channel, NEW s, NEW q, Good(c, s, q), NEW o, Tallied(s, o)
  PROVE  Tallied([s EXCEPT !.first = Older(@), !.last = Older(@)], [i \in DOMAIN o |-> Older(o[i])])
<1> DEFINE t == [s EXCEPT !.first = Older(@), !.last = Older(@)]
           r == [i \in DOMAIN o |-> Older(o[i])]
<1>1. s \in Local /\ s.count \in Nat /\ o \in Seq(Age) /\ Len(o) \in Nat /\ DOMAIN o = 1..Len(o)
      BY DEF Good, Local, Tallied
<1>2. t.alarm = s.alarm /\ t.count = s.count /\ t.first = Older(s.first)
      BY <1>1 DEF Local
<1>3. \A i \in 1..Len(o) : o[i] \in Age
      BY <1>1
<1>4. \A i \in 1..Len(o) : Older(o[i]) \in Age
      BY <1>3, AgeOlder
<1>5. r \in [1..Len(o) -> Age]
      BY <1>1, <1>4, Zenon
<1>6. r \in Seq(Age) /\ Len(r) = Len(o)
      BY <1>1, <1>5, SeqDef
<1>7. s.count > 0 => r[s.count] = Older(o[s.count])
      BY <1>1 DEF Tallied
<1> HIDE DEF t, r
<1>8. Tallied(t, r)
      BY <1>1, <1>2, <1>6, <1>7 DEF Tallied
<1> QED BY <1>8 DEF t, r

TallyInd ==
  /\ AlarmInv
  /\ ones \in [Channel -> Seq(Age)]
  /\ \A c \in Channel : Tallied(ch[c], ones[c])

LEMMA InitTally == Init => TallyInd
<1> SUFFICES ASSUME Init PROVE TallyInd
    OBVIOUS
<1>1. <<>> \in Seq(Age) /\ Len(<<>>) = 0
      OBVIOUS
<1>2. ASSUME NEW c \in Channel PROVE Tallied(ch[c], ones[c])
  <2>1. ch[c].count = 0 /\ ones[c] = <<>>
        BY DEF Init
  <2> QED BY <1>1, <2>1 DEF Tallied
<1> QED BY <1>1, <1>2, InitAlarmInv DEF Init, TallyInd

\* One step: the tally holds again, and an alarm that begins in it was confirmed.
LEMMA TallyStep ==
  ASSUME TallyInd, [Next]_vars
  PROVE  /\ TallyInd'
         /\ \A d \in Channel : ~ ch[d].alarm /\ ch'[d].alarm =>
              Len(ones'[d]) = CONFIRM_COUNT[d] /\ ones'[d][CONFIRM_COUNT[d]] <= CONFIRM_WINDOW
<1> DEFINE Confirms(d) == ~ ch[d].alarm /\ ch'[d].alarm =>
              Len(ones'[d]) = CONFIRM_COUNT[d] /\ ones'[d][CONFIRM_COUNT[d]] <= CONFIRM_WINDOW
<1>0. /\ AlarmInv /\ AlarmInv' /\ ones \in [Channel -> Seq(Age)]
      /\ ch \in [Channel -> Local] /\ quiet \in [Channel -> Age]
      /\ \A d \in Channel : Good(d, ch[d], quiet[d]) /\ Tallied(ch[d], ones[d])
      BY GoodInv, NextAlarmInv DEF TallyInd
<1>1. SUFFICES /\ ones' \in [Channel -> Seq(Age)]
               /\ \A d \in Channel : Tallied(ch'[d], ones'[d]) /\ Confirms(d)
      BY <1>0 DEF TallyInd
<1>2. ASSUME NEW c \in Channel, NEW v \in Value, Packet(c, v)
      PROVE  /\ ones' \in [Channel -> Seq(Age)]
             /\ \A d \in Channel : Tallied(ch'[d], ones'[d]) /\ Confirms(d)
  <2> DEFINE r == IF v = "1" THEN Newest(CONFIRM_COUNT[c], << 0 >> \o ones[c]) ELSE ones[c]
  <2>1. r \in Seq(Age) /\ ones' = [ones EXCEPT ![c] = r]
    <3>1. ones[c] \in Seq(Age) /\ CONFIRM_COUNT[c] \in Nat \ {0}
          BY <1>0
    <3>2. r \in Seq(Age)
          BY <3>1, NewestFacts
    <3>3. CASE v = "1"
          BY <1>2, <3>2, <3>3, Zenon DEF Packet
    <3>4. CASE v # "1"
      <4>1. ones' = ones /\ r = ones[c]
            BY <1>2, <3>4, Zenon DEF Packet
      <4> HIDE DEF r
      <4> QED BY <1>0, <3>2, <4>1
    <3> QED BY <3>2, <3>3, <3>4
  <2>2. ASSUME NEW d \in Channel, d # c
        PROVE  Tallied(ch'[d], ones'[d]) /\ Confirms(d)
    <3>1. ch'[d] = Released(ch[d]) /\ ones'[d] = ones[d]
          BY <1>0, <1>2, <2>1, <2>2 DEF Packet
    <3> QED BY <1>0, <3>1, ReleasedTallied
  <2>3. Tallied(ch'[c], ones'[c]) /\ Confirms(c)
    <3> DEFINE s == Reported(c, ch[c], v)
    <3>1. ch'[c] = Released(s) /\ ones'[c] = r
          BY <1>0, <1>2, <2>1 DEF Packet
    <3>2. Good(c, s, IF v = "1" THEN 0 ELSE quiet[c])
          BY <1>0, ReportedGood
    <3>3. /\ Tallied(s, r)
          /\ ~ ch[c].alarm /\ s.alarm
              => Len(r) = CONFIRM_COUNT[c] /\ r[CONFIRM_COUNT[c]] <= CONFIRM_WINDOW
          BY <1>0, ReportedTallied
    <3> HIDE DEF s, r
    <3>4. Tallied(Released(s), r) /\ (Released(s).alarm => s.alarm)
          BY <3>2, <3>3, ReleasedTallied
    <3> QED BY <3>1, <3>3, <3>4
  <2> HIDE DEF r
  <2>4. ones' \in [Channel -> Seq(Age)]
        BY <1>0, <2>1
  <2> QED BY <2>2, <2>3, <2>4
<1>3. CASE OtherPacket
  <2>1. ones' = ones /\ \A d \in Channel : ch'[d] = Released(ch[d])
        BY <1>3 DEF OtherPacket
  <2>2. \A d \in Channel : Tallied(Released(ch[d]), ones[d]) /\ (Released(ch[d]).alarm => ch[d].alarm)
        BY <1>0, ReleasedTallied
  <2> QED BY <1>0, <2>1, <2>2
<1>4. CASE Link \/ UNCHANGED vars
      BY <1>0, <1>4 DEF Link, vars
<1>5. CASE Second
  <2>1. \A d \in Channel : /\ ch'[d] = [ch[d] EXCEPT !.first = Older(@), !.last = Older(@)]
                           /\ ones'[d] = [i \in DOMAIN ones[d] |-> Older(ones[d][i])]
        BY <1>5, Zenon DEF Second
  <2>2. ASSUME NEW d \in Channel PROVE Tallied(ch'[d], ones'[d])
    <3>1. Good(d, ch[d], quiet[d]) /\ Tallied(ch[d], ones[d])
          BY <1>0
    <3>2. Tallied([ch[d] EXCEPT !.first = Older(@), !.last = Older(@)],
                  [i \in DOMAIN ones[d] |-> Older(ones[d][i])])
          BY <3>1, SecondTallied
    <3>3. /\ ch'[d] = [ch[d] EXCEPT !.first = Older(@), !.last = Older(@)]
          /\ ones'[d] = [i \in DOMAIN ones[d] |-> Older(ones[d][i])]
          BY <2>1
    <3> QED BY <3>2, <3>3
  <2>3. \A d \in Channel : ch'[d].alarm = ch[d].alarm
        BY <1>0, <1>5 DEF Second, Local
  <2>4. ones' \in [Channel -> Seq(Age)]
    <3>1. \A d \in Channel : [i \in DOMAIN ones[d] |-> Older(ones[d][i])] \in Seq(Age)
          BY <2>1, <2>2 DEF Tallied
    <3> QED BY <1>5, <3>1 DEF Second
  <2> QED BY <2>2, <2>3, <2>4
<1> QED BY <1>2, <1>3, <1>4, <1>5 DEF Next

(***************************************************************************)
(* For any detectors, counts and windows, an alarm begins with the last of *)
(* CONFIRM_COUNT reports in one window: the count, which neither quiet     *)
(* reports nor cuts nor releases reset, is always the age of the report    *)
(* that began it.                                                          *)
(***************************************************************************)
THEOREM AlarmsAreConfirmed == Spec => Confirmed
<1>1. TallyInd /\ [Next]_vars => TallyInd'
      BY TallyStep
<1>2. TallyInd /\ [Next]_vars =>
        [\A c \in Channel : ~ ch[c].alarm /\ ch'[c].alarm =>
           Len(ones'[c]) = CONFIRM_COUNT[c] /\ ones'[c][CONFIRM_COUNT[c]] <= CONFIRM_WINDOW]_vars
      BY TallyStep
<1> QED BY <1>1, <1>2, InitTally, PTL DEF Spec, Confirmed

-----------------------------------------------------------------------------
(***************************************************************************)
(* The arbitration on the slave.                                           *)
(***************************************************************************)

\* What the pin reads when it is pulled down.
Low(l) == IF l = "calm" THEN 1 ELSE 0

\* What a context has found out so far is still so.
Right(c) ==
  /\ step[c] = "down" => pull = "down"
  /\ step[c] = "up" => pull = "up" /\ first[c] = Low(line)
  /\ step[c] = "set" => seen[c] = line
  /\ step[c] = "send" => buzzer = Sounds(line, flag_ai_alarm_req)

\* The loop has done its arbitration, or probes for a report.
Arbitrated ==
  step["loop"] \in {"idle", "send"} \/ (why = "report" /\ step["loop"] \in {"probe", "down", "up"})

(***************************************************************************)
(* BuzzerAgrees speaks of rest only; on the way there, as long as nothing  *)
(* was missed and no interrupt waits, what either context has read so far  *)
(* is right, and the loop is not in the middle of an arbitration when the  *)
(* handler runs.                                                           *)
(***************************************************************************)
Sound ==
  ~ missed /\ ~ pending =>
    /\ Right("irq")
    /\ step["irq"] = "idle" /\ Midway("loop") => Right("loop")
    /\ step["irq"] = "idle" /\ Arbitrated => buzzer = Sounds(line, flag_ai_alarm_req)

Nested ==
  /\ step["loop"] \notin {"look", "trig"} /\ (step["loop"] = "set" => why = "arbitrate")
  /\ step["irq"] # "idle" /\ ~ missed => ~ Midway("loop")

ArbInd == PinInv /\ Nested /\ Sound

\* What the pin reads when it is pulled up, and what two readings tell.
High(l) == IF l = "fire" THEN 0 ELSE 1

LEMMA LevelFacts ==
  ASSUME line \in Line
  PROVE  /\ Level \subseteq {0, 1}
         /\ pull = "down" => Level = {Low(line)}
         /\ pull = "up" => Level = {High(line)}
<1>1. CASE line = "fire"
  <2>1. Level = {0}
    BY <1>1, Zenon DEF Level
  <2> QED BY <1>1, <2>1 DEF Low, High
<1>2. CASE line = "calm"
  <2>1. Level = {1}
    BY <1>2 DEF Level
  <2> QED BY <1>2, <2>1 DEF Low, High
<1>3. CASE line = "cut"
  <2>1. Level = CASE pull = "down" -> {0} [] pull = "up" -> {1} [] OTHER -> {0, 1}
    BY <1>3 DEF Level
  <2>2. CASE pull = "down"
    <3>1. Level = {0}
      BY <2>1, <2>2
    <3> QED BY <1>3, <2>2, <3>1 DEF Low
  <2>3. CASE pull = "up"
    <3>1. Level = {1}
      BY <2>1, <2>3
    <3> QED BY <1>3, <2>3, <3>1 DEF High
  <2>4. CASE pull # "down" /\ pull # "up"
    BY <2>1, <2>4
  <2> QED BY <2>2, <2>3, <2>4
<1> QED BY <1>1, <1>2, <1>3 DEF Line

LEMMA VerdictFacts ==
  ASSUME NEW down \in {0, 1}, NEW up \in {0, 1}
  PROVE  /\ Verdict(down, up) \in Line
         /\ \A l \in Line : down = Low(l) /\ up = High(l) => Verdict(down, up) = l
BY DEF Verdict, Line, Low, High

LEMMA ArbInitInd == ArbInit => ArbInd
BY DEF ArbInit, ArbInd, PinInv, ArbType, Nested, Sound, Context, Line

LEMMA LineChangeInd == ASSUME ArbInd, NEW l \in Line, LineChange(l) PROVE ArbInd'
<1>1. /\ line' = l /\ missed' = (missed \/ ~ pending' \/ Midway("loop"))
      /\ UNCHANGED <<pull, trig, step, why, first, seen, flag_ai_alarm_req, buzzer, told>>
  BY DEF LineChange, contexts, outputs
<1>2. pending' \in BOOLEAN
  BY Zenon DEF LineChange, Latched, ArbInd, PinInv, ArbType
<1>3. missed' \in BOOLEAN /\ (~ missed' => pending' /\ ~ missed)
  BY <1>1, <1>2, Zenon
<1>4. PinInv'
  BY <1>1, <1>2, <1>3 DEF ArbInd, PinInv, ArbType
<1>5. Nested' /\ Sound'
  BY <1>1, <1>2, <1>3 DEF ArbInd, Nested, Sound, Midway
<1> QED BY <1>4, <1>5 DEF ArbInd

LEMMA IrqEnterInd == ArbInd /\ IrqEnter => ArbInd'
BY DEF ArbInd, PinInv, ArbType, Nested, Sound, Right, Low, Arbitrated, Midway, IrqEnter, Go,
       Context, Line, Sounds, outputs

LEMMA IrqLookInd == ArbInd /\ IrqLook => ArbInd'
BY DEF ArbInd, PinInv, ArbType, Nested, Sound, Right, Low, Arbitrated, Midway, IrqLook, Go, Level,
       Context, Line, Sounds, outputs

LEMMA IrqTrigInd == ArbInd /\ IrqTrig => ArbInd'
BY DEF ArbInd, PinInv, ArbType, Nested, Sound, Right, Low, Arbitrated, Midway, IrqTrig, Go,
       Context, Line, Sounds, outputs

LEMMA LoopBuzzerInd == ASSUME ArbInd, NEW b \in BOOLEAN, LoopBuzzer(b) PROVE ArbInd'
BY DEF ArbInd, PinInv, ArbType, Nested, Sound, Right, Low, Arbitrated, Midway, LoopBuzzer, Runs,
       Go, Context, Line, Sounds

LEMMA LoopTickInd == ArbInd /\ LoopTick => ArbInd'
BY DEF ArbInd, PinInv, ArbType, Nested, Sound, Right, Low, Arbitrated, Midway, LoopTick, Runs, Go,
       Context, Line, Sounds, outputs

LEMMA ProbeInd == ASSUME ArbInd, NEW c \in Context, Probe(c) PROVE ArbInd'
BY DEF ArbInd, PinInv, ArbType, Nested, Sound, Right, Low, Arbitrated, Midway, Probe, Pull, Runs,
       Go, Context, Line, Sounds, outputs

LEMMA ReadDownInd == ASSUME ArbInd, NEW c \in Context, ReadDown(c) PROVE ArbInd'
<1>1. PICK v \in Level : first' = [first EXCEPT ![c] = v]
  BY DEF ReadDown
<1>2. v \in {0, 1} /\ (pull = "down" => v = Low(line))
  BY LevelFacts DEF ArbInd, PinInv, ArbType
<1>3. PinInv'
  BY <1>1, <1>2 DEF ArbInd, PinInv, ArbType, ReadDown, Pull, Runs, Go, Context, outputs
<1>4. Nested'
  BY <1>1, <1>2 DEF ArbInd, PinInv, ArbType, Nested, Midway, ReadDown, Runs, Go, Context
<1>5. Sound'
  BY <1>1, <1>2
  DEF ArbInd, PinInv, ArbType, Nested, Sound, Right, Arbitrated, Midway, ReadDown, Pull, Runs, Go,
      Context, outputs
<1> QED BY <1>3, <1>4, <1>5 DEF ArbInd

LEMMA ReadUpInd == ASSUME ArbInd, NEW c \in Context, ReadUp(c) PROVE ArbInd'
<1>1. PICK v \in Level : seen' = [seen EXCEPT ![c] = Verdict(first[c], v)]
  BY DEF ReadUp
<1>2. first[c] \in {0, 1} /\ line \in Line
  BY DEF ArbInd, PinInv, ArbType
<1>3. v \in {0, 1} /\ (pull = "up" => v = High(line))
  BY <1>2, LevelFacts
<1>4. /\ Verdict(first[c], v) \in Line
      /\ pull = "up" /\ first[c] = Low(line) => Verdict(first[c], v) = line
  BY <1>2, <1>3, VerdictFacts
<1>5. PinInv'
  BY <1>1, <1>4 DEF ArbInd, PinInv, ArbType, ReadUp, Pull, Runs, Go, Context, Line, outputs
<1>6. Nested'
  BY <1>1, <1>4 DEF ArbInd, PinInv, ArbType, Nested, Midway, ReadUp, Runs, Go, Context
<1>7. Sound'
  BY <1>1, <1>4
  DEF ArbInd, PinInv, ArbType, Nested, Sound, Right, Arbitrated, Midway, ReadUp, Pull, Runs, Go,
      Context, outputs
<1> QED BY <1>5, <1>6, <1>7 DEF ArbInd

LEMMA SetBuzzerInd == ASSUME ArbInd, NEW c \in Context, SetBuzzer(c) PROVE ArbInd'
BY DEF ArbInd, PinInv, ArbType, Nested, Sound, Right, Low, Arbitrated, Midway, SetBuzzer, Runs, Go,
       Context, Line, Sounds

LEMMA SendReportInd == ASSUME ArbInd, NEW c \in Context, SendReport(c) PROVE ArbInd'
BY DEF ArbInd, PinInv, ArbType, Nested, Sound, Right, Low, Arbitrated, Midway, SendReport, Runs,
       Go, Context, Line, Sounds

LEMMA ArbStepInd == ArbInd /\ [ArbNext]_arbVars => ArbInd'
<1> SUFFICES ASSUME ArbInd, [ArbNext]_arbVars PROVE ArbInd'
  OBVIOUS
<1>1. CASE \E l \in Line : LineChange(l)
  BY <1>1, LineChangeInd
<1>2. CASE IrqEnter
  BY <1>2, IrqEnterInd
<1>3. CASE IrqLook
  BY <1>3, IrqLookInd
<1>4. CASE IrqTrig
  BY <1>4, IrqTrigInd
<1>5. CASE \E b \in BOOLEAN : LoopBuzzer(b)
  BY <1>5, LoopBuzzerInd
<1>6. CASE LoopTick
  BY <1>6, LoopTickInd
<1>7. ASSUME NEW c \in Context, Arbitrate(c) PROVE ArbInd'
  BY <1>7, ProbeInd, ReadDownInd, ReadUpInd, SetBuzzerInd, SendReportInd DEF Arbitrate
<1>8. CASE UNCHANGED arbVars
  BY <1>8
  DEF arbVars, contexts, outputs, ArbInd, PinInv, ArbType, Nested, Sound, Right, Arbitrated, Midway
<1> QED
  BY <1>1, <1>2, <1>3, <1>4, <1>5, <1>6, <1>7, <1>8 DEF ArbNext, Irq, Context

(***************************************************************************)
(* However the detector's interrupt and the main loop interleave: at rest  *)
(* the buzzer is what detector and request call for, unless a change was   *)
(* missed through one of the windows, and the pin is let go.               *)
(***************************************************************************)
THEOREM BuzzerFollows == ArbSpec => []BuzzerAgrees
<1>1. ArbInit => ArbInd
  BY ArbInitInd
<1>2. ArbInd /\ [ArbNext]_arbVars => ArbInd'
  BY ArbStepInd
<1>3. ArbInd => BuzzerAgrees
  BY DEF ArbInd, Sound, Arbitrated, Rest, BuzzerAgrees
<1>4. QED
  BY <1>1, <1>2, <1>3, PTL DEF ArbSpec
===============================================================================
