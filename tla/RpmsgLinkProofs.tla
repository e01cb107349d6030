-------------------------- MODULE RpmsgLinkProofs --------------------------
(***************************************************************************)
(* Proofs about the shared descriptor for every set of descriptor numbers. *)
(***************************************************************************)
EXTENDS RpmsgLink, TLAPS

LEMMA InitLinkInv == Init => LinkInv
BY FDAssumption DEF Init, LinkInv, MutexInv, StageInv, ReceiverInv, FlagInv, TypeOK, OwnedOnce,
   Kept, OwnKind, At, Place, Sender, NoFd, Nobody, Kind, Locked

LEMMA NextTypeOK == TypeOK /\ [Next]_vars => TypeOK'
<1> SUFFICES ASSUME TypeOK, [Next]_vars PROVE TypeOK'
  OBVIOUS
<1> USE DEF TypeOK, Sender, NoFd, Nobody, Kind, link, flags, rxVars, sendVars
<1>1. CASE SlaveStop
  <2>1. slaveUp' \in BOOLEAN
    BY <1>1, Zenon DEF SlaveStop
  <2>2. QED
    BY <1>1, <2>1 DEF SlaveStop
<1>2. CASE SlaveStart
  BY <1>2 DEF SlaveStart
<1>3. CASE FileOpen
  BY <1>3 DEF FileOpen, Alloc, Free
<1>4. CASE FileClose
  BY <1>4 DEF FileClose, Close
<1>5. CASE InitLock
  BY <1>5 DEF InitLock
<1>6. CASE InitSlaveDown
  BY <1>6 DEF InitSlaveDown, StartThreads
<1>7. CASE InitConnect
  BY <1>7 DEF InitConnect, StartThreads, Alloc, Free
<1>8. CASE InitFail
  BY <1>8 DEF InitFail
<1>9. CASE HbStop \/ CrcGivesUp
  BY <1>9 DEF HbStop, CrcGivesUp
<1>10. ASSUME NEW t \in Sender, Send(t) PROVE TypeOK'
  <2>1. CASE SendLock(t)
    BY <2>1 DEF SendLock, SendAt, SendReturn, Close
  <2>2. CASE SendSkip(t)
    BY <2>2 DEF SendSkip, SendAt, SendReturn, Close
  <2>3. CASE SendCheck(t)
    BY <2>3 DEF SendCheck, SendAt, SendReturn, Close
  <2>4. CASE SendLoad(t)
    BY <2>4 DEF SendLoad, SendAt, SendReturn, Close
  <2>5. CASE SendWrite(t)
    BY <2>5 DEF SendWrite, SendAt, SendReturn, Close
  <2>6. CASE SendFail(t)
    BY <2>6 DEF SendFail, SendAt, SendReturn, Close
  <2>7. CASE SendFlag(t)
    <3>1. is_connected' \in BOOLEAN
      BY <2>7, Zenon DEF SendFlag
    <3>2. QED
      BY <2>7, <3>1 DEF SendFlag, SendAt, SendReturn, Close
  <2>8. CASE SendXchg(t)
    BY <2>8 DEF SendXchg, SendAt, SendReturn, Close
  <2>9. CASE SendClose(t)
    BY <2>9 DEF SendClose, SendAt, SendReturn, Close
  <2>10. QED
    BY <1>10, <2>1, <2>2, <2>3, <2>4, <2>5, <2>6, <2>7, <2>8, <2>9 DEF Send
<1>11. CASE Rx
  <2>1. CASE RxStop
    BY <2>1 DEF RxStop, RxGo, RxFrame, Close, Alloc, Free
  <2>2. CASE RxOpenCtrl
    BY <2>2 DEF RxOpenCtrl, RxGo, RxFrame, Close, Alloc, Free
  <2>3. CASE RxCloseCtrl
    BY <2>3 DEF RxCloseCtrl, RxGo, RxFrame, Close, Alloc, Free
  <2>4. CASE RxOpen
    BY <2>4 DEF RxOpen, RxGo, RxFrame, Close, Alloc, Free
  <2>5. CASE RxOpenFail
    BY <2>5 DEF RxOpenFail, RxGo, RxFrame, Close, Alloc, Free
  <2>6. CASE RxSetFd
    BY <2>6 DEF RxSetFd, RxGo, RxFrame, Close, Alloc, Free
  <2>7. CASE RxSetConnected
    BY <2>7 DEF RxSetConnected, RxGo, RxFrame, Close, Alloc, Free
  <2>8. CASE RxPollGone
    BY <2>8 DEF RxPollGone, RxGo, RxFrame, Close, Alloc, Free
  <2>9. CASE RxPollIn
    BY <2>9 DEF RxPollIn, RxGo, RxFrame, Close, Alloc, Free
  <2>10. CASE RxRead
    BY <2>10 DEF RxRead, RxGo, RxFrame, Close, Alloc, Free
  <2>11. CASE RxReadFail
    BY <2>11 DEF RxReadFail, RxGo, RxFrame, Close, Alloc, Free
  <2>12. CASE RxFlag
    <3>1. is_connected' \in BOOLEAN
      BY <2>12, Zenon DEF RxFlag
    <3>2. QED
      BY <2>12, <3>1 DEF RxFlag, RxGo, RxFrame, Close, Alloc, Free
  <2>13. CASE RxXchg
    BY <2>13 DEF RxXchg, RxGo, RxFrame, Close, Alloc, Free
  <2>14. CASE RxClose
    BY <2>14 DEF RxClose, RxGo, RxFrame, Close, Alloc, Free
  <2>15. QED
    BY <1>11, <2>1, <2>2, <2>3, <2>4, <2>5, <2>6, <2>7, <2>8, <2>9, <2>10, <2>11, <2>12, <2>13,
       <2>14 DEF Rx
<1>12. CASE Clean
  <2>1. CASE CleanStopHb
    <3>1. heartbeat_running' \in BOOLEAN
      BY <2>1, Zenon DEF CleanStopHb
    <3>2. QED
      BY <2>1, <3>1 DEF CleanStopHb, MainGo, MainFrame, Close
  <2>2. CASE CleanJoinHb
    BY <2>2 DEF CleanJoinHb, MainGo, MainFrame, Close
  <2>3. CASE CleanStopRx
    <3>1. rx_running' \in BOOLEAN
      BY <2>3, Zenon DEF CleanStopRx
    <3>2. QED
      BY <2>3, <3>1 DEF CleanStopRx, MainGo, MainFrame, Close
  <2>4. CASE CleanJoinRx
    BY <2>4 DEF CleanJoinRx, MainGo, MainFrame, Close
  <2>5. CASE CleanLock
    BY <2>5 DEF CleanLock, MainGo, MainFrame, Close
  <2>6. CASE CleanSkip
    BY <2>6 DEF CleanSkip, MainGo, MainFrame, Close
  <2>7. CASE CleanSend
    BY <2>7 DEF CleanSend, MainGo, MainFrame, Close
  <2>8. CASE CleanClose
    <3>1. is_connected' \in BOOLEAN
      BY <2>8, Zenon DEF CleanClose
    <3>2. QED
      BY <2>8, <3>1 DEF CleanClose, MainGo, MainFrame, Close
  <2>9. QED
    BY <1>12, <2>1, <2>2, <2>3, <2>4, <2>5, <2>6, <2>7, <2>8 DEF Clean
<1>13. CASE ExitClicked \/ SignalHandler
  <2>1. signalled' \in BOOLEAN
    BY <1>13, Zenon DEF ExitClicked, SignalHandler, MainFrame
  <2>2. QED
    BY <1>13, <2>1 DEF ExitClicked, SignalHandler, MainGo, MainFrame
<1>14. CASE UNCHANGED vars
  BY <1>14 DEF vars
<1>15. QED
  BY <1>1, <1>2, <1>3, <1>4, <1>5, <1>6, <1>7, <1>8, <1>9, <1>10, <1>11, <1>12, <1>13, <1>14 DEF
     Next, Ended

LEMMA NextLinkInv == LinkInv /\ [Next]_vars => LinkInv'
<1> SUFFICES ASSUME LinkInv, [Next]_vars PROVE LinkInv'
  OBVIOUS
<1>0. TypeOK'
  BY NextTypeOK DEF LinkInv
<1> USE FDAssumption DEF LinkInv, MutexInv, StageInv, ReceiverInv, FlagInv, TypeOK, OwnedOnce,
     Kept, OwnKind, At, Place, Sender, NoFd, Nobody, Kind, Locked, link, flags, rxVars, sendVars,
     Close, Alloc, Free, Over
<1>1. CASE SlaveStop
  <2> USE <1>1 DEF SlaveStop
  <2>2. OwnedOnce'
    OBVIOUS
  <2>3. MutexInv'
    OBVIOUS
  <2>4. StageInv'
    OBVIOUS
  <2>5. ReceiverInv'
    OBVIOUS
  <2>6. FlagInv'
    OBVIOUS
  <2>7. QED
    BY <1>0, <2>2, <2>3, <2>4, <2>5, <2>6
<1>2. CASE SlaveStart
  BY <1>2 DEF SlaveStart
<1>3. CASE FileOpen
  <2> USE <1>3 DEF FileOpen
  <2>2. OwnedOnce'
    OBVIOUS
  <2>3. MutexInv'
    OBVIOUS
  <2>4. StageInv'
    OBVIOUS
  <2>5. ReceiverInv'
    OBVIOUS
  <2>6. FlagInv'
    OBVIOUS
  <2>7. QED
    BY <1>0, <2>2, <2>3, <2>4, <2>5, <2>6
<1>4. CASE FileClose
  BY <1>4 DEF FileClose
<1>5. CASE InitLock
  BY <1>5 DEF InitLock
<1>6. CASE InitSlaveDown
  BY <1>6 DEF InitSlaveDown, StartThreads
<1>7. CASE InitConnect
  BY <1>7 DEF InitConnect, StartThreads
<1>8. CASE InitFail
  BY <1>8 DEF InitFail
<1>9. CASE HbStop \/ CrcGivesUp
  BY <1>9 DEF HbStop, CrcGivesUp
<1>10. ASSUME NEW t \in Sender, SendLock(t) PROVE LinkInv'
  BY <1>10 DEF SendLock, SendAt, SendReturn
<1>11. ASSUME NEW t \in Sender, SendSkip(t) PROVE LinkInv'
  BY <1>11 DEF SendSkip, SendAt, SendReturn
<1>12. ASSUME NEW t \in Sender, SendCheck(t) PROVE LinkInv'
  BY <1>12 DEF SendCheck, SendAt, SendReturn
<1>13. ASSUME NEW t \in Sender, SendLoad(t) PROVE LinkInv'
  BY <1>13 DEF SendLoad, SendAt, SendReturn
<1>14. ASSUME NEW t \in Sender, SendWrite(t) PROVE LinkInv'
  BY <1>14 DEF SendWrite, SendAt, SendReturn
<1>15. ASSUME NEW t \in Sender, SendFail(t) PROVE LinkInv'
  BY <1>15 DEF SendFail, SendAt, SendReturn
<1>16. ASSUME NEW t \in Sender, SendFlag(t) PROVE LinkInv'
  <2> USE <1>16 DEF SendFlag, SendAt, SendReturn
  <2>2. OwnedOnce'
    OBVIOUS
  <2>3. MutexInv'
    OBVIOUS
  <2>4. StageInv'
    OBVIOUS
  <2>5. ReceiverInv'
    OBVIOUS
  <2>6. FlagInv'
    OBVIOUS
  <2>7. QED
    BY <1>0, <2>2, <2>3, <2>4, <2>5, <2>6
<1>17. ASSUME NEW t \in Sender, SendXchg(t) PROVE LinkInv'
  <2> USE <1>17 DEF SendXchg, SendAt, SendReturn
  <2>2. OwnedOnce'
    OBVIOUS
  <2>3. MutexInv'
    OBVIOUS
  <2>4. StageInv'
    OBVIOUS
  <2>5. ReceiverInv'
    OBVIOUS
  <2>6. FlagInv'
    OBVIOUS
  <2>7. QED
    BY <1>0, <2>2, <2>3, <2>4, <2>5, <2>6
<1>18. ASSUME NEW t \in Sender, SendClose(t) PROVE LinkInv'
  BY <1>18 DEF SendClose, SendAt, SendReturn
<1>19. CASE RxStop
  BY <1>19 DEF RxStop, RxGo, RxFrame
<1>20. CASE RxOpenCtrl
  <2> USE <1>20 DEF RxOpenCtrl, RxGo, RxFrame
  <2>2. OwnedOnce'
    OBVIOUS
  <2>3. MutexInv'
    OBVIOUS
  <2>4. StageInv'
    OBVIOUS
  <2>5. ReceiverInv'
    OBVIOUS
  <2>6. FlagInv'
    OBVIOUS
  <2>7. QED
    BY <1>0, <2>2, <2>3, <2>4, <2>5, <2>6
<1>21. CASE RxCloseCtrl
  BY <1>21 DEF RxCloseCtrl, RxGo, RxFrame
<1>22. CASE RxOpen
  <2> USE <1>22 DEF RxOpen, RxGo, RxFrame
  <2>2. OwnedOnce'
    OBVIOUS
  <2>3. MutexInv'
    OBVIOUS
  <2>4. StageInv'
    OBVIOUS
  <2>5. ReceiverInv'
    OBVIOUS
  <2>6. FlagInv'
    OBVIOUS
  <2>7. QED
    BY <1>0, <2>2, <2>3, <2>4, <2>5, <2>6
<1>23. CASE RxOpenFail
  BY <1>23 DEF RxOpenFail, RxGo, RxFrame
<1>24. CASE RxSetFd
  BY <1>24 DEF RxSetFd, RxGo, RxFrame
<1>25. CASE RxSetConnected
  BY <1>25 DEF RxSetConnected, RxGo, RxFrame
<1>26. CASE RxPollGone
  BY <1>26 DEF RxPollGone, RxGo, RxFrame
<1>27. CASE RxPollIn
  BY <1>27 DEF RxPollIn, RxGo, RxFrame
<1>28. CASE RxRead
  BY <1>28 DEF RxRead, RxGo, RxFrame
<1>29. CASE RxReadFail
  BY <1>29 DEF RxReadFail, RxGo, RxFrame
<1>30. CASE RxFlag
  <2> USE <1>30 DEF RxFlag, RxGo, RxFrame
  <2>2. OwnedOnce'
    OBVIOUS
  <2>3. MutexInv'
    OBVIOUS
  <2>4. StageInv'
    OBVIOUS
  <2>5. ReceiverInv'
    OBVIOUS
  <2>6. FlagInv'
    OBVIOUS
  <2>7. QED
    BY <1>0, <2>2, <2>3, <2>4, <2>5, <2>6
<1>31. CASE RxXchg
  <2> USE <1>31 DEF RxXchg, RxGo, RxFrame
  <2>2. OwnedOnce'
    OBVIOUS
  <2>3. MutexInv'
    OBVIOUS
  <2>4. StageInv'
    OBVIOUS
  <2>5. ReceiverInv'
    OBVIOUS
  <2>6. FlagInv'
    OBVIOUS
  <2>7. QED
    BY <1>0, <2>2, <2>3, <2>4, <2>5, <2>6
<1>32. CASE RxClose
  BY <1>32 DEF RxClose, RxGo, RxFrame
<1>33. CASE ExitClicked
  BY <1>33 DEF ExitClicked, MainGo, MainFrame
<1>34. CASE CleanStopHb
  <2> USE <1>34 DEF CleanStopHb, MainGo, MainFrame
  <2>2. OwnedOnce'
    OBVIOUS
  <2>3. MutexInv'
    OBVIOUS
  <2>4. StageInv'
    OBVIOUS
  <2>5. ReceiverInv'
    OBVIOUS
  <2>6. FlagInv'
    OBVIOUS
  <2>7. QED
    BY <1>0, <2>2, <2>3, <2>4, <2>5, <2>6
<1>35. CASE CleanJoinHb
  BY <1>35 DEF CleanJoinHb, MainGo, MainFrame
<1>36. CASE CleanStopRx
  <2> USE <1>36 DEF CleanStopRx, MainGo, MainFrame
  <2>2. OwnedOnce'
    OBVIOUS
  <2>3. MutexInv'
    OBVIOUS
  <2>4. StageInv'
    OBVIOUS
  <2>5. ReceiverInv'
    OBVIOUS
  <2>6. FlagInv'
    OBVIOUS
  <2>7. QED
    BY <1>0, <2>2, <2>3, <2>4, <2>5, <2>6
<1>37. CASE CleanJoinRx
  BY <1>37 DEF CleanJoinRx, MainGo, MainFrame
<1>38. CASE CleanLock
  BY <1>38 DEF CleanLock, MainGo, MainFrame
<1>39. CASE CleanSkip
  BY <1>39 DEF CleanSkip, MainGo, MainFrame
<1>40. CASE CleanSend
  BY <1>40 DEF CleanSend, MainGo, MainFrame
<1>41. CASE CleanClose
  <2> USE <1>41 DEF CleanClose, MainGo, MainFrame
  <2>2. OwnedOnce'
    OBVIOUS
  <2>3. MutexInv'
    OBVIOUS
  <2>4. StageInv'
    OBVIOUS
  <2>5. ReceiverInv'
    OBVIOUS
  <2>6. FlagInv'
    OBVIOUS
  <2>7. QED
    BY <1>0, <2>2, <2>3, <2>4, <2>5, <2>6
<1>42. CASE SignalHandler
  BY <1>42 DEF SignalHandler, MainGo, MainFrame
<1>43. CASE UNCHANGED vars
  BY <1>43 DEF vars
<1> HIDE DEF LinkInv
<1>44. QED
  BY <1>1, <1>2, <1>3, <1>4, <1>5, <1>6, <1>7, <1>8, <1>9, <1>10, <1>11, <1>12, <1>13, <1>14,
     <1>15, <1>16, <1>17, <1>18, <1>19, <1>20, <1>21, <1>22, <1>23, <1>24, <1>25, <1>26, <1>27,
     <1>28, <1>29, <1>30, <1>31, <1>32, <1>33, <1>34, <1>35, <1>36, <1>37, <1>38, <1>39, <1>40,
     <1>41, <1>42, <1>43 DEF Next, Send, Rx, Clean, Ended

(***************************************************************************)
(* The inductive invariant holds in every state: types, ownership of the   *)
(* descriptors, the holder of the mutex and the stages of cleanup.         *)
(***************************************************************************)
THEOREM LinkInvariant == Spec => []LinkInv
<1>1. Init => LinkInv
  BY InitLinkInv
<1>2. LinkInv /\ [Next]_vars => LinkInv'
  BY NextLinkInv
<1>3. QED
  BY <1>1, <1>2, PTL DEF Spec

(***************************************************************************)
(* For any number of descriptors, each open one has exactly one owner, so  *)
(* rx_task, the senders and cleanup close each link once and no number     *)
(* that belongs to somebody else.                                          *)
(***************************************************************************)
THEOREM DescriptorOwnership == Spec => []OwnedOnce
<1>1. LinkInv => OwnedOnce
  BY DEF LinkInv
<1>2. QED
  BY <1>1, LinkInvariant, PTL

LEMMA ExitedLinkInv == LinkInv => ExitIsClean
<1> SUFFICES ASSUME LinkInv, mainPc = "exited"
             PROVE  /\ rxPc \in {"none", "done"} /\ pc["hb"] \in {"none", "done"}
                    /\ \A f \in FD : kind[f] \in {"free", "file"}
                    /\ rpmsg_fd = NoFd
  BY DEF ExitIsClean
<1>1. rxPc \in {"none", "done"} /\ pc["hb"] \in {"none", "done"} /\ rpmsg_fd = NoFd
  BY DEF LinkInv, StageInv
<1>2. \A t \in Sender : pc[t] # "close"
  BY DEF LinkInv, StageInv, Locked
<1>3. \A p \in Place \ {"file"} : Kept[p] = NoFd
  BY <1>1, <1>2 DEF Kept, Place, Sender
<1>4. ASSUME NEW f \in FD, kind[f] # "free"
      PROVE  kind[f] = "file"
  <2>1. PICK p \in Place : Kept[p] = f
    BY <1>4 DEF LinkInv, OwnedOnce
  <2>2. f # NoFd
    BY FDAssumption DEF NoFd
  <2>3. p = "file"
    BY <1>3, <2>1, <2>2
  <2>4. At(f) \in OwnKind[p]
    BY <2>1, <2>2 DEF LinkInv, OwnedOnce
  <2>5. QED
    BY <2>3, <2>4 DEF At, OwnKind, Place
<1>5. QED
  BY <1>1, <1>4

(***************************************************************************)
(* A cleanup that has run to its end leaves no thread of the link and no   *)
(* descriptor of it behind.                                                *)
(***************************************************************************)
THEOREM CleanExit == Spec => []ExitIsClean
<1>1. QED
  BY ExitedLinkInv, LinkInvariant, PTL

=============================================================================
