----------------------------- MODULE RpmsgLink -----------------------------
(***************************************************************************)
(* RPMsgController (src/rpmsg_node.cpp): how the threads of the monitoring *)
(* program share the descriptor of the endpoint device /dev/rpmsgN, through*)
(* reconnection, send failures and shutdown.                               *)
(*   main : init, then the Qt loop, then cleanup; signal handler           *)
(*   rx   : rx_task, the only thread that reopens the link; takes no lock  *)
(*   hb   : heartbeat_task, sends under mtx every 500 ms                   *)
(*   ai   : the inference thread, sends under mtx through set_buzzer when  *)
(*          the wanted state differs from the one it remembers             *)
(*   crc  : the thread of --test-crc, which sends one packet under mtx     *)
(*   io   : the IO thread, here for the files it opens and closes          *)
(* The descriptor table of the process is part of the state, because a     *)
(* closed number is handed out again by the next open: kind[f] says what   *)
(* descriptor f refers to.  "hup" is an endpoint whose slave core is gone. *)
(* A sleep, and a call that ends before changing anything, is not a step.  *)
(***************************************************************************)
EXTENDS Integers, FiniteSets

CONSTANT FD          \* descriptor numbers the process may use

ASSUME FDAssumption == FD \subseteq Nat \ {0}

NoFd == -1
Sender == {"hb", "ai", "crc"}
Kind == {"free", "ept", "hup", "ctrl", "file"}
Nobody == "nobody"

VARIABLES
  kind,               \* descriptor table
  slaveUp,            \* remoteproc0/state is "running"
  rpmsg_fd, is_connected, mtx, rx_running, heartbeat_running,
  rxPc, rxFd, pfd,    \* rx_task: step, new_fd or fd_to_close, polled descriptor
  pc, fd,             \* senders: step, descriptor loaded or to close
  fileFd,             \* the file the IO thread has open
  mainPc,             \* main thread
  signalled           \* SIGINT or SIGTERM has arrived

link == <<rpmsg_fd, is_connected>>
flags == <<rx_running, heartbeat_running>>
rxVars == <<rxPc, rxFd, pfd>>
sendVars == <<pc, fd>>
vars == <<kind, slaveUp, link, mtx, flags, rxVars, sendVars, fileFd, mainPc, signalled>>

Init ==
  /\ kind = [f \in FD |-> "free"]
  /\ slaveUp \in BOOLEAN
  /\ rpmsg_fd = NoFd /\ is_connected = FALSE
  /\ mtx = Nobody
  /\ rx_running = FALSE /\ heartbeat_running = FALSE
  /\ rxPc = "none" /\ rxFd = NoFd /\ pfd = NoFd
  /\ pc = [t \in Sender |-> "none"] /\ fd = [t \in Sender |-> NoFd]
  /\ fileFd = NoFd
  /\ mainPc = "start" /\ signalled = FALSE

\* Over: the process is gone, and its threads with it.
Over == mainPc \in {"exited", "aborted"}

(* The kernel ------------------------------------------------------------ *)

Free == {f \in FD : kind[f] = "free"}

\* open() returns the lowest free number.
Alloc(f) == f \in Free /\ \A g \in Free : f <= g

\* What a descriptor number refers to now; a closed or negative one, to nothing.
At(f) == IF f \in FD THEN kind[f] ELSE "free"

Close(f) == kind' = IF f \in FD THEN [kind EXCEPT ![f] = "free"] ELSE kind

SlaveStop ==
  /\ ~ Over
  /\ slaveUp
  /\ slaveUp' = FALSE
  /\ kind' = [f \in FD |-> IF kind[f] = "ept" THEN "hup" ELSE kind[f]]
  /\ UNCHANGED <<link, mtx, flags, rxVars, sendVars, fileFd, mainPc, signalled>>

SlaveStart ==
  /\ ~ Over
  /\ ~ slaveUp
  /\ slaveUp' = TRUE
  /\ UNCHANGED <<kind, link, mtx, flags, rxVars, sendVars, fileFd, mainPc, signalled>>

\* The IO thread writes its snapshot and log files; it starts after init, as ai does.
FileOpen ==
  /\ ~ Over /\ pc["ai"] # "none"
  /\ fileFd = NoFd
  /\ \E f \in FD : Alloc(f) /\ fileFd' = f /\ kind' = [kind EXCEPT ![f] = "file"]
  /\ UNCHANGED <<slaveUp, link, mtx, flags, rxVars, sendVars, mainPc, signalled>>

FileClose ==
  /\ ~ Over
  /\ fileFd # NoFd
  /\ Close(fileFd)
  /\ fileFd' = NoFd
  /\ UNCHANGED <<slaveUp, link, mtx, flags, rxVars, sendVars, mainPc, signalled>>

(* init ------------------------------------------------------------------ *)

InitLock ==
  /\ mainPc = "start"
  /\ mtx = Nobody
  /\ mtx' = "main"
  /\ mainPc' = "init"
  /\ UNCHANGED <<kind, slaveUp, link, flags, rxVars, sendVars, fileFd, signalled>>

StartThreads ==
  /\ rx_running' = TRUE /\ rxPc' = "loop" /\ pfd' = rpmsg_fd'
  /\ heartbeat_running' = TRUE
  /\ pc' = [t \in Sender |-> "idle"]

\* No other thread exists yet, so the rest of init is one step with four ends: the
\* slave is down and the threads wait for it; the link opens; or the control device
\* or the endpoint cannot be opened, and then no thread is ever started.
InitSlaveDown ==
  /\ mainPc = "init" /\ ~ slaveUp
  /\ UNCHANGED link
  /\ StartThreads
  /\ mtx' = Nobody /\ mainPc' = "ui"
  /\ UNCHANGED <<kind, slaveUp, rxFd, fd, fileFd, signalled>>

InitConnect ==
  /\ mainPc = "init" /\ slaveUp
  /\ \E f \in FD : Alloc(f) /\ rpmsg_fd' = f /\ kind' = [kind EXCEPT ![f] = "ept"]
  /\ is_connected' = TRUE
  /\ StartThreads
  /\ mtx' = Nobody /\ mainPc' = "ui"
  /\ UNCHANGED <<slaveUp, rxFd, fd, fileFd, signalled>>

InitFail ==
  /\ mainPc = "init" /\ slaveUp
  /\ pc' = [pc EXCEPT !["ai"] = "idle", !["crc"] = "idle"]
  /\ mtx' = Nobody /\ mainPc' = "ui"
  /\ UNCHANGED <<kind, slaveUp, link, flags, rxVars, fd, fileFd, signalled>>

(* Sending under mtx: set_buzzer, heartbeat_task and trigger_crc_test ------ *)

\* The heartbeat thread leaves its loop when told to; set_buzzer is called again and again.
HbStop ==
  /\ ~ Over
  /\ pc["hb"] = "idle" /\ ~ heartbeat_running
  /\ pc' = [pc EXCEPT !["hb"] = "done"]
  /\ UNCHANGED <<kind, slaveUp, link, mtx, flags, rxVars, fd, fileFd, mainPc, signalled>>

\* trigger_crc_test was not asked for, or has met no link in ten tries.
CrcGivesUp ==
  /\ ~ Over
  /\ pc["crc"] = "idle"
  /\ pc' = [pc EXCEPT !["crc"] = "done"]
  /\ UNCHANGED <<kind, slaveUp, link, mtx, flags, rxVars, fd, fileFd, mainPc, signalled>>

SendAt(t, step) == ~ Over /\ pc[t] = step

SendLock(t) ==
  /\ SendAt(t, "idle")
  /\ t = "hb" => heartbeat_running
  /\ mtx = Nobody
  /\ mtx' = t
  /\ pc' = [pc EXCEPT ![t] = "check"]
  /\ UNCHANGED <<kind, slaveUp, link, flags, rxVars, fd, fileFd, mainPc, signalled>>

\* Slip: an early return without the unlock that lock_guard gives.
SendReturnLocked(t) ==
  /\ pc' = [pc EXCEPT ![t] = "idle"]
  /\ UNCHANGED mtx

\* trigger_crc_test writes once, and comes back only if there is no link.
SendReturn(t) ==
  /\ pc' = [pc EXCEPT ![t] = IF t = "crc" /\ pc[t] # "check" THEN "done" ELSE "idle"]
  /\ mtx' = Nobody

SendSkip(t) ==
  /\ SendAt(t, "check")
  /\ ~ is_connected \/ rpmsg_fd = NoFd
  /\ SendReturn(t)
  /\ UNCHANGED <<kind, slaveUp, link, flags, rxVars, fd, fileFd, mainPc, signalled>>

SendCheck(t) ==
  /\ SendAt(t, "check")
  /\ is_connected /\ rpmsg_fd # NoFd
  /\ pc' = [pc EXCEPT ![t] = "load"]
  /\ UNCHANGED <<kind, slaveUp, link, mtx, flags, rxVars, fd, fileFd, mainPc, signalled>>

\* write(rpmsg_fd, ...) loads the descriptor again, then enters the kernel with it.
SendLoad(t) ==
  /\ SendAt(t, "load")
  /\ fd' = [fd EXCEPT ![t] = rpmsg_fd]
  /\ pc' = [pc EXCEPT ![t] = "write"]
  /\ UNCHANGED <<kind, slaveUp, link, mtx, flags, rxVars, fileFd, mainPc, signalled>>

\* The packet leaves, whatever the descriptor is by now.
SendWrite(t) ==
  /\ SendAt(t, "write")
  /\ At(fd[t]) \in {"ept", "file"}
  /\ fd' = [fd EXCEPT ![t] = NoFd]
  /\ SendReturn(t)
  /\ UNCHANGED <<kind, slaveUp, link, flags, rxVars, fileFd, mainPc, signalled>>

\* A dead endpoint refuses the packet; so does a live one with no free buffer (O_NONBLOCK).
SendFail(t) ==
  /\ SendAt(t, "write")
  /\ At(fd[t]) # "file"
  /\ fd' = [fd EXCEPT ![t] = NoFd]
  /\ pc' = [pc EXCEPT ![t] = "flag"]
  /\ UNCHANGED <<kind, slaveUp, link, mtx, flags, rxVars, fileFd, mainPc, signalled>>

SendFlag(t) ==
  /\ SendAt(t, "flag")
  /\ is_connected' = FALSE
  /\ pc' = [pc EXCEPT ![t] = "xchg"]
  /\ UNCHANGED <<kind, slaveUp, rpmsg_fd, mtx, flags, rxVars, fd, fileFd, mainPc, signalled>>

\* Slip: the descriptor is read and reset in two accesses that lose the race.
SendXchgKeep(t) ==
  /\ SendAt(t, "xchg")
  /\ fd' = [fd EXCEPT ![t] = rpmsg_fd]
  /\ pc' = [pc EXCEPT ![t] = "close"]
  /\ UNCHANGED <<kind, slaveUp, link, mtx, flags, rxVars, fileFd, mainPc, signalled>>

\* fd_to_close = rpmsg_fd.exchange(-1)
SendXchg(t) ==
  /\ SendAt(t, "xchg")
  /\ fd' = [fd EXCEPT ![t] = rpmsg_fd]
  /\ rpmsg_fd' = NoFd
  /\ pc' = [pc EXCEPT ![t] = "close"]
  /\ UNCHANGED <<kind, slaveUp, is_connected, mtx, flags, rxVars, fileFd, mainPc, signalled>>

SendClose(t) ==
  /\ SendAt(t, "close")
  /\ Close(fd[t])
  /\ fd' = [fd EXCEPT ![t] = NoFd]
  /\ SendReturn(t)
  /\ UNCHANGED <<slaveUp, link, flags, rxVars, fileFd, mainPc, signalled>>

Send(t) == SendLock(t) \/ SendSkip(t) \/ SendCheck(t) \/ SendLoad(t) \/ SendWrite(t) \/ SendFail(t)
           \/ SendFlag(t) \/ SendXchg(t) \/ SendClose(t)

(* rx_task ---------------------------------------------------------------- *)

RxFrame == UNCHANGED <<slaveUp, mtx, flags, sendVars, fileFd, mainPc, signalled>>

RxGo(from, to) == ~ Over /\ rxPc = from /\ rxPc' = to

RxStop ==
  /\ RxGo("loop", "done") /\ ~ rx_running
  /\ UNCHANGED <<kind, link, rxFd, pfd>> /\ RxFrame

\* rpmsg_fd < 0 and the slave core runs: create an endpoint through the control device.
RxOpenCtrl ==
  /\ rx_running /\ rpmsg_fd = NoFd /\ slaveUp
  /\ RxGo("loop", "ctrl")
  /\ \E f \in FD : Alloc(f) /\ rxFd' = f /\ kind' = [kind EXCEPT ![f] = "ctrl"]
  /\ UNCHANGED <<link, pfd>> /\ RxFrame

RxCloseCtrl ==
  /\ RxGo("ctrl", "open")
  /\ Close(rxFd)
  /\ rxFd' = NoFd
  /\ UNCHANGED <<link, pfd>> /\ RxFrame

RxOpen ==
  /\ RxGo("open", "set")
  /\ slaveUp
  /\ \E f \in FD : Alloc(f) /\ rxFd' = f /\ kind' = [kind EXCEPT ![f] = "ept"]
  /\ UNCHANGED <<link, pfd>> /\ RxFrame

\* No device node, or no descriptor left: retry after a second.
RxOpenFail ==
  /\ RxGo("open", "loop")
  /\ ~ slaveUp \/ Free = {}
  /\ UNCHANGED <<kind, link, rxFd, pfd>> /\ RxFrame

RxSetFd ==
  /\ RxGo("set", "conn")
  /\ rpmsg_fd' = rxFd
  /\ UNCHANGED <<kind, is_connected, rxFd, pfd>> /\ RxFrame

RxSetConnected ==
  /\ RxGo("conn", "loop")
  /\ is_connected' = TRUE
  /\ pfd' = rxFd
  /\ rxFd' = NoFd
  /\ UNCHANGED <<kind, rpmsg_fd>> /\ RxFrame

\* poll works on the descriptor of the last reconnection, not on rpmsg_fd.
RxPollGone ==
  /\ rx_running /\ rpmsg_fd # NoFd
  /\ At(pfd) \in {"hup", "free"}
  /\ RxGo("loop", "flag")
  /\ UNCHANGED <<kind, link, rxFd, pfd>> /\ RxFrame

RxPollIn ==
  /\ rx_running /\ rpmsg_fd # NoFd
  /\ At(pfd) \in {"ept", "file", "ctrl"}
  /\ RxGo("loop", "read")
  /\ UNCHANGED <<kind, link, rxFd, pfd>> /\ RxFrame

\* read(rpmsg_fd): a packet, or nothing yet; the packet's effects are in AlarmDebounce.
RxRead ==
  /\ RxGo("read", "loop")
  /\ At(rpmsg_fd) \in {"ept", "file"}
  /\ UNCHANGED <<kind, link, rxFd, pfd>> /\ RxFrame

RxReadFail ==
  /\ RxGo("read", "flag")
  /\ At(rpmsg_fd) \notin {"ept", "file"}
  /\ UNCHANGED <<kind, link, rxFd, pfd>> /\ RxFrame

RxFlag ==
  /\ RxGo("flag", "xchg")
  /\ is_connected' = FALSE
  /\ UNCHANGED <<kind, rpmsg_fd, rxFd, pfd>> /\ RxFrame

RxXchg ==
  /\ RxGo("xchg", "close")
  /\ rxFd' = rpmsg_fd
  /\ rpmsg_fd' = NoFd
  /\ UNCHANGED <<kind, is_connected, pfd>> /\ RxFrame

\* Slip: the descriptor taken over is forgotten.
RxCloseNothing ==
  /\ RxGo("close", "loop")
  /\ rxFd' = NoFd
  /\ UNCHANGED <<kind, link, pfd>> /\ RxFrame

RxClose ==
  /\ RxGo("close", "loop")
  /\ Close(rxFd)
  /\ rxFd' = NoFd
  /\ UNCHANGED <<link, pfd>> /\ RxFrame

Rx == RxStop \/ RxOpenCtrl \/ RxCloseCtrl \/ RxOpen \/ RxOpenFail \/ RxSetFd \/ RxSetConnected
      \/ RxPollGone \/ RxPollIn \/ RxRead \/ RxReadFail \/ RxFlag \/ RxXchg \/ RxClose

(* cleanup and the signal handler ----------------------------------------- *)

MainFrame == UNCHANGED <<slaveUp, rxVars, sendVars, fileFd, signalled>>

MainGo(from, to) == mainPc = from /\ mainPc' = to

ExitClicked ==
  /\ MainGo("ui", "hbstop")
  /\ UNCHANGED <<kind, link, mtx, flags>> /\ MainFrame

CleanStopHb ==
  /\ MainGo("hbstop", "hbjoin")
  /\ heartbeat_running' = FALSE
  /\ UNCHANGED <<kind, link, mtx, rx_running>> /\ MainFrame

CleanJoinHb ==
  /\ MainGo("hbjoin", "rxstop")
  /\ pc["hb"] \in {"none", "done"}
  /\ UNCHANGED <<kind, link, mtx, flags>> /\ MainFrame

CleanStopRx ==
  /\ MainGo("rxstop", "rxjoin")
  /\ rx_running' = FALSE
  /\ UNCHANGED <<kind, link, mtx, heartbeat_running>> /\ MainFrame

\* Slip: the link is closed while the receiver still runs.
CleanJoinRxSkipped ==
  /\ MainGo("rxjoin", "lock")
  /\ UNCHANGED <<kind, link, mtx, flags>> /\ MainFrame

CleanJoinRx ==
  /\ MainGo("rxjoin", "lock")
  /\ rxPc \in {"none", "done"}
  /\ UNCHANGED <<kind, link, mtx, flags>> /\ MainFrame

\* Slip: cleanup does not take the mutex.
CleanLockSkipped ==
  /\ MainGo("lock", "send")
  /\ UNCHANGED <<kind, link, mtx, flags>> /\ MainFrame

CleanLock ==
  /\ MainGo("lock", "send")
  /\ mtx = Nobody
  /\ mtx' = "main"
  /\ UNCHANGED <<kind, link, flags>> /\ MainFrame

CleanSkip ==
  /\ MainGo("send", "exited")
  /\ ~ is_connected \/ rpmsg_fd = NoFd
  /\ mtx' = Nobody
  /\ UNCHANGED <<kind, link, flags>> /\ MainFrame

\* Buzzer off and SHUTDOWN are written here; the results are not looked at.
CleanSend ==
  /\ MainGo("send", "close")
  /\ is_connected /\ rpmsg_fd # NoFd
  /\ UNCHANGED <<kind, link, mtx, flags>> /\ MainFrame

CleanClose ==
  /\ MainGo("close", "exited")
  /\ Close(rpmsg_fd)
  /\ rpmsg_fd' = NoFd /\ is_connected' = FALSE
  /\ mtx' = Nobody
  /\ UNCHANGED flags /\ MainFrame

Clean == CleanStopHb \/ CleanJoinHb \/ CleanStopRx \/ CleanJoinRx \/ CleanLock \/ CleanSkip
         \/ CleanSend \/ CleanClose

\* The handler runs on the main thread, on top of whatever that was doing: it keeps a
\* mutex the thread holds, and finds a thread it is joining still joinable, which ends
\* the process in std::terminate.
SignalHandler ==
  /\ ~ signalled /\ signalled' = TRUE
  /\ mainPc \in {"init", "ui", "hbstop", "hbjoin", "rxstop", "rxjoin", "lock", "send", "close"}
  /\ mainPc' = IF mainPc \in {"hbjoin", "rxjoin"} THEN "aborted" ELSE "hbstop"
  /\ UNCHANGED <<kind, link, mtx, flags>> /\ UNCHANGED <<slaveUp, rxVars, sendVars, fileFd>>

Ended == Over /\ UNCHANGED vars

-----------------------------------------------------------------------------

Next ==
  \/ SlaveStop \/ SlaveStart \/ FileOpen \/ FileClose
  \/ InitLock \/ InitSlaveDown \/ InitConnect \/ InitFail
  \/ HbStop \/ CrcGivesUp \/ \E t \in Sender : Send(t)
  \/ Rx
  \/ ExitClicked \/ Clean \/ SignalHandler
  \/ Ended

Spec == Init /\ [][Next]_vars

\* Every thread keeps running; cleanup gets mtx in the end, since it is held
\* only for a packet's time.  Nothing is assumed of the slave core, the user, or signals.
Fairness ==
  /\ WF_vars(Rx)
  /\ WF_vars(HbStop)
  /\ WF_vars(Clean)
  /\ SF_vars(CleanLock)
  /\ WF_vars(FileClose)
  /\ \A t \in Sender : WF_vars(Send(t))

FairSpec == Spec /\ Fairness

-----------------------------------------------------------------------------
TypeOK ==
  /\ kind \in [FD -> Kind]
  /\ slaveUp \in BOOLEAN
  /\ rpmsg_fd \in FD \cup {NoFd} /\ is_connected \in BOOLEAN
  /\ mtx \in Sender \cup {"main", Nobody}
  /\ rx_running \in BOOLEAN /\ heartbeat_running \in BOOLEAN
  /\ rxPc \in {"none", "loop", "ctrl", "open", "set", "conn", "read", "flag", "xchg", "close",
               "done"}
  /\ rxFd \in FD \cup {NoFd} /\ pfd \in FD \cup {NoFd}
  /\ pc \in [Sender -> {"none", "idle", "check", "load", "write", "flag", "xchg", "close", "done"}]
  /\ fd \in [Sender -> FD \cup {NoFd}]
  /\ fileFd \in FD \cup {NoFd}
  /\ mainPc \in {"start", "init", "ui", "hbstop", "hbjoin", "rxstop", "rxjoin", "lock", "send",
                 "close", "exited", "aborted"}
  /\ signalled \in BOOLEAN

\* Where the process keeps a descriptor it is responsible for.
Place == {"shared", "rx", "file"} \cup Sender

Kept == [p \in Place |->
  CASE p = "shared" -> rpmsg_fd
    [] p = "file"   -> fileFd
    [] p = "rx"     -> IF rxPc \in {"ctrl", "set", "close"} THEN rxFd ELSE NoFd
    [] p \in Sender -> IF pc[p] = "close" THEN fd[p] ELSE NoFd]

OwnKind == [p \in Place |->
  CASE p = "file" -> {"file"}
    [] p = "rx"   -> IF rxPc = "ctrl" THEN {"ctrl"} ELSE {"ept", "hup"}
    [] OTHER      -> {"ept", "hup"}]

(***************************************************************************)
(* Every open descriptor is kept in exactly one place and every place      *)
(* keeps an open descriptor of its own kind.  So two threads that see the  *)
(* link fail at once never close a number twice, never close one that the  *)
(* kernel has given to somebody else, and leak none.                       *)
(***************************************************************************)
OwnedOnce ==
  /\ \A p \in Place : Kept[p] # NoFd => At(Kept[p]) \in OwnKind[p]
  /\ \A p, q \in Place : Kept[p] # NoFd /\ p # q => Kept[p] # Kept[q]
  /\ \A f \in FD : kind[f] # "free" => \E p \in Place : Kept[p] = f

(***************************************************************************)
(* When cleanup has run to its end, both threads have left their loops and *)
(* no endpoint or control descriptor stays open, whatever the link and the *)
(* senders were doing when the exit was requested.                         *)
(***************************************************************************)
ExitIsClean ==
  mainPc = "exited" => /\ rxPc \in {"none", "done"} /\ pc["hb"] \in {"none", "done"}
                       /\ \A f \in FD : kind[f] \in {"free", "file"}
                       /\ rpmsg_fd = NoFd

(***************************************************************************)
(* The inductive invariant behind the two: who holds the mutex, which      *)
(* threads are gone at each step of cleanup, that rx_task reopens only a   *)
(* closed link, and that a descriptor that is shared but not flagged as    *)
(* connected is being set up or taken down by some thread.                 *)
(***************************************************************************)
Locked == {"check", "load", "write", "flag", "xchg", "close"}

MutexInv ==
  /\ \A t \in Sender : pc[t] \in Locked => mtx = t
  /\ mainPc \in {"send", "close"} => mtx = "main"

StageInv ==
  /\ mainPc \in {"start", "init"} => /\ rxPc = "none" /\ rpmsg_fd = NoFd
                                    /\ \A t \in Sender : pc[t] = "none"
  /\ mainPc \in {"rxstop", "rxjoin", "lock", "send", "close", "exited"} =>
       pc["hb"] \in {"none", "done"}
  /\ mainPc \in {"lock", "send", "close", "exited"} => rxPc \in {"none", "done"}
  /\ mainPc = "exited" => rpmsg_fd = NoFd /\ \A t \in Sender : pc[t] \notin Locked

ReceiverInv ==
  /\ rxPc \in {"ctrl", "open", "set"} => rpmsg_fd = NoFd
  /\ rxPc \in {"ctrl", "set"} => rxFd # NoFd
  /\ rxPc = "conn" => rpmsg_fd \in {rxFd, NoFd}

FlagInv ==
  rpmsg_fd # NoFd => \/ is_connected \/ rxPc \in {"conn", "xchg"}
                     \/ \E t \in Sender : pc[t] = "xchg"

LinkInv == TypeOK /\ OwnedOnce /\ MutexInv /\ StageInv /\ ReceiverInv /\ FlagInv

Linked == is_connected /\ At(rpmsg_fd) = "ept"

(***************************************************************************)
(* If the slave core stays up and the program is not told to exit, a link  *)
(* whose threads were started is open again and again: no interleaving of  *)
(* failing senders with the receiver leaves it down for good.              *)
(***************************************************************************)
Reconnects ==
  (<>[](slaveUp /\ mainPc = "ui" /\ rxPc # "none")) => []<>Linked

(***************************************************************************)
(* Cleanup, begun by the exit button or by a signal, leads to the end of   *)
(* the process whatever the link and the senders do, with one exception:   *)
(* a signal that came while the main thread held the mutex waits for it in *)
(* cleanup for ever.                                                       *)
(***************************************************************************)
StuckOnItself == mainPc = "lock" /\ mtx = "main"

ExitTerminates == (mainPc = "hbstop") ~> (Over \/ StuckOnItself)

(***************************************************************************)
(* rpmsg_node.hpp:84 has mtx protect the writes: a packet goes to the      *)
(* endpoint, or nowhere, never to another file of the process.             *)
(***************************************************************************)
WritesReachEndpoint == \A t \in Sender : pc[t] = "write" => At(fd[t]) # "file"
=============================================================================
