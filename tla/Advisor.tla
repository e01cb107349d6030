------------------------------- MODULE Advisor -------------------------------
(***************************************************************************)
(* The advice panel: violations collected by MainWindow                    *)
(* (src/ui_main_window.cpp) and asked of DeepSeekWorker                    *)
(* (src/deepseek_worker.cpp).  All of it runs on the event loop of the UI  *)
(* thread: timers and replies are events that the loop handles one at a    *)
(* time, in whatever order they come due.  Time goes in half seconds; a    *)
(* timer that is due is handled before the next.  What is asked and what   *)
(* is answered is left out: an answer always uses the last request's text. *)
(***************************************************************************)
EXTENDS Integers, Sequences

CONSTANTS
  AGGREGATE,   \* m_dsAggregationTimer: 1.5 s after the last violation
  MOCK_DELAY,  \* the simulated answer: 2 s
  TIMEOUT      \* m_timeoutTimer: 10 s

ASSUME AdvisorAssumption ==
  AGGREGATE \in Nat \ {0} /\ MOCK_DELAY \in Nat \ {0} /\ TIMEOUT \in Nat \ {0}

VARIABLES
  useMock,         \* no API key: answers are simulated
  pending,         \* m_pendingViolations is not empty
  aggregation, deadline,   \* the two single-shot timers: time left, or Off
  mocks,           \* the singleShot timers of simulated answers, oldest first
  m_isTimeout,
  m_currentReply,  \* a network request is open
  panel,           \* what dsContent shows
  answers          \* history: answers since the last request, each also pushed to Feishu

advisorVars == <<useMock, pending, aggregation, deadline, mocks, m_isTimeout, m_currentReply,
                 panel, answers>>

Off == -1
Running(timer) == IF timer = Off THEN Off ELSE timer - 1

\* Answers are counted up to two: one too many.
OneMore(n) == IF n < 2 THEN n + 1 ELSE n

AdvisorInit ==
  /\ useMock \in BOOLEAN
  /\ pending = FALSE /\ aggregation = Off /\ deadline = Off /\ mocks = <<>>
  /\ m_isTimeout = FALSE /\ m_currentReply = FALSE
  /\ panel = "none" /\ answers = 0

\* The tail of addLogEntry: every new violation puts the request off again.
Pend ==
  /\ pending' = TRUE /\ aggregation' = AGGREGATE
  /\ UNCHANGED <<useMock, deadline, mocks, m_isTimeout, m_currentReply, panel, answers>>

\* triggerAggregatedDeepSeek and requestAdvice.  The previous request is disconnected and
\* aborted; a simulated answer that is on its way is not.
AggregationTimeout ==
  /\ aggregation = 0 /\ aggregation' = Off
  /\ pending' = FALSE
  /\ m_isTimeout' = FALSE /\ deadline' = TIMEOUT
  /\ panel' = "analysing" /\ answers' = 0
  /\ m_currentReply' = ~ useMock
  /\ \E isNetworkAvailable \in BOOLEAN :
       mocks' = IF useMock /\ isNetworkAvailable THEN Append(mocks, MOCK_DELAY) ELSE mocks
  /\ UNCHANGED useMock

Answer(what) == panel' = what /\ answers' = OneMore(answers)

\* Slip: the simulated answer does not stop the timeout.
MockTimeoutRunning ==
  /\ mocks # <<>> /\ Head(mocks) = 0 /\ mocks' = Tail(mocks)
  /\ ~ m_isTimeout /\ Answer("advice")
  /\ UNCHANGED <<useMock, pending, aggregation, deadline, m_isTimeout, m_currentReply>>

MockTimeout ==
  /\ mocks # <<>> /\ Head(mocks) = 0 /\ mocks' = Tail(mocks)
  /\ IF m_isTimeout
     THEN UNCHANGED <<deadline, panel, answers>>
     ELSE deadline' = Off /\ Answer("advice")
  /\ UNCHANGED <<useMock, pending, aggregation, m_isTimeout, m_currentReply>>

\* onReplyFinished: a text, or an error or an empty answer and then the preset advice.
ReplyFinished ==
  /\ m_currentReply /\ ~ m_isTimeout
  /\ deadline' = Off
  /\ \E what \in {"advice", "fallback"} : Answer(what)
  /\ m_currentReply' = FALSE
  /\ UNCHANGED <<useMock, pending, aggregation, mocks, m_isTimeout>>

\* Slip: the timeout leaves the request open.
RequestTimeoutOpen ==
  /\ deadline = 0 /\ deadline' = Off
  /\ Answer("fallback")
  /\ UNCHANGED <<useMock, pending, aggregation, mocks, m_isTimeout, m_currentReply>>

\* Slip: the timeout only closes the request.
RequestTimeoutSilent ==
  /\ deadline = 0 /\ deadline' = Off
  /\ m_isTimeout' = TRUE /\ m_currentReply' = FALSE
  /\ UNCHANGED <<useMock, pending, aggregation, mocks, panel, answers>>

RequestTimeout ==
  /\ deadline = 0 /\ deadline' = Off
  /\ m_isTimeout' = TRUE /\ m_currentReply' = FALSE
  /\ Answer("fallback")
  /\ UNCHANGED <<useMock, pending, aggregation, mocks>>

Due == aggregation = 0 \/ deadline = 0 \/ (mocks # <<>> /\ Head(mocks) = 0)

AdvisorTick ==
  /\ ~ Due
  /\ aggregation' = Running(aggregation) /\ deadline' = Running(deadline)
  /\ mocks' = [i \in DOMAIN mocks |-> mocks[i] - 1]
  /\ UNCHANGED <<useMock, pending, m_isTimeout, m_currentReply, panel, answers>>

AdvisorTimers == AggregationTimeout \/ MockTimeout \/ RequestTimeout

-----------------------------------------------------------------------------
AdvisorType ==
  /\ useMock \in BOOLEAN /\ pending \in BOOLEAN
  /\ aggregation \in {Off} \union 0..AGGREGATE /\ deadline \in {Off} \union 0..TIMEOUT
  /\ mocks \in Seq(0..MOCK_DELAY)
  /\ m_isTimeout \in BOOLEAN /\ m_currentReply \in BOOLEAN
  /\ panel \in {"none", "analysing", "advice", "fallback"} /\ answers \in 0..2

(***************************************************************************)
(* No request is left without somebody who will answer it, and with an API *)
(* key none is answered (and pushed to the team's chat) twice, however     *)
(* reply, timeout and the next request meet.  A violation waits in the     *)
(* list exactly while its timer runs.                                      *)
(***************************************************************************)
AdvisorInv ==
  /\ AdvisorType
  /\ pending <=> aggregation # Off
  /\ panel = "analysing" <=> deadline # Off
  /\ m_currentReply => ~ useMock /\ panel = "analysing"
  /\ ~ useMock => mocks = <<>> /\ (panel = "analysing" <=> m_currentReply)
  /\ ~ useMock /\ panel = "analysing" => answers = 0
  /\ ~ useMock => answers <= 1
  /\ m_isTimeout => panel = "fallback"

(***************************************************************************)
(* An answer stands until the next request: the preset advice never        *)
(* replaces the model's, nor the other way round.                          *)
(***************************************************************************)
AnswerStands ==
  [][(panel \in {"advice", "fallback"}) => panel' = panel \/ panel' = "analysing"]_advisorVars

(***************************************************************************)
(* The panel does not stay at "analysing": the request is answered, by the *)
(* preset advice if need be, unless new violations come in before.         *)
(***************************************************************************)
AnswerComes == panel = "analysing" ~> (panel # "analysing" \/ pending)
=============================================================================
