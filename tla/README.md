# A verification development for PPE_System

PPE_System watches a workshop on a Phytium (AArch64) board. One Linux program, the *master*
(`ppe_system/`), takes frames from a camera or a video, finds persons and missing protective
equipment with an NCNN model, follows the persons with ByteTrack, keeps evidence, shows a Qt
interface and asks a language model for advice. A bare-metal program on a second core, the
*slave* (`Baremetal_Slave_Node/`), reads the flame, gas and temperature sensors, drives the
buzzer and holds the hardware watchdog. The two talk over RPMsg packets with a CRC-8.

This directory holds TLA+ modules of the parts of that program in which several actors, time or
failure meet, TLC configurations that check them on small instances, and TLAPS proofs of the
safety results for all values of the constants. Paths below are relative to
`src/Phytium_PPE_System_SourceCode/`; `PROJECT.json` maps each definition to its source lines.

Every module is checked with `tlc -config <cfg> <MC module>` and every `*Proofs` module with
`tlapm <module>`.

## 1. Inventory

### Threads and contexts

| Context | Code | Shares |
|---|---|---|
| main / UI | `main.cpp`, `ui_main_window.cpp`, `deepseek_worker.cpp` | the link (init, cleanup); receives Qt signals |
| camera | `camera_node.cpp` | pushes `cap_queue`; `is_running`, `source_changed`, `video_path` |
| inference | `inference_node.cpp` | pops `cap_queue`, pushes `alarm_queue`; `is_physical_alarm`; `set_buzzer` |
| evidence (IO) | `io_node.cpp` | pops `alarm_queue`; opens and closes files |
| receive | `RPMsgController::rx_task` | the link, without a lock; signals fire, gas, environment |
| heartbeat | `RPMsgController::heartbeat_task` | the link, under `mtx` |
| CRC test (only with `--test-crc`) | `RPMsgController::trigger_crc_test` | the link, under `mtx` |
| signal handler | `main.cpp:22-28` | interrupts the main thread and calls `cleanup` |
| slave main loop | `slaver_00_example.c` | packets, heartbeat count, watchdog, arbitration |
| slave interrupt | `fire_sensor.c` | arbitration, the pin, the endpoint |

### Components

| Component | State | Operations | What makes it correct |
|---|---|---|---|
| Lock-free queues (`lockfree_queue.hpp`) | slots, `head`, `tail` | `push`, `pop` | a FIFO; no access to one slot from both sides; accepted items come out |
| RPMsg link controller (`rpmsg_node.cpp`) | `rpmsg_fd`, `is_connected`, `mtx`, thread flags, the descriptor table | `init`, `set_buzzer`, `heartbeat_task`, `trigger_crc_test`, `rx_task`, `cleanup`, the handler | no descriptor closed twice or lost; the link comes back; the exit is clean and ends |
| Alarm debounce (`rx_task`, packet part) | per detector: alarm, count, two times, last status | one pass of the receive loop | no flicker; an alarm only on enough reports in the window; an end after silence |
| Slave alarm arbitration (`slaver_00_example.c:138-178`, `fire_sensor.c`) | pin, pull, armed edge, request flag, buzzer | the arbitration, in loop and interrupt | the buzzer and the report agree with the detector |
| Slave node (`slaver_00_example.c`) | heartbeat count, watchdog, modes | packet callback, loop, unbind, stop | a cold reset only when justified; silence always ends |
| Violation latch (`inference_node.cpp:205-398`) | per track: label, lock, two streaks | one frame | locks and pardons follow the frames seen; the buzzer follows the picture |
| UI alarms, log, score (`ui_main_window.cpp`) | four flags, hold timer, light, counters, score | one handler per signal or timer | light = flags; score = worst of the day; the warning is held, then falls |
| DeepSeek advisor (`ui_main_window.cpp`, `deepseek_worker.cpp`) | pending list, two timers, open reply, simulated answers | aggregation, request, reply, timeout | each request answered, and once |
| Model integrity and NCNN inference (`inference_node.cpp:29-160`) | model files, network | check, repair, infer | a program without a model stops looking, and only that |
| ByteTrack (`ByteTrack/`) | three track lists, ids, frame count | `update`, `linearAssignment`, `lapjv_internal` | a track is on one list and its box is of this frame; the assignment is a cheapest one and ends |
| Evidence store (`io_node.cpp`, part of `inference_node.cpp`) | queue, files, rows of the table | name, save, rename, clean up | a row has its picture; a picture is whole |
| Camera source (`camera_node.cpp`, buttons of `ui_main_window.cpp`) | source, mode, flag, retry clock | switch, reopen, read | what is read is what the mode says; a camera that returns is used |
| Start and exit (`main.cpp`) | threads, `is_running` | start, exit | no alarm before its receiver; all ends |
| Packet format and CRC-8 | - | encode, check | - |
| Sensors and LED of the slave (`aht20.c`, `fire_sensor.c`) | two flags, the I2C controller | set up, probe, measure | a sensor that returns is read again |
| Scripts, fault injection, deployment | - | - | - |
| OpenAMP, board support, build products | vendored | - | - |

Who calls whom: the receive thread turns packets into Qt signals for the UI and into
`is_physical_alarm` for the inference thread; the inference thread turns frames into
`set_buzzer`, into events for the evidence thread and into signals for the UI; the UI thread
turns signals into the light, the score, the log and advice requests; a BUZZER packet makes the
slave arbitrate; any valid packet feeds its watchdog; a flame makes it arbitrate and report. The
buttons of the UI tell the camera thread its source through two shared variables; the inference
thread has the tracker called once a frame and keeps its locks by the tracker's ids.

### What is hard

* The link has three users and one lock, and the user that closes and reopens it takes no lock.
* A closed descriptor number is handed out again at the next `open`, so a stale number is not
  an error but somebody else's file.
* The signal handler runs `cleanup`, with its joins and its lock, inside whatever it interrupted.
* On the slave an interrupt preempts the same code it runs itself, and both move one pin.
* The watchdog resets the whole board: too eager and it kills a healthy Linux, too lazy and a
  dead master leaves the slave spinning.
* The latch and the debounce keep counts over frames and packets with gaps in between.
* Timers of the UI thread meet replies and each other in any order.
* The camera thread and the buttons write the same mode and flag without a lock.
* Two threads compute the name of one picture on their own, through one static buffer.
* `set_buzzer` sends changes only, to a slave that may have restarted since.
* The assignment solver reads one array at its front while it writes it in place, and its
  phases rely on each other's prices.

`PROJECT.json` lists these as hazards, each at its line with the properties that cover it, or
the reason why none does.

## 2. Modules

Definitions keep the source's names where TLA+ allows it. `\* Slip:` marks an operator that is
not part of a specification: it is a plausible mistake in the code, kept beside the action it
would replace, and the properties were shown to notice it.

**SpscRing** - one `push` and one `pop` at once, each split at its accesses to memory: load of
the other's index, copy, release store. `pPc`/`cPc` are the program counters, `pushRes`/`popRes`
the results (`Pending` inside a call). The relaxed load of one's own index is no step, because
nobody else writes it. Steps interleave at the instant they are performed. That is sound for this
ring: an index has one writer, its release store orders the copy before it, and the acquire load
of the other side orders the copy after it. **BoundedFifo** is what a user of the ring may rely
on: an atomic queue of `Capacity` items, with calls that start, take effect and return;
`SpscRing` implements it with `queue <- Contents`.

**RpmsgLink** - `kind[f]` is the process's descriptor table: an endpoint, an endpoint whose slave
is gone (`hup`), the control device, a file of the IO thread, or free; `open` takes the lowest
free number. `mainPc` follows `init`, the event loop and `cleanup`; `rxPc` follows `rx_task`;
`pc[t]` each sender `t` (`hb`, `ai`, `crc`), whose failure path (`is_connected = false`, exchange,
close) is split at each atomic access. The kernel, the slave core and the files of the IO thread
are external actions. A receive poll works on the local `pfd`, as in the code, and a read on
`rpmsg_fd`. The signal handler runs on the main thread, on top of its present step: it keeps a
mutex that this thread holds, and calling `join` on a thread already being joined ends in
`aborted`. The thread of `--test-crc` is a third sender, `crc`: it sends one packet and is done,
and `main` detaches it, so `cleanup` does not wait for it. Left out: the ten tries of `init`, which
happen before any other thread exists.

**AlarmDebounce** - one step is one pass of the receive loop: at most one packet, then the look
at both detectors for a release. Time goes in seconds: the code takes milliseconds of
`steady_clock` and compares them with limits of whole seconds (`rpmsg_node.cpp:309-322`).
`Link` is a lost or restored link; passes without one change nothing, as in the code.

**SlaveAlarm** - the arbitration in two contexts of one core. The loop runs only while no
interrupt is pending or in progress; the interrupt (priority 0, never masked) may come between
any two steps of the loop. The pin's level is what the detector gives, or, with a cut wire, what
the pull resistor gives. `missed` is a history variable that marks the two windows through which
a change of the detector escapes arbitration; `BuzzerAgrees` says there is no third. It contains
`PinInv`, what the two contexts agree on about the pin.

**SlaveNode** - time in ticks of 500 ms; the loop may handle a tick late, and several as one.
The watchdog is hardware and counts in every mode but `reset`. `Heard` is what every valid packet
does before its command is looked at; `mode` tells the endless loops apart. The arbitration is
one step here (SlaveAlarm opens it). **SlaveSensors** extends it by the driver of the temperature
sensor: its static flags `init_ok` and `present` and the controller's `is_ready`. The bus
is good, busy (all transfers work, but the sensor says it has not finished), flaky or absent. A
read is an operator that returns the set of possible results, one for each transfer that may fail
on a flaky bus and for the busy answer; the tick of the loop picks one. `BenchSpec` implements `Spec` of SlaveNode.

**ViolationLatch** - one frame is one step. The tracker is seen from here: any subset of the
tracks in any frame, each matched strongly, weakly or not at all with a compliant or violating
detection. `memory[t]` gathers the code's four maps for one track id. `bad` and `good` are
history: what was really seen of a track in succession.

**TrackLife** - `BYTETracker::update`, one frame a step: the three associations (high scores, low
scores, the unconfirmed), births, expiry, the rebuilding of the lists and the elimination of
doubles, with the code's order, which tests the removed list *before* this frame's expired tracks
join it. Boxes and overlaps are free, so that each association may pick any tracks.
**OptimalMatching** is the contract of one association: one answer, a matching of least weight.
**Lapjv** is the solver behind it, `lapjv_internal`, phase by phase with its in-place list of
free rows, inside `execLapjv`, which pads the table, and `linearAssignment`, which reads the
result; it implements `OptimalMatching` with `distance <- cost`.

**CameraSource** - the camera thread and the two buttons, each access to `current_source_mode` and
`source_changed` a step. `order` is history: what became of the last click. **BuzzerRequest**
extends it by `cap_queue`, the model check, `set_buzzer` with `is_buzzer_on`, the channel and the
slave that takes packets and may stop and start. It is the path from a frame to the slave's
request; `CamSpec` holds of it (`CameraIsUsedAsSpecified`).

**EvidenceStore** - the inference thread makes out a row for the table while the IO thread names,
writes and renames the picture; both go through the one buffer of `localtime` (`tm`, with who
filled it last). `dir` is the directory in the order of its times, because cleaning up deletes
the oldest. The process may die at any step. `excused` is history: each name whose picture may be
missing, entered where one of the listed reasons occurs.

**Advisor**, **UiAlarms** - the event loop of the UI thread: one handler or timer event per step.
`Advisor` has the aggregation of violations, the request, the reply, the timeout and the simulated
answers used without an API key; `UiAlarms` extends it by the flags, the light, the score and the
log that feeds it. Time in half seconds; a due timer is handled before time goes on, though in
any order with other due events.

`MC*` modules only give constants their values. `*Proofs` modules hold the theorems.

## 3. Runs

Passing runs:

| Run | Distinct states | What it shows |
|---|---|---|
| `ring` | 4,171 | Every interleaving on four slots and two items: `NoSlotRace`, `RingInv`, the refinement of `BoundedFifo`, `OldestIsTaken`. |
| `link` | 262,329 | Three descriptors, three senders, the slave starting and stopping at will, one signal: `OwnedOnce`, `LinkInv`, `ExitIsClean`, `Reconnects`, `ExitTerminates`. |
| `alarm` | 209,512 | All states of the slave's two contexts (no constants): `BuzzerAgrees`, `EdgeSounds`, `ReportHeals`. |
| `node` | 1,503,760 | The code's own limits (10, 20 and 2 ticks, 5 rounds), with the temperature sensor on a good, busy, flaky or missing bus: `NodeInv`, `ResetJustified`, `SilenceEnds`, `SensorTruth`. |
| `debounce` | 57,600 | Both detectors, counts up to 2, window 2 s, release 3 s: `AlarmInv`, `NoFlicker`, `Confirmed`, `AlarmEnds`. |
| `latch` | 32,796 | Two tracks: `LatchInv`, `LocksAreJust`, `BuzzerRests`. |
| `ui` | 92,208 | The code's own timers: `UiInv`, `ScoreInv`, `WarningHeld`, `WarningEnds`, `AdvisorInv`, `AnswerStands`, `AnswerComes`. |
| `lapjv` | 25,928 | Every table of three costs with rows and columns up to three, five together: `LapjvInv`, and `Matches`, the refinement of `OptimalMatching` with its liveness. |
| `track` | 304,769 | Four tracks, six frames: `TrackInv`, `LongestStays`. |
| `camera` | 150,920 | Camera, inference, link and slave composed: `SourceAgrees`, `InStep`, `CameraReturns` (with its one exception, `Stranded`: a click on a file lost while nothing was open), `ImportEnds`. |
| `evidence` | 7,853,777 | Two threads, a crash at any step, a queue of one: `RowsAnswered`, `PicturesWhole`. |

Every property of these runs is also shown to be violated when the definition named beside it in
`mutants` is replaced by its slip.

The run that shows a disagreement between the code and what the repository says of it:

| Run | Says | Does |
|---|---|---|
| `link_write` | `rpmsg_node.hpp:84`: `mtx` protects the writes | `rx_task` closes and reopens without it; a packet may go into a file of the IO thread. |

### Bounds and why they are enough

* `ring`: `Size = 4` has an empty ring, a full one, and wrap-around with both sides inside.
  The code's rings have 2 and 20 slots; the proofs cover every `Size >= 2`. Two items suffice to
  see an item repeated, lost or swapped.
* `link`: at most three descriptors are open at once (endpoint or control device, file, one being
  closed by a sender), so three numbers never run out, and each is handed out again and again.
  The proofs cover every set, too small ones included. One signal is modelled; a second one
  would only run the same handler again.
* `alarm`: nothing is bounded; the state space is finite and complete.
* `node`: `silent` is capped at `WdtLimit`, and no property tells longer silences apart.
* `debounce`: ages are capped one above window plus release, where every comparison of the code
  has the same result. The code has `CONFIRM_COUNT` 1 for both detectors, for which counting is
  trivial; a count of 2 for gas makes the count, the window and its restart matter, and 1 stays
  checked for fire. The proofs cover every count.
* `latch`: `CONFIRM = 2`, `PARDON = 3` (3 and 15 in the code) keep two different thresholds;
  `MEMORY = 1` (5000) and a queue of 1 (19) make the guard and a full queue happen with two
  tracks. Streaks are capped at their threshold, since the code only compares with it. The
  proofs cover every threshold and every finite set of tracks.
* `ui`: `FULL = 3` and `EMERGENCY = 1` scale the score (20 and 9 steps of 5 points), enough for
  violations to bring it above, to and below the cap. Timers are the code's.
* `lapjv`: costs 0, 3 and 5 against a limit of 4 (`HalfLimit` is half of it) give ties, pairs below
  and pairs above the limit; all phases, the second round of row reduction and paths of several
  steps occur. Costs are whole numbers; the code's are doubles, whose rounding is not modelled.
* `track`: `MAX_TIME_LOST = 2` (30 in the code) lets a track be born, confirmed, lost, expire and be
  found in its last frame within six frames, and with three detections a frame, tracks of
  different age double each other. The proofs cover every bound.
* `camera`: `RETRY = 3` is the code's; two packets on the wire suffice for a change and its
  reverse. The proofs cover every number of both. `cap_queue` holds one frame, as in the code.
* `evidence`: three seconds, one kind, a queue of 1 (19 in the code) that is often full, cleaning
  after 2 pictures (500) with 2 files or more (100), half of them (a fifth): one name can be
  written, overwritten, cleaned away and named again by a refilled buffer.

### Fairness and why the code justifies it

* `ring`: `WF(Pop)`. Both consumer threads poll in an endless loop. Nothing is asked of producers.
* `link`: the threads run (`WF(Rx)`, `WF(HbStop)`, `WF(Clean)`, `WF(Send)`); `cleanup`, when it waits
  for `mtx`, gets it (`SF(CleanLock)`): the mutex is held for one packet and the senders sleep or
  work between packets. Of the senders' own locking no more than weak fairness is asked. The IO
  thread closes the file it writes. Nothing is assumed of the slave core, the user or signals.
* `alarm`: the core runs, interrupts before the loop; `SF(LoopTick)`: the 500 ms tick recurs
  although packets and interrupts come between.
* `node`: time passes, the watchdog is hardware, a CRC test is a counted loop. *Not* assumed: that
  the main loop ever handles a tick.
* `debounce`: time passes; a connected loop makes passes, since `poll` has a timeout and the slave
  sends measurements every 500 ms.
* `latch`: the camera delivers frames.
* `ui`: time passes and the event loop handles due timers. Nothing is assumed of signals or of
  network replies.
* `lapjv`: a call runs to its end.
* `camera`: the camera thread runs, a handler of a button that has begun ends, time passes, and a
  file has an end. Nothing is asked of the slave, the link, the user or the inference thread.
* `track`, `evidence`: none; their properties are safety.

## 4. Proofs

Each safety theorem has the form `Spec => []Inv` or `Spec => [][A]_vars`, where `Spec` is the
module's own specification without fairness, from the named assumptions on the constants
(`SizeAssumption`, `ItemAssumption`, `FDAssumption`, `LimitAssumption`, `DebounceAssumption`,
`LatchAssumption`, `AdvisorAssumption`, `UiAssumption`, `TrackAssumption`, `LapjvAssumption`,
`CameraAssumption`, `WireAssumption`, `EvidenceAssumption`), which TLC evaluates in every run.
`SlaveAlarm` has no constants.

| Module | Theorems | Along |
|---|---|---|
| `QueueProofs` (ring) | `RingInvariant`, `SlotRaceFreedom`, `RingRefinesFifo` | `RingInv` is inductive: a producer inside `push` keeps the slot at `tail` free, a consumer inside `pop` keeps the slot at `head` occupied. From it, no slot is shared, and each memory access maps to a step of `BoundedFifo` or to none. The lemmas say how `Contents` changes with `head`, `tail` and a slot. |
| `QueueProofs` (evidence store, its user) | `RowsAreAnswered`, `PicturesAreWhole` | The directory lists no name twice, and while the IO thread has a picture in hand its file is the last one written (`InHand`), so the rename finds it whole and the cleaning, which takes the oldest, leaves it. A name is answered when its picture is there, on its way or excused; no step but the death of the process takes a name back (`Naming` says whose second is in the buffer of `localtime`). |
| `RpmsgLinkProofs` | `LinkInvariant`, `DescriptorOwnership`, `CleanExit` | `OwnedOnce` alone is not inductive: that `rx_task` opens only when nothing is shared needs `ReceiverInv`, and that needs who holds `mtx` (`MutexInv`) and which threads are gone at each stage of `cleanup` (`StageInv`). The step has one case per action: each takes, hands over or closes at most one descriptor, and its case shows that ownership stays unique and complete. |
| `SlaveNodeProofs` | `NodeInvariant`, `ResetsAreJustified`, `BenchImplementsNode`, `SensorIsTruthful` | The heartbeat count may be one ahead of the silence (an old tick handled after a packet), so `CountInv` counts the tick that is due; `DogInv` ties the time left to the silence; `ModeInv` says what led to each mode. With the sensor, each step of the bench is one of the node or leaves it alone, so both theorems carry over; that a measurement, or the busy answer, follows from a sound bus is computed from each possible state of the driver. |
| `AlarmProofs` (debounce) | `AlarmInvariant`, `AlarmsDoNotFlicker`, `AlarmsAreConfirmed` | The alarm's clock equals the history `quiet` while an alarm is on; the release test then is the second property. For the third, `TallyInd`: the code keeps one clock and a count of *n*, and that clock is the age of the *n*-th newest report, although quiet reports, cuts and releases pass in between. |
| `AlarmProofs` (arbitration) | `BuzzerFollows` | `BuzzerAgrees` speaks of rest only. `ArbInd` says what holds on the way: unless something was missed or an interrupt waits, what each context has read so far is right (`Right`), and the handler never runs on top of a loop that is midway (`Nested`). One case per access to the pin. TLC found `ArbInd` inductive over all typed states before it was proved. |
| `ViolationLatchProofs` | `LatchInvariant`, `LockJustice` | `LatchInd` strengthens `LatchInv`: for an unlocked track the violating streak is the history's and below `CONFIRM`, for a locked one the compliant streak is and is below `PARDON`; the buzzer follows the last output, which the memory guard never forgets. |
| `UiAlarmsProofs` (interface) | `UiInvariant`, `ScoreIsWorst`, `WarningIsHeld` | `Ind` adds to `UiInv` and `ScoreInv` that a present emergency is remembered; `HoldInd` that, while the timer runs, it and the time since the last alarm add up to `HOLD`. |
| `UiAlarmsProofs` (advisor) | `AdvisorInvariant`, `AnswersStand` | `AdvisorInd` adds that the timers of simulated answers come due in the order in which they were started (`MocksInOrder`), so that none behind the first is due before it, and that without an API key only the timeout gives the preset advice, after which `m_isTimeout` holds back the answers still on their way (`MockHeldBack`). |
| `TrackerProofs` (tracks) | `TrackInvariant`, `LongestTracksStay` | `TrackInv` is inductive; the lemma for one frame first writes out what the frame does to each track, then takes the parts in turn. For the other, among all tracks of the frame overlapping the one that goes there is one followed for longest (the naturals have least elements), and that one is eliminated by none. |
| `TrackerProofs` (solver) | `RowsAndPricesKept`, `AnswersAreMatchings` | `LapjvInd` has a part per phase. The transfer ties each row to the columns it won and lists the others (`Transferring`). From then on the list that is overwritten in place holds each row without a column once, in two stretches with a gap between what is written and what is read (`Listing`). In the search, distances form a tree of shortest paths (`Tree`) and each column was reached from the root or from one scanned before it (`Ranked`); so the flip, which walks this tree back while columns change hands, stays on columns whose price is right and ends at the root (`Flipping`, `Back`). Prices stay below the costs of their columns (`Below`) and fair to each assigned row (`PricesFair`). |
| `BuzzerRequestProofs` | `CameraIsUsedAsSpecified`, `SourceAgreement`, `RequestsStayInStep` | `SourceInd` adds to `SourceAgrees` the time between the look at the mode and the clearing of the flag, and an order still flagged. `RequestInd` adds that a slave that is down has no channel and an empty wire; then only a restart can part the two memories. |

`AnswersAreMatchings` is a half of the refinement of `OptimalMatching`: what `linearAssignment`
answers is a matching, with exactly the rest of the rows and columns listed as unmatched. That its
weight is least, and that the solver ends, are shown by `Matches` on the run's tables only: the
first compares sums over a matching, which needs induction over its size, the second is liveness.
Every invariant and every action property of the runs is the property of a theorem. Only
model-checked is what has `~>`, `<>` or fairness in it (`OldestIsTaken`, `Reconnects`,
`ExitTerminates`, `EdgeSounds`, `ReportHeals`, `SilenceEnds`, `AlarmEnds`, `BuzzerRests`,
`WarningEnds`, `AnswerComes`, `CameraReturns`, `ImportEnds`): liveness is out of the prover's reach.

## 5. What the models allow and no property forbids

Behaviours met while modelling that no property rules out, some of them against the sense of a
text of the repository:

* The handler of a signal (`main.cpp:21`: for a safe shutdown) runs `cleanup` on the main thread. If
  that was already in `cleanup`, it may wait for a mutex the interrupted code holds, or join a
  thread that is already being joined, which aborts the program.
* The loop of the slave arbitrates on packets and interrupts only (`docs/baremetal-task-flow.md:112`
  has it arbitrate all the time): a flame that starts between the two readings of an arbitration
  may stay silent until the next event.
* Fail-safe leaves the buzzer as it was, and the interrupt may turn it on
  (`docs/risk_analysis.md:152` has it turned off).
* One frame without the locked track lets the buzzer rest (`docs/communication-flow.md:115`: only
  after 15 compliant frames).
* A click while the camera thread reopens its source may be lost (`order = "lost"`). If it asked for
  a file and nothing was open, the mode stays at video and the camera, even when it is put back, is
  not tried until the next click (`Stranded`, the exception in `CameraReturns`;
  `docs/risk_analysis.md:35` has the stream taken up again as soon as the camera is back).
* A restarted slave has forgotten a request that the master takes for sent, until the next change
  (`restarted`).
* A row of the table has no picture if the alarm queue was full (the track is locked, so it is not
  tried again), or if the other thread refilled the buffer of `localtime` between its two uses.
* A lost track that expires stays matchable for one more frame, because the list of removed tracks
  is updated after the lost list.
* An unbind before the first packet spins for a reset that never comes: the first packet starts
  the watchdog (`slaver_00_example.c:318`).
* If the watchdog's initialisation fails, the loss of the master is not detected either.
* Without an API key, a simulated answer that is on its way is not cancelled by the next request,
  which it then answers; the panel is written twice.
* A steady stream of violations puts the advice request off without bound.
* While the link is down, and for damaged packets, alarms do not end.

## 6. Not modelled, and why

* Numeric code: the NCNN inference, the Kalman filter and boxes of ByteTrack, CRC-8. Floating-point
  arithmetic and byte sums are out of TLC's reach and have no interleaving of their own.
* The gas detector (read like the flame detector, without an interrupt or state) and the LED.
* The CSV log, which nothing reads back; the measure of the free disk, which is a free choice; a
  loss of power, whose effect on files that were never synced is up to the file system.
* `video_path`, a string that a button writes while the camera thread may read it: a file opens or
  does not, in the model.
* The table of the log, statistics, styles and dialogs of the UI; packet layout and texts.
* Scripts are read for what they expect of the program. OpenAMP, board support and build products
  are vendored; the kernel, remoteproc, the watchdog and the pin appear as external actions where
  the code depends on them.

## 7. Plan

Done, in this order: the ring and its FIFO; the link; the debounce; the slave's two modules; the
latch; the UI; the tracker and its solver; the camera and the path of a request; the evidence
store; the slave's sensor; the CRC test as a third sender. Next, most important first:

1. **ThreadLife** - start order: the receive thread may emit an alarm before the window exists and
   is connected (`main.cpp:61` before `:82`); composes `AlarmDebounce` with `UiAlarms`.
2. Proofs: that no price of the solver is moved past its bound by more than the search allows, the
   lemma that least weight would rest on; of `ThreadLife`, that an alarm is lost only before the
   window is connected.
