--------------------------- MODULE EvidenceStore ----------------------------
(***************************************************************************)
(* The way of an event to its picture: inference_thread_func hands it to   *)
(* alarm_queue and a row with the picture's expected path to the table of  *)
(* the interface, io_thread_func (src/io_node.cpp) names, writes and       *)
(* renames the picture and cleans the directory up.  Both threads compute  *)
(* the name on their own, from the event's time, through the one static    *)
(* buffer of localtime.  The process may die at any step and come back.    *)
(***************************************************************************)
EXTENDS Naturals, Sequences, SequencesExt

CONSTANTS
  Second,       \* 0..n: the seconds of the wall clock that are followed, a bound
  Kind,         \* violation_type
  ALARM_QUEUE,  \* events that alarm_queue holds: 19
  SAVES,        \* pictures between two looks at the disk: 500
  CLEAN_MIN,    \* pictures below which nothing is deleted: 100
  SHARE         \* one picture in so many is deleted: 5

ASSUME EvidenceAssumption ==
  /\ 0 \in Second /\ Second \subseteq Nat
  /\ ALARM_QUEUE \in Nat /\ SAVES \in Nat \ {0}
  /\ CLEAN_MIN \in Nat /\ SHARE \in Nat \ {0, 1}

Event == Second \X Kind   \* a time and a kind; also the name of a picture
File == [name : Event, tmp : BOOLEAN, whole : BOOLEAN]

VARIABLES
  is_running,
  now,
  tm,           \* the buffer that localtime returns to every caller, and who filled it last
  aiPc,         \* wait; frame: one in hand; fill, read: before the two uses of localtime
  naming,       \* the event whose row is being made out
  alarm_queue,
  ioPc,         \* poll, stamp, write, fill, rename, count, ended
  job, stamp,   \* the event in hand and the second its name was given
  save_counter,
  dir,          \* the files, the least recently written first
  rows,         \* expected_img_path of the rows in the table
  excused,      \* history: names whose picture may be missing, each for a reason below
  failed        \* history: names for which imwrite failed

aiVars == <<aiPc, naming, rows>>
ioVars == <<ioPc, job, stamp, save_counter>>
evidenceVars == <<is_running, now, tm, aiVars, alarm_queue, ioVars, dir, excused, failed>>

EvidenceInit ==
  /\ is_running = TRUE /\ now = 0 /\ tm = [by |-> "ai", second |-> 0]
  /\ aiPc = "wait" /\ naming = <<>> /\ rows = {}
  /\ alarm_queue = <<>>
  /\ ioPc = "poll" /\ job = <<>> /\ stamp = 0 /\ save_counter = 0
  /\ dir = <<>>
  /\ excused = {} /\ failed = {}

(* The inference thread --------------------------------------------------- *)

Infer(pc, next) == aiPc = pc /\ aiPc' = next

\* A frame in hand is finished, whatever becomes of is_running meanwhile.
PopFrame ==
  /\ is_running /\ Infer("wait", "frame")
  /\ UNCHANGED <<is_running, now, tm, naming, rows, alarm_queue, ioVars, dir, excused, failed>>

FrameEnds ==
  /\ Infer("frame", "wait")
  /\ UNCHANGED <<is_running, now, tm, naming, rows, alarm_queue, ioVars, dir, excused, failed>>

\* A full queue drops the event; its row is made out all the same.
Raise(k) ==
  /\ Infer("frame", "fill")
  /\ naming' = <<now, k>>
  /\ alarm_queue' = IF Len(alarm_queue) < ALARM_QUEUE
                    THEN Append(alarm_queue, naming') ELSE alarm_queue
  /\ excused' = IF Len(alarm_queue) < ALARM_QUEUE /\ ioPc # "ended"
                THEN excused ELSE excused \union {naming'}
  /\ UNCHANGED <<is_running, now, tm, rows, ioVars, dir, failed>>

Localtime ==
  /\ Infer("fill", "read")
  /\ tm' = [by |-> "ai", second |-> naming[1]]
  /\ UNCHANGED <<is_running, now, naming, rows, alarm_queue, ioVars, dir, excused, failed>>

\* The path is read out of the buffer, which the other thread may have refilled: then the
\* row points to a picture that need not be.
SendAlarmLog ==
  /\ Infer("read", "frame")
  /\ naming' = <<>>
  /\ LET path == <<tm.second, naming[2]>>
     IN /\ rows' = rows \union {path}
        /\ excused' = IF tm.by = "ai" THEN excused ELSE excused \union {path}
  /\ UNCHANGED <<is_running, now, tm, alarm_queue, ioVars, dir, failed>>

(* The IO thread ---------------------------------------------------------- *)

\* Slip: the picture is named after the time at which it is written.
PopEventStampNow ==
  /\ ioPc = "poll" /\ is_running /\ alarm_queue # <<>>
  /\ job' = Head(alarm_queue) /\ alarm_queue' = Tail(alarm_queue)
  /\ tm' = [by |-> "io", second |-> now] /\ ioPc' = "stamp"
  /\ UNCHANGED <<is_running, now, aiVars, stamp, save_counter, dir, excused, failed>>

PopEvent ==
  /\ ioPc = "poll" /\ is_running /\ alarm_queue # <<>>
  /\ job' = Head(alarm_queue) /\ alarm_queue' = Tail(alarm_queue)
  /\ tm' = [by |-> "io", second |-> job'[1]] /\ ioPc' = "stamp"
  /\ UNCHANGED <<is_running, now, aiVars, stamp, save_counter, dir, excused, failed>>

\* A refilled buffer sends the picture to another name.
Stamp ==
  /\ ioPc = "stamp" /\ ioPc' = "write"
  /\ stamp' = tm.second
  /\ excused' = IF tm.by = "io" THEN excused ELSE excused \union {job}
  /\ UNCHANGED <<is_running, now, tm, aiVars, alarm_queue, job, save_counter, dir, failed>>

Name == <<stamp, job[2]>>

\* A name is in the directory once at most.
Places(files, name, tmp) == {i \in DOMAIN files : files[i].name = name /\ files[i].tmp = tmp}
Without(files, name, tmp) ==
  LET at == Places(files, name, tmp)
  IN IF at = {} THEN files ELSE RemoveAt(files, CHOOSE i \in at : TRUE)
Has(name, tmp) == Places(dir, name, tmp) # {}

\* The event in hand goes with its pass of the loop.
At(pc, next) ==
  /\ ioPc = pc /\ ioPc' = next
  /\ job' = IF next = "poll" THEN <<>> ELSE job
  /\ stamp' = IF next = "poll" THEN 0 ELSE stamp
  /\ UNCHANGED <<is_running, now, tm, aiVars, alarm_queue>>

Created(tmp) == Append(Without(dir, Name, tmp), [name |-> Name, tmp |-> tmp, whole |-> FALSE])

\* Slip: the picture is written in its place.
CreateInPlace ==
  /\ At("write", "fill")
  /\ dir' = Created(FALSE)
  /\ UNCHANGED <<save_counter, excused, failed>>

\* imwrite creates the file and fills it, which takes a while.
Create ==
  /\ At("write", "fill")
  /\ dir' = Created(TRUE)
  /\ UNCHANGED <<save_counter, excused, failed>>

Fill ==
  /\ At("fill", "rename")
  /\ dir' = [dir EXCEPT ![Len(dir)].whole = TRUE]
  /\ UNCHANGED <<save_counter, excused, failed>>

\* It may fail before or after the first byte; nobody looks at its result.
WriteFails ==
  /\ At("write", "rename") \/ At("fill", "rename")
  /\ failed' = failed \union {Name}
  /\ UNCHANGED <<save_counter, dir, excused>>

\* The file takes the name over from an earlier picture; without a file nothing happens.
Rename ==
  /\ At("rename", "count")
  /\ dir' = IF Has(Name, TRUE)
            THEN LET files == Without(dir, Name, FALSE)
                 IN [i \in DOMAIN files |->
                      IF files[i].name = Name THEN [files[i] EXCEPT !.tmp = FALSE] ELSE files[i]]
            ELSE dir
  /\ UNCHANGED <<save_counter, excused, failed>>

\* check_and_cleanup_disk: temporary files that a crash left count and go like the others.
Kept(files) == SubSeq(files, 1 + Len(files) \div SHARE, Len(files))

Pictures(files) == {f.name : f \in {g \in Range(files) : ~ g.tmp}}

\* After SAVES pictures, if the disk is more than 85% full.  The picture just saved is not
\* excused: it must outlive the cleaning.
Count ==
  /\ At("count", "poll")
  /\ save_counter' = (save_counter + 1) % SAVES
  /\ \/ UNCHANGED <<dir, excused>>
     \/ /\ save_counter' = 0 /\ Len(dir) >= CLEAN_MIN
        /\ dir' = Kept(dir)
        /\ excused' = excused \union ((Pictures(dir) \ Pictures(dir')) \ {Name})
  /\ UNCHANGED failed

\* The events that wait are not saved any more.
LeaveLoop ==
  /\ ~ is_running /\ At("poll", "ended")
  /\ excused' = excused \union Range(alarm_queue)
  /\ UNCHANGED <<save_counter, dir, failed>>

(* The process and time --------------------------------------------------- *)

OnExitClicked ==
  /\ is_running /\ is_running' = FALSE
  /\ UNCHANGED <<now, tm, aiVars, alarm_queue, ioVars, dir, excused, failed>>

\* The process dies, at its end or at any step before, and is started anew.  The files are
\* all that is left.
Restart ==
  /\ is_running' = TRUE /\ tm' = [by |-> "ai", second |-> 0]
  /\ aiPc' = "wait" /\ naming' = <<>> /\ rows' = {} /\ alarm_queue' = <<>>
  /\ ioPc' = "poll" /\ job' = <<>> /\ stamp' = 0 /\ save_counter' = 0
  /\ excused' = {}
  /\ UNCHANGED <<now, dir, failed>>

SecondPasses ==
  /\ now + 1 \in Second /\ now' = now + 1
  /\ UNCHANGED <<is_running, tm, aiVars, alarm_queue, ioVars, dir, excused, failed>>

-----------------------------------------------------------------------------
EvidenceNext ==
  \/ PopFrame \/ (\E k \in Kind : Raise(k)) \/ Localtime \/ SendAlarmLog \/ FrameEnds
  \/ PopEvent \/ Stamp \/ Create \/ Fill \/ WriteFails \/ Rename \/ Count \/ LeaveLoop
  \/ OnExitClicked \/ Restart \/ SecondPasses

EvidenceSpec == EvidenceInit /\ [][EvidenceNext]_evidenceVars

-----------------------------------------------------------------------------
EvidenceType ==
  /\ is_running \in BOOLEAN /\ now \in Second /\ tm \in [by : {"ai", "io"}, second : Second]
  /\ aiPc \in {"wait", "frame", "fill", "read"} /\ naming \in {<<>>} \union Event
  /\ alarm_queue \in Seq(Event) /\ Len(alarm_queue) <= ALARM_QUEUE
  /\ ioPc \in {"poll", "stamp", "write", "fill", "rename", "count", "ended"}
  /\ job \in Event \union {<<>>} /\ stamp \in Second
  /\ save_counter \in 0..(SAVES - 1)
  /\ dir \in Seq(File)
  /\ rows \subseteq Event /\ excused \subseteq Event /\ failed \subseteq Event

\* Events that still wait for their picture.
Awaited ==
  (IF ioPc # "ended" THEN Range(alarm_queue) ELSE {})
    \union (IF ioPc = "stamp" THEN {job} ELSE {})
    \union (IF ioPc \in {"write", "fill", "rename"} THEN {Name} ELSE {})

(***************************************************************************)
(* A row of the table has its picture on disk, or on its way: though the   *)
(* path is computed twice, in two threads, nothing but a full queue, a     *)
(* buffer refilled between localtime and strftime, a failed write, an      *)
(* exit or the cleaning of an older picture leaves a row without one.      *)
(***************************************************************************)
RowsAnswered ==
  /\ EvidenceType
  /\ rows \subseteq Pictures(dir) \union Awaited \union excused \union failed

(***************************************************************************)
(* A file under a final name is whole, wherever the process was killed,    *)
(* unless the write itself reported a failure that nobody looked at.       *)
(***************************************************************************)
PicturesWhole == \A f \in Range(dir) : f.tmp \/ f.whole \/ f.name \in failed
=============================================================================
