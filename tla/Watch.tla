-------------------------------- MODULE Watch --------------------------------
(***************************************************************************)
(* The way of a local change to the cloud (internal/engine: runner.go, the *)
(* watcher's loop, the debouncer and the timer's loop; engine.go, the      *)
(* worker): an event is reported and becomes a job of its file at once, or *)
(* of its directory when a window without events has passed; the job waits *)
(* in the line, its plan is made from what is on disk by then, and applied.*)
(* No step hands a change over to the next under a common lock. Reloads,   *)
(* stops and deaths take away what is on its way; the timer's jobs, which  *)
(* scan the whole task, make up for it. The queue is its abstraction       *)
(* JobLine; what plans and operations do is MirrorUp's.                    *)
(***************************************************************************)
EXTENDS JobLine, FiniteSets

CONSTANTS
    File,       \* the files of the task that change
    Instant,    \* those that are synced without a quiet window
    DirOf,      \* the directory a file is in
    root,       \* the task's directory; keys are directories and instant files
    theTask,
    MaxEdits,   \* bound: changes
    MaxCalls,   \* bound: reloads, stops and deaths
    MaxFaults   \* bound: lost events and failures of a job

ASSUME WatchAssumption ==
    /\ Instant \subseteq File /\ Instant \subseteq Key /\ File \cap Key = Instant
    /\ DirOf \in [File -> Key \ File] /\ root \in Key \ File
    /\ Task = {theTask} /\ TaskOf = [k \in Key |-> theTask]
    /\ MaxEdits \in Nat /\ MaxCalls \in Nat /\ MaxFaults \in Nat

VARIABLES
    dirty,      \* files the cloud does not have as they are
    loops,      \* the runner's trigger loops run, are cancelled, or it has none
                \* that is registered
    events,     \* files whose events the watcher's loop has not received
    pending,    \* debouncer.pending
    timer,      \* debouncer.timer is running
    kick,       \* there is a token in debouncer.kick
    batch,      \* where the loop that takes batches is
    taken,      \* the directories it has taken and not yet enqueued
    late,       \* jobs that cancelled loops still enqueue
    seen,       \* dirty files the running job's plan has an operation for
    planned,    \* the running job has its plan
    call,       \* how far a reload or stop of the task is
    missed,     \* history: files with a change that nothing is left to carry
    edits, calls, faults \* counted against the bounds

loopVars == <<loops, events, pending, timer, kick, batch, taken, late>>
workVars == <<dirty, seen, planned>>
bounds == <<edits, calls, faults>>
vars == <<lineVars, loopVars, workVars, call, missed, bounds>>

On == loops = "on"
Dirs == Key \ File

\* Faulty variant: a scan does not go down into directories.
CoveredTop(k) == {f \in File : f = k \/ DirOf[f] = k}

(* What a job looks at: one file, or a directory with what is below it.    *)
Covered(k) == IF k = root THEN File ELSE {f \in File : f = k \/ DirOf[f] = k}
CoveredBy(keys) == UNION {Covered(k) : k \in keys}
Waiting == {line[i].key : i \in DOMAIN line}
Working == {j.key : j \in running}

(* The program starts: files have changed while it was down.               *)
Init ==
    /\ LineInit
    /\ dirty \in SUBSET File
    /\ loops = "none"
    /\ events = {} /\ pending = {} /\ timer = FALSE /\ kick = FALSE
    /\ batch = "wait" /\ taken = {} /\ late = {}
    /\ seen = {} /\ planned = FALSE
    /\ call = "init"
    /\ missed = dirty
    /\ edits = 0 /\ calls = 0 /\ faults = 0

-----------------------------------------------------------------------------
(* The user changes a file; whoever watches is told.                       *)
Change(f) ==
    /\ edits < MaxEdits
    /\ edits' = edits + 1
    /\ dirty' = dirty \cup {f}
    /\ seen' = seen \ {f}
    /\ events' = IF On THEN events \cup {f} ELSE events
    /\ missed' = IF On THEN missed \ {f} ELSE missed \cup {f}
    /\ UNCHANGED <<lineVars, loops, pending, timer, kick, batch, taken, late, planned, call, calls, faults>>

Fault == faults < MaxFaults /\ faults' = faults + 1

(* The file system's notification is lost (the watcher's buffer is full).  *)
LoseEvent(f) ==
    /\ Fault
    /\ f \in events
    /\ events' = events \ {f}
    /\ missed' = missed \cup {f}
    /\ UNCHANGED <<lineVars, loops, pending, timer, kick, batch, taken, late, workVars, call, edits, calls>>

(* dispatch: a job for the file, or Arm: its directory joins the set and   *)
(* the window starts anew.                                                 *)
DispatchInstant(f) ==
    /\ On /\ f \in events \cap Instant
    /\ events' = events \ {f}
    /\ Request(f, "watch")
    /\ UNCHANGED <<loops, pending, timer, kick, batch, taken, late, workVars, call, missed, bounds>>

Arm(f) ==
    /\ On /\ f \in events \ Instant
    /\ events' = events \ {f}
    /\ pending' = pending \cup {DirOf[f]}
    /\ timer' = TRUE
    /\ UNCHANGED <<lineVars, loops, kick, batch, taken, late, workVars, call, missed, bounds>>

(* The window has passed: notify puts a token, if there is none.           *)
Notify ==
    /\ timer
    /\ timer' = FALSE
    /\ kick' = TRUE
    /\ UNCHANGED <<lineVars, loops, events, pending, batch, taken, late, workVars, call, missed, bounds>>

(* The loop that takes batches: the token, then the set, then one job per  *)
(* directory, in any order (Take goes through a map).                      *)
ReceiveKick ==
    /\ batch = "wait" /\ kick
    /\ kick' = FALSE
    /\ batch' = "take"
    /\ UNCHANGED <<lineVars, loops, events, pending, timer, taken, late, workVars, call, missed, bounds>>

TakeBatch ==
    /\ batch = "take"
    /\ taken' = pending
    /\ pending' = {}
    /\ batch' = "give"
    /\ UNCHANGED <<lineVars, loops, events, timer, kick, late, workVars, call, missed, bounds>>

GiveJob(d) ==
    /\ batch = "give" /\ d \in taken
    /\ Request(d, "watch")
    /\ taken' = taken \ {d}
    /\ UNCHANGED <<loops, events, pending, timer, kick, batch, late, workVars, call, missed, bounds>>

\* Faulty variant: the set is cleared when its jobs have been enqueued.
ClearWhenGiven ==
    /\ batch = "give" /\ taken = {}
    /\ batch' = "wait"
    /\ pending' = {}
    /\ UNCHANGED <<lineVars, loops, events, timer, kick, taken, late, workVars, call, missed, bounds>>

BatchGiven ==
    /\ batch = "give" /\ taken = {}
    /\ batch' = "wait"
    /\ UNCHANGED <<lineVars, loops, events, pending, timer, kick, taken, late, workVars, call, missed, bounds>>

(* cronLoop: a scan of the whole task.                                     *)
Tick ==
    /\ On
    /\ Request(root, "cron")
    /\ UNCHANGED <<loopVars, workVars, call, missed, bounds>>

(* A cancelled loop still enqueues what it had in hand.                    *)
LateJob(k) ==
    /\ k \in late
    /\ Request(k, "watch")
    /\ late' = late \ {k}
    /\ UNCHANGED <<loops, events, pending, timer, kick, batch, taken, workVars, call, missed, bounds>>

-----------------------------------------------------------------------------
(* The worker: the job leaves the line, ...                                *)
TakeJob ==
    /\ Serve
    /\ planned' = FALSE
    /\ UNCHANGED <<loopVars, dirty, seen, call, missed, bounds>>

(* ... its plan is made from what is on disk, ...                          *)
Plan ==
    /\ running # {} /\ ~planned
    /\ planned' = TRUE
    /\ seen' = dirty \cap CoveredBy(Working)
    /\ missed' = missed \ CoveredBy(Working)
    /\ UNCHANGED <<lineVars, loopVars, dirty, call, bounds>>

(* ... each operation done, or failed, which nobody tries again; ...       *)
Sync(f) ==
    /\ f \in seen
    /\ seen' = seen \ {f}
    /\ dirty' = dirty \ {f}
    /\ UNCHANGED <<lineVars, loopVars, planned, call, missed, bounds>>

OpFails(f) ==
    /\ Fault
    /\ f \in seen
    /\ seen' = seen \ {f}
    /\ missed' = missed \cup {f}
    /\ UNCHANGED <<lineVars, loopVars, dirty, planned, call, edits, calls>>

JobEnds ==
    /\ running # {} /\ planned /\ seen = {}
    /\ Finish
    /\ UNCHANGED <<loopVars, workVars, call, missed, bounds>>

(* ... or the job is cut short: its plan fails, or it is cancelled.        *)
CutShort ==
    /\ running' = {} /\ seen' = {} /\ planned' = FALSE
    /\ missed' = missed \cup IF planned THEN seen ELSE dirty \cap CoveredBy(Working)

PlanFails ==
    /\ Fault
    /\ running # {} /\ ~planned
    /\ CutShort
    /\ UNCHANGED <<line, accepting, cancelled, gone, loopVars, dirty, call, edits, calls>>

-----------------------------------------------------------------------------
(* ReloadTask and StopTask: the task's jobs are withdrawn, ...             *)
Begin(how) ==
    /\ calls < MaxCalls
    /\ calls' = calls + 1
    /\ call = "none"
    /\ call' = how
    /\ Withdraw(theTask)
    /\ missed' = missed \cup (dirty \cap CoveredBy(Waiting))
    /\ UNCHANGED <<loopVars, workVars, edits, faults>>

ReloadTask == Begin("reload")
StopTask == loops # "none" /\ Begin("stop")

(* ... the loops cancelled: what they have in hand is enqueued or not (the *)
(* selects choose), the rest of the batch and the events are forgotten; ...*)
InHand ==
    CASE batch = "give" -> {taken}
      [] batch = "take" -> {pending}
      [] batch = "wait" /\ kick -> {pending, {}}
      [] OTHER -> {{}}
LastEvent == {{}} \cup {{f} : f \in events \cap Instant}
LastTick == {{}, {root}}

StopLoops ==
    /\ call \in {"reload", "stop"}
    /\ loops' = IF call = "reload" THEN "none" ELSE "off"
    /\ IF On
       THEN /\ \E b \in InHand, e \in LastEvent, t \in LastTick : late' = late \cup b \cup e \cup t
            /\ missed' = missed \cup events \cup {f \in File : DirOf[f] \in pending \cup taken}
       ELSE UNCHANGED <<late, missed>>
    /\ events' = {} /\ pending' = {} /\ timer' = FALSE /\ kick' = FALSE
    /\ batch' = "wait" /\ taken' = {}
    /\ call' = IF call = "reload" THEN "init" ELSE "cancel"
    /\ UNCHANGED <<lineVars, workVars, bounds>>

(* ... and StopTask cancels the running job, ...                           *)
CancelActive ==
    /\ call = "cancel"
    /\ call' = "none"
    /\ IF running # {} THEN CutShort ELSE UNCHANGED <<running, seen, planned, missed>>
    /\ UNCHANGED <<line, accepting, cancelled, gone, loopVars, dirty, bounds>>

(* ... while ReloadTask initialises the task, and starts loops anew if     *)
(* that succeeds. Nothing is scanned then.                                 *)
StartLoops ==
    /\ call = "init"
    /\ call' = "none"
    /\ loops' = "on"
    /\ UNCHANGED <<lineVars, events, pending, timer, kick, batch, taken, late, workVars, missed, bounds>>

InitFails ==
    /\ call = "init"
    /\ call' = "none"
    /\ UNCHANGED <<lineVars, loopVars, workVars, missed, bounds>>

(* The program dies and is started again.                                  *)
Restart ==
    /\ calls < MaxCalls
    /\ calls' = calls + 1
    /\ line' = << >> /\ running' = {} /\ UNCHANGED <<accepting, cancelled, gone>>
    /\ loops' = "none"
    /\ events' = {} /\ pending' = {} /\ timer' = FALSE /\ kick' = FALSE
    /\ batch' = "wait" /\ taken' = {} /\ late' = {}
    /\ seen' = {} /\ planned' = FALSE
    /\ call' = "init"
    /\ missed' = dirty
    /\ UNCHANGED <<dirty, edits, faults>>

-----------------------------------------------------------------------------
WatchLoop == \E f \in File : DispatchInstant(f) \/ Arm(f)
BatchLoop == ReceiveKick \/ TakeBatch \/ BatchGiven \/ \E d \in Dirs : GiveJob(d)
LateLoop == \E k \in Key : LateJob(k)
Worker == TakeJob \/ Plan \/ JobEnds \/ \E f \in File : Sync(f)
CallStep == StopLoops \/ CancelActive \/ StartLoops \/ InitFails

Next ==
    \/ \E f \in File : Change(f) \/ LoseEvent(f) \/ OpFails(f)
    \/ WatchLoop \/ Notify \/ BatchLoop \/ Tick \/ LateLoop
    \/ Worker \/ PlanFails
    \/ ReloadTask \/ StopTask \/ CallStep \/ Restart

(* Goroutines that can go on do, the timers fire in the end (a window that *)
(* is started anew again and again would never pass, but changes cease),   *)
(* and jobs end. Nobody has to change, reload or stop anything.            *)
Spec ==
    /\ Init /\ [][Next]_vars
    /\ WF_vars(WatchLoop) /\ WF_vars(Notify) /\ WF_vars(BatchLoop)
    /\ WF_vars(Tick) /\ WF_vars(LateLoop)
    /\ WF_vars(Worker) /\ WF_vars(CallStep)

-----------------------------------------------------------------------------
(* What carries a change of a file on: an event, the debouncer's set when  *)
(* it will be taken, the batch in hand, a job that will make its plan or   *)
(* has an operation for the file.                                          *)
WillBeTaken == timer \/ kick \/ batch = "take"
Carried(f) ==
    \/ f \in events
    \/ DirOf[f] \in pending /\ WillBeTaken
    \/ DirOf[f] \in taken
    \/ f \in CoveredBy(late \cup Waiting)
    \/ f \in CoveredBy(Working) /\ ~planned
    \/ f \in seen

(* No change gets lost between the watcher, the debouncer, the queue and   *)
(* the worker, however they interleave: of a file that differs from the    *)
(* cloud something carries the change on, unless the task was not watched  *)
(* when it happened, an event, operation or job failed, or a reload, stop  *)
(* or death took it away (runner.go, debouncer; queue.go; engine.go, run). *)
NoChangeIsLost == \A f \in dirty \ missed : Carried(f)

(* As long as the task is watched, with the timer on, every change reaches *)
(* the cloud in the end, also one that was lost on its way or made while   *)
(* the program was down: the scan of the whole task does not depend on     *)
(* events (runner.go, cronLoop and trigger).                               *)
ChangesAreSynced == \A f \in File : <>[]On => []<>(f \notin dirty)

=============================================================================
