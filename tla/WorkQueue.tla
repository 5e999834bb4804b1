----------------------------- MODULE WorkQueue -----------------------------
(***************************************************************************)
(* The engine's global single-consumer work queue                          *)
(* (internal/engine/queue.go) and the worker loop that drains it           *)
(* (Engine.worker): a slice of keys, a map from key to job, both under one *)
(* mutex, and a wake-up channel of capacity one that producers fill after  *)
(* they have released the mutex. An action is one critical section, one    *)
(* channel operation, or the running of one job.                           *)
(***************************************************************************)
EXTENDS Naturals, Sequences, Subsequences

CONSTANTS
    Key,            \* dedup keys: one per task, scope and target
    Task,
    TaskOf,         \* the task of a key
    Producer,       \* the goroutines that enqueue: HTTP handlers, cron, watchers
    UsedTrigger     \* the triggers the producers use

VARIABLES
    order,      \* Queue.order
    pending,    \* Queue.pending: the trigger of each waiting key's job
    kick,       \* the channel Queue.kick holds its one token
    closed,     \* Queue.closed
    ctxDone,    \* the application's context is cancelled
    sending,    \* producers that have queued a job and not yet sent the token
    worker,     \* where the worker goroutine is: at the mutex of Take, in its
                \* select, running a job, or ended
    running,    \* the job it runs, as a set of at most one
    asked       \* history: the triggers asked for each waiting key since it
                \* joined the queue

queueVars == <<order, pending, kick, closed, ctxDone, sending, worker, running, asked>>

(***************************************************************************)
(* The abstract line that this queue implements.                           *)
(***************************************************************************)
Line == INSTANCE JobLine WITH
            line <- [i \in DOMAIN order |->
                        [key |-> order[i], trigger |-> pending[order[i]]]],
            accepting <- ~closed,
            cancelled <- ctxDone,
            gone <- worker = "exit"

ASSUME WorkQueueAssumption ==
    /\ TaskOf \in [Key -> Task]
    /\ UsedTrigger \subseteq Line!Trigger

Without(f, S) == [x \in DOMAIN f \ S |-> f[x]]

QueueInit ==
    /\ order = << >>
    /\ pending = << >>
    /\ kick = FALSE
    /\ closed = FALSE
    /\ ctxDone = FALSE
    /\ sending = {}
    /\ worker = "lock"
    /\ running = {}
    /\ asked = << >>

-----------------------------------------------------------------------------
(* Faulty variant: Enqueue without the check of closed.                    *)
EnqueueNewAnyway(p, k, tr) ==
    /\ p \notin sending
    /\ k \notin DOMAIN pending
    /\ pending' = [x \in DOMAIN pending \cup {k} |->
                        IF x = k THEN tr ELSE pending[x]]
    /\ asked' = [x \in DOMAIN asked \cup {k} |->
                        IF x = k THEN {tr} ELSE asked[x]]
    /\ order' = Append(order, k)
    /\ sending' = sending \cup {p}
    /\ UNCHANGED <<kick, closed, ctxDone, worker, running>>

(* Enqueue, the key not waiting: queue the job and release the mutex. A    *)
(* closed queue ignores the call: nothing changes.                         *)
EnqueueNew(p, k, tr) ==
    /\ p \notin sending
    /\ ~closed
    /\ k \notin DOMAIN pending
    /\ pending' = [x \in DOMAIN pending \cup {k} |->
                        IF x = k THEN tr ELSE pending[x]]
    /\ asked' = [x \in DOMAIN asked \cup {k} |->
                        IF x = k THEN {tr} ELSE asked[x]]
    /\ order' = Append(order, k)
    /\ sending' = sending \cup {p}
    /\ UNCHANGED <<kick, closed, ctxDone, worker, running>>

(* Enqueue, the key already waiting: keep the higher trigger, send nothing *)
EnqueueMerge(p, k, tr) ==
    /\ p \notin sending
    /\ ~closed
    /\ k \in DOMAIN pending
    /\ pending' = [pending EXCEPT ![k] = Line!Higher(@, tr)]
    /\ asked' = [asked EXCEPT ![k] = @ \cup {tr}]
    /\ UNCHANGED <<order, kick, closed, ctxDone, sending, worker, running>>

(* Faulty variant: the token is given up, the channel empty or not.        *)
SendKickLost(p) ==
    /\ p \in sending
    /\ sending' = sending \ {p}
    /\ UNCHANGED <<order, pending, kick, closed, ctxDone, worker, running, asked>>

(* The end of Enqueue, outside the mutex: put the token in the channel     *)
(* unless one is there.                                                    *)
SendKick(p) ==
    /\ p \in sending
    /\ sending' = sending \ {p}
    /\ kick' = TRUE
    /\ UNCHANGED <<order, pending, closed, ctxDone, worker, running, asked>>

(* Faulty variant: the keys stay in the slice.                             *)
DropTaskFromMap(t) ==
    LET mine == {k \in DOMAIN pending : TaskOf[k] = t} IN
    /\ pending' = Without(pending, mine)
    /\ asked' = Without(asked, mine)
    /\ UNCHANGED <<order, kick, closed, ctxDone, sending, worker, running>>

(* DropTask: remove the task's jobs from the slice and from the map.       *)
DropTask(t) ==
    LET mine == {k \in DOMAIN pending : TaskOf[k] = t} IN
    /\ order' = SelectAt(order, {i \in DOMAIN order : TaskOf[order[i]] # t})
    /\ pending' = Without(pending, mine)
    /\ asked' = Without(asked, mine)
    /\ UNCHANGED <<kick, closed, ctxDone, sending, worker, running>>

(* Faulty variant: nobody is woken up.                                     *)
CloseSilently ==
    /\ ctxDone
    /\ closed' = TRUE
    /\ UNCHANGED <<order, pending, kick, ctxDone, sending, worker, running, asked>>

(* Close: called by Engine.Shutdown, which main calls once the             *)
(* application's context is done.                                          *)
Close ==
    /\ ctxDone
    /\ closed' = TRUE
    /\ kick' = TRUE
    /\ UNCHANGED <<order, pending, ctxDone, sending, worker, running, asked>>

CancelCtx ==
    /\ ctxDone' = TRUE
    /\ UNCHANGED <<order, pending, kick, closed, sending, worker, running, asked>>

-----------------------------------------------------------------------------
(* Take, in the critical section, with something queued: whatever the      *)
(* state of the context and of the queue, the first job is handed out.     *)
TakeJob ==
    /\ worker = "lock"
    /\ order # << >>
    /\ worker' = "run"
    /\ running' = {[key |-> Head(order), trigger |-> pending[Head(order)]]}
    /\ order' = Tail(order)
    /\ pending' = Without(pending, {Head(order)})
    /\ asked' = Without(asked, {Head(order)})
    /\ UNCHANGED <<kick, closed, ctxDone, sending>>

(* Take, in the critical section, with nothing queued: give up on a closed *)
(* queue, otherwise go and wait outside the mutex.                         *)
TakeNothing ==
    /\ worker = "lock"
    /\ order = << >>
    /\ worker' = IF closed THEN "exit" ELSE "select"
    /\ UNCHANGED <<order, pending, kick, closed, ctxDone, sending, asked, running>>

(* The select of Take: a token sends the worker round the loop again.      *)
WakeUp ==
    /\ worker = "select"
    /\ kick
    /\ kick' = FALSE
    /\ worker' = "lock"
    /\ UNCHANGED <<order, pending, closed, ctxDone, sending, running, asked>>

(* Faulty variant: the worker leaves when it is idle for long.             *)
GiveUpIdle ==
    /\ worker = "select"
    /\ worker' = "exit"
    /\ UNCHANGED <<order, pending, kick, closed, ctxDone, sending, asked, running>>

(* The select of Take: a cancelled context ends the worker, even when a    *)
(* token is there too.                                                     *)
GiveUp ==
    /\ worker = "select"
    /\ ctxDone
    /\ worker' = "exit"
    /\ UNCHANGED <<order, pending, kick, closed, ctxDone, sending, asked, running>>

(* Engine.run returns: back to Take.                                       *)
FinishJob ==
    /\ worker = "run"
    /\ worker' = "lock"
    /\ running' = {}
    /\ UNCHANGED <<order, pending, kick, closed, ctxDone, sending, asked>>

-----------------------------------------------------------------------------
Worker == TakeJob \/ TakeNothing \/ WakeUp \/ GiveUp \/ FinishJob

QueueNext ==
    \/ \E p \in Producer, k \in Key, tr \in UsedTrigger :
            EnqueueNew(p, k, tr) \/ EnqueueMerge(p, k, tr)
    \/ \E p \in Producer : SendKick(p)
    \/ \E t \in Task : DropTask(t)
    \/ Close
    \/ CancelCtx
    \/ Worker

SafeQueueSpec == QueueInit /\ [][QueueNext]_queueVars

(***************************************************************************)
(* The Go scheduler runs every goroutine that can run: the worker takes    *)
(* its next step, a producer that is about to send its token sends it, and *)
(* main, woken by the cancelled context, closes the queue. Nobody has to   *)
(* enqueue, drop a task or cancel the context. That FinishJob happens      *)
(* assumes that a job's I/O ends.                                          *)
(***************************************************************************)
QueueSpec ==
    /\ SafeQueueSpec
    /\ WF_queueVars(Worker)
    /\ \A p \in Producer : WF_queueVars(SendKick(p))
    /\ WF_queueVars(Close)

-----------------------------------------------------------------------------
(* Types of the variables.                                                 *)
QueueTypeOK ==
    /\ order \in Seq(Key)
    /\ DOMAIN pending \subseteq Key
    /\ \A k \in DOMAIN pending : pending[k] \in Line!Trigger
    /\ kick \in BOOLEAN
    /\ closed \in BOOLEAN
    /\ ctxDone \in BOOLEAN
    /\ sending \subseteq Producer
    /\ worker \in {"lock", "select", "run", "exit"}
    /\ running \in SUBSET Line!Job
    /\ DOMAIN asked = DOMAIN pending
    /\ \A k \in DOMAIN asked : asked[k] \subseteq Line!Trigger

(* The slice and the map hold the same keys and the slice holds each once: *)
(* Take and DropTask may index the map with any key of the slice, and a    *)
(* key that waits can always be merged into.                               *)
QueueConsistent ==
    /\ {order[i] : i \in DOMAIN order} = DOMAIN pending
    /\ \A i, j \in DOMAIN order : order[i] = order[j] => i = j

(* No wake-up is lost between the worker's look at an empty queue and its  *)
(* select: while it waits with work (or the end) before it, a token is in  *)
(* the channel or a producer is about to send one.                         *)
NoLostWakeup ==
    worker = "select" /\ (order # << >> \/ closed) => kick \/ sending # {}

(* Merging requests keeps the most important one: a waiting job carries a  *)
(* trigger somebody asked for, and none asked for since it joined the      *)
(* queue ranks higher. (A manual run merged into a cron job is recorded as *)
(* manual.)                                                                *)
HighestTriggerKept ==
    \A k \in DOMAIN pending :
        /\ pending[k] \in asked[k]
        /\ \A tr \in asked[k] :
                Line!triggerRank[tr] <= Line!triggerRank[pending[k]]

(* The queue implements the abstract line of jobs, fairness included: no   *)
(* overtaking, no job lost or run twice for one request, no job stuck.     *)
ImplementsJobLine == Line!LineSpec

(* A queued job is eventually taken, or dropped with its task, or the      *)
(* worker has gone because the application is shutting down.               *)
QueuedJobIsServed ==
    \A k \in Key : k \in DOMAIN pending ~> k \notin DOMAIN pending \/ worker = "exit"

(* Once the application's context is cancelled the worker ends, however    *)
(* many producers still enqueue: main's wait for it returns.               *)
ShutdownEndsWorker == ctxDone ~> worker = "exit"

=============================================================================
