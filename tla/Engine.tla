------------------------------- MODULE Engine -------------------------------
(***************************************************************************)
(* The life cycle of task runners (internal/engine/engine.go, runner.go):  *)
(* bootstrap, reload, removal, manual start and stop of tasks by           *)
(* concurrent goroutines, the trigger loops each runner owns, and the      *)
(* worker that runs one job at a time with a cancel function others may    *)
(* call. The work queue is its abstraction JobLine, which WorkQueue is     *)
(* shown to implement. An action is one critical section of Engine.mu, one *)
(* atomic flag, one queue operation, or one stretch of code that touches   *)
(* none of them.                                                           *)
(***************************************************************************)
EXTENDS JobLine

CONSTANTS
    RunnerId,   \* identities of runner objects, reused once garbage
    Handler,    \* goroutines that make life-cycle calls
    boot,       \* the goroutine of startEngineAsync (one at a time: reloadPending)
                \* or of main's bootstrap
    NoTask, NoRunner,
    MaxCalls    \* bound on the calls, those of bootstrap included

ASSUME EngineAssumption ==
    /\ Task \subseteq Nat \* in the order of the configuration
    /\ RunnerId \subseteq Nat
    /\ TaskOf \in [Key -> Task]
    /\ boot \notin Handler
    /\ NoTask \notin Task
    /\ NoRunner \notin RunnerId
    /\ MaxCalls \in Nat

VARIABLES
    conf,       \* the persisted configuration of each task
    started,    \* Engine.started
    runners,    \* Engine.runners
    runner,     \* the runner objects
    call,       \* where each goroutine is, and its local variables
    wk,         \* where the worker is
    activeTask, \* Engine.activeTask, NoTask when no cancel function is registered
    jobCancelled, \* the context of the job being run is cancelled
    late,       \* tasks one of whose trigger loops was cancelled just after it
                \* had received a tick or an event
    crossed,    \* history: tasks two goroutines were busy with at the same time
    calls       \* history: calls so far, at most MaxCalls

past == <<crossed, calls>>
engineVars == <<conf, started, runners, runner, call, wk, activeTask, jobCancelled, late, past>>
vars == <<lineVars, engineVars>>

Proc == Handler \cup {boot}

(***************************************************************************)
(* A runner: its task, the initializing flag, the sync.Once of stop, and   *)
(* how many sets of trigger loops run under contexts that are not          *)
(* cancelled. Which of its triggers a job carries plays no part here:      *)
(* JobLine settles that, and every request uses one. Two fields are        *)
(* history: astray, that the runner was launched although it was stopped,  *)
(* launched before or no longer in the map, or was put out of the map      *)
(* without a stop; and missed, that it was registered by a reload which    *)
(* had read started too early, when Start had copied the map already.      *)
(***************************************************************************)
NewRunner(t) ==
    [task |-> t, initializing |-> FALSE, stopUsed |-> FALSE, live |-> 0,
     astray |-> FALSE, missed |-> FALSE]
aTrigger == "watch"

(* A goroutine: where it is, the task its call is about, the copies of     *)
(* tasks (bootstrap: to initialise or reload), runners or keys it has yet  *)
(* to go through, whether it saw started set, whether its copy of the task *)
(* is enabled, the runner it holds, and whether it holds the cancel        *)
(* function of the job being run.                                          *)
Idle == [pc |-> "idle", task |-> NoTask, todo |-> {}, keys |-> {}, saw |-> FALSE,
         on |-> FALSE, mine |-> NoRunner, holds |-> FALSE]

Refers(c, r) == c.mine = r \/ r \in c.keys
Unused(r) ==
    /\ \A t \in Task : runners[t] # r
    /\ \A p \in Proc : ~Refers(call[p], r)
    /\ runner[r].live = 0

Init ==
    /\ LineInit
    /\ conf \in [Task -> {"absent", "enabled"}]
    /\ started = FALSE
    /\ runners = [t \in Task |-> NoRunner]
    /\ runner = [r \in RunnerId |-> NewRunner(NoTask)]
    /\ call = [p \in Proc |-> Idle]
    /\ wk = "take"
    /\ activeTask = NoTask
    /\ jobCancelled = FALSE
    /\ late = {}
    /\ crossed = {}
    /\ calls = 0

-----------------------------------------------------------------------------
(* Bookkeeping of the goroutines' program counters.                        *)
At(p, l) == call[p].pc = l
Goto(p, l) == call' = [call EXCEPT ![p].pc = l]
(* The end of a call; of a reload within ReloadAll, the next one follows.  *)
Return(p) ==
    call' = [call EXCEPT ![p] =
                IF p = boot THEN [Idle EXCEPT !.pc = "nextReload", !.todo = call[boot].todo]
                ELSE Idle]

MayCall(p) ==
    /\ At(p, "idle")
    /\ ~cancelled
    /\ calls < MaxCalls
    /\ calls' = calls + 1

(* The tasks a goroutine is busy with: the one its call is about, those of *)
(* which it has a copy to go through, and for EnsureRunning, until Start   *)
(* has launched its copy of the map, all of them. Where p becomes busy     *)
(* with more tasks, those another goroutine is busy with are crossed.      *)
Booting == ~At(boot, "idle") /\ (started => call[boot].pc \in {"snapshot", "launch"})
BusyWith(p) ==
    IF p = boot /\ Booting THEN Task
    ELSE {t \in Task : call[p].task = t \/ \E c \in call[p].todo : c.task = t}
Crosses(p, T) == crossed' = crossed \cup {t \in T : \E q \in Proc \ {p} : t \in BusyWith(q)}

Begin(p, t, l) == call' = [call EXCEPT ![p] = [Idle EXCEPT !.pc = l, !.task = t]]

(* Faulty variants: stop without the cancel, stop without its sync.Once.   *)
StoppedOnPaper(r) == [runner[r] EXCEPT !.stopUsed = TRUE]
StoppedAgain(r) == [runner[r] EXCEPT !.stopUsed = TRUE, !.live = @ - 1]

(* runner.stop: its first call cancels the context of the latest start, if *)
(* there was one; later calls do nothing.                                  *)
Stopped(r) ==
    [runner[r] EXCEPT !.stopUsed = TRUE,
                      !.live = IF runner[r].stopUsed \/ @ = 0 THEN @ ELSE @ - 1]

(* A loop that is cancelled may have a tick or an event in hand.           *)
LoopsCancelled(S) ==
    late' \in {late, late \cup {TaskOf[k] : k \in {k \in Key : \E r \in S :
                    runner[r].task = TaskOf[k] /\ runner[r].live > runner'[r].live}}}

(* Runner objects that nothing refers to any more are garbage; forgetting  *)
(* them makes their identities free.                                       *)
Collected(f) ==
    [r \in RunnerId |->
        IF \/ \E t \in Task : runners'[t] = r
           \/ \E p \in Proc : Refers(call'[p], r)
           \/ f[r].live > 0
        THEN f[r] ELSE NewRunner(NoTask)]

(* runner.start: new loops under a new context, which is born cancelled if *)
(* the application's is.                                                   *)
Launched(r) ==
    [runner[r] EXCEPT
        !.live = IF cancelled THEN @ ELSE @ + 1,
        !.astray = \/ @ \/ runner[r].stopUsed \/ runner[r].live > 0
                   \/ \A t \in Task : runners[t] # r]

(* The runner of t leaves the map and nobody stops it.                     *)
Unstopped(t) ==
    [r \in RunnerId |-> IF runners[t] = r THEN [runner[r] EXCEPT !.astray = TRUE] ELSE runner[r]]

-----------------------------------------------------------------------------
(* initRunner, shared by bootstrap and reload: register a new runner ...   *)
Register(p) ==
    /\ At(p, "register")
    /\ \E r \in RunnerId :
        /\ Unused(r)
        /\ \A q \in RunnerId : Unused(q) => r <= q
        /\ runners' = [runners EXCEPT ![call[p].task] = r]
        /\ call' = [call EXCEPT ![p].pc = "mark", ![p].mine = r]
        /\ runner' = Collected([Unstopped(call[p].task) EXCEPT ![r] =
                        [NewRunner(call[p].task) EXCEPT
                            !.missed = ~call[p].saw /\ started /\ ~At(boot, "snapshot")]])
    /\ UNCHANGED <<lineVars, conf, started, wk, activeTask, jobCancelled, late, past>>

(* ... then raise its initializing flag ...                                *)
Mark(p) ==
    /\ At(p, "mark")
    /\ runner' = [runner EXCEPT ![call[p].mine].initializing = TRUE]
    /\ Goto(p, "init")
    /\ UNCHANGED <<lineVars, conf, started, runners, wk, activeTask, jobCancelled, late, past>>

(* ... run initTask, which may take minutes and may fail ...               *)
InitEnds(p) ==
    /\ At(p, "init")
    /\ runner' = [runner EXCEPT ![call[p].mine].initializing = FALSE]
    /\ Goto(p, "inited") \/ Goto(p, "initFailed")
    /\ UNCHANGED <<lineVars, conf, started, runners, wk, activeTask, jobCancelled, late, past>>

(* ... and on failure take whatever runner the task has out of the map.    *)
(* The failure ends the whole call, Init or ReloadAll included.            *)
InitFailed(p) ==
    /\ At(p, "initFailed")
    /\ runners' = [runners EXCEPT ![call[p].task] = NoRunner]
    /\ call' = [call EXCEPT ![p] = Idle]
    /\ runner' = Collected(Unstopped(call[p].task))
    /\ UNCHANGED <<lineVars, conf, started, wk, activeTask, jobCancelled, late, past>>

-----------------------------------------------------------------------------
(* EnsureRunning on an engine that has not started: resolve the recycle    *)
(* directory, list the enabled tasks, initialise each in turn.             *)
Copies(states) == {c \in [task : Task, on : BOOLEAN] :
                    conf[c.task] \in states /\ c.on = (conf[c.task] = "enabled")}
Foremost(copies) == {c \in copies : \A d \in copies : c.task <= d.task}

BootBegin ==
    /\ MayCall(boot)
    /\ IF started
       THEN Goto(boot, "listTasks") /\ UNCHANGED crossed
       ELSE /\ call' = [call EXCEPT ![boot] = [Idle EXCEPT
                            !.pc = "nextTask", !.todo = Copies({"enabled"})]]
            /\ Crosses(boot, Task)
    /\ UNCHANGED <<lineVars, conf, started, runners, runner, wk, activeTask, jobCancelled, late>>

BootNextTask ==
    /\ At(boot, "nextTask")
    /\ \E c \in Foremost(call[boot].todo) :
            call' = [call EXCEPT ![boot].pc = "register", ![boot].task = c.task,
                                 ![boot].todo = @ \ {c}]
    /\ UNCHANGED <<lineVars, conf, started, runners, runner, wk, activeTask, jobCancelled, late, past>>

BootInited ==
    /\ At(boot, "inited")
    /\ ~started
    /\ call' = [call EXCEPT ![boot].pc = "nextTask", ![boot].task = NoTask,
                            ![boot].mine = NoRunner]
    /\ UNCHANGED <<lineVars, conf, started, runners, runner, wk, activeTask, jobCancelled, late, past>>

(* Start: set started and launch the worker ...                            *)
BootStarted ==
    /\ At(boot, "nextTask")
    /\ call[boot].todo = {}
    /\ started' = TRUE
    /\ Goto(boot, "snapshot")
    /\ UNCHANGED <<lineVars, conf, runners, runner, wk, activeTask, jobCancelled, late, past>>

(* ... copy the map of runners ...                                         *)
BootSnapshot ==
    /\ At(boot, "snapshot")
    /\ call' = [call EXCEPT ![boot].pc = "launch",
                            ![boot].keys = {runners[t] : t \in Task} \ {NoRunner}]
    /\ UNCHANGED <<lineVars, conf, started, runners, runner, wk, activeTask, jobCancelled, late, past>>

(* ... and start each runner of the copy.                                  *)
BootLaunch ==
    /\ At(boot, "launch")
    /\ \E r \in call[boot].keys :
        /\ runner' = [runner EXCEPT ![r] = Launched(r)]
        /\ call' = [call EXCEPT ![boot].keys = @ \ {r}]
    /\ UNCHANGED <<lineVars, conf, started, runners, wk, activeTask, jobCancelled, late, past>>

(* That ends main's bootstrap; startEngineAsync goes on with ReloadAll.    *)
BootLaunched ==
    /\ At(boot, "launch")
    /\ call[boot].keys = {}
    /\ call' = [call EXCEPT ![boot] = Idle] \/ Goto(boot, "listTasks")
    /\ UNCHANGED <<lineVars, conf, started, runners, runner, wk, activeTask, jobCancelled, late, past>>

(* ReloadAll: copy the list of all tasks, reload each from its copy.       *)
ListTasks ==
    /\ At(boot, "listTasks")
    /\ call' = [call EXCEPT ![boot].pc = "nextReload",
                            ![boot].todo = Copies({"enabled", "disabled"})]
    /\ Crosses(boot, {t \in Task : conf[t] # "absent"})
    /\ UNCHANGED <<calls, lineVars, conf, started, runners, runner, wk, activeTask, jobCancelled, late>>

NextReload ==
    /\ At(boot, "nextReload")
    /\ IF call[boot].todo = {} THEN call' = [call EXCEPT ![boot] = Idle]
       ELSE \E c \in Foremost(call[boot].todo) :
                call' = [call EXCEPT ![boot].pc = "readStarted", ![boot].task = c.task,
                                     ![boot].on = c.on, ![boot].todo = @ \ {c}]
    /\ UNCHANGED <<lineVars, conf, started, runners, runner, wk, activeTask, jobCancelled, late, past>>

-----------------------------------------------------------------------------
(* saveTask persists the task, then ReloadTask runs in its own goroutine   *)
(* with the saved copy. Its first step reads started.                      *)
SaveTask(p, t) ==
    /\ MayCall(p)
    /\ \E c \in {"enabled", "disabled"} :
        /\ conf' = [conf EXCEPT ![t] = c]
        /\ call' = [call EXCEPT ![p] = [Idle EXCEPT
                        !.pc = "readStarted", !.task = t, !.on = c = "enabled"]]
    /\ Crosses(p, {t})
    /\ UNCHANGED <<lineVars, started, runners, runner, wk, activeTask, jobCancelled, late>>

(* Faulty variant: a started engine is taken for one that is still starting *)
ReadStartedWrong(p) ==
    /\ At(p, "readStarted")
    /\ call' = [call EXCEPT ![p].pc = "drop", ![p].saw = FALSE]
    /\ UNCHANGED <<lineVars, conf, started, runners, runner, wk, activeTask, jobCancelled, late, past>>

ReadStarted(p) ==
    /\ At(p, "readStarted")
    /\ call' = [call EXCEPT ![p].pc = "drop", ![p].saw = started]
    /\ UNCHANGED <<lineVars, conf, started, runners, runner, wk, activeTask, jobCancelled, late, past>>

(* handleDeleteTask: the configuration loses the task, then RemoveTask.    *)
DeleteTask(p, t) ==
    /\ MayCall(p)
    /\ conf[t] # "absent"
    /\ conf' = [conf EXCEPT ![t] = "absent"]
    /\ Begin(p, t, "drop")
    /\ Crosses(p, {t})
    /\ UNCHANGED <<lineVars, started, runners, runner, wk, activeTask, jobCancelled, late>>

(* Both: withdraw the queued jobs, take the runner out of the map, stop it *)
Drop(p) ==
    /\ At(p, "drop")
    /\ Withdraw(call[p].task)
    /\ Goto(p, "pop")
    /\ UNCHANGED <<conf, started, runners, runner, wk, activeTask, jobCancelled, late, past>>

(* Faulty variant: the runner is looked up too late.                       *)
PopThenLook(p) ==
    /\ At(p, "pop")
    /\ runners' = [runners EXCEPT ![call[p].task] = NoRunner]
    /\ Goto(p, "stopOld")
    /\ UNCHANGED <<lineVars, conf, started, runner, wk, activeTask, jobCancelled, late, past>>

Pop(p) ==
    /\ At(p, "pop")
    /\ runners' = [runners EXCEPT ![call[p].task] = NoRunner]
    /\ call' = [call EXCEPT ![p].pc = "stopOld", ![p].mine = runners[call[p].task]]
    /\ UNCHANGED <<lineVars, conf, started, runner, wk, activeTask, jobCancelled, late, past>>

StopOld(p) ==
    /\ At(p, "stopOld")
    /\ IF call[p].on
       THEN call' = [call EXCEPT ![p].pc = "register", ![p].mine = NoRunner]
       ELSE Return(p)
    /\ UNCHANGED <<lineVars, conf, started, runners, wk, activeTask, jobCancelled, past>>
    /\ runner' = Collected(IF call[p].mine = NoRunner THEN runner
                           ELSE [runner EXCEPT ![call[p].mine] = Stopped(call[p].mine)])
    /\ LoopsCancelled({call[p].mine} \ {NoRunner})

(* The end of ReloadTask: start the new runner if the engine had started   *)
(* when the call began.                                                    *)
Inited(p) ==
    /\ At(p, "inited")
    /\ p = boot => started
    /\ runner' = IF call[p].saw
                 THEN [runner EXCEPT ![call[p].mine] = Launched(call[p].mine)]
                 ELSE runner
    /\ Return(p)
    /\ UNCHANGED <<lineVars, conf, started, runners, wk, activeTask, jobCancelled, late, past>>

-----------------------------------------------------------------------------
(* StartTask: look the runner up ...                                       *)
StartTask(p, t) ==
    /\ MayCall(p)
    /\ runners[t] # NoRunner
    /\ call' = [call EXCEPT ![p] = [Idle EXCEPT
                    !.pc = "startCheck", !.task = t, !.mine = runners[t]]]
    /\ Crosses(p, {t})
    /\ UNCHANGED <<lineVars, conf, started, runners, runner, wk, activeTask, jobCancelled, late>>

(* ... refuse if it is initializing ...                                    *)
StartCheck(p) ==
    /\ At(p, "startCheck")
    /\ IF runner[call[p].mine].initializing
       THEN Return(p)
       ELSE call' = [call EXCEPT ![p].pc = "trigger",
                        ![p].keys = {k \in Key : TaskOf[k] = call[p].task}]
    /\ UNCHANGED <<lineVars, conf, started, runners, runner, wk, activeTask, jobCancelled, late, past>>

(* ... and enqueue a job per scope (a closed queue ignores it).            *)
StartTrigger(p) ==
    /\ At(p, "trigger")
    /\ \E k \in call[p].keys :
        /\ \/ Request(k, aTrigger)
           \/ ~accepting /\ UNCHANGED lineVars
        /\ call' = [call EXCEPT ![p] =
                        IF call[p].keys = {k} THEN Idle
                        ELSE [call[p] EXCEPT !.keys = @ \ {k}]]
    /\ UNCHANGED <<conf, started, runners, runner, wk, activeTask, jobCancelled, late, past>>

(* StopTask: look the runner up, withdraw its task's jobs, stop it ...     *)
StopTask(p, t) ==
    /\ MayCall(p)
    /\ runners[t] # NoRunner
    /\ call' = [call EXCEPT ![p] = [Idle EXCEPT
                    !.pc = "stopDrop", !.task = t, !.mine = runners[t]]]
    /\ Crosses(p, {t})
    /\ UNCHANGED <<lineVars, conf, started, runners, runner, wk, activeTask, jobCancelled, late>>

StopDrop(p) ==
    /\ At(p, "stopDrop")
    /\ Withdraw(call[p].task)
    /\ Goto(p, "stopRunner")
    /\ UNCHANGED <<conf, started, runners, runner, wk, activeTask, jobCancelled, late, past>>

StopRunner(p) ==
    /\ At(p, "stopRunner")
    /\ runner' = [runner EXCEPT ![call[p].mine] = Stopped(call[p].mine)]
    /\ LoopsCancelled({call[p].mine})
    /\ Goto(p, "cancelActive")
    /\ UNCHANGED <<lineVars, conf, started, runners, wk, activeTask, jobCancelled, past>>

(* Faulty variant: cancelActive does not compare the tasks.                *)
CancelActiveAny(p) ==
    /\ At(p, "cancelActive")
    /\ call' = [call EXCEPT ![p].pc = "callCancel", ![p].holds = activeTask # NoTask]
    /\ activeTask' = NoTask
    /\ UNCHANGED <<lineVars, conf, started, runners, runner, wk, jobCancelled, late, past>>

(* ... then cancelActive: under the lock, take the cancel function if it   *)
(* is this task's ...                                                      *)
CancelActive(p) ==
    /\ At(p, "cancelActive")
    /\ call' = [call EXCEPT ![p].pc = "callCancel",
                            ![p].holds = activeTask = call[p].task]
    /\ activeTask' = IF activeTask = call[p].task THEN NoTask ELSE activeTask
    /\ UNCHANGED <<lineVars, conf, started, runners, runner, wk, jobCancelled, late, past>>

(* ... and call it after the lock is released. If the job has ended in the *)
(* meantime the function cancels a context nobody uses any more.           *)
CallCancel(p) ==
    /\ At(p, "callCancel")
    /\ jobCancelled' = (jobCancelled \/ call[p].holds)
    /\ Return(p)
    /\ UNCHANGED <<lineVars, conf, started, runners, runner, wk, activeTask, late, past>>

-----------------------------------------------------------------------------
(* A trigger loop (cron or watcher) of a runner delivers a job. A loop     *)
(* whose context has just been cancelled, when it still has an event, may  *)
(* pick that case of its select; sooner or later it picks the other.       *)
Fire(r, k) ==
    /\ runner[r].live > 0
    /\ TaskOf[k] = runner[r].task
    /\ Request(k, aTrigger)
    /\ UNCHANGED engineVars

LateFire(k) ==
    /\ TaskOf[k] \in late
    /\ Request(k, aTrigger)
    /\ UNCHANGED engineVars

LateEnd(t) ==
    /\ t \in late
    /\ late' = late \ {t}
    /\ UNCHANGED <<lineVars, conf, started, runners, runner, call, wk, activeTask, jobCancelled, past>>

-----------------------------------------------------------------------------
(* The worker (it exists once the engine has started): Take, ...           *)
WorkerTake ==
    /\ started
    /\ wk = "take"
    /\ Serve
    /\ wk' = "check"
    /\ UNCHANGED <<conf, started, runners, runner, call, activeTask, jobCancelled, late, past>>

JobTask == TaskOf[(CHOOSE j \in running : TRUE).key]

(* ... look the task up: skip the job if it is gone or disabled, ...       *)
WorkerSkip ==
    /\ wk = "check"
    /\ conf[JobTask] # "enabled"
    /\ Finish
    /\ wk' = "take"
    /\ UNCHANGED <<conf, started, runners, runner, call, activeTask, jobCancelled, late, past>>

WorkerAccept ==
    /\ wk = "check"
    /\ conf[JobTask] = "enabled"
    /\ wk' = "register"
    /\ UNCHANGED <<lineVars, conf, started, runners, runner, call, activeTask, jobCancelled, late, past>>

(* ... register the job's cancel function, ...                             *)
WorkerRegister ==
    /\ wk = "register"
    /\ activeTask' = JobTask
    /\ wk' = "work"
    /\ UNCHANGED <<lineVars, conf, started, runners, runner, call, jobCancelled, late, past>>

(* ... execute it (success, failure and cancellation all end here) and,    *)
(* deferred, cancel the job's context and its registration. From here on a *)
(* cancel function still held by a StopTask cancels nothing.               *)
WorkerDone ==
    /\ wk = "work"
    /\ activeTask' = IF activeTask = JobTask THEN NoTask ELSE activeTask
    /\ call' = [p \in Proc |-> [call[p] EXCEPT !.holds = FALSE]]
    /\ jobCancelled' = FALSE
    /\ Finish
    /\ wk' = "take"
    /\ UNCHANGED <<conf, started, runners, runner, late, past>>

WorkerLeave ==
    /\ started
    /\ wk = "take"
    /\ Leave
    /\ UNCHANGED engineVars

-----------------------------------------------------------------------------
(* The exit signal: the application's context is cancelled and, with it,   *)
(* the contexts of all trigger loops.                                      *)
AppCancel ==
    /\ ~cancelled
    /\ Cancel
    /\ runner' = [r \in RunnerId |-> [runner[r] EXCEPT !.live = 0]]
    /\ LoopsCancelled(RunnerId)
    /\ UNCHANGED <<conf, started, runners, call, wk, activeTask, jobCancelled, past>>

(* Shutdown: close the queue, stop the registered runners (their loops are *)
(* already cancelled).                                                     *)
Shutdown ==
    /\ accepting
    /\ CloseLine
    /\ runner' = [r \in RunnerId |->
                    IF \E t \in Task : runners[t] = r THEN Stopped(r) ELSE runner[r]]
    /\ UNCHANGED <<conf, started, runners, call, wk, activeTask, jobCancelled, late, past>>

-----------------------------------------------------------------------------
InitSteps(p) == Register(p) \/ Mark(p) \/ InitEnds(p) \/ InitFailed(p)

BootSteps ==
    BootNextTask \/ BootInited \/ BootStarted \/ BootSnapshot \/ BootLaunch \/ BootLaunched
    \/ ListTasks \/ NextReload

CallSteps(p) ==
    \/ ReadStarted(p) \/ Drop(p) \/ Pop(p) \/ StopOld(p) \/ Inited(p)
    \/ StartCheck(p) \/ StartTrigger(p)
    \/ StopDrop(p) \/ StopRunner(p) \/ CancelActive(p) \/ CallCancel(p)

WorkerSteps ==
    \/ WorkerTake \/ WorkerSkip \/ WorkerAccept \/ WorkerRegister
    \/ WorkerDone \/ WorkerLeave

Calls ==
    \E p \in Handler, t \in Task :
        SaveTask(p, t) \/ DeleteTask(p, t) \/ StartTask(p, t) \/ StopTask(p, t)

Next ==
    \/ BootBegin
    \/ BootSteps
    \/ \E p \in Proc : InitSteps(p)
    \/ Calls
    \/ \E p \in Proc : CallSteps(p)
    \/ \E r \in RunnerId, k \in Key : Fire(r, k)
    \/ \E k \in Key : LateFire(k)
    \/ \E t \in Task : LateEnd(t)
    \/ WorkerSteps
    \/ AppCancel
    \/ Shutdown

(***************************************************************************)
(* Every goroutine that is inside a call goes on (initTask and a job's I/O *)
(* end), the worker works, a cancelled loop ends, main shuts down once the *)
(* context is cancelled. Nobody has to call, trigger or cancel.            *)
(***************************************************************************)
Spec ==
    /\ Init /\ [][Next]_vars
    /\ \A p \in Handler : WF_vars(InitSteps(p) \/ CallSteps(p))
    /\ WF_vars(InitSteps(boot) \/ CallSteps(boot) \/ BootSteps)
    /\ WF_vars(WorkerSteps)
    /\ \A t \in Task : WF_vars(LateEnd(t))
    /\ WF_vars(Shutdown)

-----------------------------------------------------------------------------
(* Types of the variables.                                                 *)
TypeOK ==
    /\ LineTypeOK
    /\ conf \in [Task -> {"absent", "enabled", "disabled"}]
    /\ started \in BOOLEAN
    /\ runners \in [Task -> RunnerId \cup {NoRunner}]
    /\ \A r \in RunnerId : /\ runner[r].task \in Task \cup {NoTask}
                           /\ runner[r].live \in 0 .. 2
    /\ \A p \in Proc : call[p].mine \in RunnerId \cup {NoRunner}
    /\ wk \in {"take", "check", "register", "work"}
    /\ activeTask \in Task \cup {NoTask}
    /\ late \subseteq Task
    /\ crossed \subseteq Task

Settled(t) == At(boot, "idle") /\ \A p \in Handler : call[p].task # t

(* Trigger loops never outlive their runner's registration: when no call   *)
(* about a task is under way, a runner of it with running loops is the one *)
(* in the map, which is the only one StopTask, a reload or a removal can   *)
(* reach, nobody has stopped it, and it has one set of loops, so that one  *)
(* stop ends them. However calls overlap, this fails only for a task that  *)
(* two calls were about at the same time, and then only for a runner that  *)
(* was launched, or left the map, out of its turn.                         *)
NoStrayLoops ==
    \A r \in RunnerId :
        runner[r].live > 0 /\ Settled(runner[r].task)
            => \/ /\ runners[runner[r].task] = r
                  /\ runner[r].live = 1 /\ ~runner[r].stopUsed
               \/ runner[r].astray /\ runner[r].task \in crossed

(* A task whose runner is registered and was not stopped is watched: in a  *)
(* started engine, once its calls have settled, its loops run. However     *)
(* calls overlap, the one that is forgotten is the runner of a reload that *)
(* overlapped bootstrap: it read started before Start set it and           *)
(* registered after Start's copy.                                          *)
RegisteredIsWatched ==
    \A t \in Task :
        started /\ ~cancelled /\ Settled(t) /\ runners[t] # NoRunner
            => LET r == runner[runners[t]] IN r.stopUsed \/ r.live > 0 \/ (r.missed /\ t \in crossed)

(* The two without their exceptions, which do not hold.                    *)
NeverStray ==
    \A r \in RunnerId :
        runner[r].live > 0 /\ Settled(runner[r].task)
            => /\ runners[runner[r].task] = r
               /\ runner[r].live = 1 /\ ~runner[r].stopUsed
AlwaysWatched ==
    \A t \in Task :
        started /\ ~cancelled /\ Settled(t) /\ runners[t] # NoRunner
            => LET r == runner[runners[t]] IN r.stopUsed \/ r.live > 0

(* A cancel function held by a StopTask, and the one registered, belong to *)
(* the job that is being run, and it is a job of the task named: stopping  *)
(* a task never cancels a job of another one.                              *)
CancelHitsOwnJob ==
    /\ \A p \in Proc : call[p].holds =>
            wk = "work" /\ JobTask = call[p].task
    /\ activeTask # NoTask => wk = "work" /\ JobTask = activeTask

Executing(t) == wk \in {"register", "work"} /\ JobTask = t

(* A task that has been stopped, disabled or removed, that nobody calls    *)
(* about again and that has no loops astray falls silent: no loops,        *)
(* nothing queued (unless the worker has gone), nothing running. One that  *)
(* is disabled or removed runs nothing any more even if loops are astray.  *)
StoppedFallsSilent ==
    \A t \in Task :
        /\ <>[](/\ started
                /\ Settled(t)
                /\ runners[t] = NoRunner \/ runner[runners[t]].stopUsed
                /\ \A r \in RunnerId : runner[r].task = t => ~runner[r].astray)
           => <>[](/\ \A r \in RunnerId : runner[r].task = t => runner[r].live = 0
                   /\ gone \/ \A i \in DOMAIN line : TaskOf[line[i].key] # t
                   /\ ~Executing(t))
        /\ <>[](conf[t] # "enabled") => <>[]~Executing(t)

=============================================================================
