---------------------------- MODULE EngineProofs ----------------------------
(***************************************************************************)
(* Proofs about Engine, for any tasks, keys, goroutines and runners, and   *)
(* however calls overlap: what StopTask cancels; that trigger loops stay   *)
(* with the runner that is registered, and that a registered runner is     *)
(* watched, but for tasks two goroutines were busy with at the same time.  *)
(***************************************************************************)
EXTENDS Engine, TLAPS

(* Where bootstrap and reloads of everything may be, and the handlers.     *)
Making == {"mark", "init", "inited", "initFailed"}
Clearing == {"drop", "pop", "stopOld"}
Stopping == {"stopDrop", "stopRunner", "cancelActive", "callCancel"}
BetweenTasks == {"nextTask", "snapshot", "launch", "listTasks", "nextReload"}
Reloading == {"readStarted", "register"} \cup Clearing \cup Making
HandlerPC == {"idle", "startCheck", "trigger"} \cup Reloading \cup Stopping
BootPC == {"idle"} \cup BetweenTasks \cup Reloading

Calling == [pc : HandlerPC \cup BootPC, task : Task \cup {NoTask},
            todo : SUBSET [task : Task, on : BOOLEAN], keys : SUBSET (RunnerId \cup Key),
            saw : BOOLEAN, on : BOOLEAN, mine : RunnerId \cup {NoRunner}, holds : BOOLEAN]
Running == [task : Task \cup {NoTask}, initializing : BOOLEAN, stopUsed : BOOLEAN, live : Nat,
            astray : BOOLEAN, missed : BOOLEAN]

CallsTyped ==
    /\ runners \in [Task -> RunnerId \cup {NoRunner}] /\ started \in BOOLEAN
    /\ call \in [Proc -> Calling]
    /\ call[boot].pc \in BootPC /\ \A h \in Handler : call[h].pc \in HandlerPC
    /\ \A p \in Proc : call[p].pc \notin BetweenTasks \cup {"idle"} => call[p].task \in Task

(* A cancel function is held only between cancelActive and its call.       *)
HeldInCall == \A p \in Proc : call[p].holds => call[p].pc = "callCancel"

CancelInv == CallsTyped /\ HeldInCall /\ CancelHitsOwnJob

-----------------------------------------------------------------------------
LEMMA MovedOn ==
    ASSUME CallsTyped, NEW p \in Proc, NEW x \in Calling, call' = [call EXCEPT ![p] = x],
           runners' \in [Task -> RunnerId \cup {NoRunner}], started' \in BOOLEAN,
           p = boot => x.pc \in BootPC, p \in Handler => x.pc \in HandlerPC,
           x.pc \notin BetweenTasks \cup {"idle"} => x.task \in Task
    PROVE  CallsTyped' /\ \A q \in Proc : call'[q] = IF q = p THEN x ELSE call[q]
BY EngineAssumption DEF CallsTyped, Proc

LEMMA IdleIsCalling == Idle \in Calling /\ Idle.pc = "idle" /\ ~Idle.holds /\ Idle.task = NoTask
BY DEF Idle, Calling, BootPC

LEMMA CallIs ==
    ASSUME CallsTyped, NEW p \in Proc
    PROVE  /\ call[p] \in Calling
           /\ p = boot => call[p].pc \in BootPC
           /\ p \in Handler => call[p].pc \in HandlerPC
           /\ call[p].pc \notin BetweenTasks \cup {"idle"} => call[p].task \in Task
           /\ p \in Handler => p # boot
BY EngineAssumption DEF CallsTyped, Proc

(* A step of a call: where it stands afterwards, and what it may hold.     *)
Moved(p, x) ==
    /\ x \in Calling
    /\ call' = [call EXCEPT ![p] = x]
    /\ p = boot => x.pc \in BootPC
    /\ p \in Handler => x.pc \in HandlerPC
    /\ x.pc \notin BetweenTasks \cup {"idle"} => x.task \in Task
    /\ x.holds => x.pc = "callCancel" /\ call[p].pc = "cancelActive"

LEMMA GoesTo ==
    ASSUME CallsTyped, HeldInCall, NEW p \in Proc, NEW l \in BootPC \cup HandlerPC, Goto(p, l),
           p = boot => l \in BootPC, p \in Handler => l \in HandlerPC,
           l \notin BetweenTasks \cup {"idle"} => call[p].task \in Task,
           call[p].pc # "callCancel"
    PROVE  \E x \in Calling : Moved(p, x)
<1> DEFINE x == [call[p] EXCEPT !.pc = l]
<1>1. x \in Calling /\ x.pc = l /\ x.task = call[p].task /\ x.holds = call[p].holds
  BY CallIs DEF Calling
<1>2. call' = [call EXCEPT ![p] = x]
  BY DEF Goto
<1>3. ~call[p].holds
  BY DEF HeldInCall
<1> HIDE DEF x
<1>4. QED BY <1>1, <1>2, <1>3 DEF Moved

LEMMA InitMoves ==
    ASSUME CallsTyped, HeldInCall, NEW p \in Proc, InitSteps(p)
    PROVE  /\ \E x \in Calling : Moved(p, x)
           /\ runners' \in [Task -> RunnerId \cup {NoRunner}]
<1>1. CASE Register(p)
  <2>1. PICK r \in RunnerId :
           /\ call' = [call EXCEPT ![p].pc = "mark", ![p].mine = r]
           /\ runners' = [runners EXCEPT ![call[p].task] = r]
    BY <1>1 DEF Register
  <2> DEFINE x == [call[p] EXCEPT !.pc = "mark", !.mine = r]
  <2>2. call[p].pc = "register" /\ call[p].task \in Task /\ ~call[p].holds
    BY <1>1, CallIs DEF Register, At, BetweenTasks, HeldInCall
  <2>3. x \in Calling /\ x.pc = "mark" /\ x.task = call[p].task /\ x.holds = call[p].holds
    BY CallIs DEF Calling, BootPC, Reloading, Making
  <2>4. call' = [call EXCEPT ![p] = x]
    BY <2>1
  <2>5. runners' \in [Task -> RunnerId \cup {NoRunner}]
    BY <2>1 DEF CallsTyped
  <2> HIDE DEF x
  <2>6. QED BY <2>2, <2>3, <2>4, <2>5 DEF Moved, BootPC, HandlerPC, Reloading, Making
<1>2. CASE Mark(p)
  <2>1. call[p].pc = "mark" /\ Goto(p, "init") /\ runners' = runners
    BY <1>2 DEF Mark, At
  <2>2. QED BY <2>1, GoesTo, CallIs DEF CallsTyped, BootPC, HandlerPC, BetweenTasks, Reloading, Making
<1>3. CASE InitEnds(p)
  <2>1. /\ call[p].pc = "init" /\ runners' = runners
        /\ Goto(p, "inited") \/ Goto(p, "initFailed")
    BY <1>3 DEF InitEnds, At
  <2>2. QED BY <2>1, GoesTo, CallIs DEF CallsTyped, BootPC, HandlerPC, BetweenTasks, Reloading, Making
<1>4. CASE InitFailed(p)
  BY <1>4, IdleIsCalling DEF InitFailed, At, CallsTyped, BootPC, HandlerPC, Moved
<1>5. QED BY <1>1, <1>2, <1>3, <1>4 DEF InitSteps

LEMMA BootMoves ==
    ASSUME CallsTyped, HeldInCall, BootBegin \/ BootSteps
    PROVE  /\ \E x \in Calling : Moved(boot, x)
           /\ runners' = runners
<1> USE DEF BootPC, HandlerPC, BetweenTasks, Reloading
<1>0. /\ boot \in Proc /\ boot \notin Handler /\ call[boot] \in Calling
      /\ \A st : Copies(st) \subseteq [task : Task, on : BOOLEAN]
  BY EngineAssumption DEF Proc, CallsTyped, Copies
<1>1. CASE BootBegin
  <2>1. CASE Goto(boot, "listTasks")
    BY <1>0, <1>1, <2>1, GoesTo DEF BootBegin, MayCall, At
  <2>2. CASE call' = [call EXCEPT ![boot] = [Idle EXCEPT
                        !.pc = "nextTask", !.todo = Copies({"enabled"})]]
    <3> DEFINE x == [Idle EXCEPT !.pc = "nextTask", !.todo = Copies({"enabled"})]
    <3>1. x \in Calling /\ x.pc = "nextTask" /\ ~x.holds
      BY <1>0 DEF Idle, Calling
    <3>2. call' = [call EXCEPT ![boot] = x]
      BY <2>2
    <3> HIDE DEF x
    <3>3. QED BY <1>0, <1>1, <3>1, <3>2 DEF Moved, BootBegin
  <2>3. QED BY <1>1, <2>1, <2>2 DEF BootBegin
<1>2. CASE BootNextTask
  <2>1. PICK c \in call[boot].todo :
            call' = [call EXCEPT ![boot].pc = "register", ![boot].task = c.task,
                                 ![boot].todo = @ \ {c}]
    BY <1>2 DEF BootNextTask, Foremost
  <2> DEFINE x == [call[boot] EXCEPT !.pc = "register", !.task = c.task, !.todo = @ \ {c}]
  <2>2. x \in Calling /\ x.pc = "register" /\ x.task \in Task /\ x.holds = call[boot].holds
    BY <1>0 DEF Calling
  <2>3. call' = [call EXCEPT ![boot] = x] /\ ~call[boot].holds
    BY <1>0, <1>2, <2>1 DEF BootNextTask, At, HeldInCall
  <2> HIDE DEF x
  <2>4. QED BY <1>0, <1>2, <2>2, <2>3 DEF Moved, BootNextTask
<1>3. CASE BootInited
  <2> DEFINE x == [call[boot] EXCEPT !.pc = "nextTask", !.task = NoTask, !.mine = NoRunner]
  <2>1. x \in Calling /\ x.pc = "nextTask" /\ x.holds = call[boot].holds
    BY <1>0 DEF Calling
  <2>2. call' = [call EXCEPT ![boot] = x] /\ ~call[boot].holds
    BY <1>0, <1>3 DEF BootInited, At, HeldInCall
  <2> HIDE DEF x
  <2>3. QED BY <1>0, <1>3, <2>1, <2>2 DEF Moved, BootInited
<1>4. CASE BootStarted
  BY <1>0, <1>4, GoesTo DEF BootStarted, At
<1>5. CASE BootSnapshot
  <2> DEFINE x == [call[boot] EXCEPT !.pc = "launch",
                                     !.keys = {runners[t] : t \in Task} \ {NoRunner}]
  <2>0. {runners[t] : t \in Task} \ {NoRunner} \subseteq RunnerId
    BY DEF CallsTyped
  <2>1. x \in Calling /\ x.pc = "launch" /\ x.holds = call[boot].holds
    BY <1>0, <2>0 DEF Calling
  <2>2. call' = [call EXCEPT ![boot] = x] /\ ~call[boot].holds
    BY <1>0, <1>5 DEF BootSnapshot, At, HeldInCall
  <2> HIDE DEF x
  <2>3. QED BY <1>0, <1>5, <2>1, <2>2 DEF Moved, BootSnapshot
<1>6. CASE BootLaunch
  <2>1. PICK r \in call[boot].keys : call' = [call EXCEPT ![boot].keys = @ \ {r}]
    BY <1>6 DEF BootLaunch
  <2> DEFINE x == [call[boot] EXCEPT !.keys = @ \ {r}]
  <2>2. x \in Calling /\ x.pc = call[boot].pc /\ x.holds = call[boot].holds
    BY <1>0 DEF Calling
  <2>3. call' = [call EXCEPT ![boot] = x] /\ call[boot].pc = "launch" /\ ~call[boot].holds
    BY <1>0, <1>6, <2>1 DEF BootLaunch, At, HeldInCall
  <2> HIDE DEF x
  <2>4. QED BY <1>0, <1>6, <2>2, <2>3 DEF Moved, BootLaunch
<1>7. CASE BootLaunched
  <2>1. CASE call' = [call EXCEPT ![boot] = Idle]
    BY <1>0, <1>7, <2>1, IdleIsCalling DEF BootLaunched, Moved
  <2>2. CASE Goto(boot, "listTasks")
    BY <1>0, <1>7, <2>2, GoesTo DEF BootLaunched, At
  <2>3. QED BY <1>7, <2>1, <2>2 DEF BootLaunched
<1>8. CASE ListTasks
  <2> DEFINE x == [call[boot] EXCEPT !.pc = "nextReload",
                                     !.todo = Copies({"enabled", "disabled"})]
  <2>1. x \in Calling /\ x.pc = "nextReload" /\ x.holds = call[boot].holds
    BY <1>0 DEF Calling
  <2>2. call' = [call EXCEPT ![boot] = x] /\ ~call[boot].holds
    BY <1>0, <1>8 DEF ListTasks, At, HeldInCall
  <2> HIDE DEF x
  <2>3. QED BY <1>0, <1>8, <2>1, <2>2 DEF Moved, ListTasks
<1>9. CASE NextReload
  <2>1. CASE call[boot].todo = {}
    BY <1>0, <1>9, <2>1, IdleIsCalling DEF NextReload, Moved
  <2>2. CASE call[boot].todo # {}
    <3>1. PICK c \in call[boot].todo :
              call' = [call EXCEPT ![boot].pc = "readStarted", ![boot].task = c.task,
                                   ![boot].on = c.on, ![boot].todo = @ \ {c}]
      BY <1>9, <2>2 DEF NextReload, Foremost
    <3> DEFINE x == [call[boot] EXCEPT !.pc = "readStarted", !.task = c.task,
                                       !.on = c.on, !.todo = @ \ {c}]
    <3>2. x \in Calling /\ x.pc = "readStarted" /\ x.task \in Task /\ x.holds = call[boot].holds
      BY <1>0 DEF Calling
    <3>3. call' = [call EXCEPT ![boot] = x] /\ ~call[boot].holds
      BY <1>0, <1>9, <3>1 DEF NextReload, At, HeldInCall
    <3> HIDE DEF x
    <3>4. QED BY <1>0, <1>9, <3>2, <3>3 DEF Moved, NextReload
  <2>3. QED BY <2>1, <2>2
<1>10. QED
  BY <1>1, <1>2, <1>3, <1>4, <1>5, <1>6, <1>7, <1>8, <1>9 DEF BootSteps

LEMMA CallsMove ==
    ASSUME CallsTyped, HeldInCall, NEW p \in Proc, CallSteps(p)
    PROVE  /\ \E x \in Calling : Moved(p, x)
           /\ runners' \in [Task -> RunnerId \cup {NoRunner}]
<1> USE DEF BootPC, HandlerPC, BetweenTasks, Reloading, Clearing, Making, Stopping
<1>0. /\ call[p] \in Calling
      /\ p = boot => call[p].pc \in BootPC
      /\ p \in Handler => call[p].pc \in HandlerPC /\ p # boot
      /\ call[p].pc \notin BetweenTasks \cup {"idle"} => call[p].task \in Task
      /\ runners \in [Task -> RunnerId \cup {NoRunner}]
  BY CallIs DEF CallsTyped
<1>1. ASSUME Return(p), call[p].pc # "idle" PROVE \E x \in Calling : Moved(p, x)
  <2>1. CASE p = boot
    <3> DEFINE x == [Idle EXCEPT !.pc = "nextReload", !.todo = call[boot].todo]
    <3>1. x \in Calling /\ x.pc = "nextReload" /\ ~x.holds
      BY <1>0, <2>1 DEF Idle, Calling
    <3>2. call' = [call EXCEPT ![p] = x]
      BY <1>1, <2>1 DEF Return
    <3> HIDE DEF x
    <3>3. QED BY <1>0, <2>1, <3>1, <3>2 DEF Moved
  <2>2. CASE p # boot
    BY <1>1, <2>2, IdleIsCalling DEF Return, Moved
  <2>3. QED BY <2>1, <2>2
<1>2. CASE ReadStarted(p)
  <2> DEFINE x == [call[p] EXCEPT !.pc = "drop", !.saw = started]
  <2>1. x \in Calling /\ x.pc = "drop" /\ x.task = call[p].task /\ x.holds = call[p].holds
    BY <1>0 DEF Calling, CallsTyped
  <2>2. call' = [call EXCEPT ![p] = x] /\ call[p].pc = "readStarted" /\ ~call[p].holds
    BY <1>0, <1>2 DEF ReadStarted, At, HeldInCall
  <2> HIDE DEF x
  <2>3. QED BY <1>0, <1>2, <2>1, <2>2 DEF Moved, ReadStarted
<1>3. CASE Drop(p)
  BY <1>0, <1>3, GoesTo DEF Drop, At
<1>4. CASE Pop(p)
  <2> DEFINE x == [call[p] EXCEPT !.pc = "stopOld", !.mine = runners[call[p].task]]
  <2>0. call[p].pc = "pop" /\ call[p].task \in Task
    BY <1>0, <1>4 DEF Pop, At
  <2>1. x \in Calling /\ x.pc = "stopOld" /\ x.task = call[p].task /\ x.holds = call[p].holds
    BY <1>0, <2>0 DEF Calling
  <2>2. call' = [call EXCEPT ![p] = x] /\ ~call[p].holds
    BY <1>0, <1>4, <2>0 DEF Pop, HeldInCall
  <2>3. runners' \in [Task -> RunnerId \cup {NoRunner}]
    BY <1>0, <1>4 DEF Pop
  <2> HIDE DEF x
  <2>4. QED BY <1>0, <2>0, <2>1, <2>2, <2>3 DEF Moved
<1>5. CASE StopOld(p)
  <2>0. call[p].pc = "stopOld" /\ runners' = runners /\ ~call[p].holds
    BY <1>5 DEF StopOld, At, HeldInCall
  <2>1. CASE call[p].on
    <3> DEFINE x == [call[p] EXCEPT !.pc = "register", !.mine = NoRunner]
    <3>1. x \in Calling /\ x.pc = "register" /\ x.task = call[p].task /\ x.holds = call[p].holds
      BY <1>0 DEF Calling
    <3>2. call' = [call EXCEPT ![p] = x]
      BY <1>5, <2>1 DEF StopOld
    <3> HIDE DEF x
    <3>3. QED BY <1>0, <2>0, <3>1, <3>2 DEF Moved
  <2>2. CASE ~call[p].on
    BY <1>0, <1>1, <1>5, <2>0, <2>2 DEF StopOld
  <2>3. QED BY <1>0, <2>1, <2>2 DEF Calling
<1>6. CASE Inited(p)
  BY <1>0, <1>1, <1>6 DEF Inited, At
<1>7. CASE StartCheck(p)
  <2>0. call[p].pc = "startCheck" /\ runners' = runners /\ ~call[p].holds
    BY <1>7 DEF StartCheck, At, HeldInCall
  <2>1. CASE runner[call[p].mine].initializing
    BY <1>0, <1>1, <1>7, <2>0, <2>1 DEF StartCheck
  <2>2. CASE ~runner[call[p].mine].initializing
    <3> DEFINE x == [call[p] EXCEPT !.pc = "trigger",
                                    !.keys = {k \in Key : TaskOf[k] = call[p].task}]
    <3>1. x \in Calling /\ x.pc = "trigger" /\ x.task = call[p].task /\ x.holds = call[p].holds
      BY <1>0 DEF Calling
    <3>2. call' = [call EXCEPT ![p] = x]
      BY <1>7, <2>2 DEF StartCheck
    <3> HIDE DEF x
    <3>3. QED BY <1>0, <2>0, <3>1, <3>2 DEF Moved
  <2>3. QED BY <2>1, <2>2
<1>8. CASE StartTrigger(p)
  <2>0. call[p].pc = "trigger" /\ runners' = runners /\ ~call[p].holds
    BY <1>8 DEF StartTrigger, At, HeldInCall
  <2>1. PICK k \in call[p].keys :
          call' = [call EXCEPT ![p] = IF call[p].keys = {k} THEN Idle
                                      ELSE [call[p] EXCEPT !.keys = call[p].keys \ {k}]]
    BY <1>8 DEF StartTrigger
  <2>2. CASE call[p].keys = {k}
    BY <1>0, <2>0, <2>1, <2>2, IdleIsCalling DEF Moved
  <2>3. CASE call[p].keys # {k}
    <3> DEFINE x == [call[p] EXCEPT !.keys = call[p].keys \ {k}]
    <3>1. x \in Calling /\ x.pc = "trigger" /\ x.task = call[p].task /\ x.holds = call[p].holds
      BY <1>0, <2>0 DEF Calling
    <3>2. call' = [call EXCEPT ![p] = x]
      BY <2>1, <2>3
    <3> HIDE DEF x
    <3>3. QED BY <1>0, <2>0, <3>1, <3>2 DEF Moved
  <2>4. QED BY <2>2, <2>3
<1>9. CASE StopDrop(p)
  BY <1>0, <1>9, GoesTo DEF StopDrop, At
<1>10. CASE StopRunner(p)
  BY <1>0, <1>10, GoesTo DEF StopRunner, At
<1>11. CASE CancelActive(p)
  <2> DEFINE x == [call[p] EXCEPT !.pc = "callCancel", !.holds = activeTask = call[p].task]
  <2>1. x \in Calling /\ x.pc = "callCancel" /\ x.task = call[p].task
    BY <1>0 DEF Calling
  <2>2. call' = [call EXCEPT ![p] = x] /\ call[p].pc = "cancelActive" /\ runners' = runners
    BY <1>11 DEF CancelActive, At
  <2> HIDE DEF x
  <2>3. QED BY <1>0, <2>1, <2>2 DEF Moved
<1>12. CASE CallCancel(p)
  BY <1>0, <1>1, <1>12 DEF CallCancel, At
<1>13. QED
  BY <1>2, <1>3, <1>4, <1>5, <1>6, <1>7, <1>8, <1>9, <1>10, <1>11, <1>12 DEF CallSteps

(* A call begins.                                                          *)
LEMMA CallBegins ==
    ASSUME CallsTyped, NEW h \in Handler, NEW t \in Task,
           SaveTask(h, t) \/ DeleteTask(h, t) \/ StartTask(h, t) \/ StopTask(h, t)
    PROVE  /\ \E x \in Calling : Moved(h, x)
           /\ UNCHANGED <<runners, started>>
<1> USE DEF BootPC, HandlerPC, BetweenTasks, Reloading, Clearing, Making, Stopping
<1>1. h \in Proc /\ h # boot /\ runners[t] \in RunnerId \cup {NoRunner}
  BY EngineAssumption DEF Proc, CallsTyped
<1>2. ASSUME NEW x \in Calling, call' = [call EXCEPT ![h] = x], ~x.holds, x.pc \in HandlerPC,
             x.task \in Task
      PROVE  Moved(h, x)
  BY <1>1, <1>2 DEF Moved
<1>3. CASE SaveTask(h, t)
  <2>1. PICK c \in {"enabled", "disabled"} :
          call' = [call EXCEPT ![h] = [Idle EXCEPT
                        !.pc = "readStarted", !.task = t, !.on = c = "enabled"]]
    BY <1>3 DEF SaveTask
  <2> DEFINE x == [Idle EXCEPT !.pc = "readStarted", !.task = t, !.on = c = "enabled"]
  <2>2. x \in Calling /\ x.pc = "readStarted" /\ x.task = t /\ ~x.holds
    BY DEF Idle, Calling
  <2>3. call' = [call EXCEPT ![h] = x]
    BY <2>1
  <2> HIDE DEF x
  <2>4. QED BY <1>2, <1>3, <2>2, <2>3 DEF SaveTask
<1>4. CASE DeleteTask(h, t)
  <2> DEFINE x == [Idle EXCEPT !.pc = "drop", !.task = t]
  <2>1. x \in Calling /\ x.pc = "drop" /\ x.task = t /\ ~x.holds
    BY DEF Idle, Calling
  <2>2. call' = [call EXCEPT ![h] = x]
    BY <1>4 DEF DeleteTask, Begin
  <2> HIDE DEF x
  <2>3. QED BY <1>2, <1>4, <2>1, <2>2 DEF DeleteTask
<1>5. CASE StartTask(h, t)
  <2> DEFINE x == [Idle EXCEPT !.pc = "startCheck", !.task = t, !.mine = runners[t]]
  <2>1. x \in Calling /\ x.pc = "startCheck" /\ x.task = t /\ ~x.holds
    BY <1>1 DEF Idle, Calling
  <2>2. call' = [call EXCEPT ![h] = x]
    BY <1>5 DEF StartTask
  <2> HIDE DEF x
  <2>3. QED BY <1>2, <1>5, <2>1, <2>2 DEF StartTask
<1>6. CASE StopTask(h, t)
  <2> DEFINE x == [Idle EXCEPT !.pc = "stopDrop", !.task = t, !.mine = runners[t]]
  <2>1. x \in Calling /\ x.pc = "stopDrop" /\ x.task = t /\ ~x.holds
    BY <1>1 DEF Idle, Calling
  <2>2. call' = [call EXCEPT ![h] = x]
    BY <1>6 DEF StopTask
  <2> HIDE DEF x
  <2>3. QED BY <1>2, <1>6, <2>1, <2>2 DEF StopTask
<1>7. QED BY <1>3, <1>4, <1>5, <1>6

-----------------------------------------------------------------------------
LEMMA CallLeavesWorker ==
    ASSUME CancelInv, NEW p \in Proc, NEW x \in Calling, Moved(p, x), ~x.holds,
           runners' \in [Task -> RunnerId \cup {NoRunner}], started' \in BOOLEAN,
           UNCHANGED <<running, wk, activeTask>>
    PROVE  CancelInv'
<1>1. CallsTyped' /\ \A q \in Proc : call'[q] = IF q = p THEN x ELSE call[q]
  BY MovedOn DEF CancelInv, Moved
<1>2. JobTask' = JobTask
  BY DEF JobTask
<1>3. QED BY <1>1, <1>2 DEF CancelInv, HeldInCall, CancelHitsOwnJob

LEMMA InitIsCancelInv == Init => CancelInv
BY EngineAssumption, IdleIsCalling
   DEF Init, CancelInv, CallsTyped, HeldInCall, CancelHitsOwnJob, BootPC, HandlerPC, Proc

LEMMA NextKeepsCancelInv == CancelInv /\ [Next]_vars => CancelInv'
<1> SUFFICES ASSUME CancelInv, [Next]_vars PROVE CancelInv'
  OBVIOUS
<1>0. CallsTyped /\ HeldInCall /\ CancelHitsOwnJob /\ started \in BOOLEAN
      /\ runners \in [Task -> RunnerId \cup {NoRunner}]
  BY DEF CancelInv, CallsTyped
<1>1. CASE BootBegin \/ BootSteps
  <2>1. /\ UNCHANGED <<lineVars, wk, activeTask>>
        /\ started' \in BOOLEAN
    BY <1>0, <1>1 DEF BootBegin, BootSteps, BootNextTask, BootInited, BootStarted, BootSnapshot,
         BootLaunch, BootLaunched, ListTasks, NextReload
  <2>2. boot \in Proc /\ call[boot].pc # "cancelActive"
    BY <1>0, CallIs DEF Proc, BootPC, BetweenTasks, Reloading, Clearing, Making
  <2>3. QED BY <1>0, <1>1, <2>1, <2>2, BootMoves, CallLeavesWorker DEF lineVars, Moved
<1>2. ASSUME NEW p \in Proc, InitSteps(p) PROVE CancelInv'
  <2>1. /\ UNCHANGED <<lineVars, wk, activeTask, started>>
        /\ call[p].pc # "cancelActive"
    BY <1>2 DEF InitSteps, Register, Mark, InitEnds, InitFailed, At
  <2>2. QED BY <1>0, <1>2, <2>1, InitMoves, CallLeavesWorker DEF lineVars, Moved
<1>3. ASSUME NEW h \in Handler, NEW t \in Task,
             SaveTask(h, t) \/ DeleteTask(h, t) \/ StartTask(h, t) \/ StopTask(h, t)
      PROVE  CancelInv'
  <2>1. /\ UNCHANGED <<lineVars, wk, activeTask>>
        /\ call[h].pc # "cancelActive" /\ h \in Proc
    BY <1>3 DEF SaveTask, DeleteTask, StartTask, StopTask, MayCall, At, Proc
  <2>2. QED BY <1>0, <1>3, <2>1, CallBegins, CallLeavesWorker DEF lineVars, Moved
<1>4. ASSUME NEW p \in Proc, CallSteps(p), ~CancelActive(p) PROVE CancelInv'
  <2>1. UNCHANGED <<running, wk, activeTask, started>> /\ call[p].pc # "cancelActive"
    BY <1>4 DEF CallSteps, ReadStarted, Drop, Pop, StopOld, Inited, StartCheck, StartTrigger,
         StopDrop, StopRunner, CallCancel, Withdraw, Request, lineVars, At
  <2>2. QED BY <1>0, <1>4, <2>1, CallsMove, CallLeavesWorker DEF Moved
<1>5. ASSUME NEW p \in Proc, CancelActive(p) PROVE CancelInv'
  <2> DEFINE x == [call[p] EXCEPT !.pc = "callCancel", !.holds = activeTask = call[p].task]
  <2>1. /\ call[p].task \in Task /\ call[p].task # NoTask /\ ~call[p].holds
        /\ p # boot
    BY <1>0, <1>5, CallIs, EngineAssumption
       DEF CancelActive, At, HeldInCall, BetweenTasks, BootPC, Reloading, Clearing, Making
  <2>2. x \in Calling /\ x.pc = "callCancel" /\ x.task = call[p].task
        /\ x.holds = (activeTask = call[p].task)
    BY <1>0, CallIs DEF Calling, HandlerPC, Stopping
  <2>3. /\ call' = [call EXCEPT ![p] = x]
        /\ activeTask' = IF activeTask = call[p].task THEN NoTask ELSE activeTask
        /\ UNCHANGED <<running, wk, runners, started>>
    BY <1>5 DEF CancelActive, lineVars
  <2> HIDE DEF x
  <2>4. CallsTyped' /\ \A q \in Proc : call'[q] = IF q = p THEN x ELSE call[q]
    BY <1>0, <2>1, <2>2, <2>3, MovedOn DEF HandlerPC, Stopping
  <2>5. JobTask' = JobTask
    BY <2>3 DEF JobTask
  <2>6. HeldInCall'
    BY <1>0, <2>2, <2>4 DEF HeldInCall
  <2>7. CancelHitsOwnJob'
    BY <1>0, <2>1, <2>2, <2>3, <2>4, <2>5 DEF CancelHitsOwnJob
  <2>8. QED BY <2>4, <2>6, <2>7 DEF CancelInv
<1>6. CASE /\ UNCHANGED <<call, wk, activeTask, runners, started>>
           /\ running' = running \/ wk # "work"
  <2>1. CallsTyped' /\ HeldInCall'
    BY <1>0, <1>6 DEF CallsTyped, HeldInCall
  <2>2. CancelHitsOwnJob'
    BY <1>0, <1>6 DEF CancelHitsOwnJob, JobTask
  <2>3. QED BY <2>1, <2>2 DEF CancelInv
<1>7. CASE WorkerSteps
  <2>1. CASE WorkerTake \/ WorkerSkip \/ WorkerAccept
    <3>1. UNCHANGED <<call, activeTask, runners, started>> /\ wk # "work"
      BY <2>1 DEF WorkerTake, WorkerSkip, WorkerAccept
    <3>2. \A p \in Proc : ~call[p].holds /\ activeTask = NoTask
      BY <1>0, <3>1 DEF CancelHitsOwnJob
    <3>3. CallsTyped' /\ HeldInCall' /\ CancelHitsOwnJob'
      BY <1>0, <3>1, <3>2 DEF CallsTyped, HeldInCall, CancelHitsOwnJob, Proc
    <3>4. QED BY <3>3 DEF CancelInv
  <2>2. CASE WorkerRegister
    <3>1. UNCHANGED <<call, runners, started, running>> /\ wk # "work" /\ wk' = "work"
          /\ activeTask' = JobTask
      BY <2>2 DEF WorkerRegister, lineVars
    <3>2. \A p \in Proc : ~call[p].holds
      BY <1>0, <3>1 DEF CancelHitsOwnJob
    <3>3. CallsTyped' /\ HeldInCall' /\ CancelHitsOwnJob'
      BY <1>0, <3>1, <3>2 DEF CallsTyped, HeldInCall, CancelHitsOwnJob, JobTask
    <3>4. QED BY <3>3 DEF CancelInv
  <2>3. CASE WorkerDone
    <3>1. /\ call' = [p \in Proc |-> [call[p] EXCEPT !.holds = FALSE]]
          /\ activeTask' = NoTask /\ UNCHANGED <<runners, started>>
      BY <1>0, <2>3 DEF WorkerDone, CancelHitsOwnJob
    <3>2. \A p \in Proc : /\ call'[p] \in Calling /\ ~call'[p].holds
                          /\ call'[p].pc = call[p].pc /\ call'[p].task = call[p].task
      BY <1>0, <3>1, CallIs DEF Calling
    <3>3. CallsTyped'
      BY <1>0, <3>1, <3>2 DEF CallsTyped, Proc
    <3>4. HeldInCall' /\ CancelHitsOwnJob'
      BY <3>1, <3>2 DEF HeldInCall, CancelHitsOwnJob
    <3>5. QED BY <3>3, <3>4 DEF CancelInv
  <2>4. CASE WorkerLeave
    BY <1>6, <2>4 DEF WorkerLeave, Leave, engineVars
  <2>5. QED BY <1>7, <2>1, <2>2, <2>3, <2>4 DEF WorkerSteps
<1>8. CASE \/ \E r \in RunnerId, k \in Key : Fire(r, k)
           \/ \E k \in Key : LateFire(k)
           \/ \E t \in Task : LateEnd(t)
           \/ AppCancel
           \/ Shutdown
           \/ UNCHANGED vars
  BY <1>6, <1>8 DEF Fire, LateFire, LateEnd, AppCancel, Shutdown, Request, Cancel, CloseLine,
       vars, lineVars, engineVars
<1>9. QED BY <1>1, <1>2, <1>3, <1>4, <1>5, <1>7, <1>8 DEF Next, Calls

(* Engine.run and cancelActive (engine.go): whoever calls, and however the *)
(* calls overlap, stopping a task cancels no job of another task, although *)
(* the function is called when the lock has been released.                 *)
THEOREM CancelHitsOwnJobHolds == Spec => []CancelHitsOwnJob
<1>1. CancelInv => CancelHitsOwnJob
  BY DEF CancelInv
<1>2. QED BY <1>1, InitIsCancelInv, NextKeepsCancelInv, PTL DEF Spec

-----------------------------------------------------------------------------
(* What holds of every task and runner, however calls overlap. First, what *)
(* the place a goroutine is at says of its variables.                      *)
LifeTyped ==
    /\ runner \in [RunnerId -> Running]
    /\ cancelled \in BOOLEAN
    /\ conf \in [Task -> {"absent", "enabled", "disabled"}]

InPlace(p) ==
    LET c == call[p] IN
    /\ c.pc = "idle" => c = Idle
    /\ c.pc \in BetweenTasks => c.task = NoTask /\ c.mine = NoRunner
    /\ c.pc \in {"snapshot", "launch", "listTasks"} \/ p # boot => c.todo = {}
    /\ c.saw => started
    /\ c.pc = "nextTask" => ~started
    /\ p = boot /\ c.pc \in {"snapshot", "launch", "listTasks", "nextReload", "readStarted"} \cup Clearing
          => started
    /\ c.pc \in Making \cup {"stopDrop", "stopRunner"} => c.mine # NoRunner

(* A runner that is registered, held or copied is one of the task's.       *)
OwnRunner(p) == call[p].mine # NoRunner => runner[call[p].mine].task = call[p].task
Owns(t) == runners[t] # NoRunner => runner[runners[t]].task = t
Copied ==
    call[boot].pc = "launch" => \A r \in call[boot].keys : r \in RunnerId /\ runner[r].task \in Task

(* Loops that are not astray run once, of a runner that is registered, or  *)
(* that a reload or removal has taken out of the map and is about to stop. *)
AboutToStop(r) ==
    \E p \in Proc : call[p].pc = "stopOld" /\ call[p].mine = r /\ call[p].task = runner[r].task
Held(r) == runners[runner[r].task] = r \/ AboutToStop(r)
LiveFine(r) ==
    runner[r].live > 0 =>
        /\ started /\ ~cancelled /\ runner[r].task \in Task
        /\ runner[r].astray \/ (runner[r].live = 1 /\ ~runner[r].stopUsed /\ Held(r))

(* A registered runner of a started engine is watched, was stopped, was    *)
(* missed, or a call is about to launch it.                                *)
Coming(r) ==
    \/ \E p \in Proc : call[p].pc \in Making /\ call[p].mine = r /\ call[p].saw
    \/ call[boot].pc = "snapshot"
    \/ call[boot].pc = "launch" /\ r \in call[boot].keys
Seen(r) == runner[r].stopUsed \/ runner[r].live > 0 \/ runner[r].missed
Watched(t) ==
    started /\ ~cancelled /\ runners[t] # NoRunner => Seen(runners[t]) \/ Coming(runners[t])

Structure ==
    /\ CancelInv /\ LifeTyped /\ Copied
    /\ \A p \in Proc : InPlace(p) /\ OwnRunner(p)
    /\ \A t \in Task : Owns(t) /\ Watched(t)
    /\ \A r \in RunnerId : LiveFine(r)

-----------------------------------------------------------------------------
(* Operations on runners and on calls.                                     *)
LEMMA NewRunnerIs ==
    ASSUME NEW t \in Task \cup {NoTask}
    PROVE  /\ NewRunner(t) \in Running /\ NewRunner(t).task = t /\ NewRunner(t).live = 0
           /\ ~NewRunner(t).stopUsed /\ ~NewRunner(t).astray
BY DEF NewRunner, Running

LEMMA StoppedIs ==
    ASSUME runner \in [RunnerId -> Running], NEW r \in RunnerId
    PROVE  /\ Stopped(r) \in Running /\ Stopped(r).task = runner[r].task /\ Stopped(r).stopUsed
           /\ Stopped(r).astray = runner[r].astray /\ Stopped(r).missed = runner[r].missed
           /\ Stopped(r).live = IF runner[r].stopUsed \/ runner[r].live = 0 THEN runner[r].live
                                ELSE runner[r].live - 1
<1> DEFINE left == IF runner[r].stopUsed \/ runner[r].live = 0 THEN runner[r].live
                   ELSE runner[r].live - 1
<1>1. runner[r] \in Running /\ runner[r].live \in Nat
  BY DEF Running
<1>2. left \in Nat
  BY <1>1
<1>3. Stopped(r) = [runner[r] EXCEPT !.stopUsed = TRUE, !.live = left]
  BY DEF Stopped
<1> HIDE DEF left
<1>4. Stopped(r) \in Running /\ Stopped(r).task = runner[r].task /\ Stopped(r).stopUsed
      /\ Stopped(r).live = left
      /\ Stopped(r).astray = runner[r].astray /\ Stopped(r).missed = runner[r].missed
  BY <1>1, <1>2, <1>3 DEF Running
<1>5. QED BY <1>4 DEF left

LEMMA LaunchedIs ==
    ASSUME runner \in [RunnerId -> Running], NEW r \in RunnerId
    PROVE  /\ Launched(r) \in Running /\ Launched(r).task = runner[r].task
           /\ Launched(r).stopUsed = runner[r].stopUsed /\ Launched(r).missed = runner[r].missed
           /\ Launched(r).live = IF cancelled THEN runner[r].live ELSE runner[r].live + 1
           /\ ~cancelled \/ runner[r].live > 0 => Launched(r).live > 0
           /\ Launched(r).astray = \/ runner[r].astray \/ runner[r].stopUsed \/ runner[r].live > 0
                                   \/ \A t \in Task : runners[t] # r
<1> DEFINE n == IF cancelled THEN runner[r].live ELSE runner[r].live + 1
           a == \/ runner[r].astray \/ runner[r].stopUsed \/ runner[r].live > 0
                \/ \A t \in Task : runners[t] # r
<1>1. runner[r] \in Running /\ n \in Nat /\ a \in BOOLEAN
  BY DEF Running
<1>2. Launched(r) = [runner[r] EXCEPT !.live = n, !.astray = a]
  BY DEF Launched
<1>3. ~cancelled \/ runner[r].live > 0 => n > 0
  BY <1>1 DEF Running
<1> HIDE DEF n, a
<1>4. Launched(r) \in Running /\ Launched(r).task = runner[r].task /\ Launched(r).live = n
      /\ Launched(r).stopUsed = runner[r].stopUsed /\ Launched(r).missed = runner[r].missed
      /\ Launched(r).astray = a
  BY <1>1, <1>2 DEF Running
<1>5. QED BY <1>3, <1>4 DEF n, a

LEMMA UnstoppedIs ==
    ASSUME runner \in [RunnerId -> Running], NEW t
    PROVE  /\ Unstopped(t) \in [RunnerId -> Running]
           /\ \A r \in RunnerId :
                /\ Unstopped(t)[r].task = runner[r].task /\ Unstopped(t)[r].live = runner[r].live
                /\ Unstopped(t)[r].stopUsed = runner[r].stopUsed
                /\ Unstopped(t)[r].missed = runner[r].missed
                /\ Unstopped(t)[r].astray = (runner[r].astray \/ runners[t] = r)
                /\ runners[t] # r => Unstopped(t)[r] = runner[r]
<1>1. ASSUME NEW r \in RunnerId
      PROVE  /\ Unstopped(t)[r] \in Running
             /\ Unstopped(t)[r].task = runner[r].task /\ Unstopped(t)[r].live = runner[r].live
             /\ Unstopped(t)[r].stopUsed = runner[r].stopUsed
             /\ Unstopped(t)[r].missed = runner[r].missed
             /\ Unstopped(t)[r].astray = (runner[r].astray \/ runners[t] = r)
             /\ runners[t] # r => Unstopped(t)[r] = runner[r]
  <2>1. runner[r] \in Running
    OBVIOUS
  <2>2. Unstopped(t)[r] = IF runners[t] = r THEN [runner[r] EXCEPT !.astray = TRUE] ELSE runner[r]
    BY DEF Unstopped
  <2>3. QED BY <2>1, <2>2 DEF Running
<1>2. Unstopped(t) \in [RunnerId -> Running]
  BY <1>1 DEF Unstopped
<1>3. QED BY <1>1, <1>2

(* Collecting garbage forgets only what nothing refers to.                 *)
LEMMA CollectedIs ==
    ASSUME NEW f \in [RunnerId -> Running], runner' = Collected(f)
    PROVE  /\ runner' \in [RunnerId -> Running]
           /\ \A r \in RunnerId :
                \/ runner'[r] = f[r]
                \/ runner'[r] = NewRunner(NoTask) /\ f[r].live = 0 /\ Unused(r)'
<1>1. \A r \in RunnerId :
        \/ Collected(f)[r] = f[r]
        \/ /\ Collected(f)[r] = NewRunner(NoTask) /\ ~(f[r].live > 0)
           /\ (\A t \in Task : runners'[t] # r) /\ \A p \in Proc : ~Refers(call'[p], r)
  BY DEF Collected
<1>2. \A r \in RunnerId : f[r].live \in Nat
  BY DEF Running
<1>3. runner' \in [RunnerId -> Running]
  BY NewRunnerIs DEF Collected
<1>4. QED BY <1>1, <1>2, <1>3, NewRunnerIs DEF Unused

LEMMA ReturnIs ==
    ASSUME CallsTyped, NEW p \in Proc, Return(p)
    PROVE  /\ \A q \in Proc \ {p} : call'[q] = call[q]
           /\ call'[p].pc = IF p = boot THEN "nextReload" ELSE "idle"
           /\ call'[p].task = NoTask /\ call'[p].mine = NoRunner /\ call'[p].saw = FALSE
           /\ call'[p].keys = {}
           /\ call'[p].pc = "idle" => call'[p] = Idle
           /\ call'[p].todo = IF p = boot THEN call[p].todo ELSE {}
<1> DEFINE x == IF p = boot THEN [Idle EXCEPT !.pc = "nextReload", !.todo = call[boot].todo] ELSE Idle
<1>1. call'[p] = x /\ \A q \in Proc \ {p} : call'[q] = call[q]
  BY DEF Return, CallsTyped
<1>2. /\ x.pc = IF p = boot THEN "nextReload" ELSE "idle"
      /\ x.task = NoTask /\ x.mine = NoRunner /\ x.saw = FALSE /\ x.keys = {}
      /\ x.pc = "idle" => x = Idle
      /\ x.todo = IF p = boot THEN call[p].todo ELSE {}
  BY DEF Idle
<1>3. QED BY <1>1, <1>2

LEMMA GotoIs ==
    ASSUME CallsTyped, NEW p \in Proc, NEW l, Goto(p, l)
    PROVE  /\ \A q \in Proc \ {p} : call'[q] = call[q]
           /\ call'[p].pc = l /\ call'[p].task = call[p].task /\ call'[p].todo = call[p].todo
           /\ call'[p].keys = call[p].keys /\ call'[p].saw = call[p].saw
           /\ call'[p].on = call[p].on /\ call'[p].mine = call[p].mine
BY CallIs DEF Goto, CallsTyped, Calling

-----------------------------------------------------------------------------
(* A step of goroutine p, put together from what it does to p's variables, *)
(* to the map and to the runners.                                          *)
StepOf(p) ==
    /\ \A q \in Proc \ {p} : call'[q] = call[q]
    /\ started' = started \/ (p = boot /\ started' = TRUE /\ call[boot].pc = "nextTask")
    /\ cancelled' = cancelled
    /\ runner' \in [RunnerId -> Running]
    /\ conf' \in [Task -> {"absent", "enabled", "disabled"}]
    /\ InPlace(p)' /\ OwnRunner(p)' /\ (p = boot => Copied')
    /\ \A r \in RunnerId : Unused(r) \/ Unused(r)' \/ runner'[r].task = runner[r].task
    /\ \A s \in Task : \/ runners'[s] \in {runners[s], NoRunner}
                       \/ runner'[runners'[s]].task = s

LEMMA StepKeepsStructure ==
    ASSUME Structure, CancelInv', NEW p \in Proc, StepOf(p),
           \A r \in RunnerId : LiveFine(r)', \A t \in Task : Watched(t)'
    PROVE  Structure'
<1>0. /\ CallsTyped /\ CallsTyped' /\ LifeTyped /\ Copied
      /\ boot \in Proc /\ Handler \subseteq Proc /\ NoRunner \notin RunnerId
      /\ \A q \in Proc : InPlace(q) /\ OwnRunner(q) /\ call[q] \in Calling
      /\ \A s \in Task : Owns(s) /\ runners[s] \in RunnerId \cup {NoRunner}
      /\ started \in BOOLEAN
  BY EngineAssumption, CallIs DEF Structure, CancelInv, Proc, CallsTyped
<1>1. ASSUME NEW q \in Proc \ {p} PROVE InPlace(q)' /\ OwnRunner(q)'
  <2>1. /\ call'[q] = call[q] /\ InPlace(q) /\ OwnRunner(q)
        /\ q # boot => call[q].pc \in HandlerPC
        /\ started' = started \/ (q # boot /\ started' = TRUE)
    BY <1>0, CallIs DEF StepOf, Proc
  <2>2. InPlace(q)'
    BY <2>1 DEF InPlace, HandlerPC, Reloading, Clearing, Making, Stopping
  <2>3. OwnRunner(q)'
    <3>1. SUFFICES ASSUME call[q].mine # NoRunner PROVE OwnRunner(q)'
      BY <2>1 DEF OwnRunner
    <3>2. call[q].mine \in RunnerId /\ ~Unused(call[q].mine) /\ ~Unused(call[q].mine)'
      BY <1>0, <2>1, <3>1 DEF Calling, Unused, Refers
    <3>3. QED BY <2>1, <3>1, <3>2 DEF StepOf, OwnRunner
  <2>4. QED BY <2>2, <2>3
<1>2. ASSUME NEW s \in Task PROVE Owns(s)'
  <2>1. SUFFICES ASSUME runners'[s] = runners[s], runners[s] # NoRunner PROVE Owns(s)'
    BY DEF StepOf, Owns
  <2>2. runners[s] \in RunnerId /\ ~Unused(runners[s]) /\ ~Unused(runners[s])'
    BY <1>0, <2>1 DEF Unused
  <2>3. QED BY <1>0, <2>1, <2>2 DEF StepOf, Owns
<1>3. Copied'
  <2>1. SUFFICES ASSUME p # boot, call[boot].pc = "launch", NEW r \in call[boot].keys
                 PROVE  r \in RunnerId /\ runner'[r].task \in Task
    BY <1>0 DEF StepOf, Copied
  <2>2. r \in RunnerId /\ runner[r].task \in Task /\ ~Unused(r) /\ ~Unused(r)'
    BY <1>0, <2>1 DEF Copied, StepOf, Unused, Refers
  <2>3. QED BY <2>2 DEF StepOf
<1>4. QED
  BY <1>0, <1>1, <1>2, <1>3 DEF Structure, LifeTyped, StepOf

(* Such a step leaves loops as they are, or out of their turn ...          *)
LEMMA LoopsKept ==
    ASSUME Structure, CancelInv', NEW p \in Proc, StepOf(p), call[p].pc # "stopOld",
           \A r \in RunnerId :
              runner'[r].live > 0 =>
                 /\ runner'[r].task = runner[r].task /\ runner'[r].live = runner[r].live
                 /\ runner'[r].stopUsed = runner[r].stopUsed
                 /\ runner[r].astray => runner'[r].astray
                 /\ \A s \in Task : runners[s] = r =>
                       \/ runners'[s] = r \/ runner'[r].astray
                       \/ call'[p].pc = "stopOld" /\ call'[p].mine = r
    PROVE  \A r \in RunnerId : LiveFine(r)'
<1>1. SUFFICES ASSUME NEW r \in RunnerId, runner'[r].live > 0 PROVE LiveFine(r)'
  BY DEF LiveFine
<1>2. LiveFine(r) /\ runner[r].live > 0 /\ CallsTyped
  BY <1>1 DEF Structure, CancelInv
<1>3. started' /\ ~cancelled' /\ runner'[r].task \in Task
  BY <1>1, <1>2 DEF LiveFine, StepOf
<1>4. SUFFICES ASSUME ~runner'[r].astray PROVE Held(r)'
  BY <1>1, <1>2, <1>3 DEF LiveFine
<1>5. CASE runners[runner[r].task] = r
  <2>1. \/ runners'[runner[r].task] = r
        \/ call'[p].pc = "stopOld" /\ call'[p].mine = r
    BY <1>1, <1>2, <1>4, <1>5 DEF LiveFine
  <2>2. runner'[r].task = runner[r].task /\ OwnRunner(p)' /\ NoRunner \notin RunnerId
    BY <1>1, EngineAssumption DEF StepOf
  <2>3. QED BY <2>1, <2>2 DEF Held, AboutToStop, OwnRunner
<1>6. CASE AboutToStop(r)
  <2>1. PICK q \in Proc : call[q].pc = "stopOld" /\ call[q].mine = r /\ call[q].task = runner[r].task
    BY <1>6 DEF AboutToStop
  <2>2. call'[q] = call[q] /\ runner'[r].task = runner[r].task
    BY <1>1, <2>1 DEF StepOf
  <2>3. QED BY <2>1, <2>2 DEF Held, AboutToStop
<1>7. QED BY <1>1, <1>2, <1>4, <1>5, <1>6 DEF LiveFine, Held

(* ... and what is registered as watched as it was.                        *)
LEMMA WatchKept ==
    ASSUME Structure, CancelInv', NEW p \in Proc, StepOf(p), started' = started,
           \A s \in Task : runners'[s] \in {runners[s], NoRunner},
           \A r \in RunnerId :
              /\ Seen(r) => Seen(r)' \/ Unused(r)'
              /\ Coming(r) => Coming(r)' \/ Seen(r)' \/ cancelled \/ Unused(r)'
    PROVE  \A t \in Task : Watched(t)'
<1>1. SUFFICES ASSUME NEW t \in Task, started, ~cancelled, runners'[t] # NoRunner
               PROVE  Watched(t)'
  BY DEF Watched, StepOf
<1> DEFINE r == runners[t]
<1>2. runners'[t] = r /\ r \in RunnerId /\ Watched(t)
  BY <1>1 DEF Structure, CancelInv, CallsTyped
<1>3. Seen(r) \/ Coming(r)
  BY <1>1, <1>2 DEF Watched
<1>4. \A x \in RunnerId : runners'[t] = x => ~Unused(x)'
  BY DEF Unused
<1>5. \A x \in RunnerId : runners'[t] = x /\ (Seen(x) \/ Coming(x)) => Watched(t)'
  BY <1>1, <1>4 DEF Watched
<1> HIDE DEF r
<1>6. QED BY <1>2, <1>3, <1>5

-----------------------------------------------------------------------------
(* The steps, and what each does to the variables of its goroutine.        *)
LEMMA Basics ==
    ASSUME Structure
    PROVE  /\ CallsTyped /\ LifeTyped /\ Copied
           /\ boot \in Proc /\ Handler \subseteq Proc /\ boot \notin Handler
           /\ \A p \in Proc : p = boot \/ p \in Handler
           /\ NoRunner \notin RunnerId /\ NoTask \notin Task
           /\ started \in BOOLEAN
           /\ runners \in [Task -> RunnerId \cup {NoRunner}]
           /\ runner \in [RunnerId -> Running]
           /\ \A p \in Proc : InPlace(p) /\ OwnRunner(p) /\ call[p] \in Calling
BY EngineAssumption, CallIs DEF Structure, CancelInv, CallsTyped, LifeTyped, Proc

LEMMA IdleIs ==
    /\ Idle.pc = "idle" /\ Idle.task = NoTask /\ Idle.todo = {} /\ Idle.keys = {}
    /\ Idle.saw = FALSE /\ Idle.on = FALSE /\ Idle.mine = NoRunner
BY DEF Idle

(* What of the call of q a step of p may not touch.                        *)
OthersKeep(p) == \A q \in Proc \ {p} : call'[q] = call[q]

(* A step that leaves the map and all that matters of the runners.         *)
Quiet(p) ==
    /\ OthersKeep(p)
    /\ UNCHANGED <<runners, started, cancelled>>
    /\ conf' \in [Task -> {"absent", "enabled", "disabled"}]
    /\ runner' \in [RunnerId -> Running]
    /\ \A r \in RunnerId :
          /\ runner'[r].task = runner[r].task /\ runner'[r].live = runner[r].live
          /\ runner'[r].stopUsed = runner[r].stopUsed
          /\ runner'[r].astray = runner[r].astray /\ runner'[r].missed = runner[r].missed
    /\ call'[p].mine # NoRunner =>
          \/ call'[p].mine = call[p].mine /\ call'[p].task = call[p].task
          \/ call'[p].task \in Task /\ call'[p].mine = runners[call'[p].task]
    /\ call[p].pc # "stopOld"
    /\ call[p].pc \in Making /\ call[p].saw =>
          call'[p].pc \in Making /\ call'[p].mine = call[p].mine /\ call'[p].saw
    /\ p = boot /\ call[p].pc = "launch" => call[p].keys = {}
    /\ p = boot => call[p].pc # "snapshot" /\ call'[p].pc # "launch"

LEMMA QuietKeepsStructure ==
    ASSUME Structure, CancelInv', NEW p \in Proc, Quiet(p), InPlace(p)'
    PROVE  Structure'
<1>0. /\ CallsTyped /\ boot \in Proc /\ NoRunner \notin RunnerId /\ OwnRunner(p)
      /\ CallsTyped' /\ call'[p].mine \in RunnerId \cup {NoRunner}
  <2>1. CallsTyped'
    BY DEF CancelInv
  <2>2. call'[p].mine \in RunnerId \cup {NoRunner}
    BY <2>1 DEF CallsTyped, Calling
  <2>3. QED BY <2>1, <2>2, Basics
<1>1. OwnRunner(p)'
  <2>1. SUFFICES ASSUME call'[p].mine # NoRunner PROVE runner[call'[p].mine].task = call'[p].task
    BY <1>0 DEF OwnRunner, Quiet
  <2>2. CASE call'[p].mine = call[p].mine /\ call'[p].task = call[p].task
    BY <1>0, <2>1, <2>2 DEF OwnRunner
  <2>3. CASE call'[p].task \in Task /\ call'[p].mine = runners[call'[p].task]
    BY <1>0, <2>1, <2>3 DEF Structure, Owns
  <2>4. QED BY <2>1, <2>2, <2>3 DEF Quiet
<1>2. p = boot => Copied'
  BY DEF Quiet, Copied
<1>3. StepOf(p) /\ started' = started
  BY <1>1, <1>2 DEF Quiet, StepOf, OthersKeep
<1>4. \A r \in RunnerId : LiveFine(r)'
  BY <1>3, LoopsKept DEF Quiet
<1>5. ASSUME NEW r \in RunnerId
      PROVE  (Seen(r) => Seen(r)') /\ (Coming(r) => Coming(r)' \/ Unused(r)')
  <2>1. Seen(r) => Seen(r)'
    BY DEF Quiet, Seen
  <2>2. ASSUME NEW q \in Proc, call[q].pc \in Making /\ call[q].mine = r /\ call[q].saw
        PROVE  Coming(r)'
    <3>1. call'[q].pc \in Making /\ call'[q].mine = r /\ call'[q].saw
      BY <2>2 DEF Quiet, OthersKeep
    <3>2. QED BY <3>1 DEF Coming
  <2>3. CASE call[boot].pc = "snapshot" \/ (call[boot].pc = "launch" /\ r \in call[boot].keys)
    <3>1. p # boot
      BY <2>3 DEF Quiet
    <3>2. call'[boot] = call[boot]
      BY <1>0, <3>1 DEF Quiet, OthersKeep
    <3>3. Coming(r)'
      BY <2>3, <3>2 DEF Coming
    <3>4. QED BY <2>1, <3>3
  <2>4. QED BY <2>1, <2>2, <2>3 DEF Coming
<1>6. \A t \in Task : Watched(t)'
  BY <1>3, <1>5, WatchKept DEF Quiet
<1>7. QED BY <1>3, <1>4, <1>6, StepKeepsStructure

(* Steps that change p's variables only.                                   *)
LEMMA BootBeginIs ==
    ASSUME Structure, BootBegin
    PROVE  /\ OthersKeep(boot) /\ call[boot] = Idle
           /\ UNCHANGED <<runners, runner, conf, started, cancelled>>
           /\ call'[boot].task = NoTask /\ call'[boot].mine = NoRunner /\ call'[boot].saw = FALSE
           /\ \/ /\ started /\ call'[boot].pc = "listTasks" /\ call'[boot].todo = {}
                 /\ crossed' = crossed
              \/ /\ ~started /\ call'[boot].pc = "nextTask"
                 /\ call'[boot].todo = Copies({"enabled"}) /\ Crosses(boot, Task)
<1>0. CallsTyped /\ boot \in Proc /\ InPlace(boot)
  BY Basics
<1>1. call[boot] = Idle /\ UNCHANGED <<runners, runner, conf, started, cancelled>>
  BY <1>0 DEF BootBegin, MayCall, At, InPlace, lineVars
<1>2. CASE started
  <2>1. Goto(boot, "listTasks") /\ crossed' = crossed
    BY <1>2 DEF BootBegin
  <2>2. QED BY <1>0, <1>1, <1>2, <2>1, GotoIs, IdleIs DEF OthersKeep
<1>3. CASE ~started
  <2>1. /\ call' = [call EXCEPT ![boot] = [Idle EXCEPT
                            !.pc = "nextTask", !.todo = Copies({"enabled"})]]
        /\ Crosses(boot, Task)
    BY <1>3 DEF BootBegin
  <2>2. /\ OthersKeep(boot)
        /\ call'[boot] = [Idle EXCEPT !.pc = "nextTask", !.todo = Copies({"enabled"})]
    BY <1>0, <2>1 DEF OthersKeep, CallsTyped
  <2>3. /\ call'[boot].task = NoTask /\ call'[boot].mine = NoRunner /\ call'[boot].saw = FALSE
        /\ call'[boot].pc = "nextTask" /\ call'[boot].todo = Copies({"enabled"})
    BY <2>2 DEF Idle
  <2>4. QED BY <1>1, <1>3, <2>1, <2>2, <2>3
<1>4. QED BY <1>2, <1>3

LEMMA BootNextTaskIs ==
    ASSUME Structure, BootNextTask
    PROVE  /\ OthersKeep(boot) /\ call[boot].pc = "nextTask"
           /\ UNCHANGED <<runners, runner, conf, started, cancelled, crossed>>
           /\ call'[boot].pc = "register" /\ call'[boot].mine = call[boot].mine
           /\ call'[boot].saw = call[boot].saw
           /\ \E c \in call[boot].todo : /\ call'[boot].task = c.task
                                         /\ call'[boot].todo = call[boot].todo \ {c}
BY Basics DEF BootNextTask, At, OthersKeep, Foremost, CallsTyped, Calling, lineVars, past

LEMMA BootInitedIs ==
    ASSUME Structure, BootInited
    PROVE  /\ OthersKeep(boot) /\ call[boot].pc = "inited" /\ ~started
           /\ UNCHANGED <<runners, runner, conf, started, cancelled, crossed>>
           /\ call'[boot].pc = "nextTask" /\ call'[boot].mine = NoRunner
           /\ call'[boot].task = NoTask
           /\ call'[boot].saw = call[boot].saw /\ call'[boot].todo = call[boot].todo
BY Basics DEF BootInited, At, OthersKeep, CallsTyped, Calling, lineVars, past

LEMMA BootLaunchedIs ==
    ASSUME Structure, BootLaunched
    PROVE  /\ OthersKeep(boot) /\ call[boot].pc = "launch" /\ call[boot].keys = {}
           /\ UNCHANGED <<runners, runner, conf, started, cancelled, crossed>>
           /\ \/ call'[boot] = Idle
              \/ /\ call'[boot].pc = "listTasks" /\ call'[boot].todo = call[boot].todo
                 /\ call'[boot].task = call[boot].task /\ call'[boot].mine = call[boot].mine
                 /\ call'[boot].saw = call[boot].saw
<1>0. CallsTyped /\ boot \in Proc
  BY Basics
<1>1. CASE call' = [call EXCEPT ![boot] = Idle]
  BY <1>0, <1>1 DEF BootLaunched, At, OthersKeep, CallsTyped, lineVars, past
<1>2. CASE Goto(boot, "listTasks")
  BY <1>0, <1>2, GotoIs DEF BootLaunched, At, OthersKeep, lineVars, past
<1>3. QED BY <1>1, <1>2 DEF BootLaunched

LEMMA ListTasksIs ==
    ASSUME Structure, ListTasks
    PROVE  /\ OthersKeep(boot) /\ call[boot].pc = "listTasks"
           /\ UNCHANGED <<runners, runner, conf, started, cancelled>>
           /\ call'[boot].pc = "nextReload" /\ call'[boot].mine = call[boot].mine
           /\ call'[boot].task = call[boot].task /\ call'[boot].saw = call[boot].saw
           /\ call'[boot].todo = Copies({"enabled", "disabled"})
           /\ Crosses(boot, {t \in Task : conf[t] # "absent"})
BY Basics DEF ListTasks, At, OthersKeep, CallsTyped, Calling, lineVars

LEMMA NextReloadIs ==
    ASSUME Structure, NextReload
    PROVE  /\ OthersKeep(boot) /\ call[boot].pc = "nextReload"
           /\ UNCHANGED <<runners, runner, conf, started, cancelled, crossed>>
           /\ \/ call[boot].todo = {} /\ call'[boot] = Idle
              \/ /\ call'[boot].pc = "readStarted" /\ call'[boot].mine = call[boot].mine
                 /\ call'[boot].saw = call[boot].saw
                 /\ \E c \in call[boot].todo : /\ call'[boot].task = c.task
                                               /\ call'[boot].on = c.on
                                               /\ call'[boot].todo = call[boot].todo \ {c}
<1>0. CallsTyped /\ boot \in Proc /\ call[boot] \in Calling
  BY Basics
<1>1. /\ call[boot].pc = "nextReload"
      /\ UNCHANGED <<runners, runner, conf, started, cancelled, crossed>>
      /\ call[boot].todo = {} => call' = [call EXCEPT ![boot] = Idle]
      /\ call[boot].todo # {} =>
            \E c \in call[boot].todo :
                call' = [call EXCEPT ![boot].pc = "readStarted", ![boot].task = c.task,
                                     ![boot].on = c.on, ![boot].todo = @ \ {c}]
  <2>1. Foremost(call[boot].todo) \subseteq call[boot].todo
    BY DEF Foremost
  <2>2. QED BY <2>1 DEF NextReload, At, lineVars, past
<1>2. CASE call[boot].todo = {}
  BY <1>0, <1>1, <1>2 DEF OthersKeep, CallsTyped
<1>3. CASE call[boot].todo # {}
  <2>1. PICK c \in call[boot].todo :
            call' = [call EXCEPT ![boot].pc = "readStarted", ![boot].task = c.task,
                                 ![boot].on = c.on, ![boot].todo = @ \ {c}]
    BY <1>1, <1>3
  <2>2. /\ OthersKeep(boot)
        /\ call'[boot] = [call[boot] EXCEPT !.pc = "readStarted", !.task = c.task,
                                            !.on = c.on, !.todo = call[boot].todo \ {c}]
    BY <1>0, <2>1 DEF OthersKeep, CallsTyped
  <2>3. /\ call'[boot].pc = "readStarted" /\ call'[boot].mine = call[boot].mine
        /\ call'[boot].saw = call[boot].saw
        /\ call'[boot].task = c.task /\ call'[boot].on = c.on
        /\ call'[boot].todo = call[boot].todo \ {c}
    BY <1>0, <2>2 DEF Calling
  <2>4. QED BY <1>1, <2>2, <2>3
<1>4. QED BY <1>2, <1>3

LEMMA BootQuietKeepsStructure ==
    ASSUME Structure, CancelInv',
           BootBegin \/ BootNextTask \/ BootInited \/ BootLaunched \/ ListTasks \/ NextReload
    PROVE  Structure'
<1>0. /\ boot \in Proc /\ InPlace(boot) /\ NoRunner \notin RunnerId
      /\ runner \in [RunnerId -> Running]
      /\ conf \in [Task -> {"absent", "enabled", "disabled"}]
  BY Basics DEF LifeTyped
<1>1. /\ OthersKeep(boot) /\ UNCHANGED <<runners, runner, conf, started, cancelled>>
      /\ Quiet(boot) /\ InPlace(boot)'
  <2>1. CASE BootBegin
    <3>1. /\ OthersKeep(boot) /\ UNCHANGED <<runners, runner, conf, started, cancelled>>
          /\ call[boot].pc = "idle"
          /\ call'[boot].pc \in {"listTasks", "nextTask"}
          /\ call'[boot].pc = "listTasks" => started /\ call'[boot].todo = {}
          /\ call'[boot].pc = "nextTask" => ~started
          /\ call'[boot].task = NoTask /\ call'[boot].mine = NoRunner /\ call'[boot].saw = FALSE
      BY <2>1, BootBeginIs, IdleIs
    <3>2. QED BY <1>0, <3>1 DEF InPlace, Quiet, BetweenTasks, Clearing, Making
  <2>2. CASE BootNextTask
    BY <1>0, <2>2, BootNextTaskIs DEF InPlace, Quiet, BetweenTasks, Clearing, Making
  <2>3. CASE BootInited
    BY <1>0, <2>3, BootInitedIs DEF InPlace, Quiet, BetweenTasks, Clearing, Making
  <2>4. CASE BootLaunched
    BY <1>0, <2>4, BootLaunchedIs, IdleIs DEF InPlace, Quiet, BetweenTasks, Clearing, Making
  <2>5. CASE ListTasks
    BY <1>0, <2>5, ListTasksIs DEF InPlace, Quiet, BetweenTasks, Clearing, Making
  <2>6. CASE NextReload
    BY <1>0, <2>6, NextReloadIs, IdleIs DEF InPlace, Quiet, BetweenTasks, Clearing, Making
  <2>7. QED BY <2>1, <2>2, <2>3, <2>4, <2>5, <2>6
<1>2. QED BY <1>0, <1>1, QuietKeepsStructure

LEMMA FlagIs ==
    ASSUME Structure, NEW p \in Proc, Mark(p) \/ InitEnds(p)
    PROVE  /\ OthersKeep(p) /\ call[p].pc \in {"mark", "init"} /\ call[p].mine \in RunnerId
           /\ UNCHANGED <<runners, conf, started, cancelled, crossed>>
           /\ call'[p].pc \in {"init", "inited", "initFailed"}
           /\ call'[p].task = call[p].task /\ call'[p].mine = call[p].mine
           /\ call'[p].saw = call[p].saw /\ call'[p].on = call[p].on
           /\ call'[p].todo = call[p].todo
           /\ runner' \in [RunnerId -> Running]
           /\ \A r \in RunnerId :
                /\ runner'[r].task = runner[r].task /\ runner'[r].live = runner[r].live
                /\ runner'[r].stopUsed = runner[r].stopUsed
                /\ runner'[r].astray = runner[r].astray /\ runner'[r].missed = runner[r].missed
                /\ r # call[p].mine => runner'[r] = runner[r]
<1>0. CallsTyped /\ InPlace(p) /\ runner \in [RunnerId -> Running] /\ call[p] \in Calling
  BY Basics
<1>1. \E l \in {"init", "inited", "initFailed"}, b \in BOOLEAN :
        /\ Goto(p, l)
        /\ runner' = [runner EXCEPT ![call[p].mine].initializing = b]
        /\ UNCHANGED <<runners, conf, started, cancelled, crossed>>
        /\ call[p].pc \in {"mark", "init"}
  BY DEF Mark, InitEnds, At, lineVars, past
<1>2. PICK l \in {"init", "inited", "initFailed"}, b \in BOOLEAN :
        /\ Goto(p, l)
        /\ runner' = [runner EXCEPT ![call[p].mine].initializing = b]
  BY <1>1
<1>3. call[p].mine \in RunnerId
  BY <1>0, <1>1 DEF InPlace, Making, Calling
<1>4. /\ runner' \in [RunnerId -> Running]
      /\ \A r \in RunnerId :
            /\ runner'[r].task = runner[r].task /\ runner'[r].live = runner[r].live
            /\ runner'[r].stopUsed = runner[r].stopUsed
            /\ runner'[r].astray = runner[r].astray /\ runner'[r].missed = runner[r].missed
            /\ r # call[p].mine => runner'[r] = runner[r]
  BY <1>0, <1>2, <1>3 DEF Running
<1>5. QED BY <1>0, <1>1, <1>2, <1>3, <1>4, GotoIs DEF OthersKeep

LEMMA ReadStartedIs ==
    ASSUME Structure, NEW p \in Proc, ReadStarted(p)
    PROVE  /\ OthersKeep(p) /\ call[p].pc = "readStarted"
           /\ UNCHANGED <<runners, runner, conf, started, cancelled, crossed>>
           /\ call'[p].pc = "drop" /\ call'[p].saw = started
           /\ call'[p].task = call[p].task /\ call'[p].mine = call[p].mine
           /\ call'[p].on = call[p].on /\ call'[p].todo = call[p].todo
BY Basics DEF ReadStarted, At, OthersKeep, CallsTyped, Calling, lineVars, past

LEMMA DropIs ==
    ASSUME Structure, NEW p \in Proc, Drop(p)
    PROVE  /\ OthersKeep(p) /\ call[p].pc = "drop"
           /\ UNCHANGED <<runners, runner, conf, started, cancelled, crossed>>
           /\ call'[p].pc = "pop" /\ call'[p].saw = call[p].saw
           /\ call'[p].task = call[p].task /\ call'[p].mine = call[p].mine
           /\ call'[p].on = call[p].on /\ call'[p].todo = call[p].todo
<1>1. Goto(p, "pop") /\ call[p].pc = "drop"
      /\ UNCHANGED <<runners, runner, conf, started, cancelled, crossed>>
  BY DEF Drop, At, Withdraw, past
<1>2. QED BY <1>1, Basics, GotoIs DEF OthersKeep

(* The steps of StartTask and StopTask that leave the runner alone.        *)
Waiting == {"trigger", "stopRunner", "callCancel"}
HandlerStep(p) ==
    StartCheck(p) \/ StartTrigger(p) \/ StopDrop(p) \/ CancelActive(p) \/ CallCancel(p)

LEMMA HandlerStepIs ==
    ASSUME Structure, NEW p \in Proc, HandlerStep(p)
    PROVE  /\ OthersKeep(p) /\ p # boot
           /\ call[p].pc \in {"startCheck", "trigger", "stopDrop", "cancelActive", "callCancel"}
           /\ UNCHANGED <<runners, runner, conf, started, cancelled, crossed>>
           /\ \/ call'[p] = Idle
              \/ /\ call'[p].pc \in Waiting
                 /\ call'[p].pc = "stopRunner" => call[p].pc = "stopDrop"
                 /\ call'[p].task = call[p].task /\ call'[p].mine = call[p].mine
                 /\ call'[p].saw = call[p].saw /\ call'[p].todo = call[p].todo
<1>0. CallsTyped /\ call[p] \in Calling
  BY Basics
<1>1. /\ call[p].pc \in {"startCheck", "trigger", "stopDrop", "cancelActive", "callCancel"}
      /\ UNCHANGED <<runners, runner, conf, started, cancelled, crossed>>
  BY DEF HandlerStep, StartCheck, StartTrigger, StopDrop, CancelActive, CallCancel, At, Withdraw,
         Request, lineVars, past
<1>2. p # boot
  BY <1>0, <1>1, CallIs DEF BootPC, BetweenTasks, Reloading, Clearing, Making
<1> DEFINE Goes(x) == /\ OthersKeep(p)
                      /\ call'[p] = x
                      /\ x.pc \in Waiting
                      /\ x.pc = "stopRunner" => call[p].pc = "stopDrop"
                      /\ x.task = call[p].task /\ x.mine = call[p].mine
                      /\ x.saw = call[p].saw /\ x.todo = call[p].todo
<1>3. Return(p) => OthersKeep(p) /\ call'[p] = Idle
  BY <1>0, <1>2, ReturnIs DEF OthersKeep
<1>4. CASE StartCheck(p) /\ ~Return(p)
  <2>1. call' = [call EXCEPT ![p].pc = "trigger",
                             ![p].keys = {k \in Key : TaskOf[k] = call[p].task}]
    BY <1>4 DEF StartCheck
  <2>2. Goes([call[p] EXCEPT !.pc = "trigger", !.keys = {k \in Key : TaskOf[k] = call[p].task}])
    BY <1>0, <2>1 DEF OthersKeep, CallsTyped, Calling, Waiting
  <2>3. QED BY <1>1, <1>2, <2>2
<1>5. CASE StartTrigger(p)
  <2>1. PICK k \in call[p].keys :
          call' = [call EXCEPT ![p] = IF call[p].keys = {k} THEN Idle
                                      ELSE [call[p] EXCEPT !.keys = call[p].keys \ {k}]]
    BY <1>5 DEF StartTrigger
  <2>2. CASE call[p].keys = {k}
    BY <1>0, <1>1, <1>2, <2>1, <2>2 DEF OthersKeep, CallsTyped
  <2>3. CASE call[p].keys # {k}
    <3>1. call[p].pc = "trigger"
      BY <1>5 DEF StartTrigger, At
    <3>2. Goes([call[p] EXCEPT !.keys = call[p].keys \ {k}])
      BY <1>0, <2>1, <2>3, <3>1 DEF OthersKeep, CallsTyped, Calling, Waiting
    <3>3. QED BY <1>1, <1>2, <3>2
  <2>4. QED BY <2>2, <2>3
<1>6. CASE StopDrop(p)
  <2>1. Goto(p, "stopRunner") /\ call[p].pc = "stopDrop"
    BY <1>6 DEF StopDrop, At
  <2>2. QED BY <1>0, <1>1, <1>2, <2>1, GotoIs DEF OthersKeep, Waiting
<1>7. CASE CancelActive(p)
  <2>1. call' = [call EXCEPT ![p].pc = "callCancel",
                             ![p].holds = activeTask = call[p].task]
    BY <1>7 DEF CancelActive
  <2>2. Goes([call[p] EXCEPT !.pc = "callCancel", !.holds = activeTask = call[p].task])
    BY <1>0, <2>1 DEF OthersKeep, CallsTyped, Calling, Waiting
  <2>3. QED BY <1>1, <1>2, <2>2
<1>8. CASE CallCancel(p)
  BY <1>1, <1>2, <1>3, <1>8 DEF CallCancel
<1>9. QED BY <1>1, <1>2, <1>3, <1>4, <1>5, <1>6, <1>7, <1>8 DEF HandlerStep

(* A handler begins a call about t.                                        *)
Begins(h, t) == SaveTask(h, t) \/ DeleteTask(h, t) \/ StartTask(h, t) \/ StopTask(h, t)

LEMMA BeginsIs ==
    ASSUME Structure, NEW h \in Handler, NEW t \in Task, Begins(h, t)
    PROVE  /\ OthersKeep(h) /\ h \in Proc /\ h # boot /\ call[h] = Idle
           /\ UNCHANGED <<runners, runner, started, cancelled>>
           /\ conf' \in [Task -> {"absent", "enabled", "disabled"}]
           /\ \A s \in Task \ {t} : conf'[s] = conf[s]
           /\ Crosses(h, {t})
           /\ call'[h].task = t /\ call'[h].saw = FALSE /\ call'[h].todo = {}
           /\ \/ /\ call'[h].pc \in {"readStarted", "drop"}
                 /\ call'[h].on = (conf'[t] = "enabled") /\ call'[h].mine = NoRunner
                 /\ call'[h].pc = "drop" => ~call'[h].on
              \/ /\ call'[h].pc \in {"startCheck", "stopDrop"}
                 /\ conf' = conf /\ call'[h].mine = runners[t] /\ runners[t] # NoRunner
<1>0. /\ CallsTyped /\ h \in Proc /\ h # boot /\ InPlace(h)
      /\ conf \in [Task -> {"absent", "enabled", "disabled"}]
  BY Basics DEF LifeTyped
<1>1. /\ call[h] = Idle /\ UNCHANGED <<runners, runner, started, cancelled>> /\ Crosses(h, {t})
  BY <1>0 DEF Begins, SaveTask, DeleteTask, StartTask, StopTask, MayCall, At, InPlace, lineVars
<1>2. CASE SaveTask(h, t)
  <2>1. PICK c \in {"enabled", "disabled"} :
          /\ conf' = [conf EXCEPT ![t] = c]
          /\ call' = [call EXCEPT ![h] = [Idle EXCEPT
                        !.pc = "readStarted", !.task = t, !.on = c = "enabled"]]
    BY <1>2 DEF SaveTask
  <2>2. /\ OthersKeep(h)
        /\ call'[h] = [Idle EXCEPT !.pc = "readStarted", !.task = t, !.on = c = "enabled"]
    BY <1>0, <2>1 DEF OthersKeep, CallsTyped
  <2>3. /\ call'[h].task = t /\ call'[h].saw = FALSE /\ call'[h].todo = {}
        /\ call'[h].pc = "readStarted" /\ call'[h].on = (c = "enabled")
        /\ call'[h].mine = NoRunner
    BY <2>2 DEF Idle
  <2>4. QED BY <1>0, <1>1, <2>1, <2>2, <2>3
<1>3. CASE DeleteTask(h, t)
  <2>1. /\ conf' = [conf EXCEPT ![t] = "absent"]
        /\ call' = [call EXCEPT ![h] = [Idle EXCEPT !.pc = "drop", !.task = t]]
    BY <1>3 DEF DeleteTask, Begin
  <2>2. /\ OthersKeep(h)
        /\ call'[h] = [Idle EXCEPT !.pc = "drop", !.task = t]
    BY <1>0, <2>1 DEF OthersKeep, CallsTyped
  <2>3. /\ call'[h].task = t /\ call'[h].saw = FALSE /\ call'[h].todo = {}
        /\ call'[h].pc = "drop" /\ call'[h].on = FALSE /\ call'[h].mine = NoRunner
    BY <2>2 DEF Idle
  <2>4. QED BY <1>0, <1>1, <2>1, <2>2, <2>3
<1>4. CASE StartTask(h, t) \/ StopTask(h, t)
  <2>1. PICK l \in {"startCheck", "stopDrop"} :
          /\ conf' = conf /\ runners[t] # NoRunner
          /\ call' = [call EXCEPT ![h] = [Idle EXCEPT !.pc = l, !.task = t, !.mine = runners[t]]]
    BY <1>4 DEF StartTask, StopTask
  <2>2. /\ OthersKeep(h)
        /\ call'[h] = [Idle EXCEPT !.pc = l, !.task = t, !.mine = runners[t]]
    BY <1>0, <2>1 DEF OthersKeep, CallsTyped
  <2>3. /\ call'[h].task = t /\ call'[h].saw = FALSE /\ call'[h].todo = {}
        /\ call'[h].pc = l /\ call'[h].mine = runners[t]
    BY <2>2 DEF Idle
  <2>4. QED BY <1>0, <1>1, <2>1, <2>2, <2>3
<1>5. QED BY <1>2, <1>3, <1>4 DEF Begins

LEMMA CallQuietKeepsStructure ==
    ASSUME Structure, CancelInv', NEW p \in Proc,
           \/ Mark(p) \/ InitEnds(p) \/ ReadStarted(p) \/ Drop(p) \/ HandlerStep(p)
           \/ p \in Handler /\ \E t \in Task : Begins(p, t)
    PROVE  Structure'
<1>0. /\ InPlace(p) /\ NoRunner \notin RunnerId
      /\ runner \in [RunnerId -> Running]
      /\ conf \in [Task -> {"absent", "enabled", "disabled"}]
  BY Basics DEF LifeTyped
<1>1. Quiet(p) /\ InPlace(p)'
  <2>1. CASE Mark(p) \/ InitEnds(p)
    <3>1. InPlace(p)'
      BY <1>0, <2>1, FlagIs DEF InPlace, BetweenTasks, Clearing, Making
    <3>2. Quiet(p)
      BY <1>0, <2>1, FlagIs DEF Quiet, Making
    <3>3. QED BY <3>1, <3>2
  <2>2. CASE ReadStarted(p)
    BY <1>0, <2>2, ReadStartedIs DEF InPlace, Quiet, BetweenTasks, Clearing, Making
  <2>3. CASE Drop(p)
    BY <1>0, <2>3, DropIs DEF InPlace, Quiet, BetweenTasks, Clearing, Making
  <2>4. CASE HandlerStep(p)
    <3>1. InPlace(p)'
      BY <1>0, <2>4, HandlerStepIs, IdleIs DEF InPlace, BetweenTasks, Clearing, Making, Waiting
    <3>2. Quiet(p)
      BY <1>0, <2>4, HandlerStepIs, IdleIs DEF Quiet, Making
    <3>3. QED BY <3>1, <3>2
  <2>5. ASSUME p \in Handler, NEW t \in Task, Begins(p, t) PROVE Quiet(p) /\ InPlace(p)'
    <3>0. /\ OthersKeep(p) /\ p # boot /\ call[p].pc = "idle"
          /\ UNCHANGED <<runners, runner, started, cancelled>>
          /\ conf' \in [Task -> {"absent", "enabled", "disabled"}]
          /\ call'[p].task = t /\ call'[p].saw = FALSE /\ call'[p].todo = {}
          /\ \/ call'[p].pc \in {"readStarted", "drop"} /\ call'[p].mine = NoRunner
             \/ /\ call'[p].pc \in {"startCheck", "stopDrop"}
                /\ call'[p].mine = runners[t] /\ runners[t] # NoRunner
      BY <2>5, BeginsIs, IdleIs
    <3>1. InPlace(p)'
      BY <1>0, <3>0 DEF InPlace, BetweenTasks, Clearing, Making
    <3>2. Quiet(p)
      BY <1>0, <3>0 DEF Quiet, Making
    <3>3. QED BY <3>1, <3>2
  <2>6. QED BY <2>1, <2>2, <2>3, <2>4, <2>5
<1>2. QED BY <1>1, QuietKeepsStructure

-----------------------------------------------------------------------------
(* The steps that change the map or the runners.                           *)
LEMMA BootStartedIs ==
    ASSUME Structure, BootStarted
    PROVE  /\ OthersKeep(boot) /\ call[boot].pc = "nextTask" /\ call[boot].todo = {}
           /\ UNCHANGED <<runners, runner, conf, cancelled, crossed>> /\ started' = TRUE
           /\ call'[boot].pc = "snapshot" /\ call'[boot].todo = {}
           /\ call'[boot].task = NoTask /\ call'[boot].mine = NoRunner
           /\ call'[boot].saw = call[boot].saw
<1>1. /\ Goto(boot, "snapshot") /\ call[boot].pc = "nextTask" /\ call[boot].todo = {}
      /\ UNCHANGED <<runners, runner, conf, cancelled, crossed>> /\ started' = TRUE
  BY DEF BootStarted, At, lineVars, past
<1>2. call[boot].task = NoTask /\ call[boot].mine = NoRunner
  BY <1>1, Basics DEF InPlace, BetweenTasks
<1>3. QED BY <1>1, <1>2, Basics, GotoIs DEF OthersKeep

LEMMA BootStartedKeepsStructure ==
    ASSUME Structure, CancelInv', BootStarted
    PROVE  Structure'
<1>0. boot \in Proc /\ LifeTyped /\ InPlace(boot) /\ NoRunner \notin RunnerId /\ CallsTyped
      /\ runners \in [Task -> RunnerId \cup {NoRunner}]
  BY Basics
<1>1. StepOf(boot)
  <2>1. InPlace(boot)'
    BY <1>0, BootStartedIs DEF InPlace, BetweenTasks, Clearing, Making
  <2>2. OwnRunner(boot)' /\ Copied'
    BY BootStartedIs DEF OwnRunner, Copied
  <2>3. QED BY <1>0, <2>1, <2>2, BootStartedIs DEF StepOf, LifeTyped, OthersKeep
<1>2. \A r \in RunnerId : LiveFine(r)'
  BY <1>0, <1>1, BootStartedIs, LoopsKept
<1>3. \A t \in Task : Watched(t)'
  BY BootStartedIs DEF Watched, Coming
<1>4. QED BY <1>0, <1>1, <1>2, <1>3, StepKeepsStructure

LEMMA BootSnapshotIs ==
    ASSUME Structure, BootSnapshot
    PROVE  /\ OthersKeep(boot) /\ call[boot].pc = "snapshot"
           /\ UNCHANGED <<runners, runner, conf, started, cancelled, crossed>>
           /\ call'[boot].pc = "launch" /\ call'[boot].todo = call[boot].todo
           /\ call'[boot].task = call[boot].task /\ call'[boot].mine = call[boot].mine
           /\ call'[boot].saw = call[boot].saw
           /\ call'[boot].keys = {runners[t] : t \in Task} \ {NoRunner}
BY Basics DEF BootSnapshot, At, OthersKeep, CallsTyped, Calling, lineVars, past

LEMMA BootSnapshotKeepsStructure ==
    ASSUME Structure, CancelInv', BootSnapshot
    PROVE  Structure'
<1>0. boot \in Proc /\ LifeTyped /\ InPlace(boot) /\ NoRunner \notin RunnerId /\ CallsTyped
      /\ runners \in [Task -> RunnerId \cup {NoRunner}] /\ OwnRunner(boot)
  BY Basics
<1>1. StepOf(boot)
  <2>1. InPlace(boot)'
    BY <1>0, BootSnapshotIs DEF InPlace, BetweenTasks, Clearing, Making
  <2>2. OwnRunner(boot)'
    BY <1>0, BootSnapshotIs DEF OwnRunner
  <2>3. Copied'
    <3>1. \A t \in Task : runners[t] # NoRunner =>
              runners[t] \in RunnerId /\ runner[runners[t]].task = t
      BY <1>0 DEF Structure, Owns
    <3>2. QED BY <3>1, BootSnapshotIs DEF Copied
  <2>4. QED BY <1>0, <2>1, <2>2, <2>3, BootSnapshotIs DEF StepOf, LifeTyped, OthersKeep
<1>2. \A r \in RunnerId : LiveFine(r)'
  BY <1>0, <1>1, BootSnapshotIs, LoopsKept
<1>3. \A t \in Task : Watched(t)'
  <2>1. \A t \in Task : runners'[t] # NoRunner => runners'[t] \in call'[boot].keys
    BY BootSnapshotIs
  <2>2. call'[boot].pc = "launch"
    BY BootSnapshotIs
  <2>3. QED BY <2>1, <2>2 DEF Watched, Coming
<1>4. QED BY <1>0, <1>1, <1>2, <1>3, StepKeepsStructure

(* A launch: loops run that did not, or a runner is astray.                *)
LEMMA LaunchKeepsLoops ==
    ASSUME Structure, CancelInv', NEW p \in Proc, StepOf(p), NEW r \in RunnerId,
           runner' = [runner EXCEPT ![r] = Launched(r)], runner[r].task \in Task,
           UNCHANGED <<runners, started>>, started, call[p].pc # "stopOld"
    PROVE  \A x \in RunnerId : LiveFine(x)'
<1>0. runner \in [RunnerId -> Running] /\ cancelled' = cancelled
      /\ \A x \in RunnerId : LiveFine(x)
  BY Basics DEF Structure, StepOf
<1>1. ASSUME NEW x \in RunnerId, Held(x) PROVE Held(x)'
  <2>1. runner'[x].task = runner[x].task
    BY <1>0, LaunchedIs
  <2>2. \A q \in Proc : call[q].pc = "stopOld" => call'[q] = call[q]
    BY DEF StepOf
  <2>3. QED BY <1>1, <2>1, <2>2 DEF Held, AboutToStop
<1>2. SUFFICES ASSUME NEW x \in RunnerId, runner'[x].live > 0 PROVE LiveFine(x)'
  BY DEF LiveFine
<1>3. CASE x # r
  <2>1. runner'[x] = runner[x]
    BY <1>0, <1>3
  <2>2. QED BY <1>0, <1>1, <1>2, <2>1 DEF LiveFine
<1>4. CASE x = r
  <2>1. runner'[r] = Launched(r) /\ runner[r] \in Running /\ runner[r].live \in Nat
    BY <1>0 DEF Running
  <2>2. CASE cancelled
    BY <1>0, <1>2, <1>4, <2>1, <2>2, LaunchedIs DEF LiveFine
  <2>3. CASE ~cancelled /\ runner'[r].astray
    BY <1>0, <1>4, <2>1, <2>3, LaunchedIs DEF LiveFine
  <2>4. CASE ~cancelled /\ ~runner'[r].astray
    <3>1. /\ ~runner[r].stopUsed /\ ~(runner[r].live > 0) /\ \E t \in Task : runners[t] = r
          /\ runner'[r].live = runner[r].live + 1 /\ runner'[r].stopUsed = runner[r].stopUsed
          /\ runner'[r].task = runner[r].task
      BY <1>0, <2>1, <2>4, LaunchedIs
    <3>2. PICK t \in Task : runners[t] = r
      BY <3>1
    <3>3. runners[runner[r].task] = r
      BY <3>2, Basics DEF Structure, Owns
    <3>4. Held(r)'
      BY <3>1, <3>3 DEF Held
    <3>5. QED BY <1>0, <1>4, <2>1, <2>4, <3>1, <3>4 DEF LiveFine
  <2>5. QED BY <2>2, <2>3, <2>4
<1>5. QED BY <1>3, <1>4

LEMMA BootLaunchIs ==
    ASSUME Structure, BootLaunch
    PROVE  /\ OthersKeep(boot) /\ call[boot].pc = "launch"
           /\ UNCHANGED <<runners, conf, started, cancelled, crossed>> /\ started
           /\ call'[boot].pc = "launch" /\ call'[boot].todo = call[boot].todo
           /\ call'[boot].task = call[boot].task /\ call'[boot].mine = call[boot].mine
           /\ call'[boot].saw = call[boot].saw
           /\ \E r \in call[boot].keys :
                /\ r \in RunnerId /\ runner[r].task \in Task
                /\ runner' = [runner EXCEPT ![r] = Launched(r)]
                /\ call'[boot].keys = call[boot].keys \ {r}
<1>0. CallsTyped /\ boot \in Proc /\ call[boot] \in Calling /\ Copied /\ InPlace(boot)
  BY Basics
<1>1. /\ call[boot].pc = "launch"
      /\ UNCHANGED <<runners, conf, started, cancelled, crossed>>
  BY DEF BootLaunch, At, lineVars, past
<1>2. PICK r \in call[boot].keys :
        /\ runner' = [runner EXCEPT ![r] = Launched(r)]
        /\ call' = [call EXCEPT ![boot].keys = call[boot].keys \ {r}]
  BY DEF BootLaunch
<1>3. /\ OthersKeep(boot)
      /\ call'[boot] = [call[boot] EXCEPT !.keys = call[boot].keys \ {r}]
  BY <1>0, <1>2 DEF OthersKeep, CallsTyped
<1>4. /\ call'[boot].pc = call[boot].pc /\ call'[boot].todo = call[boot].todo
      /\ call'[boot].task = call[boot].task /\ call'[boot].mine = call[boot].mine
      /\ call'[boot].saw = call[boot].saw /\ call'[boot].keys = call[boot].keys \ {r}
  BY <1>0, <1>3 DEF Calling
<1>5. r \in RunnerId /\ runner[r].task \in Task /\ started
  BY <1>0, <1>1 DEF Copied, InPlace
<1>6. QED BY <1>1, <1>2, <1>3, <1>4, <1>5

LEMMA BootLaunchKeepsStructure ==
    ASSUME Structure, CancelInv', BootLaunch
    PROVE  Structure'
<1>0. /\ boot \in Proc /\ LifeTyped /\ InPlace(boot) /\ NoRunner \notin RunnerId /\ Copied
      /\ OwnRunner(boot) /\ runner \in [RunnerId -> Running] /\ CallsTyped
      /\ call[boot].mine \in RunnerId \cup {NoRunner}
  BY Basics DEF Calling
<1>1. PICK r \in call[boot].keys :
                /\ r \in RunnerId /\ runner[r].task \in Task
                /\ runner' = [runner EXCEPT ![r] = Launched(r)]
                /\ call'[boot].keys = call[boot].keys \ {r}
  BY BootLaunchIs
<1>2. runner' \in [RunnerId -> Running] /\ \A x \in RunnerId : runner'[x].task = runner[x].task
  BY <1>0, <1>1, LaunchedIs
<1>3. StepOf(boot) /\ started' = started
  <2>1. InPlace(boot)'
    BY <1>0, BootLaunchIs DEF InPlace, BetweenTasks, Clearing, Making
  <2>2. OwnRunner(boot)'
    BY <1>0, <1>2, BootLaunchIs DEF OwnRunner
  <2>3. Copied'
    BY <1>0, <1>1, <1>2, BootLaunchIs DEF Copied
  <2>4. QED BY <1>0, <1>2, <2>1, <2>2, <2>3, BootLaunchIs DEF StepOf, LifeTyped, OthersKeep
<1>4. \A x \in RunnerId : LiveFine(x)'
  BY <1>0, <1>1, <1>3, BootLaunchIs, LaunchKeepsLoops
<1>5. ASSUME NEW x \in RunnerId
      PROVE  (Seen(x) => Seen(x)') /\ (Coming(x) => Coming(x)' \/ Seen(x)' \/ cancelled)
  <2>1. ~cancelled \/ runner[r].live > 0 => Launched(r).live > 0
    BY <1>0, <1>1, LaunchedIs
  <2>2. Seen(x) => Seen(x)'
    BY <1>0, <1>1, <2>1, LaunchedIs DEF Seen
  <2>3. CASE \E q \in Proc : call[q].pc \in Making /\ call[q].mine = x /\ call[q].saw
    <3>1. PICK q \in Proc : call[q].pc \in Making /\ call[q].mine = x /\ call[q].saw
      BY <2>3
    <3>2. call'[q] = call[q]
      BY <3>1, BootLaunchIs DEF OthersKeep, Making
    <3>3. Coming(x)'
      BY <3>1, <3>2 DEF Coming
    <3>4. QED BY <2>2, <3>3
  <2>4. CASE x \in call[boot].keys
    <3>1. x = r /\ ~cancelled => Seen(x)'
      BY <1>0, <1>1, <2>1 DEF Seen
    <3>2. x # r => Coming(x)'
      BY <1>1, <2>4, BootLaunchIs DEF Coming
    <3>3. QED BY <2>2, <3>1, <3>2
  <2>5. QED BY <2>2, <2>3, <2>4, BootLaunchIs DEF Coming
<1>6. \A t \in Task : Watched(t)'
  BY <1>0, <1>3, <1>5, BootLaunchIs, WatchKept
<1>7. QED BY <1>0, <1>3, <1>4, <1>6, StepKeepsStructure

LEMMA InitedIs ==
    ASSUME Structure, NEW p \in Proc, Inited(p)
    PROVE  /\ OthersKeep(p) /\ call[p].pc = "inited" /\ (p = boot => started)
           /\ UNCHANGED <<runners, conf, started, cancelled, crossed>>
           /\ call'[p].pc = IF p = boot THEN "nextReload" ELSE "idle"
           /\ call'[p].task = NoTask /\ call'[p].mine = NoRunner /\ call'[p].saw = FALSE
           /\ call'[p].pc = "idle" => call'[p] = Idle
           /\ call'[p].todo = IF p = boot THEN call[p].todo ELSE {}
           /\ call[p].mine \in RunnerId /\ call[p].task \in Task
           /\ runner[call[p].mine].task = call[p].task /\ (call[p].saw => started)
           /\ runner' = IF call[p].saw
                        THEN [runner EXCEPT ![call[p].mine] = Launched(call[p].mine)]
                        ELSE runner
           /\ runner' \in [RunnerId -> Running]
           /\ \A x \in RunnerId : runner'[x].task = runner[x].task
<1>0. CallsTyped /\ InPlace(p) /\ OwnRunner(p) /\ runner \in [RunnerId -> Running]
      /\ call[p] \in Calling
  BY Basics
<1>1. /\ call[p].pc = "inited" /\ (p = boot => started) /\ Return(p)
      /\ UNCHANGED <<runners, conf, started, cancelled, crossed>>
      /\ runner' = IF call[p].saw
                   THEN [runner EXCEPT ![call[p].mine] = Launched(call[p].mine)]
                   ELSE runner
  BY DEF Inited, At, lineVars, past
<1>2. /\ call[p].mine \in RunnerId /\ call[p].task \in Task
      /\ runner[call[p].mine].task = call[p].task /\ (call[p].saw => started)
  BY <1>0, <1>1, CallIs DEF InPlace, OwnRunner, Making, BetweenTasks, Calling
<1>3. runner' \in [RunnerId -> Running] /\ \A x \in RunnerId : runner'[x].task = runner[x].task
  BY <1>0, <1>1, <1>2, LaunchedIs
<1>4. QED BY <1>0, <1>1, <1>2, <1>3, ReturnIs DEF OthersKeep

LEMMA InitedKeepsStructure ==
    ASSUME Structure, CancelInv', NEW p \in Proc, Inited(p)
    PROVE  Structure'
<1>0. /\ LifeTyped /\ runner \in [RunnerId -> Running] /\ boot \in Proc
  BY Basics
<1>1. StepOf(p) /\ started' = started
  <2>1. InPlace(p)'
    <3>1. CASE p = boot
      <4>1. /\ call'[p].pc = "nextReload" /\ call'[p].task = NoTask /\ call'[p].mine = NoRunner
            /\ call'[p].saw = FALSE
        BY <3>1, InitedIs
      <4>2. started' = started /\ started
        BY <3>1, InitedIs
      <4>3. QED BY <3>1, <4>1, <4>2 DEF InPlace, BetweenTasks, Clearing, Making
    <3>2. CASE p # boot
      <4>1. call'[p] = Idle
        BY <3>2, InitedIs
      <4>2. QED BY <3>2, <4>1, IdleIs DEF InPlace, BetweenTasks, Clearing, Making
    <3>3. QED BY <3>1, <3>2
  <2>2. OwnRunner(p)' /\ (p = boot => Copied')
    BY InitedIs DEF OwnRunner, Copied
  <2>3. QED BY <1>0, <2>1, <2>2, InitedIs DEF StepOf, LifeTyped, OthersKeep
<1>2. \A x \in RunnerId : LiveFine(x)'
  <2>1. CASE call[p].saw
    BY <1>1, <2>1, InitedIs, LaunchKeepsLoops
  <2>2. CASE ~call[p].saw
    <3>1. runner' = runner /\ runners' = runners /\ call[p].pc # "stopOld"
      BY <2>2, InitedIs
    <3>2. QED BY <1>1, <3>1, LoopsKept
  <2>3. QED BY <2>1, <2>2
<1>3. ASSUME NEW x \in RunnerId
      PROVE  (Seen(x) => Seen(x)') /\ (Coming(x) => Coming(x)' \/ Seen(x)' \/ cancelled)
  <2> DEFINE m == call[p].mine
  <2>1. m \in RunnerId
    BY InitedIs
  <2>2. /\ ~cancelled \/ runner[m].live > 0 => Launched(m).live > 0
        /\ Launched(m).stopUsed = runner[m].stopUsed /\ Launched(m).missed = runner[m].missed
    BY <1>0, <2>1, LaunchedIs
  <2>3. /\ call[p].saw => runner' = [runner EXCEPT ![m] = Launched(m)]
        /\ ~call[p].saw => runner' = runner
    BY InitedIs
  <2> HIDE DEF m
  <2>4. Seen(x) => Seen(x)'
    BY <1>0, <2>1, <2>2, <2>3 DEF Seen
  <2>5. CASE \E q \in Proc : call[q].pc \in Making /\ call[q].mine = x /\ call[q].saw
    <3>1. PICK q \in Proc : call[q].pc \in Making /\ call[q].mine = x /\ call[q].saw
      BY <2>5
    <3>2. CASE q = p
      <4>1. ~cancelled => Seen(x)'
        BY <1>0, <2>1, <2>2, <2>3, <3>1, <3>2 DEF Seen, m
      <4>2. QED BY <2>4, <4>1
    <3>3. CASE q # p
      <4>1. call'[q] = call[q]
        BY <3>3, InitedIs DEF OthersKeep
      <4>2. Coming(x)'
        BY <3>1, <4>1 DEF Coming
      <4>3. QED BY <2>4, <4>2
    <3>4. QED BY <3>2, <3>3
  <2>6. CASE call[boot].pc = "snapshot" \/ (call[boot].pc = "launch" /\ x \in call[boot].keys)
    <3>1. p # boot /\ call'[boot] = call[boot]
      BY <1>0, <2>6, InitedIs DEF OthersKeep
    <3>2. Coming(x)'
      BY <2>6, <3>1 DEF Coming
    <3>3. QED BY <2>4, <3>2
  <2>7. QED BY <2>4, <2>5, <2>6 DEF Coming
<1>4. \A t \in Task : Watched(t)'
  BY <1>1, <1>3, InitedIs, WatchKept
<1>5. QED BY <1>1, <1>2, <1>4, StepKeepsStructure

(* What happens to a runner that a step does not hold: nothing, unless it  *)
(* is forgotten, or leaves the map unstopped.                              *)
Forgotten(x) == Unused(x)' /\ runner'[x] = NewRunner(NoTask)

Displaced(x, t) ==
    \/ Forgotten(x)
    \/ runners[t] # x /\ runner'[x] = runner[x]
    \/ /\ runners[t] = x /\ runner'[x].astray
       /\ runner'[x].task = runner[x].task /\ runner'[x].live = runner[x].live
       /\ runner'[x].stopUsed = runner[x].stopUsed /\ runner'[x].missed = runner[x].missed

LEMMA UnstoppedDisplaces ==
    ASSUME runner \in [RunnerId -> Running], NEW t, NEW x \in RunnerId,
           runner'[x] = Unstopped(t)[x] \/ Forgotten(x)
    PROVE  Displaced(x, t)
<1>1. /\ Unstopped(t)[x].task = runner[x].task /\ Unstopped(t)[x].live = runner[x].live
      /\ Unstopped(t)[x].stopUsed = runner[x].stopUsed
      /\ Unstopped(t)[x].missed = runner[x].missed
      /\ Unstopped(t)[x].astray = (runner[x].astray \/ runners[t] = x)
      /\ runners[t] # x => Unstopped(t)[x] = runner[x]
  BY UnstoppedIs
<1>2. QED BY <1>1 DEF Displaced

(* A displaced runner whose loops run keeps them.                          *)
LEMMA DisplacedIs ==
    ASSUME NEW t, NEW x \in RunnerId, Displaced(x, t)
    PROVE  /\ Unused(x)' \/ (runner'[x].task = runner[x].task /\ (Seen(x) => Seen(x)'))
           /\ runner'[x].live > 0 =>
                 /\ runner'[x].task = runner[x].task /\ runner'[x].live = runner[x].live
                 /\ runner'[x].stopUsed = runner[x].stopUsed
                 /\ runner[x].astray => runner'[x].astray
                 /\ runners[t] = x => runner'[x].astray
<1>1. ASSUME Forgotten(x) PROVE Unused(x)' /\ ~(runner'[x].live > 0)
  BY <1>1, NewRunnerIs DEF Forgotten
<1>2. QED BY <1>1 DEF Displaced, Seen

LEMMA RegisterIs ==
    ASSUME Structure, NEW p \in Proc, Register(p)
    PROVE  /\ OthersKeep(p) /\ call[p].pc = "register" /\ call[p].task \in Task
           /\ UNCHANGED <<conf, started, cancelled, crossed>>
           /\ call'[p].pc = "mark" /\ call'[p].task = call[p].task
           /\ call'[p].saw = call[p].saw /\ call'[p].on = call[p].on
           /\ call'[p].todo = call[p].todo
           /\ runner' \in [RunnerId -> Running]
           /\ \E r \in RunnerId :
                /\ Unused(r) /\ call'[p].mine = r
                /\ runners' = [runners EXCEPT ![call[p].task] = r]
                /\ runner'[r].task = call[p].task /\ runner'[r].live = 0
                /\ ~runner'[r].stopUsed /\ ~runner'[r].astray
                /\ runner'[r].missed = (~call[p].saw /\ started /\ ~At(boot, "snapshot"))
                /\ \A x \in RunnerId \ {r} : Displaced(x, call[p].task)
<1>0. CallsTyped /\ runner \in [RunnerId -> Running] /\ call[p] \in Calling
      /\ runners \in [Task -> RunnerId \cup {NoRunner}]
  BY Basics
<1>1. /\ call[p].pc = "register" /\ call[p].task \in Task
      /\ UNCHANGED <<conf, started, cancelled, crossed>>
  BY <1>0, CallIs DEF Register, At, BetweenTasks, lineVars, past
<1> DEFINE t == call[p].task
           m == ~call[p].saw /\ started /\ ~At(boot, "snapshot")
<1>2. PICK r \in RunnerId :
        /\ Unused(r)
        /\ runners' = [runners EXCEPT ![t] = r]
        /\ call' = [call EXCEPT ![p].pc = "mark", ![p].mine = r]
        /\ runner' = Collected([Unstopped(t) EXCEPT ![r] = [NewRunner(t) EXCEPT !.missed = m]])
  BY DEF Register
<1> DEFINE new == [NewRunner(t) EXCEPT !.missed = m]
           f == [Unstopped(t) EXCEPT ![r] = new]
<1>3. /\ new \in Running /\ new.task = t /\ new.live = 0 /\ ~new.stopUsed /\ ~new.astray
      /\ new.missed = m
  BY <1>1 DEF NewRunner, Running
<1>4. f \in [RunnerId -> Running] /\ f[r] = new
      /\ \A x \in RunnerId \ {r} : f[x] = Unstopped(t)[x]
  <2>1. Unstopped(t) \in [RunnerId -> Running]
    BY <1>0, UnstoppedIs
  <2> HIDE DEF new
  <2>2. QED BY <1>3, <2>1
<1>5. runner' = Collected(f)
  BY <1>2
<1> HIDE DEF f, new, m
<1>6. /\ runner' \in [RunnerId -> Running]
      /\ \A x \in RunnerId :
                \/ runner'[x] = f[x]
                \/ runner'[x] = NewRunner(NoTask) /\ f[x].live = 0 /\ Unused(x)'
  BY <1>4, <1>5, CollectedIs
<1>7. runner'[r] = new
  <2>1. ~Unused(r)'
    BY <1>0, <1>1, <1>2 DEF Unused
  <2>2. QED BY <1>4, <1>6, <2>1
<1>8. ASSUME NEW x \in RunnerId \ {r} PROVE Displaced(x, t)
  <2>1. runner'[x] = Unstopped(t)[x] \/ Forgotten(x)
    BY <1>4, <1>6 DEF Forgotten
  <2>2. QED BY <1>0, <2>1, UnstoppedDisplaces
<1>9. /\ OthersKeep(p) /\ call'[p].pc = "mark" /\ call'[p].task = t
      /\ call'[p].saw = call[p].saw /\ call'[p].on = call[p].on
      /\ call'[p].todo = call[p].todo /\ call'[p].mine = r
  BY <1>0, <1>2 DEF OthersKeep, CallsTyped, Calling
<1>10. QED BY <1>1, <1>2, <1>3, <1>6, <1>7, <1>8, <1>9 DEF m

LEMMA RegisterKeepsStructure ==
    ASSUME Structure, CancelInv', NEW p \in Proc, Register(p)
    PROVE  Structure'
<1>0. /\ LifeTyped /\ runner \in [RunnerId -> Running] /\ boot \in Proc /\ InPlace(p)
      /\ NoRunner \notin RunnerId /\ runners \in [Task -> RunnerId \cup {NoRunner}]
  BY Basics
<1> DEFINE t == call[p].task
<1>1. PICK r \in RunnerId :
                /\ Unused(r) /\ call'[p].mine = r
                /\ runners' = [runners EXCEPT ![call[p].task] = r]
                /\ runner'[r].task = call[p].task /\ runner'[r].live = 0
                /\ ~runner'[r].stopUsed /\ ~runner'[r].astray
                /\ runner'[r].missed = (~call[p].saw /\ started /\ ~At(boot, "snapshot"))
                /\ \A x \in RunnerId \ {r} : Displaced(x, call[p].task)
  BY RegisterIs
<1>2. StepOf(p) /\ started' = started
  <2>1. InPlace(p)'
    BY <1>0, <1>1, RegisterIs DEF InPlace, BetweenTasks, Clearing, Making
  <2>2. OwnRunner(p)' /\ (p = boot => Copied')
    BY <1>1, RegisterIs DEF OwnRunner, Copied
  <2>3. \A x \in RunnerId : Unused(x) \/ Unused(x)' \/ runner'[x].task = runner[x].task
    BY <1>1, DisplacedIs
  <2>4. \A s \in Task : runners'[s] \in {runners[s], NoRunner} \/ runner'[runners'[s]].task = s
    BY <1>0, <1>1, RegisterIs
  <2>5. QED BY <1>0, <2>1, <2>2, <2>3, <2>4, RegisterIs DEF StepOf, LifeTyped, OthersKeep
<1>3. \A x \in RunnerId : LiveFine(x)'
  <2>1. ASSUME NEW x \in RunnerId, runner'[x].live > 0
        PROVE  /\ runner'[x].task = runner[x].task /\ runner'[x].live = runner[x].live
               /\ runner'[x].stopUsed = runner[x].stopUsed
               /\ runner[x].astray => runner'[x].astray
               /\ \A s \in Task : runners[s] = x => runners'[s] = x \/ runner'[x].astray
    <3>1. x # r /\ Displaced(x, t)
      BY <1>1, <2>1
    <3>2. \A s \in Task : runners[s] = x /\ s # t => runners'[s] = x
      BY <1>0, <1>1, RegisterIs
    <3>3. QED BY <2>1, <3>1, <3>2, DisplacedIs
  <2>2. call[p].pc # "stopOld"
    BY RegisterIs
  <2>3. QED BY <1>2, <2>1, <2>2, LoopsKept
<1>4. ASSUME NEW s \in Task PROVE Watched(s)'
  <2>1. CASE s = t
    <3>1. runners'[s] = r
      BY <1>0, <1>1, <2>1, RegisterIs
    <3>2. call[p].saw => Coming(r)'
      BY <1>1, RegisterIs DEF Coming, Making
    <3>3. At(boot, "snapshot") => Coming(r)'
      <4>1. At(boot, "snapshot") => p # boot
        BY RegisterIs DEF At
      <4>2. At(boot, "snapshot") => call'[boot].pc = "snapshot"
        BY <1>0, <4>1, RegisterIs DEF At, OthersKeep
      <4>3. QED BY <4>2 DEF Coming
    <3>4. ~call[p].saw /\ ~At(boot, "snapshot") /\ started => Seen(r)'
      BY <1>1 DEF Seen
    <3>5. QED BY <1>2, <3>1, <3>2, <3>3, <3>4 DEF Watched
  <2>2. CASE s # t
    <3>1. runners'[s] = runners[s] /\ Watched(s)
      BY <1>0, <1>1, <2>2, RegisterIs DEF Structure
    <3>2. SUFFICES ASSUME started, ~cancelled, runners[s] # NoRunner PROVE Watched(s)'
      BY <1>2, <3>1 DEF Watched, StepOf
    <3>3. PICK x \in RunnerId : runners[s] = x
      BY <1>0, <3>2
    <3>4. x # r /\ ~Unused(x)' /\ (Seen(x) \/ Coming(x))
      BY <1>0, <1>1, <3>1, <3>2, <3>3 DEF Watched, Unused
    <3>5. Seen(x) => Seen(x)'
      BY <1>1, <3>4, DisplacedIs
    <3>6. ASSUME NEW q \in Proc, call[q].pc \in Making /\ call[q].mine = x /\ call[q].saw
          PROVE  Coming(x)'
      <4>1. call'[q] = call[q]
        BY <3>6, RegisterIs DEF OthersKeep, Making
      <4>2. QED BY <3>6, <4>1 DEF Coming
    <3>7. ASSUME call[boot].pc = "snapshot" \/ (call[boot].pc = "launch" /\ x \in call[boot].keys)
          PROVE  Coming(x)'
      <4>1. call'[boot] = call[boot]
        BY <1>0, <3>7, RegisterIs DEF OthersKeep
      <4>2. QED BY <3>7, <4>1 DEF Coming
    <3>8. Coming(x) => Coming(x)'
      BY <3>6, <3>7 DEF Coming
    <3>9. QED BY <3>1, <3>3, <3>4, <3>5, <3>8 DEF Watched
  <2>3. QED BY <2>1, <2>2
<1>5. QED BY <1>2, <1>3, <1>4, StepKeepsStructure

LEMMA InitFailedIs ==
    ASSUME Structure, NEW p \in Proc, InitFailed(p)
    PROVE  /\ OthersKeep(p) /\ call[p].pc = "initFailed" /\ call[p].task \in Task
           /\ UNCHANGED <<conf, started, cancelled, crossed>>
           /\ call'[p] = Idle
           /\ runners' = [runners EXCEPT ![call[p].task] = NoRunner]
           /\ runner' \in [RunnerId -> Running]
           /\ \A x \in RunnerId : Displaced(x, call[p].task)
<1>0. CallsTyped /\ runner \in [RunnerId -> Running] /\ call[p] \in Calling
  BY Basics
<1>1. /\ call[p].pc = "initFailed" /\ call[p].task \in Task
      /\ UNCHANGED <<conf, started, cancelled, crossed>>
      /\ runners' = [runners EXCEPT ![call[p].task] = NoRunner]
      /\ call' = [call EXCEPT ![p] = Idle]
      /\ runner' = Collected(Unstopped(call[p].task))
  BY <1>0, CallIs DEF InitFailed, At, BetweenTasks, lineVars, past
<1>2. OthersKeep(p) /\ call'[p] = Idle
  BY <1>0, <1>1 DEF OthersKeep, CallsTyped
<1>3. Unstopped(call[p].task) \in [RunnerId -> Running]
  BY <1>0, UnstoppedIs
<1>4. /\ runner' \in [RunnerId -> Running]
      /\ \A x \in RunnerId :
                \/ runner'[x] = Unstopped(call[p].task)[x]
                \/ runner'[x] = NewRunner(NoTask) /\ Unused(x)'
  BY <1>1, <1>3, CollectedIs
<1>5. ASSUME NEW x \in RunnerId PROVE Displaced(x, call[p].task)
  <2>1. runner'[x] = Unstopped(call[p].task)[x] \/ Forgotten(x)
    BY <1>4 DEF Forgotten
  <2>2. QED BY <1>0, <2>1, UnstoppedDisplaces
<1>6. QED BY <1>1, <1>2, <1>4, <1>5

LEMMA InitFailedKeepsStructure ==
    ASSUME Structure, CancelInv', NEW p \in Proc, InitFailed(p)
    PROVE  Structure'
<1>0. /\ LifeTyped /\ runner \in [RunnerId -> Running] /\ boot \in Proc
      /\ NoRunner \notin RunnerId /\ runners \in [Task -> RunnerId \cup {NoRunner}]
      /\ OwnRunner(p) /\ InPlace(p) /\ call[p] \in Calling
  BY Basics
<1> DEFINE t == call[p].task
<1>1. StepOf(p) /\ started' = started
  <2>1. InPlace(p)'
    BY <1>0, InitFailedIs, IdleIs DEF InPlace, BetweenTasks, Clearing, Making
  <2>2. OwnRunner(p)' /\ (p = boot => Copied')
    BY InitFailedIs, IdleIs DEF OwnRunner, Copied
  <2>3. \A x \in RunnerId : Unused(x) \/ Unused(x)' \/ runner'[x].task = runner[x].task
    BY InitFailedIs, DisplacedIs
  <2>4. \A s \in Task : runners'[s] \in {runners[s], NoRunner}
    BY <1>0, InitFailedIs
  <2>5. QED BY <1>0, <2>1, <2>2, <2>3, <2>4, InitFailedIs DEF StepOf, LifeTyped, OthersKeep
<1>2. \A x \in RunnerId : LiveFine(x)'
  <2>1. ASSUME NEW x \in RunnerId, runner'[x].live > 0
        PROVE  /\ runner'[x].task = runner[x].task /\ runner'[x].live = runner[x].live
               /\ runner'[x].stopUsed = runner[x].stopUsed
               /\ runner[x].astray => runner'[x].astray
               /\ \A s \in Task : runners[s] = x => runners'[s] = x \/ runner'[x].astray
    <3>1. Displaced(x, t)
      BY InitFailedIs
    <3>2. \A s \in Task : runners[s] = x /\ s # t => runners'[s] = x
      BY <1>0, InitFailedIs
    <3>3. QED BY <2>1, <3>1, <3>2, DisplacedIs
  <2>2. call[p].pc # "stopOld"
    BY InitFailedIs
  <2>3. QED BY <1>1, <2>1, <2>2, LoopsKept
<1>3. ASSUME NEW s \in Task PROVE Watched(s)'
  <2>1. SUFFICES ASSUME started, ~cancelled, runners'[s] # NoRunner PROVE Watched(s)'
    BY <1>1 DEF Watched, StepOf
  <2>2. PICK x \in RunnerId : runners[s] = x
    BY <1>0, <2>1, InitFailedIs
  <2>3. /\ s # t /\ runners'[s] = x
        /\ ~Unused(x)' /\ (Seen(x) \/ Coming(x)) /\ runner[x].task = s
    BY <1>0, <2>1, <2>2, InitFailedIs DEF Structure, Watched, Unused, Owns
  <2>4. Seen(x) => Seen(x)'
    BY <2>3, InitFailedIs, DisplacedIs
  <2>5. ASSUME NEW q \in Proc, call[q].pc \in Making /\ call[q].mine = x /\ call[q].saw
        PROVE  Coming(x)'
    <3>1. q # p
      BY <1>0, <2>3, <2>5 DEF OwnRunner
    <3>2. call'[q] = call[q]
      BY <3>1, InitFailedIs DEF OthersKeep
    <3>3. QED BY <2>5, <3>2 DEF Coming
  <2>6. ASSUME call[boot].pc = "snapshot" \/ (call[boot].pc = "launch" /\ x \in call[boot].keys)
        PROVE  Coming(x)'
    <3>1. call'[boot] = call[boot]
      BY <1>0, <2>6, InitFailedIs DEF OthersKeep
    <3>2. QED BY <2>6, <3>1 DEF Coming
  <2>7. Coming(x) => Coming(x)'
    BY <2>5, <2>6 DEF Coming
  <2>8. QED BY <2>2, <2>3, <2>4, <2>7 DEF Watched
<1>4. QED BY <1>1, <1>2, <1>3, StepKeepsStructure

LEMMA PopIs ==
    ASSUME Structure, NEW p \in Proc, Pop(p)
    PROVE  /\ OthersKeep(p) /\ call[p].pc = "pop" /\ call[p].task \in Task
           /\ UNCHANGED <<runner, conf, started, cancelled, crossed>>
           /\ runners' = [runners EXCEPT ![call[p].task] = NoRunner]
           /\ call'[p].pc = "stopOld" /\ call'[p].mine = runners[call[p].task]
           /\ call'[p].task = call[p].task /\ call'[p].saw = call[p].saw
           /\ call'[p].on = call[p].on /\ call'[p].todo = call[p].todo
<1>0. CallsTyped /\ call[p] \in Calling
  BY Basics
<1>1. /\ call[p].pc = "pop"
      /\ UNCHANGED <<runner, conf, started, cancelled, crossed>>
      /\ runners' = [runners EXCEPT ![call[p].task] = NoRunner]
      /\ call' = [call EXCEPT ![p].pc = "stopOld", ![p].mine = runners[call[p].task]]
  BY DEF Pop, At, lineVars, past
<1>2. call[p].task \in Task
  BY <1>0, <1>1, CallIs DEF BetweenTasks
<1>3. QED BY <1>0, <1>1, <1>2 DEF OthersKeep, CallsTyped, Calling

LEMMA PopKeepsStructure ==
    ASSUME Structure, CancelInv', NEW p \in Proc, Pop(p)
    PROVE  Structure'
<1>0. /\ LifeTyped /\ runner \in [RunnerId -> Running] /\ boot \in Proc /\ InPlace(p)
      /\ NoRunner \notin RunnerId /\ runners \in [Task -> RunnerId \cup {NoRunner}]
  BY Basics
<1> DEFINE t == call[p].task
<1>1. StepOf(p) /\ started' = started
  <2>1. InPlace(p)'
    BY <1>0, PopIs DEF InPlace, BetweenTasks, Clearing, Making
  <2>2. OwnRunner(p)' /\ (p = boot => Copied')
    <3>1. t \in Task /\ Owns(t)
      BY PopIs DEF Structure
    <3>2. QED BY <1>0, <3>1, PopIs DEF OwnRunner, Owns, Copied
  <2>3. \A s \in Task : runners'[s] \in {runners[s], NoRunner}
    BY <1>0, PopIs
  <2>4. QED BY <1>0, <2>1, <2>2, <2>3, PopIs DEF StepOf, LifeTyped, OthersKeep
<1>2. \A x \in RunnerId : LiveFine(x)'
  <2>1. ASSUME NEW x \in RunnerId, NEW s \in Task, runners[s] = x
        PROVE  runners'[s] = x \/ (call'[p].pc = "stopOld" /\ call'[p].mine = x)
    BY <1>0, <2>1, PopIs
  <2>2. call[p].pc # "stopOld" /\ runner' = runner
    BY PopIs
  <2>3. QED BY <1>1, <2>1, <2>2, LoopsKept
<1>3. ASSUME NEW x \in RunnerId
      PROVE  (Seen(x) => Seen(x)') /\ (Coming(x) => Coming(x)')
  <2>1. Seen(x) => Seen(x)'
    BY PopIs DEF Seen
  <2>2. ASSUME NEW q \in Proc, call[q].pc \in Making /\ call[q].mine = x /\ call[q].saw
        PROVE  Coming(x)'
    <3>1. call'[q] = call[q]
      BY <2>2, PopIs DEF OthersKeep, Making
    <3>2. QED BY <2>2, <3>1 DEF Coming
  <2>3. ASSUME call[boot].pc = "snapshot" \/ (call[boot].pc = "launch" /\ x \in call[boot].keys)
        PROVE  Coming(x)'
    <3>1. call'[boot] = call[boot]
      BY <1>0, <2>3, PopIs DEF OthersKeep
    <3>2. QED BY <2>3, <3>1 DEF Coming
  <2>4. QED BY <2>1, <2>2, <2>3 DEF Coming
<1>4. \A s \in Task : Watched(s)'
  <2>1. \A s \in Task : runners'[s] \in {runners[s], NoRunner}
    BY <1>0, PopIs
  <2>2. QED BY <1>1, <1>3, <2>1, WatchKept
<1>5. QED BY <1>1, <1>2, <1>4, StepKeepsStructure

(* A stop ends the loops of a runner that is not astray.                   *)
StoppedOnly(m) ==
    /\ \A x \in RunnerId : x # m => runner'[x] = runner[x] \/ Forgotten(x)
    /\ m \in RunnerId => runner'[m] = Stopped(m) \/ Forgotten(m)

LEMMA StopKeeps ==
    ASSUME Structure, CancelInv', NEW p \in Proc, StepOf(p), NEW m, StoppedOnly(m),
           UNCHANGED <<runners, started>>,
           call[p].pc = "stopOld" => call[p].mine = m,
           call[p].pc \notin Making, p = boot => call[p].pc \notin {"snapshot", "launch"}
    PROVE  Structure'
<1>0. runner \in [RunnerId -> Running] /\ boot \in Proc
      /\ \A x \in RunnerId : LiveFine(x)
      /\ cancelled' = cancelled
  BY Basics DEF Structure, StepOf
<1>1. ASSUME NEW x \in RunnerId, x # m, Held(x), runner'[x] = runner[x] PROVE Held(x)'
  <2>1. \A q \in Proc : call[q].pc = "stopOld" /\ call[q].mine = x => call'[q] = call[q]
    BY <1>1 DEF StepOf
  <2>2. QED BY <1>1, <2>1 DEF Held, AboutToStop
<1>2. ASSUME NEW x \in RunnerId PROVE LiveFine(x)'
  <2>1. SUFFICES ASSUME runner'[x].live > 0, ~Forgotten(x) PROVE LiveFine(x)'
    BY NewRunnerIs DEF LiveFine, Forgotten
  <2>2. CASE x # m
    <3>1. runner'[x] = runner[x]
      BY <2>1, <2>2 DEF StoppedOnly
    <3>2. QED BY <1>0, <1>1, <2>1, <2>2, <3>1 DEF LiveFine
  <2>3. CASE x = m
    <3>1. runner'[x] = Stopped(x) /\ runner[x] \in Running
      BY <1>0, <2>1, <2>3 DEF StoppedOnly
    <3>2. /\ runner'[x].task = runner[x].task /\ runner'[x].astray = runner[x].astray
          /\ runner'[x].live = IF runner[x].stopUsed \/ runner[x].live = 0 THEN runner[x].live
                               ELSE runner[x].live - 1
      BY <1>0, <3>1, StoppedIs
    <3>3. runner[x].live \in Nat /\ runner[x].live > 0
      BY <2>1, <3>1, <3>2 DEF Running
    <3>4. runner'[x].astray
      BY <1>0, <2>1, <3>2, <3>3 DEF LiveFine
    <3>5. QED BY <1>0, <3>2, <3>3, <3>4 DEF LiveFine
  <2>4. QED BY <2>2, <2>3
<1>3. ASSUME NEW x \in RunnerId
      PROVE  (Seen(x) => Seen(x)' \/ Unused(x)') /\ (Coming(x) => Coming(x)')
  <2>1. Seen(x) => Seen(x)' \/ Unused(x)'
    <3>1. CASE Forgotten(x)
      BY <3>1 DEF Forgotten
    <3>2. CASE x # m /\ ~Forgotten(x)
      BY <3>2 DEF StoppedOnly, Seen
    <3>3. CASE x = m /\ ~Forgotten(x)
      <4>1. Stopped(x).stopUsed
        BY <1>0, StoppedIs
      <4>2. QED BY <3>3, <4>1 DEF StoppedOnly, Seen
    <3>4. QED BY <3>1, <3>2, <3>3
  <2>2. ASSUME NEW q \in Proc, call[q].pc \in Making /\ call[q].mine = x /\ call[q].saw
        PROVE  Coming(x)'
    <3>1. call'[q] = call[q]
      BY <2>2 DEF StepOf
    <3>2. QED BY <2>2, <3>1 DEF Coming
  <2>3. ASSUME call[boot].pc = "snapshot" \/ (call[boot].pc = "launch" /\ x \in call[boot].keys)
        PROVE  Coming(x)'
    <3>1. call'[boot] = call[boot]
      BY <1>0, <2>3 DEF StepOf
    <3>2. QED BY <2>3, <3>1 DEF Coming
  <2>4. QED BY <2>1, <2>2, <2>3 DEF Coming
<1>4. \A t \in Task : Watched(t)'
  BY <1>3, WatchKept
<1>5. QED BY <1>2, <1>4, StepKeepsStructure

LEMMA StoppedOnlyIs ==
    ASSUME Structure, NEW m, StoppedOnly(m)
    PROVE  \A x \in RunnerId : Unused(x)' \/ runner'[x].task = runner[x].task
<1>1. ASSUME NEW x \in RunnerId PROVE Unused(x)' \/ runner'[x].task = runner[x].task
  <2>1. Stopped(x).task = runner[x].task
    BY Basics, StoppedIs
  <2>2. QED BY <2>1 DEF StoppedOnly, Forgotten
<1>2. QED BY <1>1

LEMMA StopOldIs ==
    ASSUME Structure, NEW p \in Proc, StopOld(p)
    PROVE  /\ OthersKeep(p) /\ call[p].pc = "stopOld" /\ call[p].task \in Task
           /\ UNCHANGED <<runners, conf, started, cancelled, crossed>>
           /\ runner' \in [RunnerId -> Running] /\ StoppedOnly(call[p].mine)
           /\ call'[p].mine = NoRunner
           /\ call'[p].todo = IF p = boot THEN call[p].todo ELSE {}
           /\ \/ /\ call[p].on /\ call'[p].pc = "register" /\ call'[p].task = call[p].task
                 /\ call'[p].saw = call[p].saw /\ call'[p].on = call[p].on
              \/ /\ ~call[p].on /\ call'[p].task = NoTask /\ call'[p].saw = FALSE
                 /\ call'[p].pc = IF p = boot THEN "nextReload" ELSE "idle"
                 /\ call'[p].pc = "idle" => call'[p] = Idle
<1>0. CallsTyped /\ runner \in [RunnerId -> Running] /\ call[p] \in Calling /\ InPlace(p)
  BY Basics
<1>1. /\ call[p].pc = "stopOld" /\ call[p].mine \in RunnerId \cup {NoRunner}
      /\ UNCHANGED <<runners, conf, started, cancelled, crossed>>
      /\ call[p].on => call' = [call EXCEPT ![p].pc = "register", ![p].mine = NoRunner]
      /\ ~call[p].on => Return(p)
  BY <1>0 DEF StopOld, At, lineVars, past, Calling
<1>2. call[p].task \in Task
  BY <1>0, <1>1, CallIs DEF BetweenTasks
<1> DEFINE f == IF call[p].mine = NoRunner THEN runner
                ELSE [runner EXCEPT ![call[p].mine] = Stopped(call[p].mine)]
<1>3. runner' = Collected(f)
  BY DEF StopOld
<1>4. f \in [RunnerId -> Running]
  <2>1. CASE call[p].mine = NoRunner
    BY <1>0, <2>1
  <2>2. CASE call[p].mine # NoRunner
    BY <1>0, <1>1, <2>2, StoppedIs
  <2>3. QED BY <2>1, <2>2
<1>5. /\ \A x \in RunnerId : x # call[p].mine => f[x] = runner[x]
      /\ call[p].mine \in RunnerId => f[call[p].mine] = Stopped(call[p].mine)
  BY <1>0, EngineAssumption
<1> HIDE DEF f
<1>6. /\ runner' \in [RunnerId -> Running]
      /\ \A x \in RunnerId : runner'[x] = f[x] \/ Forgotten(x)
  BY <1>3, <1>4, CollectedIs DEF Forgotten
<1>7. StoppedOnly(call[p].mine)
  BY <1>5, <1>6 DEF StoppedOnly
<1>8. CASE call[p].on
  <2>1. /\ OthersKeep(p)
        /\ call'[p] = [call[p] EXCEPT !.pc = "register", !.mine = NoRunner]
    BY <1>0, <1>1, <1>8 DEF OthersKeep, CallsTyped
  <2>2. /\ call'[p].pc = "register" /\ call'[p].task = call[p].task
        /\ call'[p].saw = call[p].saw /\ call'[p].on = call[p].on
        /\ call'[p].mine = NoRunner /\ call'[p].todo = call[p].todo
    BY <1>0, <2>1 DEF Calling
  <2>3. p # boot => call[p].todo = {}
    BY <1>0 DEF InPlace
  <2>4. QED BY <1>1, <1>2, <1>6, <1>7, <1>8, <2>1, <2>2, <2>3
<1>9. CASE ~call[p].on
  BY <1>0, <1>1, <1>2, <1>6, <1>7, <1>9, ReturnIs DEF OthersKeep
<1>10. QED BY <1>8, <1>9

LEMMA StopRunnerIs ==
    ASSUME Structure, NEW p \in Proc, StopRunner(p)
    PROVE  /\ OthersKeep(p) /\ call[p].pc = "stopRunner" /\ p # boot
           /\ UNCHANGED <<runners, conf, started, cancelled, crossed>>
           /\ runner' \in [RunnerId -> Running] /\ StoppedOnly(call[p].mine)
           /\ call'[p].pc = "cancelActive" /\ call'[p].task = call[p].task
           /\ call'[p].mine = call[p].mine /\ call'[p].saw = call[p].saw
           /\ call'[p].todo = call[p].todo
<1>0. CallsTyped /\ runner \in [RunnerId -> Running] /\ call[p] \in Calling /\ InPlace(p)
  BY Basics
<1>1. /\ call[p].pc = "stopRunner" /\ Goto(p, "cancelActive")
      /\ UNCHANGED <<runners, conf, started, cancelled, crossed>>
      /\ runner' = [runner EXCEPT ![call[p].mine] = Stopped(call[p].mine)]
  BY DEF StopRunner, At, lineVars, past
<1>2. p # boot /\ call[p].mine \in RunnerId
  BY <1>0, <1>1, CallIs
     DEF BootPC, BetweenTasks, Reloading, Clearing, Making, InPlace, Calling
<1>3. runner' \in [RunnerId -> Running] /\ StoppedOnly(call[p].mine)
  BY <1>0, <1>1, <1>2, StoppedIs DEF StoppedOnly
<1>4. QED BY <1>0, <1>1, <1>2, <1>3, GotoIs DEF OthersKeep

LEMMA StopsKeepStructure ==
    ASSUME Structure, CancelInv', NEW p \in Proc, StopOld(p) \/ StopRunner(p)
    PROVE  Structure'
<1>0. /\ LifeTyped /\ boot \in Proc /\ InPlace(p) /\ OwnRunner(p)
      /\ NoRunner \notin RunnerId /\ runners \in [Task -> RunnerId \cup {NoRunner}]
      /\ call[p].mine \in RunnerId \cup {NoRunner}
  BY Basics DEF Calling
<1>1. CASE StopOld(p)
  <2>1. StepOf(p)
    <3>1. InPlace(p)'
      <4>1. CASE call[p].on
        BY <1>0, <1>1, <4>1, StopOldIs DEF InPlace, BetweenTasks, Clearing, Making
      <4>2. CASE ~call[p].on /\ p = boot
        <5>1. /\ call'[p].pc = "nextReload" /\ call'[p].task = NoTask
              /\ call'[p].mine = NoRunner /\ call'[p].saw = FALSE /\ call[p].pc = "stopOld"
          BY <1>1, <4>2, StopOldIs
        <5>2. started' = started /\ started
          BY <1>0, <1>1, <4>2, <5>1, StopOldIs DEF InPlace, Clearing
        <5>3. QED BY <4>2, <5>1, <5>2 DEF InPlace, BetweenTasks, Clearing, Making
      <4>3. CASE ~call[p].on /\ p # boot
        <5>1. call'[p] = Idle
          BY <1>1, <4>3, StopOldIs
        <5>2. QED BY <4>3, <5>1, IdleIs DEF InPlace, BetweenTasks, Clearing, Making
      <4>4. QED BY <4>1, <4>2, <4>3
    <3>2. OwnRunner(p)' /\ (p = boot => Copied')
      BY <1>1, StopOldIs DEF OwnRunner, Copied
    <3>3. \A x \in RunnerId : Unused(x)' \/ runner'[x].task = runner[x].task
      BY <1>1, StopOldIs, StoppedOnlyIs
    <3>4. QED BY <1>0, <1>1, <3>1, <3>2, <3>3, StopOldIs DEF StepOf, LifeTyped, OthersKeep
  <2>2. QED BY <1>1, <2>1, StopOldIs, StopKeeps DEF Making
<1>2. CASE StopRunner(p)
  <2>1. StepOf(p)
    <3>1. InPlace(p)'
      BY <1>0, <1>2, StopRunnerIs DEF InPlace, BetweenTasks, Clearing, Making
    <3>2. \A x \in RunnerId : Unused(x)' \/ runner'[x].task = runner[x].task
      BY <1>2, StopRunnerIs, StoppedOnlyIs
    <3>3. OwnRunner(p)'
      <4>1. SUFFICES ASSUME call[p].mine # NoRunner PROVE OwnRunner(p)'
        BY <1>2, StopRunnerIs DEF OwnRunner
      <4>2. ~Unused(call[p].mine)'
        BY <1>2, <4>1, StopRunnerIs DEF Unused, Refers
      <4>3. QED BY <1>0, <1>2, <3>2, <4>1, <4>2, StopRunnerIs DEF OwnRunner
    <3>4. QED BY <1>0, <1>2, <3>1, <3>2, <3>3, StopRunnerIs DEF StepOf, LifeTyped, OthersKeep
  <2>2. QED BY <1>2, <2>1, StopRunnerIs, StopKeeps DEF Making
<1>3. QED BY <1>1, <1>2

-----------------------------------------------------------------------------
(* The steps of nobody's call: triggers and the worker ...                 *)
SameCall(q) ==
    /\ call'[q].pc = call[q].pc /\ call'[q].task = call[q].task /\ call'[q].todo = call[q].todo
    /\ call'[q].keys = call[q].keys /\ call'[q].saw = call[q].saw /\ call'[q].on = call[q].on
    /\ call'[q].mine = call[q].mine
    /\ call[q] = Idle => call'[q] = Idle
NobodysStep ==
    /\ UNCHANGED <<runners, runner, conf, started, cancelled, crossed>>
    /\ \A q \in Proc : SameCall(q)

(* ... and the exit, which ends all loops.                                 *)
ExitStep ==
    /\ UNCHANGED <<runners, conf, started, call, crossed>> /\ cancelled' = TRUE
    /\ runner' \in [RunnerId -> Running]
    /\ \A r \in RunnerId : runner'[r].task = runner[r].task /\ runner'[r].live = 0
                           /\ runner'[r].astray = runner[r].astray
                           /\ runner'[r].missed = runner[r].missed

LEMMA NobodysStepIs ==
    ASSUME Structure,
           \/ \E r \in RunnerId, k \in Key : Fire(r, k)
           \/ \E k \in Key : LateFire(k)
           \/ \E t \in Task : LateEnd(t)
           \/ WorkerSteps
           \/ UNCHANGED vars
    PROVE  NobodysStep
<1>0. /\ CallsTyped /\ \A q \in Proc : call[q] \in Calling
  BY Basics
<1>1. CASE \/ \E r \in RunnerId, k \in Key : Fire(r, k)
           \/ \E k \in Key : LateFire(k)
           \/ \E t \in Task : LateEnd(t)
           \/ UNCHANGED vars
  <2>1. UNCHANGED <<runners, runner, conf, started, cancelled, call, crossed>>
    BY <1>1 DEF Fire, LateFire, LateEnd, Request, vars, lineVars, engineVars, past
  <2>2. QED BY <2>1 DEF NobodysStep, SameCall
<1>2. CASE WorkerSteps
  <2>1. /\ UNCHANGED <<runners, runner, conf, started, cancelled, crossed>>
        /\ \/ call' = call
           \/ call' = [p \in Proc |-> [call[p] EXCEPT !.holds = FALSE]]
    BY <1>2 DEF WorkerSteps, WorkerTake, WorkerSkip, WorkerAccept, WorkerRegister, WorkerDone,
         WorkerLeave, Serve, Finish, Leave, lineVars, engineVars, past
  <2>2. CASE call' = call
    BY <2>1, <2>2 DEF NobodysStep, SameCall
  <2>3. ASSUME call' = [p \in Proc |-> [call[p] EXCEPT !.holds = FALSE]], NEW q \in Proc
        PROVE  SameCall(q)
    <3>1. call'[q] = [call[q] EXCEPT !.holds = FALSE] /\ call[q] \in Calling
      BY <1>0, <2>3
    <3>2. ~Idle.holds /\ Idle \in Calling
      BY IdleIsCalling
    <3>3. \A x \in Calling : ~x.holds => [x EXCEPT !.holds = FALSE] = x
      BY DEF Calling
    <3>4. call[q] = Idle => call'[q] = Idle
      BY <3>1, <3>2, <3>3
    <3>5. QED BY <3>1, <3>4 DEF SameCall, Calling
  <2>4. QED BY <2>1, <2>2, <2>3 DEF NobodysStep
<1>3. QED BY <1>1, <1>2

LEMMA ExitStepIs ==
    ASSUME Structure, AppCancel \/ Shutdown
    PROVE  ExitStep
<1>0. /\ runner \in [RunnerId -> Running] /\ cancelled \in BOOLEAN
      /\ \A r \in RunnerId : LiveFine(r)
  BY Basics DEF Structure, LifeTyped
<1>1. CASE AppCancel
  BY <1>0, <1>1 DEF AppCancel, Cancel, ExitStep, Running, past
<1>2. CASE Shutdown
  <2>1. ASSUME NEW r \in RunnerId
        PROVE  /\ runner'[r] \in Running /\ runner'[r].task = runner[r].task
               /\ runner'[r].live = 0 /\ runner'[r].astray = runner[r].astray
               /\ runner'[r].missed = runner[r].missed
    <3>1. runner[r].live = 0 /\ runner[r] \in Running
      <4>1. cancelled /\ runner[r].live \in Nat
        BY <1>0, <1>2 DEF Shutdown, CloseLine, Running
      <4>2. QED BY <1>0, <4>1 DEF LiveFine
    <3>2. runner'[r] = Stopped(r) \/ runner'[r] = runner[r]
      BY <1>2 DEF Shutdown
    <3>3. QED BY <1>0, <3>1, <3>2, StoppedIs
  <2>2. runner' \in [RunnerId -> Running]
    BY <1>2, <2>1 DEF Shutdown
  <2>3. UNCHANGED <<runners, conf, started, call, crossed>> /\ cancelled' = TRUE
    BY <1>0, <1>2 DEF Shutdown, CloseLine, past
  <2>4. QED BY <2>1, <2>2, <2>3 DEF ExitStep
<1>3. QED BY <1>1, <1>2

LEMMA NobodyKeepsStructure ==
    ASSUME Structure, CancelInv', NobodysStep
    PROVE  Structure'
<1>0. /\ LifeTyped /\ Copied /\ boot \in Proc
      /\ \A p \in Proc : InPlace(p) /\ OwnRunner(p)
  BY Basics
<1>1. ASSUME NEW p \in Proc PROVE InPlace(p)' /\ OwnRunner(p)'
  BY <1>0 DEF NobodysStep, SameCall, InPlace, OwnRunner
<1>2. Copied' /\ LifeTyped'
  BY <1>0 DEF NobodysStep, SameCall, Copied, LifeTyped
<1>3. ASSUME NEW r \in RunnerId PROVE LiveFine(r)'
  <2>1. AboutToStop(r) => AboutToStop(r)'
    BY DEF NobodysStep, SameCall, AboutToStop
  <2>2. LiveFine(r)
    BY DEF Structure
  <2>3. QED BY <2>1, <2>2 DEF NobodysStep, LiveFine, Held
<1>4. ASSUME NEW t \in Task PROVE Owns(t)' /\ Watched(t)'
  <2>1. Owns(t) /\ Watched(t)
    BY DEF Structure
  <2>2. \A r : Coming(r) => Coming(r)'
    BY <1>0 DEF NobodysStep, SameCall, Coming
  <2>3. QED BY <2>1, <2>2 DEF NobodysStep, Owns, Watched, Seen
<1>5. QED BY <1>1, <1>2, <1>3, <1>4 DEF Structure

LEMMA ExitKeepsStructure ==
    ASSUME Structure, CancelInv', ExitStep
    PROVE  Structure'
<1>0. /\ LifeTyped /\ Copied /\ NoRunner \notin RunnerId /\ boot \in Proc
      /\ \A p \in Proc : InPlace(p) /\ OwnRunner(p) /\ call[p].mine \in RunnerId \cup {NoRunner}
      /\ runners \in [Task -> RunnerId \cup {NoRunner}]
  BY Basics DEF Calling
<1>1. ASSUME NEW p \in Proc PROVE InPlace(p)' /\ OwnRunner(p)'
  BY <1>0 DEF ExitStep, InPlace, OwnRunner
<1>2. Copied' /\ LifeTyped'
  BY <1>0 DEF ExitStep, Copied, LifeTyped
<1>3. \A r \in RunnerId : LiveFine(r)'
  BY DEF ExitStep, LiveFine
<1>4. ASSUME NEW t \in Task PROVE Owns(t)' /\ Watched(t)'
  <2>1. Owns(t)
    BY DEF Structure
  <2>2. QED BY <1>0, <2>1 DEF ExitStep, Owns, Watched
<1>5. QED BY <1>1, <1>2, <1>3, <1>4 DEF Structure

LEMMA InitIsStructure == Init => Structure
<1> SUFFICES ASSUME Init PROVE Structure
  OBVIOUS
<1>0. /\ \A p \in Proc : call[p] = Idle
      /\ boot \in Proc
  BY DEF Init, Proc
<1>1. /\ runners = [t \in Task |-> NoRunner] /\ started = FALSE /\ cancelled = FALSE
      /\ runner = [r \in RunnerId |-> NewRunner(NoTask)]
      /\ conf \in [Task -> {"absent", "enabled", "disabled"}]
      /\ NewRunner(NoTask) \in Running /\ NewRunner(NoTask).live = 0
  BY NewRunnerIs DEF Init, LineInit
<1>2. CancelInv /\ LifeTyped /\ Copied
  BY <1>0, <1>1, InitIsCancelInv, IdleIs DEF LifeTyped, Copied
<1>3. \A p \in Proc : InPlace(p) /\ OwnRunner(p)
  BY <1>0, IdleIs DEF InPlace, OwnRunner, BetweenTasks, Clearing, Making
<1>4. \A t \in Task : Owns(t) /\ Watched(t)
  BY <1>1 DEF Owns, Watched
<1>5. \A r \in RunnerId : LiveFine(r)
  BY <1>1 DEF LiveFine
<1>6. QED BY <1>2, <1>3, <1>4, <1>5 DEF Structure

(* One disjunct per kind of step of the proofs.                            *)
LEMMA NextIs ==
    ASSUME Structure, [Next]_vars
    PROVE  \/ BootBegin \/ BootNextTask \/ BootInited \/ BootStarted \/ BootSnapshot
           \/ BootLaunch \/ BootLaunched \/ ListTasks \/ NextReload
           \/ \E p \in Proc :
                \/ Register(p) \/ Mark(p) \/ InitEnds(p) \/ InitFailed(p)
                \/ ReadStarted(p) \/ Drop(p) \/ Pop(p) \/ StopOld(p) \/ Inited(p)
                \/ HandlerStep(p) \/ StopRunner(p)
           \/ \E h \in Handler, t \in Task : Begins(h, t)
           \/ NobodysStep \/ ExitStep
<1>1. CASE BootBegin \/ BootSteps
  BY <1>1 DEF BootSteps
<1>2. ASSUME NEW p \in Proc, InitSteps(p) \/ CallSteps(p)
      PROVE  \/ Register(p) \/ Mark(p) \/ InitEnds(p) \/ InitFailed(p)
             \/ ReadStarted(p) \/ Drop(p) \/ Pop(p) \/ StopOld(p) \/ Inited(p)
             \/ HandlerStep(p) \/ StopRunner(p)
  BY <1>2 DEF InitSteps, CallSteps, HandlerStep
<1>3. CASE Calls
  BY <1>3 DEF Calls, Begins
<1>4. CASE AppCancel \/ Shutdown
  BY <1>4, ExitStepIs
<1>5. CASE \/ \E r \in RunnerId, k \in Key : Fire(r, k)
           \/ \E k \in Key : LateFire(k)
           \/ \E t \in Task : LateEnd(t)
           \/ WorkerSteps
           \/ UNCHANGED vars
  BY <1>5, NobodysStepIs
<1>6. QED BY <1>1, <1>2, <1>3, <1>4, <1>5 DEF Next

LEMMA NextKeepsStructure == Structure /\ [Next]_vars => Structure'
<1> SUFFICES ASSUME Structure, [Next]_vars PROVE Structure'
  OBVIOUS
<1>0. CancelInv'
  BY NextKeepsCancelInv DEF Structure
<1>1. CASE \/ BootBegin \/ BootNextTask \/ BootInited \/ BootStarted \/ BootSnapshot
           \/ BootLaunch \/ BootLaunched \/ ListTasks \/ NextReload
  BY <1>0, <1>1, BootQuietKeepsStructure, BootStartedKeepsStructure, BootSnapshotKeepsStructure,
     BootLaunchKeepsStructure
<1>2. ASSUME NEW p \in Proc,
             \/ Register(p) \/ Mark(p) \/ InitEnds(p) \/ InitFailed(p)
             \/ ReadStarted(p) \/ Drop(p) \/ Pop(p) \/ StopOld(p) \/ Inited(p)
             \/ HandlerStep(p) \/ StopRunner(p)
      PROVE  Structure'
  BY <1>0, <1>2, CallQuietKeepsStructure, RegisterKeepsStructure, InitFailedKeepsStructure,
     PopKeepsStructure, StopsKeepStructure, InitedKeepsStructure
<1>3. ASSUME NEW h \in Handler, NEW t \in Task, Begins(h, t) PROVE Structure'
  BY <1>0, <1>3, Basics, CallQuietKeepsStructure
<1>4. CASE NobodysStep \/ ExitStep
  BY <1>0, <1>4, NobodyKeepsStructure, ExitKeepsStructure
<1>5. QED BY <1>1, <1>2, <1>3, <1>4, NextIs

-----------------------------------------------------------------------------
(* What holds of a task as long as no two goroutines were busy with it at  *)
(* the same time. Its running loops are not astray, and its registered     *)
(* runner is not missed.                                                   *)
Busy(p, t) == t \in BusyWith(p)
Alone(t) == \A p, q \in Proc : Busy(p, t) /\ Busy(q, t) => p = q

Straight(t) ==
    /\ \A r \in RunnerId : runner[r].task = t /\ runner[r].live > 0 => ~runner[r].astray
    /\ runners[t] # NoRunner => ~runner[runners[t]].missed

(* The runner a call is making is the one registered, and nothing has been *)
(* done to it; before it, there is none, except that bootstrap may find    *)
(* one of an earlier bootstrap. A call that will register a runner has     *)
(* seen started as it is.                                                  *)
Fresh(r) == runner[r].live = 0 /\ ~runner[r].astray /\ ~runner[r].stopUsed
CallFine(p) ==
    LET c == call[p] IN
    /\ c.pc \in Making => runners[c.task] = c.mine /\ Fresh(c.mine)
    /\ c.pc = "stopOld" => runners[c.task] = NoRunner
    /\ c.pc = "register" => runners[c.task] = NoRunner \/ (p = boot /\ ~started)
    /\ c.pc \in {"register"} \cup Making \/ (c.pc \in Clearing /\ c.on) => (started => c.saw)
    /\ ~started => /\ c.pc \in {"readStarted"} \cup Clearing => c.on = (conf[c.task] = "enabled")
                   /\ c.pc \in {"register"} \cup Making => conf[c.task] = "enabled"

(* Until its copy of the map is launched, bootstrap has made every runner  *)
(* in the map or will replace it.                                          *)
ToMake(t) ==
    \/ \E c \in call[boot].todo : c.task = t
    \/ call[boot].pc = "register" /\ call[boot].task = t
BootFine(t) ==
    Booting =>
        /\ ~started => \A c \in call[boot].todo : c.task = t => conf[t] = "enabled"
        /\ call[boot].pc # "launch" /\ runners[t] # NoRunner => Fresh(runners[t]) \/ ToMake(t)
        /\ call[boot].pc = "launch" =>
              \A r \in call[boot].keys : runner[r].task = t => runners[t] = r /\ Fresh(r)

(* Before the engine has started, only enabled tasks have runners, or a    *)
(* call is about to remove them.                                           *)
Enabled(t) ==
    ~started /\ runners[t] # NoRunner =>
        \/ conf[t] = "enabled"
        \/ \E h \in Handler : call[h].task = t /\ call[h].pc \in {"readStarted", "drop", "pop"}

TaskFine(t) ==
    /\ Alone(t) /\ Straight(t) /\ BootFine(t) /\ Enabled(t)
    /\ \A p \in Proc : call[p].task = t => CallFine(p)

Uncrossed == \A t \in Task : cancelled \/ t \in crossed \/ TaskFine(t)

-----------------------------------------------------------------------------
(* A step of p: who is busy with t afterwards.                             *)
StillAlone(p, t) ==
    Busy(p, t)' => Busy(p, t) \/ \A q \in Proc \ {p} : ~Busy(q, t)

(* What the step of p may change: the state of engine and task, not.       *)
LEMMA OthersStayBusy ==
    ASSUME Structure, NEW p \in Proc, NEW t \in Task, OthersKeep(p),
           started' = started \/ p = boot
    PROVE  \A q \in Proc \ {p} : Busy(q, t)' = Busy(q, t)
<1>1. ASSUME NEW q \in Proc \ {p} PROVE Busy(q, t)' = Busy(q, t)
  <2>1. call'[q] = call[q] /\ (q = boot => started' = started)
    BY <1>1 DEF OthersKeep
  <2>2. CASE q = boot
    BY <2>1, <2>2 DEF Busy, BusyWith, Booting, At
  <2>3. CASE q # boot
    BY <2>1, <2>3 DEF Busy, BusyWith
  <2>4. QED BY <2>2, <2>3
<1>2. QED BY <1>1

LEMMA AloneKept ==
    ASSUME Structure, NEW p \in Proc, NEW t \in Task, OthersKeep(p),
           started' = started \/ p = boot, Alone(t), StillAlone(p, t)
    PROVE  Alone(t)'
<1>1. \A q \in Proc \ {p} : Busy(q, t)' = Busy(q, t)
  BY OthersStayBusy
<1>2. QED BY <1>1 DEF Alone, StillAlone

(* Steps about other tasks leave a task as it is.                          *)
Steady(t) == \A r \in RunnerId : runner'[r].task = t /\ ~Unused(r)' => runner'[r] = runner[r]
Elsewhere(p, t) ==
    /\ OthersKeep(p) /\ call[p].task # t /\ call'[p].task # t
    /\ UNCHANGED <<started, cancelled>> /\ runners'[t] = runners[t] /\ conf'[t] = conf[t]
    /\ Steady(t) /\ StillAlone(p, t) /\ (p = boot => BootFine(t)')

LEMMA ElsewhereKeepsFine ==
    ASSUME Structure, Structure', NEW p \in Proc, NEW t \in Task, TaskFine(t), Elsewhere(p, t)
    PROVE  TaskFine(t)'
<1>0. /\ NoRunner \notin RunnerId /\ boot \in Proc /\ Handler \subseteq Proc
      /\ runners' \in [Task -> RunnerId \cup {NoRunner}] /\ runner' \in [RunnerId -> Running]
      /\ \A q \in Proc : call'[q].mine \in RunnerId \cup {NoRunner}
      /\ Owns(t)' /\ Copied' /\ \A q \in Proc : OwnRunner(q)' /\ InPlace(q)'
  BY Basics DEF Structure, CancelInv, CallsTyped, LifeTyped, Calling
<1>1. Alone(t)'
  BY AloneKept DEF TaskFine, Elsewhere
<1>2. \A r \in RunnerId : runner'[r].live > 0 => ~Unused(r)'
  BY <1>0 DEF Unused, Running
<1>3. runners[t] # NoRunner => runners[t] \in RunnerId /\ runner'[runners[t]] = runner[runners[t]]
  <2>1. SUFFICES ASSUME runners[t] # NoRunner
                 PROVE  runners[t] \in RunnerId /\ runner'[runners[t]] = runner[runners[t]]
    OBVIOUS
  <2>2. runners'[t] = runners[t] /\ runners[t] \in RunnerId /\ runner'[runners[t]].task = t
    BY <1>0, <2>1 DEF Elsewhere, Owns
  <2>3. ~Unused(runners[t])'
    BY <2>2 DEF Unused
  <2>4. QED BY <2>2, <2>3 DEF Elsewhere, Steady
<1>4. Straight(t)'
  BY <1>2, <1>3 DEF TaskFine, Elsewhere, Straight, Steady
<1>5. ASSUME NEW q \in Proc, call'[q].task = t PROVE CallFine(q)'
  <2>1. q # p /\ call'[q] = call[q] /\ CallFine(q)
    BY <1>5 DEF Elsewhere, OthersKeep, TaskFine
  <2>2. call[q].pc \in Making => Fresh(call[q].mine)'
    <3>1. SUFFICES ASSUME call[q].pc \in Making PROVE Fresh(call[q].mine)'
      OBVIOUS
    <3>2. call'[q].mine \in RunnerId /\ call'[q].mine # NoRunner
      BY <1>0, <2>1, <3>1 DEF InPlace
    <3>3. PICK r \in RunnerId : call'[q].mine = r
      BY <3>2
    <3>4. runner'[r].task = t /\ ~Unused(r)'
      BY <1>0, <1>5, <3>2, <3>3 DEF OwnRunner, Unused, Refers
    <3>5. runner'[r] = runner[r]
      BY <3>4 DEF Elsewhere, Steady
    <3>6. QED BY <2>1, <3>1, <3>3, <3>5 DEF CallFine, Fresh
  <2>3. QED BY <1>5, <2>1, <2>2 DEF CallFine, Elsewhere
<1>6. BootFine(t)'
  <2>1. CASE p = boot
    BY <2>1 DEF Elsewhere
  <2>2. CASE p # boot
    <3>1. call'[boot] = call[boot] /\ BootFine(t) /\ started' = started
      BY <1>0, <2>2 DEF Elsewhere, OthersKeep, TaskFine
    <3>2. ASSUME call[boot].pc = "launch", Booting, NEW r \in call[boot].keys, runner'[r].task = t
          PROVE  runners'[t] = r /\ Fresh(r)'
      <4>1. r \in RunnerId /\ ~Unused(r)'
        BY <1>0, <3>1, <3>2 DEF Copied, Unused, Refers
      <4>2. runner'[r] = runner[r]
        BY <3>2, <4>1 DEF Elsewhere, Steady
      <4>3. runners[t] = r /\ Fresh(r)
        BY <3>1, <3>2, <4>2 DEF BootFine
      <4>4. QED BY <4>2, <4>3 DEF Fresh, Elsewhere
    <3>3. runners[t] # NoRunner /\ Fresh(runners[t]) => Fresh(runners[t])'
      BY <1>3 DEF Fresh, Elsewhere
    <3>4. Booting' = Booting /\ ToMake(t)' = ToMake(t)
      BY <3>1 DEF Booting, At, ToMake
    <3>5. QED BY <3>1, <3>2, <3>3, <3>4 DEF BootFine, Elsewhere
  <2>3. QED BY <2>1, <2>2
<1>7. Enabled(t)'
  <2>1. \A h \in Handler : call[h].task = t => call'[h] = call[h]
    BY <1>0 DEF Elsewhere, OthersKeep
  <2>2. QED BY <2>1 DEF Elsewhere, TaskFine, Enabled
<1>8. QED BY <1>1, <1>4, <1>5, <1>6, <1>7 DEF TaskFine

(* A goroutine that goes on with its call, or with its list of calls.      *)
GoesOn(p, t) ==
    p = boot => /\ call[p].pc # "idle" /\ call'[p].pc \notin {"snapshot", "launch"}
                /\ call'[p].todo \subseteq call[p].todo
                /\ call'[p].pc = "idle" \/ started
                   \/ \A c \in call[p].todo : c.task = t => c \in call'[p].todo

LEMMA GoesOnElsewhere ==
    ASSUME Structure, Structure', NEW p \in Proc, NEW t \in Task, TaskFine(t),
           OthersKeep(p), call[p].task # t, call'[p].task # t,
           UNCHANGED <<started, cancelled>>, runners'[t] = runners[t], conf'[t] = conf[t],
           Steady(t), GoesOn(p, t)
    PROVE  TaskFine(t)'
<1>0. /\ NoRunner \notin RunnerId /\ InPlace(p)'
      /\ runners' \in [Task -> RunnerId \cup {NoRunner}] /\ Owns(t)'
  BY EngineAssumption DEF Structure, CancelInv, CallsTyped
<1>1. CASE p # boot
  <2>1. call'[p].todo = {}
    BY <1>0, <1>1 DEF InPlace
  <2>2. ~Busy(p, t)'
    BY <1>1, <2>1 DEF Busy, BusyWith
  <2>3. Elsewhere(p, t)
    BY <1>1, <2>2 DEF Elsewhere, StillAlone
  <2>4. QED BY <2>3, ElsewhereKeepsFine
<1>2. CASE p = boot
  <2>1. Booting' => Booting
    BY <1>2 DEF Booting, At, GoesOn
  <2>2. StillAlone(p, t)
    BY <1>2, <2>1 DEF StillAlone, Busy, BusyWith, GoesOn
  <2>3. BootFine(t)'
    <3>1. SUFFICES ASSUME Booting' PROVE BootFine(t)'
      BY DEF BootFine
    <3>2. Booting /\ ~started /\ call'[boot].pc \notin {"idle", "launch"} /\ BootFine(t)
      BY <1>2, <2>1, <3>1 DEF Booting, At, GoesOn, TaskFine
    <3>3. \A c : c.task = t => (c \in call'[boot].todo <=> c \in call[boot].todo)
      BY <1>2, <3>2 DEF GoesOn
    <3>4. ASSUME runners'[t] # NoRunner PROVE Fresh(runners[t])' \/ ToMake(t)'
      <4>1. PICK r \in RunnerId : runners[t] = r
        BY <1>0, <3>4
      <4>2. call[boot].pc # "launch"
        BY <3>2, <1>2 DEF InPlace, Structure
      <4>3. Fresh(r) \/ \E c \in call[boot].todo : c.task = t
        BY <1>0, <1>2, <3>2, <3>4, <4>1, <4>2 DEF BootFine, ToMake
      <4>4. runner'[r] = runner[r]
        BY <1>0, <4>1 DEF Steady, Unused, Owns
      <4>5. Fresh(r) => Fresh(r)'
        BY <4>4 DEF Fresh
      <4>6. (\E c \in call[boot].todo : c.task = t) => ToMake(t)'
        BY <3>3 DEF ToMake
      <4>7. runners'[t] = r
        BY <4>1
      <4>8. QED BY <4>3, <4>5, <4>6, <4>7 DEF Fresh
    <3>5. \A c \in call'[boot].todo : c.task = t => conf'[t] = "enabled"
      BY <3>2, <3>3 DEF BootFine
    <3>6. QED BY <3>2, <3>4, <3>5 DEF BootFine
  <2>4. Elsewhere(p, t)
    BY <2>2, <2>3 DEF Elsewhere
  <2>5. QED BY <2>4, ElsewhereKeepsFine
<1>3. QED BY <1>1, <1>2

LEMMA SteadyIf ==
    ASSUME Structure, NEW t \in Task,
           \A x \in RunnerId : \/ runner'[x] = runner[x] \/ Forgotten(x) \/ runner'[x].task # t
                               \/ \E s \in Task \ {t} : Displaced(x, s)
    PROVE  Steady(t)
<1>1. SUFFICES ASSUME NEW x \in RunnerId, runner'[x].task = t, ~Unused(x)'
               PROVE  runner'[x] = runner[x]
  BY DEF Steady
<1>2. ASSUME NEW s \in Task \ {t}, Displaced(x, s) PROVE runner'[x] = runner[x]
  <2>1. Owns(s) /\ NoRunner \notin RunnerId
    BY Basics DEF Structure
  <2>2. QED BY <1>1, <1>2, <2>1 DEF Displaced, Forgotten, Owns
<1>3. QED BY <1>1, <1>2 DEF Forgotten

(* The steps of a call keep the tasks it is not about.                     *)
CallStep(p) ==
    \/ Register(p) \/ Mark(p) \/ InitEnds(p) \/ InitFailed(p)
    \/ ReadStarted(p) \/ Drop(p) \/ Pop(p) \/ StopOld(p) \/ Inited(p)
    \/ HandlerStep(p) \/ StopRunner(p)

LEMMA CallStepElsewhere ==
    ASSUME Structure, Structure', NEW p \in Proc, CallStep(p),
           NEW t \in Task, TaskFine(t), call[p].task # t
    PROVE  TaskFine(t)'
<1>0. /\ CallsTyped /\ NoRunner \notin RunnerId /\ NoTask \notin Task
      /\ InPlace(p) /\ OwnRunner(p) /\ call[p].mine \in RunnerId \cup {NoRunner}
      /\ runners \in [Task -> RunnerId \cup {NoRunner}] /\ runner \in [RunnerId -> Running]
  BY Basics DEF Calling
<1>1. CASE Register(p)
  <2>1. PICK r \in RunnerId :
           /\ runners' = [runners EXCEPT ![call[p].task] = r]
           /\ runner'[r].task = call[p].task
           /\ \A x \in RunnerId \ {r} : Displaced(x, call[p].task)
    BY <1>1, RegisterIs
  <2>2. call[p].task \in Task \ {t}
    BY <1>1, RegisterIs
  <2>3. Steady(t)
    BY <2>1, <2>2, SteadyIf
  <2>4. QED BY <1>0, <1>1, <2>1, <2>2, <2>3, RegisterIs, GoesOnElsewhere DEF GoesOn
<1>2. CASE Mark(p) \/ InitEnds(p)
  <2>1. runner[call[p].mine].task = call[p].task /\ call[p].mine \in RunnerId
    BY <1>0, <1>2, FlagIs DEF OwnRunner
  <2>2. Steady(t)
    BY <1>2, <2>1, SteadyIf, FlagIs
  <2>3. QED BY <1>2, <2>2, FlagIs, GoesOnElsewhere DEF GoesOn
<1>3. CASE InitFailed(p)
  <2>1. call[p].task \in Task \ {t}
    BY <1>3, InitFailedIs
  <2>2. Steady(t)
    BY <1>3, <2>1, InitFailedIs, SteadyIf
  <2>3. QED BY <1>0, <1>3, <2>1, <2>2, InitFailedIs, IdleIs, GoesOnElsewhere DEF GoesOn
<1>4. CASE ReadStarted(p) \/ Drop(p) \/ HandlerStep(p)
  <2>1. runner' = runner /\ Steady(t)
    BY <1>4, ReadStartedIs, DropIs, HandlerStepIs DEF Steady
  <2>2. CASE ReadStarted(p)
    BY <2>1, <2>2, ReadStartedIs, GoesOnElsewhere DEF GoesOn
  <2>3. CASE Drop(p)
    BY <2>1, <2>3, DropIs, GoesOnElsewhere DEF GoesOn
  <2>4. CASE HandlerStep(p)
    BY <1>0, <2>1, <2>4, HandlerStepIs, IdleIs, GoesOnElsewhere DEF GoesOn
  <2>5. QED BY <1>4, <2>2, <2>3, <2>4
<1>5. CASE Pop(p)
  <2>1. Steady(t) /\ runners'[t] = runners[t]
    BY <1>0, <1>5, PopIs DEF Steady
  <2>2. QED BY <1>5, <2>1, PopIs, GoesOnElsewhere DEF GoesOn
<1>6. CASE StopOld(p) \/ StopRunner(p)
  <2>1. StoppedOnly(call[p].mine)
    BY <1>6, StopOldIs, StopRunnerIs
  <2>2. ASSUME NEW x \in RunnerId PROVE runner'[x] = runner[x] \/ Forgotten(x) \/ runner'[x].task # t
    <3>1. Stopped(x).task = runner[x].task
      BY <1>0, StoppedIs
    <3>2. QED BY <1>0, <2>1, <3>1 DEF StoppedOnly, OwnRunner
  <2>3. Steady(t)
    BY <2>2, SteadyIf
  <2>4. CASE StopOld(p)
    <3>1. /\ call'[p].task # t /\ call[p].pc # "idle" /\ call'[p].todo = IF p = boot THEN call[p].todo ELSE {}
          /\ p = boot => call'[p].pc \notin {"snapshot", "launch"}
      BY <1>0, <2>4, StopOldIs
    <3>2. QED BY <2>3, <2>4, <3>1, StopOldIs, GoesOnElsewhere DEF GoesOn
  <2>5. CASE StopRunner(p)
    BY <2>3, <2>5, StopRunnerIs, GoesOnElsewhere DEF GoesOn
  <2>6. QED BY <1>6, <2>4, <2>5
<1>7. CASE Inited(p)
  <2>1. Steady(t)
    <3>1. CASE call[p].saw
      <4>1. /\ call[p].mine \in RunnerId
            /\ \A x \in RunnerId : x # call[p].mine => runner'[x] = runner[x]
            /\ runner'[call[p].mine].task # t
        BY <1>0, <1>7, <3>1, InitedIs
      <4>2. QED BY <4>1, SteadyIf
    <3>2. CASE ~call[p].saw
      BY <1>7, <3>2, InitedIs DEF Steady
    <3>3. QED BY <3>1, <3>2
  <2>2. /\ call'[p].task # t /\ call[p].pc # "idle" /\ call'[p].todo = IF p = boot THEN call[p].todo ELSE {}
        /\ p = boot => call'[p].pc \notin {"snapshot", "launch"}
    BY <1>0, <1>7, InitedIs
  <2>3. QED BY <1>7, <2>1, <2>2, InitedIs, GoesOnElsewhere DEF GoesOn
<1>8. QED BY <1>1, <1>2, <1>3, <1>4, <1>5, <1>6, <1>7 DEF CallStep

(* The steps of bootstrap that are about no task.                          *)
LEMMA BootBeginKeepsFine ==
    ASSUME Structure, Structure', BootBegin, NEW t \in Task, TaskFine(t), t \notin crossed'
    PROVE  TaskFine(t)'
<1>0. /\ boot \in Proc /\ NoTask \notin Task /\ Handler \subseteq Proc \ {boot}
      /\ call[boot].task # t /\ call'[boot].task # t /\ OthersKeep(boot)
      /\ UNCHANGED <<runners, runner, conf, started, cancelled>> /\ call[boot].pc = "idle"
  BY Basics, BootBeginIs, IdleIs
<1>1. Steady(t)
  BY <1>0 DEF Steady
<1>2. CASE call'[boot].pc = "listTasks"
  <2>1. /\ call'[boot].todo = {} /\ started
    BY <1>2, BootBeginIs
  <2>2. ~Booting'
    BY <1>0, <1>2, <2>1 DEF Booting, At
  <2>3. ~Busy(boot, t)'
    BY <1>0, <2>1, <2>2 DEF Busy, BusyWith
  <2>4. Elsewhere(boot, t)
    BY <1>0, <1>1, <2>2, <2>3 DEF Elsewhere, StillAlone, BootFine
  <2>5. QED BY <1>0, <2>4, ElsewhereKeepsFine
<1>3. CASE call'[boot].pc # "listTasks"
  <2>1. /\ ~started /\ call'[boot].pc = "nextTask"
        /\ call'[boot].todo = Copies({"enabled"}) /\ Crosses(boot, Task)
    BY <1>3, BootBeginIs
  <2>2. \A q \in Proc \ {boot} : ~Busy(q, t)
    BY <2>1 DEF Crosses, Busy
  <2>3. \A h \in Handler : call[h].task # t
    BY <1>0, <2>2 DEF Busy, BusyWith
  <2>4. \A c \in Copies({"enabled"}) : conf[c.task] = "enabled"
    BY DEF Copies
  <2>5. conf[t] = "enabled" => [task |-> t, on |-> TRUE] \in Copies({"enabled"})
    BY DEF Copies
  <2>6. runners[t] # NoRunner => ToMake(t)'
    <3>1. runners[t] # NoRunner => conf[t] = "enabled"
      BY <2>1, <2>3 DEF TaskFine, Enabled
    <3>2. [task |-> t, on |-> TRUE].task = t
      OBVIOUS
    <3>3. QED BY <2>1, <2>5, <3>1, <3>2 DEF ToMake
  <2>7. BootFine(t)'
    BY <1>0, <2>1, <2>4, <2>6 DEF BootFine
  <2>8. Elsewhere(boot, t)
    BY <1>0, <1>1, <2>2, <2>7 DEF Elsewhere, StillAlone
  <2>9. QED BY <1>0, <2>8, ElsewhereKeepsFine
<1>4. QED BY <1>2, <1>3

LEMMA ListTasksKeepsFine ==
    ASSUME Structure, Structure', ListTasks, NEW t \in Task, TaskFine(t), t \notin crossed'
    PROVE  TaskFine(t)'
<1>0. /\ boot \in Proc /\ NoTask \notin Task /\ InPlace(boot)
      /\ call[boot].pc = "listTasks" /\ started /\ call[boot].task = NoTask
  BY Basics, ListTasksIs DEF InPlace, BetweenTasks
<1>1. /\ OthersKeep(boot) /\ call'[boot].task = NoTask /\ call'[boot].pc = "nextReload"
      /\ UNCHANGED <<runners, runner, conf, started, cancelled>>
      /\ call'[boot].todo = Copies({"enabled", "disabled"})
      /\ Crosses(boot, {s \in Task : conf[s] # "absent"})
  BY <1>0, ListTasksIs
<1>2. ~Booting'
  BY <1>0, <1>1 DEF Booting, At
<1>3. StillAlone(boot, t)
  <2>1. SUFFICES ASSUME Busy(boot, t)' PROVE \A q \in Proc \ {boot} : ~Busy(q, t)
    BY DEF StillAlone
  <2>2. PICK c \in Copies({"enabled", "disabled"}) : c.task = t
    BY <1>0, <1>1, <1>2, <2>1 DEF Busy, BusyWith
  <2>3. conf[t] # "absent"
    BY <2>2 DEF Copies
  <2>4. QED BY <1>1, <2>3 DEF Crosses, Busy
<1>4. Elsewhere(boot, t)
  BY <1>0, <1>1, <1>2, <1>3 DEF Elsewhere, Steady, BootFine
<1>5. QED BY <1>0, <1>4, ElsewhereKeepsFine

LEMMA BootLaunchedKeepsFine ==
    ASSUME Structure, Structure', BootLaunched, NEW t \in Task, TaskFine(t)
    PROVE  TaskFine(t)'
<1>0. /\ boot \in Proc /\ NoTask \notin Task /\ InPlace(boot)
      /\ call[boot].pc = "launch" /\ call[boot].task = NoTask /\ call[boot].todo = {}
  BY Basics, BootLaunchedIs DEF InPlace, BetweenTasks
<1>1. /\ OthersKeep(boot) /\ call'[boot].task = NoTask /\ call'[boot].pc \in {"idle", "listTasks"}
      /\ UNCHANGED <<runners, runner, conf, started, cancelled>> /\ call'[boot].todo = {}
  BY <1>0, BootLaunchedIs, IdleIs
<1>2. QED BY <1>0, <1>1, GoesOnElsewhere DEF GoesOn, Steady

(* A step of p, the only one busy with t, put together from its effects.   *)
LEMMA AboutKeepsFine ==
    ASSUME Structure, Structure', NEW p \in Proc, NEW t \in Task, TaskFine(t), OthersKeep(p),
           started' = started \/ p = boot, \A q \in Proc \ {p} : ~Busy(q, t),
           Straight(t)', Enabled(t)', call'[p].task = t => CallFine(p)', p = boot => BootFine(t)'
    PROVE  TaskFine(t)'
<1>1. Alone(t)'
  BY AloneKept DEF TaskFine, StillAlone
<1>2. \A q \in Proc \ {p} : ~Busy(q, t)' /\ ~Busy(q, t)
  BY OthersStayBusy
<1>3. ASSUME NEW q \in Proc, call'[q].task = t PROVE CallFine(q)'
  <2>1. q = p
    BY <1>2, <1>3 DEF Busy, BusyWith
  <2>2. QED BY <1>3, <2>1
<1>4. p # boot => ~Booting'
  BY <1>2, Basics DEF Busy, BusyWith
<1>5. BootFine(t)'
  BY <1>4 DEF BootFine
<1>6. QED BY <1>1, <1>3, <1>5 DEF TaskFine

(* Before Start has launched its copy, bootstrap is busy with every task.  *)
LEMMA BootingAlone ==
    ASSUME Structure, NEW t \in Task, TaskFine(t), Booting
    PROVE  \A q \in Proc \ {boot} : ~Busy(q, t)
BY Basics DEF TaskFine, Alone, Busy, BusyWith

LEMMA BootStartedKeepsFine ==
    ASSUME Structure, Structure', BootStarted, NEW t \in Task, TaskFine(t)
    PROVE  TaskFine(t)'
<1>0. /\ boot \in Proc /\ NoTask \notin Task /\ InPlace(boot) /\ InPlace(boot)'
      /\ call[boot].pc = "nextTask" /\ call[boot].todo = {} /\ call'[boot].pc = "snapshot"
      /\ UNCHANGED <<runners, runner, conf, cancelled>> /\ started' = TRUE /\ OthersKeep(boot)
      /\ call'[boot].task = NoTask
      /\ runners \in [Task -> RunnerId \cup {NoRunner}]
  BY Basics, BootStartedIs DEF Structure
<1>1. ~started
  BY <1>0 DEF InPlace
<1>2. Booting
  BY <1>0, <1>1 DEF Booting, At
<1>3. BootFine(t)'
  <2>1. runners[t] # NoRunner => Fresh(runners[t])
    BY <1>0, <1>2 DEF TaskFine, BootFine, ToMake
  <2>2. QED BY <1>0, <2>1 DEF BootFine, Fresh
<1>4. Straight(t)' /\ Enabled(t)'
  BY <1>0 DEF TaskFine, Straight, Enabled
<1>5. QED BY <1>0, <1>2, <1>3, <1>4, BootingAlone, AboutKeepsFine

LEMMA BootSnapshotKeepsFine ==
    ASSUME Structure, Structure', BootSnapshot, NEW t \in Task, TaskFine(t)
    PROVE  TaskFine(t)'
<1>0. /\ boot \in Proc /\ NoTask \notin Task /\ InPlace(boot)
      /\ call[boot].pc = "snapshot" /\ call[boot].task = NoTask
      /\ UNCHANGED <<runners, runner, conf, started, cancelled>> /\ OthersKeep(boot)
      /\ call'[boot].task = call[boot].task /\ call'[boot].pc = "launch"
      /\ call'[boot].keys = {runners[s] : s \in Task} \ {NoRunner}
      /\ runners \in [Task -> RunnerId \cup {NoRunner}]
      /\ \A s \in Task : Owns(s)
      /\ call'[boot].todo = call[boot].todo
  BY Basics, BootSnapshotIs DEF Structure, InPlace, BetweenTasks
<1>1. started /\ call[boot].todo = {}
  BY <1>0 DEF InPlace
<1>2. Booting
  BY <1>0 DEF Booting, At
<1>3. BootFine(t)'
  <2>1. runners[t] # NoRunner => Fresh(runners[t])
    BY <1>0, <1>1, <1>2 DEF TaskFine, BootFine, ToMake
  <2>2. ASSUME NEW r \in call'[boot].keys, runner[r].task = t PROVE runners[t] = r /\ Fresh(r)
    BY <1>0, <2>1, <2>2 DEF Owns
  <2>3. QED BY <1>0, <1>1, <2>2 DEF BootFine, Fresh
<1>4. Straight(t)' /\ Enabled(t)'
  BY <1>0, <1>1 DEF TaskFine, Straight, Enabled
<1>5. QED BY <1>0, <1>2, <1>3, <1>4, BootingAlone, AboutKeepsFine

LEMMA BootLaunchKeepsFine ==
    ASSUME Structure, Structure', BootLaunch, NEW t \in Task, TaskFine(t), ~cancelled
    PROVE  TaskFine(t)'
<1>0. /\ boot \in Proc /\ NoTask \notin Task /\ InPlace(boot)
      /\ call[boot].pc = "launch" /\ call[boot].task = NoTask
      /\ UNCHANGED <<runners, conf, started, cancelled>> /\ OthersKeep(boot) /\ started
      /\ call'[boot].task = call[boot].task /\ call'[boot].pc = "launch"
      /\ runners \in [Task -> RunnerId \cup {NoRunner}] /\ runner \in [RunnerId -> Running]
      /\ \A s \in Task : Owns(s)
  BY Basics, BootLaunchIs DEF Structure, InPlace, BetweenTasks
<1>1. PICK r \in call[boot].keys :
        /\ r \in RunnerId /\ runner[r].task \in Task
        /\ runner' = [runner EXCEPT ![r] = Launched(r)]
        /\ call'[boot].keys = call[boot].keys \ {r}
  BY BootLaunchIs
<1>2. Booting /\ BootFine(t) /\ Straight(t)
  BY <1>0 DEF Booting, At, TaskFine
<1>3. /\ runner'[r] = Launched(r) /\ Launched(r).task = runner[r].task
      /\ Launched(r).missed = runner[r].missed
      /\ \A x \in RunnerId \ {r} : runner'[x] = runner[x]
  BY <1>0, <1>1, LaunchedIs
<1>4. runner[r].task = t => ~Launched(r).astray
  <2>1. SUFFICES ASSUME runner[r].task = t PROVE ~Launched(r).astray
    OBVIOUS
  <2>2. runners[t] = r /\ Fresh(r)
    BY <1>0, <1>1, <1>2, <2>1 DEF BootFine
  <2>3. ~(runner[r].live > 0) /\ ~runner[r].astray /\ ~runner[r].stopUsed
    BY <2>2 DEF Fresh
  <2>4. Launched(r).astray = \/ runner[r].astray \/ runner[r].stopUsed \/ runner[r].live > 0
                            \/ \A s \in Task : runners[s] # r
    BY <1>0, <1>1, LaunchedIs
  <2>5. QED BY <2>2, <2>3, <2>4
<1>5. Straight(t)'
  <2>1. \A x \in RunnerId : runner'[x].task = t /\ runner'[x].live > 0 => ~runner'[x].astray
    BY <1>2, <1>3, <1>4 DEF Straight
  <2>2. runners'[t] # NoRunner => ~runner'[runners'[t]].missed
    BY <1>0, <1>2, <1>3 DEF Straight
  <2>3. QED BY <2>1, <2>2 DEF Straight
<1>6. BootFine(t)'
  <2>1. ASSUME NEW x \in call'[boot].keys, runner'[x].task = t PROVE runners[t] = x /\ Fresh(x)'
    <3>1. x \in call[boot].keys /\ x # r /\ x \in RunnerId
      BY <1>0, <1>1, <2>1, Basics DEF Copied
    <3>2. runner'[x] = runner[x]
      BY <1>3, <3>1
    <3>3. runners[t] = x /\ Fresh(x)
      BY <1>0, <1>2, <2>1, <3>1, <3>2 DEF BootFine
    <3>4. QED BY <3>2, <3>3 DEF Fresh
  <2>2. QED BY <1>0, <2>1 DEF BootFine
<1>7. Enabled(t)'
  BY <1>0 DEF Enabled
<1>8. QED BY <1>0, <1>2, <1>5, <1>6, <1>7, BootingAlone, AboutKeepsFine

-----------------------------------------------------------------------------
(* The steps that are about the task. Nobody else is busy with it, and     *)
(* bootstrap is not before its launch unless the step is its own.          *)
LEMMA AboutIs ==
    ASSUME Structure, NEW p \in Proc, NEW t \in Task, TaskFine(t), call[p].task = t
    PROVE  /\ \A q \in Proc \ {p} : ~Busy(q, t)
           /\ p # boot => ~Booting
           /\ CallFine(p) /\ Straight(t) /\ Enabled(t) /\ BootFine(t)
           /\ \A h \in Handler : call[h].task = t => h = p
BY Basics DEF TaskFine, Alone, Busy, BusyWith

(* Loops that go on, and that were not astray, are not astray.             *)
StraightOn(t) ==
    /\ \A x \in RunnerId : runner'[x].task = t /\ runner'[x].live > 0 =>
          \/ ~runner'[x].astray
          \/ /\ runner[x].task = t /\ runner[x].live > 0 /\ runner'[x].astray = runner[x].astray
    /\ \/ runners'[t] = NoRunner \/ ~runner'[runners'[t]].missed
       \/ runners'[t] = runners[t] /\ runner'[runners[t]].missed = runner[runners[t]].missed

LEMMA StraightKept ==
    ASSUME NEW t, Straight(t), StraightOn(t)
    PROVE  Straight(t)'
BY DEF Straight, StraightOn

LEMMA RegisterAbout ==
    ASSUME Structure, Structure', NEW p \in Proc, NEW t \in Task, TaskFine(t), call[p].task = t,
           Register(p)
    PROVE  TaskFine(t)'
<1>0. /\ \A q \in Proc \ {p} : ~Busy(q, t)
      /\ CallFine(p) /\ Straight(t) /\ BootFine(t)
      /\ NoRunner \notin RunnerId /\ boot \in Proc /\ InPlace(p)
      /\ runners \in [Task -> RunnerId \cup {NoRunner}]
      /\ \A x \in RunnerId : LiveFine(x)'
  BY AboutIs, Basics DEF Structure
<1>1. PICK r \in RunnerId :
                /\ Unused(r) /\ call'[p].mine = r
                /\ runners' = [runners EXCEPT ![call[p].task] = r]
                /\ runner'[r].task = call[p].task /\ runner'[r].live = 0
                /\ ~runner'[r].stopUsed /\ ~runner'[r].astray
                /\ runner'[r].missed = (~call[p].saw /\ started /\ ~At(boot, "snapshot"))
                /\ \A x \in RunnerId \ {r} : Displaced(x, call[p].task)
  BY RegisterIs
<1>2. /\ OthersKeep(p) /\ call[p].pc = "register"
      /\ UNCHANGED <<conf, started, cancelled>>
      /\ call'[p].pc = "mark" /\ call'[p].task = t /\ call'[p].saw = call[p].saw
      /\ call'[p].on = call[p].on /\ call'[p].todo = call[p].todo
  BY RegisterIs
<1>3. /\ started => call[p].saw /\ runners[t] = NoRunner
      /\ ~started => conf[t] = "enabled"
      /\ runners'[t] = r
  BY <1>0, <1>1, <1>2 DEF CallFine
<1>4. Straight(t)'
  <2>1. ASSUME NEW x \in RunnerId, runner'[x].live > 0
        PROVE  runner[x].task = runner'[x].task /\ runner[x].live > 0 /\ runner'[x] = runner[x]
    <3>1. x # r /\ started
      BY <1>1, <1>2, <1>0, <2>1 DEF LiveFine
    <3>2. runners[t] # x /\ Displaced(x, t)
      BY <1>0, <1>1, <1>3, <3>1
    <3>3. ~Forgotten(x)
      BY <2>1, NewRunnerIs DEF Forgotten
    <3>4. QED BY <2>1, <3>2, <3>3 DEF Displaced
  <2>2. ~runner'[r].missed
    BY <1>1, <1>3
  <2>3. StraightOn(t)
    BY <1>3, <2>1, <2>2 DEF StraightOn
  <2>4. QED BY <1>0, <2>3, StraightKept
<1>5. CallFine(p)'
  <2>1. Fresh(r)'
    BY <1>1 DEF Fresh
  <2>2. QED BY <1>1, <1>2, <1>3, <2>1 DEF CallFine, Making, Clearing, Fresh
<1>6. p = boot => BootFine(t)'
  <2>1. SUFFICES ASSUME p = boot, Booting' PROVE BootFine(t)'
    BY DEF BootFine
  <2>2. ~started /\ Booting
    BY <1>2, <2>1 DEF Booting, At
  <2>3. Fresh(runners[t])'
    BY <1>1, <1>3 DEF Fresh
  <2>4. QED BY <1>0, <1>2, <2>1, <2>2, <2>3 DEF BootFine
<1>7. Enabled(t)'
  BY <1>2, <1>3 DEF Enabled
<1>8. QED BY <1>0, <1>2, <1>4, <1>5, <1>6, <1>7, AboutKeepsFine

LEMMA FlagAbout ==
    ASSUME Structure, Structure', NEW p \in Proc, NEW t \in Task, TaskFine(t), call[p].task = t,
           Mark(p) \/ InitEnds(p)
    PROVE  TaskFine(t)'
<1>0. /\ \A q \in Proc \ {p} : ~Busy(q, t)
      /\ CallFine(p) /\ Straight(t) /\ BootFine(t) /\ boot \in Proc
      /\ runners \in [Task -> RunnerId \cup {NoRunner}] /\ NoRunner \notin RunnerId
  BY AboutIs, Basics
<1>1. /\ OthersKeep(p) /\ call[p].pc \in {"mark", "init"} /\ call[p].mine \in RunnerId
      /\ UNCHANGED <<runners, conf, started, cancelled, crossed>>
      /\ call'[p].pc \in {"init", "inited", "initFailed"}
      /\ call'[p].task = call[p].task /\ call'[p].mine = call[p].mine
      /\ call'[p].saw = call[p].saw /\ call'[p].on = call[p].on
      /\ call'[p].todo = call[p].todo
      /\ \A r \in RunnerId :
            /\ runner'[r].task = runner[r].task /\ runner'[r].live = runner[r].live
            /\ runner'[r].stopUsed = runner[r].stopUsed
            /\ runner'[r].astray = runner[r].astray /\ runner'[r].missed = runner[r].missed
  BY FlagIs
<1>2. Straight(t)'
  <2>1. StraightOn(t)
    BY <1>0, <1>1 DEF StraightOn
  <2>2. QED BY <1>0, <2>1, StraightKept
<1>3. PICK r \in RunnerId : call[p].mine = r
  BY <1>1
<1>4. runners[t] = r /\ Fresh(r) /\ Fresh(r)'
  BY <1>0, <1>1, <1>3 DEF CallFine, Making, Fresh
<1>5. CallFine(p)'
  BY <1>0, <1>1, <1>3, <1>4 DEF CallFine, Making, Clearing, Fresh
<1>6. p = boot => BootFine(t)'
  <2>1. SUFFICES ASSUME p = boot, Booting' PROVE BootFine(t)'
    BY DEF BootFine
  <2>2. ~started /\ Booting
    BY <1>1, <2>1 DEF Booting, At
  <2>3. QED BY <1>0, <1>1, <1>4, <2>1, <2>2 DEF BootFine, Fresh
<1>7. Enabled(t)'
  BY <1>0, <1>1 DEF Enabled, CallFine, Making
<1>8. QED BY <1>0, <1>1, <1>2, <1>5, <1>6, <1>7, AboutKeepsFine

LEMMA InitFailedAbout ==
    ASSUME Structure, Structure', NEW p \in Proc, NEW t \in Task, TaskFine(t), call[p].task = t,
           InitFailed(p)
    PROVE  TaskFine(t)'
<1>0. /\ \A q \in Proc \ {p} : ~Busy(q, t)
      /\ CallFine(p) /\ Straight(t) /\ NoTask \notin Task
      /\ runners \in [Task -> RunnerId \cup {NoRunner}] /\ NoRunner \notin RunnerId
  BY AboutIs, Basics
<1>1. /\ OthersKeep(p) /\ call[p].pc = "initFailed" /\ started' = started
      /\ call'[p] = Idle /\ runners'[t] = NoRunner
      /\ \A x \in RunnerId : Displaced(x, t)
  BY <1>0, InitFailedIs
<1>2. Fresh(call[p].mine) /\ runners[t] = call[p].mine
  BY <1>0, <1>1 DEF CallFine, Making
<1>3. Straight(t)'
  <2>1. ASSUME NEW x \in RunnerId, runner'[x].live > 0 PROVE runner'[x] = runner[x]
    <3>1. Displaced(x, t) /\ ~Forgotten(x)
      BY <1>1, <2>1, NewRunnerIs DEF Forgotten
    <3>2. runners[t] # x
      BY <1>2, <2>1, <3>1 DEF Displaced, Fresh
    <3>3. QED BY <3>1, <3>2 DEF Displaced
  <2>2. StraightOn(t)
    BY <1>1, <2>1 DEF StraightOn
  <2>3. QED BY <1>0, <2>2, StraightKept
<1>4. call'[p].task # t /\ (p = boot => ~Booting')
  BY <1>0, <1>1, IdleIs DEF Booting, At
<1>5. Enabled(t)' /\ (p = boot => BootFine(t)')
  BY <1>1, <1>4 DEF Enabled, BootFine
<1>6. QED BY <1>0, <1>1, <1>3, <1>4, <1>5, AboutKeepsFine

LEMMA ClearingAbout ==
    ASSUME Structure, Structure', NEW p \in Proc, NEW t \in Task, TaskFine(t), call[p].task = t,
           ReadStarted(p) \/ Drop(p) \/ Pop(p)
    PROVE  TaskFine(t)'
<1>0. /\ \A q \in Proc \ {p} : ~Busy(q, t)
      /\ CallFine(p) /\ Straight(t) /\ BootFine(t) /\ Enabled(t) /\ boot \in Proc
      /\ runners \in [Task -> RunnerId \cup {NoRunner}] /\ NoRunner \notin RunnerId
      /\ InPlace(p) /\ \A h \in Handler : call[h].task = t => h = p
      /\ p = boot \/ p \in Handler
  BY AboutIs, Basics
<1>1. /\ OthersKeep(p) /\ UNCHANGED <<runner, conf, started>>
      /\ call[p].pc \in {"readStarted", "drop", "pop"}
      /\ call'[p].pc \in {"drop", "pop", "stopOld"}
      /\ call'[p].task = t /\ call'[p].on = call[p].on
      /\ call'[p].saw = IF call[p].pc = "readStarted" THEN started ELSE call[p].saw
      /\ call[p].pc = "pop" => call'[p].pc = "stopOld" /\ runners'[t] = NoRunner
      /\ call[p].pc # "pop" => call'[p].pc # "stopOld" /\ runners'[t] = runners[t]
  BY <1>0, ReadStartedIs, DropIs, PopIs
<1>2. Straight(t)'
  BY <1>0, <1>1 DEF Straight
<1>3. CallFine(p)'
  BY <1>0, <1>1 DEF CallFine, Making, Clearing
<1>4. p = boot => started /\ ~Booting'
  BY <1>0, <1>1 DEF InPlace, Clearing, Booting, At
<1>5. p = boot => BootFine(t)'
  BY <1>4 DEF BootFine
<1>6. Enabled(t)'
  <2>1. SUFFICES ASSUME ~started, runners'[t] # NoRunner, conf[t] # "enabled"
                 PROVE  p \in Handler /\ call'[p].task = t
                        /\ call'[p].pc \in {"readStarted", "drop", "pop"}
    BY <1>1 DEF Enabled
  <2>2. QED BY <1>0, <1>1, <1>4, <2>1
<1>7. QED BY <1>0, <1>1, <1>2, <1>3, <1>5, <1>6, AboutKeepsFine

(* The end of a call leaves the task to nobody.                            *)
LEMMA StopAbout ==
    ASSUME Structure, Structure', NEW p \in Proc, NEW t \in Task, TaskFine(t), call[p].task = t,
           StopOld(p) \/ StopRunner(p)
    PROVE  TaskFine(t)'
<1>0. /\ \A q \in Proc \ {p} : ~Busy(q, t)
      /\ CallFine(p) /\ Straight(t) /\ Enabled(t) /\ boot \in Proc /\ NoTask \notin Task
      /\ runners \in [Task -> RunnerId \cup {NoRunner}] /\ NoRunner \notin RunnerId
      /\ InPlace(p) /\ OwnRunner(p) /\ Owns(t) /\ runner \in [RunnerId -> Running]
      /\ \A h \in Handler : call[h].task = t => h = p
  BY AboutIs, Basics DEF Structure
<1>1. /\ StoppedOnly(call[p].mine) /\ OthersKeep(p)
      /\ UNCHANGED <<runners, conf, started>>
  BY StopOldIs, StopRunnerIs
<1>2. ASSUME NEW x \in RunnerId
      PROVE  \/ Forgotten(x)
             \/ /\ runner'[x].task = runner[x].task /\ runner'[x].astray = runner[x].astray
                /\ runner'[x].missed = runner[x].missed
                /\ runner'[x].live > 0 => runner[x].live > 0
  <2>1. runner[x] \in Running /\ runner[x].live \in Nat
    BY <1>0 DEF Running
  <2>2. /\ Stopped(x).task = runner[x].task /\ Stopped(x).astray = runner[x].astray
        /\ Stopped(x).missed = runner[x].missed
        /\ Stopped(x).live = IF runner[x].stopUsed \/ runner[x].live = 0 THEN runner[x].live
                             ELSE runner[x].live - 1
    BY <1>0, StoppedIs
  <2>3. Stopped(x).live > 0 => runner[x].live > 0
    BY <2>1, <2>2
  <2>4. QED BY <1>1, <2>2, <2>3 DEF StoppedOnly
<1>3. Straight(t)'
  <2>1. \A x \in RunnerId : Forgotten(x) => runner'[x].task # t
    BY <1>0, NewRunnerIs DEF Forgotten
  <2>2. \A x \in RunnerId : runners'[t] = x => ~Forgotten(x)
    BY DEF Forgotten, Unused
  <2>3. StraightOn(t)
    BY <1>0, <1>1, <1>2, <2>1, <2>2 DEF StraightOn
  <2>4. QED BY <1>0, <2>3, StraightKept
<1>4. CASE StopOld(p)
  <2>1. /\ call[p].pc = "stopOld" /\ runners[t] = NoRunner
        /\ call[p].on => call'[p].pc = "register" /\ call'[p].saw = call[p].saw
        /\ ~call[p].on => call'[p].task = NoTask
        /\ call'[p].pc \in {"register", "nextReload", "idle"}
    BY <1>0, <1>4, StopOldIs DEF CallFine
  <2>2. call'[p].task = t => CallFine(p)'
    BY <1>0, <1>1, <2>1 DEF CallFine, Making, Clearing
  <2>3. p = boot => ~Booting'
    BY <1>0, <1>1, <2>1 DEF InPlace, Clearing, Booting, At
  <2>4. Enabled(t)' /\ (p = boot => BootFine(t)')
    BY <1>1, <2>1, <2>3 DEF Enabled, BootFine
  <2>5. QED BY <1>0, <1>1, <1>3, <2>2, <2>4, AboutKeepsFine
<1>5. CASE StopRunner(p)
  <2>1. /\ call[p].pc = "stopRunner" /\ p # boot /\ call'[p].pc = "cancelActive"
    BY <1>5, StopRunnerIs
  <2>2. CallFine(p)'
    BY <2>1 DEF CallFine, Making, Clearing
  <2>3. Enabled(t)'
    BY <1>0, <1>1, <2>1 DEF Enabled
  <2>4. QED BY <1>0, <1>1, <1>3, <2>1, <2>2, <2>3, AboutKeepsFine
<1>6. QED BY <1>4, <1>5

LEMMA InitedAbout ==
    ASSUME Structure, Structure', NEW p \in Proc, NEW t \in Task, TaskFine(t), call[p].task = t,
           Inited(p)
    PROVE  TaskFine(t)'
<1>0. /\ \A q \in Proc \ {p} : ~Busy(q, t)
      /\ CallFine(p) /\ Straight(t) /\ Enabled(t) /\ boot \in Proc /\ NoTask \notin Task
      /\ runners \in [Task -> RunnerId \cup {NoRunner}] /\ NoRunner \notin RunnerId
      /\ runner \in [RunnerId -> Running]
  BY AboutIs, Basics
<1>1. /\ OthersKeep(p) /\ call[p].pc = "inited" /\ (p = boot => started)
      /\ UNCHANGED <<runners, conf, started>>
      /\ call'[p].pc = IF p = boot THEN "nextReload" ELSE "idle"
      /\ call'[p].task = NoTask
  BY InitedIs
<1>2. PICK r \in RunnerId : call[p].mine = r
  BY InitedIs
<1>3. /\ runners[t] = r /\ Fresh(r) /\ (~started => conf[t] = "enabled")
  BY <1>0, <1>1, <1>2 DEF CallFine, Making
<1>4. runner' = runner \/ runner' = [runner EXCEPT ![r] = Launched(r)]
  BY <1>2, InitedIs
<1>5. ~Launched(r).astray /\ ~Launched(r).missed
  <2>1. ~(runner[r].live > 0) /\ ~runner[r].astray /\ ~runner[r].stopUsed /\ ~runner[r].missed
    BY <1>0, <1>3 DEF Fresh, Straight
  <2>2. /\ Launched(r).astray = \/ runner[r].astray \/ runner[r].stopUsed \/ runner[r].live > 0
                                \/ \A s \in Task : runners[s] # r
        /\ Launched(r).missed = runner[r].missed
    BY <1>0, LaunchedIs
  <2>3. QED BY <1>3, <2>1, <2>2
<1>6. Straight(t)'
  <2>1. ASSUME NEW x \in RunnerId
        PROVE  runner'[x] = runner[x] \/ (~runner'[x].astray /\ ~runner'[x].missed)
    BY <1>0, <1>4, <1>5
  <2>2. StraightOn(t)
    BY <1>0, <1>1, <2>1 DEF StraightOn
  <2>3. QED BY <1>0, <2>2, StraightKept
<1>7. p = boot => ~Booting'
  BY <1>1 DEF Booting, At
<1>8. Enabled(t)' /\ (p = boot => BootFine(t)')
  BY <1>1, <1>3, <1>7 DEF Enabled, BootFine
<1>9. QED BY <1>0, <1>1, <1>6, <1>8, AboutKeepsFine

LEMMA HandlerStepAbout ==
    ASSUME Structure, Structure', NEW p \in Proc, NEW t \in Task, TaskFine(t), call[p].task = t,
           HandlerStep(p)
    PROVE  TaskFine(t)'
<1>0. /\ \A q \in Proc \ {p} : ~Busy(q, t)
      /\ Straight(t) /\ Enabled(t) /\ \A h \in Handler : call[h].task = t => h = p
  BY AboutIs
<1>1. /\ OthersKeep(p) /\ p # boot
      /\ call[p].pc \in {"startCheck", "trigger", "stopDrop", "cancelActive", "callCancel"}
      /\ UNCHANGED <<runners, runner, conf, started>>
      /\ call'[p].pc \in {"idle"} \cup Waiting
  BY HandlerStepIs, IdleIs
<1>2. CallFine(p)'
  BY <1>1 DEF CallFine, Making, Clearing, Waiting
<1>3. Straight(t)' /\ Enabled(t)'
  BY <1>0, <1>1 DEF Straight, Enabled
<1>4. QED BY <1>0, <1>1, <1>2, <1>3, AboutKeepsFine

(* Bootstrap's own steps: a runner made, the next task.                    *)
LEMMA BootGoesOnKeepsFine ==
    ASSUME Structure, Structure', NEW t \in Task, TaskFine(t),
           BootInited \/ BootNextTask \/ NextReload
    PROVE  TaskFine(t)'
<1>0. /\ boot \in Proc /\ NoTask \notin Task /\ InPlace(boot) /\ InPlace(boot)'
      /\ runners \in [Task -> RunnerId \cup {NoRunner}]
      /\ Straight(t) /\ Enabled(t) /\ BootFine(t)
  BY Basics DEF Structure, TaskFine
<1>1. /\ OthersKeep(boot) /\ UNCHANGED <<runners, runner, conf, started, cancelled>>
      /\ call[boot].pc \in {"inited", "nextTask", "nextReload"}
      /\ call'[boot].pc \in {"nextTask", "register", "readStarted", "idle"}
      /\ call'[boot].todo \subseteq call[boot].todo
  BY BootInitedIs, BootNextTaskIs, NextReloadIs, IdleIs
<1>2. Straight(t)' /\ Steady(t)
  BY <1>0, <1>1 DEF Straight, Steady
<1>3. CASE BootInited
  <2>1. /\ call[boot].pc = "inited" /\ ~started /\ call'[boot].pc = "nextTask"
        /\ call'[boot].task = NoTask /\ call'[boot].todo = call[boot].todo
    BY <1>3, BootInitedIs
  <2>2. CASE call[boot].task # t
    BY <1>0, <1>1, <1>2, <2>1, <2>2, GoesOnElsewhere DEF GoesOn
  <2>3. CASE call[boot].task = t
    <3>1. /\ Fresh(runners[t]) /\ conf[t] = "enabled"
      BY <1>0, <2>1, <2>3 DEF TaskFine, CallFine, Making
    <3>2. Booting /\ \A q \in Proc \ {boot} : ~Busy(q, t)
      BY <2>1, BootingAlone DEF Booting, At
    <3>3. BootFine(t)' /\ Enabled(t)'
      BY <1>0, <1>1, <2>1, <3>1, <3>2 DEF BootFine, Enabled, Fresh
    <3>4. QED BY <1>0, <1>1, <1>2, <2>1, <3>2, <3>3, AboutKeepsFine
  <2>4. QED BY <2>2, <2>3
<1>4. CASE BootNextTask
  <2>1. PICK c \in call[boot].todo : /\ call'[boot].task = c.task
                                     /\ call'[boot].todo = call[boot].todo \ {c}
    BY <1>4, BootNextTaskIs
  <2>2. call[boot].pc = "nextTask" /\ call'[boot].pc = "register" /\ call[boot].task = NoTask /\ ~started
    BY <1>0, <1>4, BootNextTaskIs DEF InPlace, BetweenTasks
  <2>3. CASE c.task # t
    <3>1. GoesOn(boot, t)
      BY <2>1, <2>2, <2>3 DEF GoesOn
    <3>2. QED BY <1>0, <1>1, <1>2, <2>1, <2>2, <2>3, <3>1, GoesOnElsewhere
  <2>4. CASE c.task = t
    <3>1. Booting /\ conf[t] = "enabled" /\ \A q \in Proc \ {boot} : ~Busy(q, t)
      BY <1>0, <2>1, <2>2, <2>4, BootingAlone DEF Booting, At, BootFine
    <3>2. CallFine(boot)'
      BY <1>1, <2>1, <2>2, <2>4, <3>1 DEF CallFine, Making, Clearing
    <3>3. BootFine(t)' /\ Enabled(t)'
      BY <1>1, <2>1, <2>2, <2>4, <3>1 DEF BootFine, ToMake, Enabled
    <3>4. QED BY <1>0, <1>1, <1>2, <3>1, <3>2, <3>3, AboutKeepsFine
  <2>5. QED BY <2>3, <2>4
<1>5. CASE NextReload
  <2>1. /\ call[boot].pc = "nextReload" /\ call[boot].task = NoTask /\ started
        /\ call'[boot].pc \in {"readStarted", "idle"}
        /\ call'[boot].pc = "idle" => call'[boot].task = NoTask
        /\ call'[boot].task # NoTask => \E c \in call[boot].todo : c.task = call'[boot].task
    BY <1>0, <1>5, NextReloadIs, IdleIs DEF InPlace, BetweenTasks
  <2>2. CASE call'[boot].task # t
    <3>1. GoesOn(boot, t)
      BY <1>1, <2>1 DEF GoesOn
    <3>2. QED BY <1>0, <1>1, <1>2, <2>1, <2>2, <3>1, GoesOnElsewhere
  <2>3. CASE call'[boot].task = t
    <3>1. \A q \in Proc \ {boot} : ~Busy(q, t)
      <4>1. Busy(boot, t)
        BY <1>0, <2>1, <2>3 DEF Busy, BusyWith
      <4>2. QED BY <1>0, <4>1 DEF TaskFine, Alone
    <3>2. CallFine(boot)' /\ ~Booting'
      BY <1>0, <1>1, <2>1, <2>3 DEF CallFine, Making, Clearing, Booting, At
    <3>3. BootFine(t)' /\ Enabled(t)'
      BY <1>1, <2>1, <3>2 DEF BootFine, Enabled
    <3>4. QED BY <1>0, <1>1, <1>2, <3>1, <3>2, <3>3, AboutKeepsFine
  <2>4. QED BY <2>2, <2>3
<1>6. QED BY <1>3, <1>4, <1>5

LEMMA BeginsKeepsFine ==
    ASSUME Structure, Structure', NEW h \in Handler, NEW s \in Task, Begins(h, s),
           NEW t \in Task, TaskFine(t), t \notin crossed'
    PROVE  TaskFine(t)'
<1>0. /\ h \in Proc /\ h # boot /\ boot \in Proc /\ NoTask \notin Task
      /\ OthersKeep(h) /\ UNCHANGED <<runners, runner, started, cancelled>>
      /\ call[h].task = NoTask /\ call[h].pc = "idle" /\ call'[h].task = s
      /\ Handler \subseteq Proc
  BY Basics, BeginsIs, IdleIs
<1>1. CASE s # t
  <2>1. conf'[t] = conf[t]
    BY <1>1, BeginsIs
  <2>2. QED BY <1>0, <1>1, <2>1, GoesOnElsewhere DEF GoesOn, Steady
<1>2. CASE s = t
  <2>1. \A q \in Proc \ {h} : ~Busy(q, t)
    <3>1. Crosses(h, {t})
      BY <1>2, BeginsIs
    <3>2. QED BY <3>1 DEF Crosses, Busy
  <2>2. \A k \in Handler : call[k].task # t
    BY <1>0, <2>1 DEF Busy, BusyWith
  <2>3. \/ /\ call'[h].pc \in {"readStarted", "drop"}
           /\ call'[h].on = (conf'[t] = "enabled")
           /\ call'[h].pc = "drop" => ~call'[h].on
        \/ call'[h].pc \in {"startCheck", "stopDrop"} /\ conf' = conf
    BY <1>2, BeginsIs
  <2>4. CallFine(h)'
    BY <1>0, <1>2, <2>3 DEF CallFine, Making, Clearing
  <2>5. Straight(t)'
    BY <1>0 DEF TaskFine, Straight
  <2>6. Enabled(t)'
    BY <1>0, <1>2, <2>2, <2>3 DEF TaskFine, Enabled
  <2>7. QED BY <1>0, <2>1, <2>4, <2>5, <2>6, AboutKeepsFine
<1>3. QED BY <1>1, <1>2

-----------------------------------------------------------------------------
(* Tasks that nobody crossed stay fine.                                    *)
LEMMA NobodyKeepsFine ==
    ASSUME Structure, NobodysStep, NEW t \in Task, TaskFine(t)
    PROVE  TaskFine(t)'
<1>0. /\ boot \in Proc /\ Handler \subseteq Proc
      /\ \A p \in Proc : /\ call'[p].pc = call[p].pc /\ call'[p].task = call[p].task
                         /\ call'[p].todo = call[p].todo /\ call'[p].keys = call[p].keys
                         /\ call'[p].saw = call[p].saw /\ call'[p].on = call[p].on
                         /\ call'[p].mine = call[p].mine
      /\ UNCHANGED <<runners, runner, conf, started>>
  BY Basics DEF NobodysStep, SameCall
<1>1. Booting' = Booting /\ \A p \in Proc : Busy(p, t)' = Busy(p, t)
  BY <1>0 DEF Busy, BusyWith, Booting, At
<1>2. Alone(t)' /\ Straight(t)' /\ Enabled(t)'
  BY <1>0, <1>1 DEF TaskFine, Alone, Straight, Enabled
<1>3. BootFine(t)'
  BY <1>0, <1>1 DEF TaskFine, BootFine, ToMake, Fresh
<1>4. ASSUME NEW p \in Proc, call'[p].task = t PROVE CallFine(p)'
  BY <1>0, <1>4 DEF TaskFine, CallFine, Fresh
<1>5. QED BY <1>2, <1>3, <1>4 DEF TaskFine

LEMMA CallStepKeepsFine ==
    ASSUME Structure, Structure', NEW p \in Proc, CallStep(p), NEW t \in Task, TaskFine(t)
    PROVE  TaskFine(t)'
<1>1. CASE call[p].task # t
  BY <1>1, CallStepElsewhere
<1>2. CASE call[p].task = t
  BY <1>2, RegisterAbout, FlagAbout, InitFailedAbout, ClearingAbout, StopAbout, InitedAbout,
     HandlerStepAbout DEF CallStep
<1>3. QED BY <1>1, <1>2

LEMMA NextKeepsUncrossed == Structure /\ Structure' /\ Uncrossed /\ [Next]_vars => Uncrossed'
<1> SUFFICES ASSUME Structure, Structure', Uncrossed, [Next]_vars,
                    NEW t \in Task, ~cancelled', t \notin crossed'
             PROVE  TaskFine(t)'
  BY DEF Uncrossed
<1>1. CASE ExitStep
  BY <1>1 DEF ExitStep
<1>2. CASE NobodysStep
  <2>1. TaskFine(t)
    BY <1>2 DEF NobodysStep, Uncrossed
  <2>2. QED BY <1>2, <2>1, NobodyKeepsFine
<1>3. CASE BootBegin \/ ListTasks
  <2>1. cancelled' = cancelled /\ crossed \subseteq crossed'
    BY <1>3, BootBeginIs, ListTasksIs DEF Crosses
  <2>2. TaskFine(t)
    BY <2>1 DEF Uncrossed
  <2>3. QED BY <1>3, <2>2, BootBeginKeepsFine, ListTasksKeepsFine
<1>4. CASE \/ BootNextTask \/ BootInited \/ BootStarted \/ BootSnapshot
           \/ BootLaunch \/ BootLaunched \/ NextReload
  <2>1. cancelled' = cancelled /\ crossed' = crossed
    BY <1>4, BootNextTaskIs, BootInitedIs, BootStartedIs, BootSnapshotIs, BootLaunchIs,
       BootLaunchedIs, NextReloadIs
  <2>2. TaskFine(t) /\ ~cancelled
    BY <2>1 DEF Uncrossed
  <2>3. QED BY <1>4, <2>2, BootGoesOnKeepsFine, BootStartedKeepsFine, BootSnapshotKeepsFine,
               BootLaunchKeepsFine, BootLaunchedKeepsFine
<1>5. ASSUME NEW p \in Proc, CallStep(p) PROVE TaskFine(t)'
  <2>1. cancelled' = cancelled /\ crossed' = crossed
    BY <1>5, RegisterIs, FlagIs, InitFailedIs, ReadStartedIs, DropIs, PopIs, StopOldIs, InitedIs,
       HandlerStepIs, StopRunnerIs DEF CallStep
  <2>2. TaskFine(t)
    BY <2>1 DEF Uncrossed
  <2>3. QED BY <1>5, <2>2, CallStepKeepsFine
<1>6. ASSUME NEW h \in Handler, NEW s \in Task, Begins(h, s) PROVE TaskFine(t)'
  <2>1. cancelled' = cancelled /\ crossed \subseteq crossed'
    BY <1>6, BeginsIs DEF Crosses
  <2>2. TaskFine(t)
    BY <2>1 DEF Uncrossed
  <2>3. QED BY <1>6, <2>2, BeginsKeepsFine
<1>7. QED BY <1>1, <1>2, <1>3, <1>4, <1>5, <1>6, NextIs DEF CallStep

LEMMA InitIsUncrossed == Init => Uncrossed
<1> SUFFICES ASSUME Init, NEW t \in Task PROVE TaskFine(t)
  BY DEF Uncrossed
<1>0. /\ \A p \in Proc : call[p] = Idle
      /\ boot \in Proc /\ NoTask \notin Task
      /\ runners[t] = NoRunner /\ \A r \in RunnerId : runner[r].live = 0
  BY EngineAssumption, NewRunnerIs DEF Init, Proc
<1>1. ~Booting
  BY <1>0, IdleIs DEF Booting, At
<1>2. \A p \in Proc : ~Busy(p, t) /\ call[p].task # t
  BY <1>0, <1>1, IdleIs DEF Busy, BusyWith
<1>3. QED BY <1>0, <1>1, <1>2 DEF TaskFine, Alone, Straight, BootFine, Enabled

LifeInv == Structure /\ Uncrossed

LEMMA LifeInvHolds == Spec => []LifeInv
<1>1. Init => LifeInv
  BY InitIsStructure, InitIsUncrossed DEF LifeInv
<1>2. LifeInv /\ [Next]_vars => LifeInv'
  BY NextKeepsStructure, NextKeepsUncrossed DEF LifeInv
<1>3. QED BY <1>1, <1>2, PTL DEF Spec

(* engine.go, runner.go: however calls and bootstrap overlap, once a task  *)
(* has settled, trigger loops run only for its registered runner, once,    *)
(* and for no stopped one; except for a task that two goroutines were busy *)
(* with at the same time, and of it only for a runner launched, or left    *)
(* behind, out of its turn.                                                *)
THEOREM NoStrayLoopsHolds == Spec => []NoStrayLoops
<1>1. ASSUME LifeInv PROVE NoStrayLoops
  <2>1. SUFFICES ASSUME NEW r \in RunnerId, runner[r].live > 0, Settled(runner[r].task)
                 PROVE  \/ /\ runners[runner[r].task] = r
                           /\ runner[r].live = 1 /\ ~runner[r].stopUsed
                        \/ runner[r].astray /\ runner[r].task \in crossed
    BY DEF NoStrayLoops
  <2>2. LiveFine(r) /\ Uncrossed
    BY <1>1 DEF LifeInv, Structure
  <2>3. ~AboutToStop(r)
    BY <2>1, Basics, <1>1 DEF LifeInv, AboutToStop, Settled, At, Proc
  <2>4. runner[r].task \in Task /\ ~cancelled
    BY <2>1, <2>2 DEF LiveFine
  <2>5. CASE runner[r].astray
    BY <2>1, <2>2, <2>4, <2>5 DEF Uncrossed, TaskFine, Straight
  <2>6. CASE ~runner[r].astray
    BY <2>1, <2>2, <2>3, <2>6 DEF LiveFine, Held
  <2>7. QED BY <2>5, <2>6
<1>2. QED BY <1>1, LifeInvHolds, PTL

(* engine.go: however calls and bootstrap overlap, a task whose runner is  *)
(* registered in a started engine is watched once its calls have settled,  *)
(* unless it was stopped; except one that two goroutines were busy with at *)
(* the same time, and then only because a reload read started before Start *)
(* set it and registered after Start's copy of the map.                    *)
THEOREM RegisteredIsWatchedHolds == Spec => []RegisteredIsWatched
<1>1. ASSUME LifeInv PROVE RegisteredIsWatched
  <2>1. SUFFICES ASSUME NEW t \in Task, started, ~cancelled, Settled(t), runners[t] # NoRunner
                 PROVE  \/ runner[runners[t]].stopUsed \/ runner[runners[t]].live > 0
                        \/ (runner[runners[t]].missed /\ t \in crossed)
    BY DEF RegisteredIsWatched
  <2>2. /\ Watched(t) /\ Uncrossed /\ Owns(t) /\ \A p \in Proc : OwnRunner(p)
        /\ CallsTyped /\ NoRunner \notin RunnerId /\ boot \in Proc
    BY <1>1, Basics DEF LifeInv, Structure
  <2>3. ~Coming(runners[t])
    <3>1. call[boot].pc = "idle" /\ \A p \in Handler : call[p].task # t
      BY <2>1 DEF Settled, At
    <3>2. ASSUME NEW p \in Proc, call[p].pc \in Making, call[p].mine = runners[t] PROVE FALSE
      <4>1. p \in Handler
        BY <3>1, <3>2 DEF Making, Proc
      <4>2. call[p].task = t
        BY <2>1, <2>2, <3>2 DEF OwnRunner, Owns
      <4>3. QED BY <3>1, <4>1, <4>2
    <3>3. QED BY <3>1, <3>2 DEF Coming
  <2>4. Seen(runners[t])
    BY <2>1, <2>2, <2>3 DEF Watched
  <2>5. runner[runners[t]].missed => t \in crossed
    BY <2>1, <2>2 DEF Uncrossed, TaskFine, Straight
  <2>6. QED BY <2>4, <2>5 DEF Seen
<1>2. QED BY <1>1, LifeInvHolds, PTL

=============================================================================
