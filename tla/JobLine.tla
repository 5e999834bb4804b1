------------------------------ MODULE JobLine ------------------------------
(***************************************************************************)
(* What the engine's work queue promises, without its lock, its map and    *)
(* its wake-up channel: one line of jobs, at most one entry per key, the   *)
(* entry keeping the highest-ranked trigger asked for, served one at a     *)
(* time from the front by a single server that leaves only at shutdown.    *)
(* WorkQueue implements this module; Engine builds on it.                  *)
(***************************************************************************)
EXTENDS Naturals, Sequences, Subsequences

CONSTANTS
    Key,        \* dedup keys: one per task, scope and target
    Task,       \* task identifiers
    TaskOf      \* TaskOf[k]: the task a key belongs to

(***************************************************************************)
(* The ways a job can be asked for, ranked: manual over cron over watch    *)
(* over init.                                                              *)
(***************************************************************************)
triggerRank == [init |-> 0, watch |-> 1, cron |-> 2, manual |-> 3]
Trigger == {"init", "watch", "cron", "manual"}
Job == [key : Key, trigger : Trigger]

\* Faulty variants, for the checks of the properties: a merge that takes the
\* trigger asked for last, and one that leaves it unset.
HigherIsLatest(old, new) == new
HigherIsUnset(old, new) == ""

Higher(old, new) == IF triggerRank[new] > triggerRank[old] THEN new ELSE old

-----------------------------------------------------------------------------
VARIABLES
    line,       \* the waiting jobs, oldest first
    accepting,  \* FALSE once the queue has been closed
    cancelled,  \* the application's context has been cancelled
    running,    \* the job being run, as a set of at most one
    gone        \* the server has left

lineVars == <<line, accepting, cancelled, running, gone>>

LineTypeOK ==
    /\ line \in Seq(Job)
    /\ accepting \in BOOLEAN
    /\ cancelled \in BOOLEAN
    /\ running \in SUBSET Job
    /\ gone \in BOOLEAN

LineInit ==
    /\ line = << >>
    /\ accepting = TRUE
    /\ cancelled = FALSE
    /\ running = {}
    /\ gone = FALSE

PositionsOf(k) == {i \in DOMAIN line : line[i].key = k}

(* A job for k is asked for: it joins the end of the line, or raises the   *)
(* trigger of the entry k already has there.                               *)
Request(k, tr) ==
    /\ accepting
    /\ line' = IF PositionsOf(k) = {}
               THEN Append(line, [key |-> k, trigger |-> tr])
               ELSE [i \in DOMAIN line |->
                        IF line[i].key = k
                        THEN [line[i] EXCEPT !.trigger = Higher(@, tr)]
                        ELSE line[i]]
    /\ UNCHANGED <<accepting, cancelled, running, gone>>

(* Every waiting job of a task is withdrawn; the others keep their order.  *)
Withdraw(t) ==
    /\ line' = SelectAt(line, {i \in DOMAIN line : TaskOf[line[i].key] # t})
    /\ UNCHANGED <<accepting, cancelled, running, gone>>

Serve ==
    /\ running = {}
    /\ ~gone
    /\ line # << >>
    /\ running' = {Head(line)}
    /\ line' = Tail(line)
    /\ UNCHANGED <<accepting, cancelled, gone>>

Finish ==
    /\ running # {}
    /\ running' = {}
    /\ UNCHANGED <<line, accepting, cancelled, gone>>

(* The server leaves when the application is shutting down: at once when   *)
(* it notices the cancelled context, or when it finds a closed, empty line *)
Leave ==
    /\ running = {}
    /\ ~gone
    /\ cancelled \/ (~accepting /\ line = << >>)
    /\ gone' = TRUE
    /\ UNCHANGED <<line, accepting, cancelled, running>>

Cancel ==
    /\ cancelled' = TRUE
    /\ UNCHANGED <<line, accepting, running, gone>>

CloseLine ==
    /\ cancelled
    /\ accepting' = FALSE
    /\ UNCHANGED <<line, cancelled, running, gone>>

LineNext ==
    \/ \E k \in Key, tr \in Trigger : Request(k, tr)
    \/ \E t \in Task : Withdraw(t)
    \/ Serve
    \/ Finish
    \/ Leave
    \/ Cancel
    \/ CloseLine

LineSafeSpec == LineInit /\ [][LineNext]_lineVars

LineSpec == LineSafeSpec /\ WF_lineVars(Serve \/ Leave) /\ WF_lineVars(Finish)
                         /\ WF_lineVars(CloseLine)

=============================================================================
