---------------------------- MODULE MCWorkQueue ----------------------------
(* A small instance of WorkQueue: a task with two keys (its two scopes)    *)
(* and a task with one, two producers, a low and a high trigger.           *)
EXTENDS WorkQueue, TLC

CONSTANTS upKey, downKey, otherKey, task, other, p1, p2

MCKey == {upKey, downKey, otherKey}
MCTask == {task, other}
MCTaskOf == upKey :> task @@ downKey :> task @@ otherKey :> other
MCProducer == {p1, p2}
MCTrigger == {"watch", "manual"}

(* The positional filter agrees with the library's SelectSeq.              *)
ASSUME SelectAtIsSelectSeq ==
    \A s \in UNION {[1 .. n -> MCKey] : n \in 0 .. 4}, S \in SUBSET MCKey :
        SelectAt(s, {i \in DOMAIN s : s[i] \in S})
            = SelectSeq(s, LAMBDA x : x \in S)

=============================================================================
