----------------------------- MODULE MCEngine -----------------------------
(* Small instances of Engine: tasks with one key each, runner identities   *)
(* 1, 2, ... (enough of them that a call never lacks one).                 *)
EXTENDS Engine, TLC

CONSTANTS t1, t2, h1, h2, MaxRunner

OneTask == {t1}
TwoTasks == {t1, t2}
OneHandler == {h1}
TwoHandlers == {h1, h2}
MCTaskOf == [k \in Key |-> k]
MCRunnerId == 1 .. MaxRunner

=============================================================================
