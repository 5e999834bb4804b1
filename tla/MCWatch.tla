------------------------------ MODULE MCWatch ------------------------------
(* A video and a plain file in a subdirectory, a plain file in the task's  *)
(* directory, whose scan is asked for by the debouncer and by the timer.   *)
EXTENDS Watch, TLC

CONSTANTS mkv, text, note, sub, task

MCFile == {mkv, text, note}
MCInstant == {mkv}
MCDirOf == (mkv :> sub @@ text :> sub @@ note :> root)
MCKey == {mkv, sub, root}
MCTask == {task}
MCTaskOf == [k \in MCKey |-> task]

=============================================================================
