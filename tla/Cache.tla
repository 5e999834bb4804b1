------------------------------- MODULE Cache --------------------------------
(***************************************************************************)
(* The local cache (internal/cache: cache.go): the original of an uploaded *)
(* video is moved to <dir>/<pickcode>/, by a rename or, across devices, by *)
(* copying it block by block; requests for the video are served the file   *)
(* there; a cleaner removes directories older than the retention; the user *)
(* deletes entries and changes the cache's directory. Nothing but the file *)
(* system coordinates the three. One name is used, so that a directory     *)
(* holds at most one file, and the oldness of a directory is a flag.       *)
(***************************************************************************)
EXTENDS Original

CONSTANTS
    Dir,        \* the directories the cache may be set to
    startDir,   \* the one it is in when the program starts first
    CacheCode   \* the pickcodes that come up

ASSUME CacheAssumption == startDir \in Dir

VARIABLES
    cacheDir,   \* the cache's directory
    cache,      \* what is on disk, by directory and pickcode
    move,       \* the Move under way
    sweep,      \* the cleaner
    torn,       \* history: entries left by a copy that was cut off
    odd,        \* history: entries whose original changed after it was hashed
    gone        \* history: the unchanged originals the program took away

cacheVars == <<cacheDir, cache, move, sweep, torn, odd, gone>>

(* A directory may hold no file; a file that is being copied is shorter.   *)
NoEntry == [there |-> FALSE, data |-> Absent, old |-> FALSE]
Entry == [there : BOOLEAN, data : BoundedSeq(Block, MaxBlocks) \cup {Absent}, old : BOOLEAN]
Listed(d) == {p \in CacheCode : cache[d][p].there}

NoMove == [at |-> "idle", dir |-> Absent, pickCode |-> Absent, copied |-> << >>]
NoSweep == [at |-> "idle", dir |-> Absent, todo |-> {}, pickCode |-> Absent]
Place == <<move.dir, move.pickCode>>
Target == cache[move.dir][move.pickCode]

CacheInit ==
    /\ cacheDir = startDir
    /\ cache = [d \in Dir |-> [p \in CacheCode |-> NoEntry]]
    /\ move = NoMove
    /\ sweep = NoSweep
    /\ torn = {} /\ odd = {} /\ gone = {}

(* LocalPath: the first file in the pickcode's directory, whatever it is.  *)
Served(p) == cache[cacheDir][p].data

-----------------------------------------------------------------------------
(* Move: the directory is made if it is missing, which does not touch the  *)
(* time of one that exists, ...                                            *)
MkdirAll(p) ==
    /\ move.at = "idle"
    /\ cache' = [cache EXCEPT ![cacheDir][p].there = TRUE]
    /\ move' = [NoMove EXCEPT !.at = "rename", !.dir = cacheDir, !.pickCode = p]
    /\ UNCHANGED <<cacheDir, sweep, torn, odd, gone, originalVars>>

MkdirFails ==
    /\ move.at = "idle"
    /\ move' = [NoMove EXCEPT !.at = "failed"]
    /\ UNCHANGED <<cacheDir, cache, sweep, torn, odd, gone, originalVars>>

(* What the program takes from the path, and for which node; a file that   *)
(* has changed since it was hashed is not noted.                           *)
Changed == rewritten \/ late
Gone(p) == IF Changed THEN gone ELSE gone \cup {[data |-> file, pickCode |-> p]}
MarkOdd == IF Changed THEN odd \cup {Place} ELSE odd \ {Place}

(* ... the file is renamed into it, ...                                    *)
Rename ==
    /\ move.at = "rename"
    /\ file # Absent /\ Target.there
    /\ cache' = [cache EXCEPT ![move.dir][move.pickCode] =
                    [there |-> TRUE, data |-> file, old |-> FALSE]]
    /\ gone' = Gone(move.pickCode)
    /\ file' = Absent
    /\ held' = Detached
    /\ torn' = torn \ {Place}
    /\ odd' = MarkOdd
    /\ move' = [NoMove EXCEPT !.at = "moved"]
    /\ UNCHANGED <<cacheDir, sweep, rewritten, late, edits>>

(* ... or, when that fails for whatever reason, both files are opened; a   *)
(* file that is there already is cut to nothing, ...                       *)
CreateCopy ==
    /\ move.at = "rename"
    /\ file # Absent /\ Target.there
    /\ held' = AtPath
    /\ cache' = [cache EXCEPT ![move.dir][move.pickCode] =
                    [there |-> TRUE, data |-> << >>,
                     old |-> Target.old /\ Target.data # Absent]]
    /\ move' = [move EXCEPT !.at = "copy"]
    /\ torn' = torn \ {Place}
    /\ UNCHANGED <<cacheDir, sweep, odd, gone, file, rewritten, late, edits>>

MoveFails ==
    /\ move.at = "rename"
    /\ move' = [NoMove EXCEPT !.at = "failed"]
    /\ UNCHANGED <<cacheDir, cache, sweep, torn, odd, gone, originalVars>>

(* ... and copied to the end. The copy may have been deleted meanwhile.    *)
CopyBlock ==
    /\ move.at = "copy"
    /\ Len(move.copied) < Len(Seen)
    /\ LET copied == Append(move.copied, Seen[Len(move.copied) + 1])
       IN  /\ move' = [move EXCEPT !.copied = copied]
           /\ cache' = IF Target.data = Absent THEN cache
                       ELSE [cache EXCEPT ![move.dir][move.pickCode].data = copied]
    /\ UNCHANGED <<cacheDir, sweep, torn, odd, gone, originalVars>>

CopyEnds ==
    /\ move.at = "copy"
    /\ Len(move.copied) >= Len(Seen)
    /\ move' = [move EXCEPT !.at = "removeSource"]
    /\ held' = Closed
    /\ odd' = MarkOdd
    /\ UNCHANGED <<cacheDir, cache, sweep, torn, gone, file, rewritten, late, edits>>

\* Faulty variant: what was copied so far stays.
CopyFailsAndStays ==
    /\ move.at = "copy"
    /\ held' = Closed
    /\ move' = [NoMove EXCEPT !.at = "failed"]
    /\ UNCHANGED <<cacheDir, cache, sweep, torn, odd, gone, file, rewritten, late, edits>>

(* A failed copy is removed, unless that fails as well.                    *)
CopyFails ==
    /\ move.at = "copy"
    /\ held' = Closed
    /\ move' = [NoMove EXCEPT !.at = "failed"]
    /\ \/ /\ cache' = [cache EXCEPT ![move.dir][move.pickCode].data = Absent]
          /\ UNCHANGED torn
       \/ /\ Target.data # Absent
          /\ torn' = torn \cup {Place}
          /\ UNCHANGED cache
    /\ UNCHANGED <<cacheDir, sweep, odd, gone, file, rewritten, late, edits>>

(* The source is removed by name; a failure to do so is only logged.       *)
RemoveSource ==
    /\ move.at = "removeSource"
    /\ move' = [NoMove EXCEPT !.at = "moved"]
    /\ \/ UNCHANGED <<file, gone>>
       \/ /\ file # Absent
          /\ gone' = Gone(move.pickCode)
          /\ file' = Absent
    /\ UNCHANGED <<cacheDir, cache, sweep, torn, odd, held, rewritten, late, edits>>

MoveStep ==
    \/ Rename \/ CreateCopy \/ MoveFails
    \/ CopyBlock \/ CopyEnds \/ CopyFails \/ RemoveSource

-----------------------------------------------------------------------------
RemoveAll(d, p) ==
    /\ cache' = [cache EXCEPT ![d][p] = NoEntry]
    /\ torn' = torn \ {<<d, p>>}
    /\ odd' = odd \ {<<d, p>>}

(* sweep: the directory is listed, and each entry looked at in turn.       *)
SweepBegins ==
    /\ sweep.at = "idle"
    /\ sweep' = [NoSweep EXCEPT !.at = "look", !.dir = cacheDir, !.todo = Listed(cacheDir)]
    /\ UNCHANGED <<cacheDir, cache, move, torn, odd, gone, originalVars>>

\* Faulty variant: the comparison with the cutoff the wrong way round.
SweepLooksWrong ==
    /\ sweep.at = "look"
    /\ \E p \in sweep.todo :
          sweep' = [sweep EXCEPT !.todo = @ \ {p}, !.pickCode = p,
                        !.at = IF cache[sweep.dir][p].there /\ ~cache[sweep.dir][p].old
                               THEN "remove" ELSE "look"]
    /\ UNCHANGED <<cacheDir, cache, move, torn, odd, gone, originalVars>>

SweepLooks ==
    /\ sweep.at = "look"
    /\ \E p \in sweep.todo :
          sweep' = [sweep EXCEPT !.todo = @ \ {p}, !.pickCode = p,
                        !.at = IF cache[sweep.dir][p].old THEN "remove" ELSE "look"]
    /\ UNCHANGED <<cacheDir, cache, move, torn, odd, gone, originalVars>>

SweepRemoves ==
    /\ sweep.at = "remove"
    /\ RemoveAll(sweep.dir, sweep.pickCode)
    /\ sweep' = [sweep EXCEPT !.at = "look"]
    /\ UNCHANGED <<cacheDir, move, gone, originalVars>>

SweepEnds ==
    /\ sweep.at = "look"
    /\ sweep.todo = {}
    /\ sweep' = NoSweep
    /\ UNCHANGED <<cacheDir, cache, move, torn, odd, gone, originalVars>>

SweepStep == SweepBegins \/ SweepLooks \/ SweepRemoves \/ SweepEnds

(* The retention has passed, or has been shortened ...                     *)
Expire ==
    /\ \E d \in Dir : \E p \in Listed(d) :
          /\ ~cache[d][p].old
          /\ cache' = [cache EXCEPT ![d][p].old = TRUE]
    /\ UNCHANGED <<cacheDir, move, sweep, torn, odd, gone, originalVars>>

(* ... or prolonged: SetRetention.                                         *)
Prolong ==
    /\ \E d \in Dir : \E p \in Listed(d) : cache[d][p].old
    /\ cache' = [d \in Dir |-> [p \in CacheCode |-> [cache[d][p] EXCEPT !.old = FALSE]]]
    /\ UNCHANGED <<cacheDir, move, sweep, torn, odd, gone, originalVars>>

(* The user deletes an entry, or sets another directory (bound: once). What*)
(* is in the old one stays there, and no sweep comes to it.                *)
Delete ==
    /\ \E p \in Listed(cacheDir) : RemoveAll(cacheDir, p)
    /\ UNCHANGED <<cacheDir, move, sweep, gone, originalVars>>

SetDir ==
    /\ cacheDir = startDir
    /\ cacheDir' \in Dir \ {startDir}
    /\ UNCHANGED <<cache, move, sweep, torn, odd, gone, originalVars>>

-----------------------------------------------------------------------------
CacheTypeOK ==
    /\ cacheDir \in Dir
    /\ cache \in [Dir -> [CacheCode -> Entry]]
    /\ move.at \in {"idle", "rename", "copy", "removeSource", "moved", "failed"}
    /\ sweep.at \in {"idle", "look", "remove"} /\ sweep.todo \subseteq CacheCode
    /\ torn \subseteq Dir \X CacheCode /\ odd \subseteq Dir \X CacheCode

(* What has outlived the retention is taken away in the end, as long as    *)
(* the cache stays where it is: a sweep that listed the directory before   *)
(* the entry came, or looked before it grew old, is followed by another    *)
(* (cache.go, StartCleaner and sweep). What is left in a directory the     *)
(* cache was set away from is outside this promise.                        *)
ExpiredIsReclaimed ==
    \A d \in Dir, p \in CacheCode :
        (cache[d][p].old /\ cacheDir = d) ~> (~cache[d][p].old \/ cacheDir # d)

=============================================================================
