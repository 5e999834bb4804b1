------------------------------ MODULE Handover ------------------------------
(***************************************************************************)
(* How a video leaves the task's directory (internal/mirror: apply.go,     *)
(* upload, replaceWithStrm, removeOriginal): it is uploaded (Transfer), a  *)
(* .strm with its pickcode is written, and the original is moved into the  *)
(* cache (Cache) or removed; meanwhile the user changes the file, the      *)
(* cleaner sweeps, and the program may die and be started again. The index *)
(* and the plan are MirrorUp's.                                            *)
(***************************************************************************)
EXTENDS Transfer, Cache

CONSTANT MaxCrashes \* bound: how often the program dies

ASSUME HandoverAssumption ==
    /\ CacheCode = PickCode
    /\ none \notin PickCode /\ none \notin Seq(Block)
    /\ MaxCrashes \in Nat

VARIABLES
    job,        \* how far the handover is
    toCache,    \* the task's to_cache switch, as the job copied it
    crashes

vars == <<originalVars, transferVars, cacheVars, job, toCache, crashes>>

Init ==
    /\ OriginalInit /\ TransferInit /\ CacheInit
    /\ job = "idle"
    /\ toCache = FALSE
    /\ crashes = 0

-----------------------------------------------------------------------------
Begin ==
    /\ job = "idle"
    /\ Start
    /\ job' = "upload"
    /\ toCache' \in BOOLEAN
    /\ UNCHANGED <<cacheVars, crashes>>

Uploading ==
    /\ job = "upload"
    /\ TransferStep
    /\ UNCHANGED <<cacheVars, job, toCache, crashes>>

(* The job ends, and the history of changes with it.                       *)
Over ==
    /\ transfer' = NoTransfer
    /\ move' = NoMove
    /\ job' = "idle"
    /\ toCache' = FALSE
    /\ rewritten' = FALSE /\ late' = FALSE

Finish ==
    /\ Over
    /\ UNCHANGED <<file, held, edits, node, cacheDir, cache, sweep, torn, odd, gone, crashes>>

UploadFailed == job = "upload" /\ transfer.at = "failed" /\ Finish

WriteStrm ==
    /\ job = "upload" /\ transfer.at = "done"
    /\ job' = IF toCache THEN "cache" ELSE "remove"
    /\ UNCHANGED <<originalVars, transferVars, cacheVars, toCache, crashes>>

WriteStrmFails == job = "upload" /\ transfer.at = "done" /\ Finish

Caching ==
    /\ job = "cache"
    /\ MkdirAll(transfer.pickCode) \/ MkdirFails \/ MoveStep
    /\ UNCHANGED <<transferVars, job, toCache, crashes>>

Moved == job = "cache" /\ move.at = "moved" /\ Finish

(* If it cannot be cached, or is not to be, the original is removed.       *)
RemoveOriginal ==
    /\ job = "remove" \/ (job = "cache" /\ move.at = "failed")
    /\ \/ UNCHANGED <<file, gone>>
       \/ /\ file # Absent
          /\ gone' = Gone(transfer.pickCode)
          /\ file' = Absent
    /\ Over
    /\ UNCHANGED <<held, edits, node, cacheDir, cache, sweep, torn, odd, crashes>>

JobStep ==
    \/ Uploading \/ UploadFailed \/ WriteStrm \/ WriteStrmFails
    \/ Caching \/ Moved \/ RemoveOriginal

-----------------------------------------------------------------------------
Rest == <<transferVars, job, toCache, crashes>>

(* The user's changes to the file cannot be undone by the program.         *)
UserEdits == User /\ UNCHANGED <<cacheVars, Rest>>

Cleaner == SweepStep /\ UNCHANGED Rest

CacheChanges == (Expire \/ Prolong \/ Delete \/ SetDir) /\ UNCHANGED Rest

(* The program dies and is started again: only what is on disk, or with    *)
(* the service, is left.                                                   *)
Crash ==
    /\ crashes < MaxCrashes
    /\ crashes' = crashes + 1
    /\ Over
    /\ sweep' = NoSweep
    /\ held' = Closed
    /\ torn' = IF move.at = "copy" /\ Target.data # Absent THEN torn \cup {Place} ELSE torn
    /\ UNCHANGED <<file, edits, node, cacheDir, cache, odd, gone>>

Next == Begin \/ JobStep \/ UserEdits \/ Cleaner \/ CacheChanges \/ Crash

(* The worker goes on with its job, the cleaner's ticker fires; files, the *)
(* user and the service are under no obligation.                           *)
Spec == Init /\ [][Next]_vars /\ WF_vars(JobStep) /\ WF_vars(Cleaner)

-----------------------------------------------------------------------------
TypeOK ==
    /\ OriginalTypeOK /\ TransferTypeOK /\ CacheTypeOK
    /\ job \in {"idle", "upload", "cache", "remove"}
    /\ toCache \in BOOLEAN
    /\ crashes \in 0..MaxCrashes

(* Whatever the program takes away from the task's directory, the service  *)
(* has under the pickcode the .strm is given, unless the file was changed  *)
(* after it had been hashed: through failed parts, lost answers, fallbacks *)
(* from cache to removal, and crashes anywhere (apply.go, replaceWithStrm  *)
(* and removeOriginal).                                                    *)
GoneIsInTheCloud ==
    \A g \in gone : node[g.pickCode] = g.data

(* A request for a video is served from the cache what the service would   *)
(* have sent. The exceptions are named: a copy that is under way or was    *)
(* cut off, and an original that changed after it was hashed (cache.go,    *)
(* Move and LocalPath).                                                    *)
BeingCopied(p) == move.at = "copy" /\ Place = <<cacheDir, p>>

ServedIsTheNode ==
    \A p \in CacheCode :
        \/ Served(p) \in {Absent, node[p]}
        \/ BeingCopied(p)
        \/ <<cacheDir, p>> \in torn \cup odd

=============================================================================
