----------------------------- MODULE MirrorBoth -----------------------------
(***************************************************************************)
(* The two scopes of a task that uploads and downloads (internal/mirror:   *)
(* plan.go, apply.go, scan.go; internal/engine: runUpload, runDownload,    *)
(* initTask). They share the local tree, the cloud and the index: what one *)
(* records decides what the other deletes. Runs of either scope follow one *)
(* another in any order, one at a time, while the user edits the local     *)
(* tree, files are added in the cloud, calls fail and the program dies.    *)
(*                                                                         *)
(* MirrorUp and MirrorDown have directories, growing files and the walk of *)
(* the cloud step by step; here the tree is flat, a plan is made in one    *)
(* step, and an operation is cut where a failure or a death leaves         *)
(* something that the other scope can tell. Originals are removed once     *)
(* they are uploaded (to_cache off); .strm files come from the program     *)
(* only. A pickcode is represented by the fid it decodes to.               *)
(***************************************************************************)
EXTENDS Naturals, FiniteSets

CONSTANTS
    Path,       \* the names that come up, the same on both sides
    VideoPath,  \* those with a video extension
    StrmOf,     \* the .strm name of a video
    Later,      \* the videos that come after their .strm in key order
    Content,    \* file contents, as far as they are told apart
    cut,        \* the content of a file whose download was cut off
    Big,        \* the contents that reach the threshold of a video
    SizeOf,     \* the size of a content
    Comes,      \* the contents that come up at a path
    Fid,        \* ids of cloud nodes
    none,       \* no fid, no content, no name
    Switches,   \* what comes up as the task's to_strm and to_strm_dl
    MaxEdits,   \* bound: changes the user makes
    MaxFaults,  \* bound: failures, stops and deaths
    Enough      \* bound: calm runs in a row that are counted

StrmPath == {StrmOf[v] : v \in VideoPath}

ASSUME MirrorBothAssumption ==
    /\ VideoPath \subseteq Path /\ StrmOf \in [VideoPath -> Path \ VideoPath]
    /\ Later \subseteq VideoPath
    /\ cut \notin Content /\ Big \subseteq Content \cup {cut}
    /\ Comes \in [Path -> SUBSET Content]
    /\ SizeOf \in [Content \cup {cut} -> Nat]
    /\ Fid \subseteq Nat /\ none \notin Fid \cup Content \cup {cut} \cup Path
    /\ Switches \subseteq [toStrm : BOOLEAN, toStrmDl : BOOLEAN]
    /\ MaxEdits \in Nat /\ MaxFaults \in Nat /\ Enough \in Nat

VARIABLES
    task,       \* the task's switches
    local,      \* what is at each local path
    node,       \* the cloud
    index,      \* the persisted index
    ready,      \* initTask has succeeded
    job,        \* the run: its scope, the operations left, where it is in one
    edits, faults, \* counted against the bounds
    written,    \* history: what the user wrote at a path at rest, and has not
                \* touched since
    deleted,    \* history: paths the user deleted that were in step with the
                \* cloud
    touched,    \* history: paths the user wrote or deleted
    torn,       \* history: paths where an operation was cut off between its
                \* effect and its record
    raced,      \* history: paths the user wrote or deleted while an operation
                \* was planned for them
    rivals,     \* history: videos of whose .strm two nodes were the record at
                \* once: one plan uploaded the video and adopted the .strm, or
                \* BuildIndex took another node of the name
    built,      \* history: nodes recorded by BuildIndex, not by a transfer
    settled     \* history: calm runs in a row, the scopes taking turns

history == <<written, deleted, touched, torn, raced, rivals, built, settled>>
vars == <<task, local, node, index, ready, job, edits, faults, history>>

Nothing == [k |-> "none", x |-> none]
File(c) == [k |-> "file", x |-> c]
Strm(f) == [k |-> "strm", x |-> f]
NoNode == [name |-> none, c |-> none, place |-> "none"]
NoRecord == [fid |-> none, kind |-> "none", size |-> 0]

There(p) == local[p].k # "none"
Has(p) == index[p] # NoRecord
Fresh == {f \in Fid : node[f].place = "none"}
Present == {f \in Fid : node[f].place = "root"}

(* The paths that belong together: a video and its .strm.                  *)
Family(p) == {p} \cup {v \in VideoPath : StrmOf[v] = p} \cup {StrmOf[v] : v \in VideoPath \cap {p}}

Op(kind, p, f) == [kind |-> kind, path |-> p, fid |-> f, video |-> FALSE]
NoOp == Op("none", none, none)
Idle == [scope |-> "none", at |-> "idle", ops |-> {}, op |-> NoOp, fid |-> none, calm |-> FALSE]

Init ==
    /\ task \in Switches
    /\ local = [p \in Path |-> Nothing]
    /\ node = [f \in Fid |-> NoNode]
    /\ index = [p \in Path |-> NoRecord]
    /\ ready = FALSE
    /\ job = Idle
    /\ edits = 0 /\ faults = 0
    /\ written = [p \in Path |-> none]
    /\ deleted = {} /\ touched = {} /\ torn = {} /\ raced = {}
    /\ rivals = {} /\ built = {}
    /\ settled = [n |-> 0, last |-> "none"]

-----------------------------------------------------------------------------
(* initTask: with an empty index, BuildIndex records what is in the cloud; *)
(* a video under the name its upload would have, always as a .strm. A      *)
(* death or a failure leaves a part of the records, and no second try.     *)
BuiltRecord(f) ==
    [fid |-> f, kind |-> IF node[f].name \in VideoPath THEN "strm" ELSE "file",
     size |-> SizeOf[node[f].c]]

UpKey(p) == IF p \in VideoPath /\ task.toStrm THEN StrmOf[p] ELSE p

UpName(f) == UpKey(node[f].name)
BuildIndex(kept) ==
    [p \in Path |-> IF \E f \in kept : UpName(f) = p
                    THEN BuiltRecord(CHOOSE f \in kept : UpName(f) = p)
                    ELSE index[p]]

Outvoted(records) ==
    {v \in VideoPath : /\ local[StrmOf[v]].k = "strm"
                       /\ records[StrmOf[v]].fid \notin {none, local[StrmOf[v]].x}}

InitTask ==
    /\ ~ready
    /\ IF \E p \in Path : Has(p)
       THEN ready' = TRUE /\ UNCHANGED <<index, rivals, built, faults>>
       ELSE \E kept \in SUBSET Present : \* of namesakes the last one
                /\ \A f, g \in kept : UpName(f) = UpName(g) => f = g
                /\ index' = BuildIndex(kept)
                /\ built' = built \cup kept
                /\ rivals' = rivals \cup Outvoted(index')
                /\ ready' = \A f \in Present : \E g \in kept : UpName(f) = UpName(g)
                /\ faults' = IF ready' THEN faults ELSE faults + 1
                /\ faults' <= MaxFaults
    /\ UNCHANGED <<task, local, node, job, edits, written, deleted, touched, torn, raced, settled>>

-----------------------------------------------------------------------------
(* The plan of the upload scope (PlanLocal).                               *)
(* clearOp: a video is retired, the rest is deleted.                       *)
ClearOp(p) == Op(IF index[p].kind = "strm" THEN "retire" ELSE "drop", p, index[p].fid)
Cleared(p) == IF Has(p) THEN {ClearOp(p)} ELSE {}

(* coveredByLocal: the record of a .strm is the business of its video,     *)
(* unless planDir, which deals with what has a record first, in key order, *)
(* has dealt with the video by then.                                       *)
CoveredByLocal(p) ==
    /\ task.toStrm
    /\ \E v \in VideoPath : StrmOf[v] = p /\ There(v) /\ (Has(v) => v \in Later)

DecideMissing(p) == IF CoveredByLocal(p) THEN {} ELSE Cleared(p)

DecideStrm(p) ==
    IF index[p].kind = "strm" /\ index[p].fid = local[p].x THEN {}
    ELSE Cleared(p) \cup {Op("adopt", p, local[p].x)}

DecidePlain(p) ==
    IF index[p].kind = "file" /\ index[p].size = SizeOf[local[p].x] THEN {}
    ELSE Cleared(p) \cup {Op("upload", p, none)}

DecideVideo(p) ==
    LET key == StrmOf[p]
        kept == index[key].kind = "strm"
    IN  (IF kept THEN {} ELSE Cleared(key))
        \cup IF local[p].x \in Big
             THEN {[Op("upload", p, IF kept THEN index[key].fid ELSE none) EXCEPT !.video = TRUE]}
             ELSE IF kept THEN {} ELSE DecidePlain(p)

Decide(p) ==
    CASE ~There(p) -> DecideMissing(p)
      [] local[p].k = "strm" -> DecideStrm(p)
      [] local[p].k = "file" /\ task.toStrm /\ p \in VideoPath -> DecideVideo(p)
      [] OTHER -> DecidePlain(p)

PlanLocal == UNION {Decide(p) : p \in Path}

(* The plan of the download scope: nothing when the numbers of entries     *)
(* agree (ScanCloud); else (PlanCloud) what has neither file nor record is *)
(* fetched, and what is not the recorded one of its name is deleted.       *)
SavePath(f) == IF node[f].name \in VideoPath /\ task.toStrmDl
               THEN StrmOf[node[f].name] ELSE node[f].name
CountsAgree == Cardinality(Present) = Cardinality({p \in Path : There(p)})

\* Faulty variant: what was deleted here is fetched again.
MissingAgain(f) == ~There(SavePath(f))
Missing(f) == ~There(SavePath(f)) /\ ~Has(SavePath(f))
Stale(f) == There(SavePath(f)) /\ Has(SavePath(f)) /\ index[SavePath(f)].fid # f

PlanCloud ==
    IF CountsAgree THEN {}
    ELSE {Op("drop", SavePath(f), f) : f \in {g \in Present : Stale(g)}}
         \cup {Op("download", SavePath(f), f) : f \in {g \in Present : Missing(g)}}

-----------------------------------------------------------------------------
(* A run: its plan, then one operation after the other, by phases; within  *)
(* a phase in any order, which is more than the code does.                 *)
phase == [retire |-> 0, drop |-> 0, upload |-> 2, adopt |-> 2, download |-> 3]
Soonest(ops) == {o \in ops : \A q \in ops : phase[o.kind] <= phase[q.kind]}

(* A calm run counts when it is the other scope's turn.                    *)
RunEnds(scope, calm) ==
    settled' = IF ~calm THEN [n |-> 0, last |-> "none"]
               ELSE IF scope = settled.last \/ settled.n = Enough THEN settled
               ELSE [n |-> settled.n + 1, last |-> scope]

(* Two operations for one record: a video is uploaded, and the .strm that  *)
(* stands beside it without a record is adopted.                           *)
Rivals(ops) ==
    {v \in VideoPath : \E o, q \in ops :
        o.path = v /\ o.video /\ q.path = StrmOf[v] /\ q.kind = "adopt"}

Run(scope, ops) ==
    /\ ready /\ job.at = "idle"
    /\ IF ops = {}
       THEN UNCHANGED job /\ RunEnds(scope, TRUE)
       ELSE /\ job' = [Idle EXCEPT !.scope = scope, !.at = "next", !.ops = ops, !.calm = TRUE]
            /\ UNCHANGED settled
    /\ rivals' = rivals \cup Rivals(ops)
    /\ UNCHANGED <<task, local, node, index, ready, edits, faults,
                   written, deleted, touched, torn, raced, built>>

RunUpload == Run("up", PlanLocal)
RunDownload == Run("down", PlanCloud)

NextOp ==
    /\ job.at = "next"
    /\ \E o \in Soonest(job.ops) :
        job' = [job EXCEPT !.at = o.kind, !.op = o, !.ops = @ \ {o}]
    /\ UNCHANGED <<task, local, node, index, ready, edits, faults, history>>

path == job.op.path
Goto(l) == job' = [job EXCEPT !.at = l] /\ UNCHANGED settled
Ended(calm) ==
    IF job.ops = {} THEN job' = Idle /\ RunEnds(job.scope, calm)
    ELSE /\ job' = [job EXCEPT !.at = "next", !.op = NoOp, !.fid = none, !.calm = calm]
         /\ UNCHANGED settled

Fault == faults < MaxFaults /\ faults' = faults + 1

Same == UNCHANGED <<task, ready, edits, faults, written, deleted, touched, torn, raced, rivals, built>>

(* retire, drop: the call, then the records of the path.                   *)
Moved(f, place) == IF node[f].place \in {"root", "temp"}
                   THEN [node EXCEPT ![f].place = place] ELSE node

ClearNode ==
    /\ job.at \in {"retire", "drop"}
    /\ node' = Moved(job.op.fid, IF job.at = "drop" THEN "gone" ELSE "temp")
    /\ Goto("clear")
    /\ Same /\ UNCHANGED <<local, index>>

\* Faulty variant: the record stays.
ClearTreeForgotten ==
    /\ job.at = "clear"
    /\ Ended(job.calm)
    /\ Same /\ UNCHANGED <<local, node, index>>

ClearTree ==
    /\ job.at = "clear"
    /\ index' = [index EXCEPT ![path] = NoRecord]
    /\ Ended(job.calm)
    /\ Same /\ UNCHANGED <<local, node>>

(* upload: the file as it is by then. For a content that it has under this *)
(* name the cloud may answer with the node it has (apply.go: "instant      *)
(* upload reuses the same FID"); a run that gets a new one is not calm.    *)
Twins == {f \in Present : node[f] = [name |-> path, c |-> local[path].x, place |-> "root"]}
Stored(f) ==
    /\ f \in Fresh \cup Twins
    /\ f \in Fresh => \A g \in Fresh : f <= g
    /\ node' = [node EXCEPT ![f] = [name |-> path, c |-> local[path].x, place |-> "root"]]

Upload ==
    /\ job.at = "upload"
    /\ IF ~There(path)
       THEN Ended(job.calm) /\ UNCHANGED node
       ELSE \E f \in Fid :
                /\ Stored(f)
                /\ job' = [job EXCEPT !.fid = f,
                             !.calm = @ /\ (Twins # {} => f \in Twins),
                             !.at = IF ~job.op.video THEN "put"
                                    ELSE IF job.op.fid \notin {none, f} THEN "retireOld" ELSE "strm"]
                /\ UNCHANGED settled
    /\ Same /\ UNCHANGED <<local, index>>

(* replaceWithStrm: the node that was there is retired, the .strm written, *)
(* the original removed (whatever it is by now; a failure is only logged). *)
RetireOld ==
    /\ job.at = "retireOld"
    /\ node' = Moved(job.op.fid, "temp")
    /\ Goto("strm")
    /\ Same /\ UNCHANGED <<local, index>>

RecordKey == IF job.op.kind = "upload" /\ job.op.video THEN StrmOf[path] ELSE path

WriteStrm ==
    /\ job.at = "strm"
    /\ local' = [local EXCEPT ![RecordKey] = Strm(job.fid)]
    /\ Goto(IF job.op.kind = "upload" THEN "remove" ELSE "put")
    /\ Same /\ UNCHANGED <<node, index>>

RemoveOriginal ==
    /\ job.at = "remove"
    /\ \/ /\ local' = [local EXCEPT ![path] = Nothing]
          /\ Goto("put")
          /\ UNCHANGED faults
       \/ /\ Fault
          /\ job' = [job EXCEPT !.at = "put", !.calm = FALSE]
          /\ UNCHANGED <<local, settled>>
    /\ UNCHANGED <<task, node, index, ready, edits, written, deleted, touched, torn, raced, rivals, built>>

(* adopt: the node is moved to where the .strm is (and named after it).    *)
Adopt ==
    /\ job.at = "adopt"
    /\ node[job.op.fid].place \in {"root", "temp"}
    /\ node' = Moved(job.op.fid, "root")
    /\ job' = [job EXCEPT !.at = "strm", !.fid = job.op.fid]
    /\ Same /\ UNCHANGED <<local, index, settled>>

(* download: a .strm is written; another file is created, which empties    *)
(* one that is there, and then filled, whether or not it is deleted        *)
(* meanwhile.                                                              *)
Download ==
    /\ job.at = "download"
    /\ IF path \in StrmPath
       THEN /\ job' = [job EXCEPT !.at = "strm", !.fid = job.op.fid]
            /\ UNCHANGED local
       ELSE /\ local' = [local EXCEPT ![path] = File(cut)]
            /\ job' = [job EXCEPT !.at = "copy", !.fid = job.op.fid]
    /\ Same /\ UNCHANGED <<node, index, settled>>

\* Faulty variant: the error of the copy is lost.
CopyUnchecked ==
    /\ job.at = "copy"
    /\ \/ local' = [local EXCEPT ![path] = IF There(path) THEN File(node[job.fid].c) ELSE Nothing]
       \/ local' = [local EXCEPT ![path] = Nothing]
    /\ Goto("put")
    /\ Same /\ UNCHANGED <<node, index>>

Copy ==
    /\ job.at = "copy"
    /\ local' = [local EXCEPT ![path] = IF There(path) THEN File(node[job.fid].c) ELSE Nothing]
    /\ Goto("put")
    /\ Same /\ UNCHANGED <<node, index>>

(* The record: of a plain file with the size it had when it was sent, or   *)
(* that it has now when it was fetched.                                    *)
RecordSize ==
    CASE RecordKey \in StrmPath -> 0
      [] job.op.kind = "upload" -> SizeOf[node[job.fid].c]
      [] OTHER -> IF There(path) THEN SizeOf[local[path].x] ELSE 0

RecordAs(f) ==
    /\ job.at = "put"
    /\ index' = [index EXCEPT ![RecordKey] =
                    [fid |-> f, kind |-> IF RecordKey \in StrmPath THEN "strm" ELSE "file",
                     size |-> RecordSize]]
    /\ Ended(job.calm)
    /\ Same /\ UNCHANGED <<local, node>>

\* Faulty variant: of a video that replaces one the old fid is recorded.
PutReplaced == RecordAs(IF job.op.fid = none THEN job.fid ELSE job.op.fid)
PutRecord == RecordAs(job.fid)

-----------------------------------------------------------------------------
(* An operation fails; the run goes on. A copy that fails removes the file *)
Fails ==
    /\ Fault
    /\ job.at \in {"retire", "drop", "upload", "retireOld", "strm", "adopt", "download", "copy"}
    /\ local' = IF job.at = "copy" THEN [local EXCEPT ![path] = Nothing] ELSE local
    /\ Ended(FALSE)
    /\ torn' = IF job.at = "strm" THEN torn \cup Family(path) ELSE torn
    /\ UNCHANGED <<task, node, index, ready, edits, written, deleted, touched, raced, rivals, built>>

(* The cloud has the file, but its answer is lost.                         *)
AnswerLost ==
    /\ Fault
    /\ job.at = "upload" /\ There(path)
    /\ \E f \in Fid : Stored(f)
    /\ Ended(FALSE)
    /\ UNCHANGED <<task, local, index, ready, edits, written, deleted, touched, torn, raced, rivals, built>>

(* The cloud refuses to move a node that is gone, and to take a file when  *)
(* the account is full (the bound on Fid).                                 *)
Refused ==
    /\ \/ job.at = "adopt" /\ node[job.op.fid].place = "gone"
       \/ job.at = "upload" /\ There(path) /\ Fresh = {}
    /\ Ended(FALSE)
    /\ Same /\ UNCHANGED <<local, node, index>>

(* The task is stopped between two operations, or the program dies at any  *)
(* moment.                                                                 *)
CutOff ==
    /\ Fault
    /\ job.at # "idle"
    /\ job' = Idle
    /\ ready' \in {FALSE, job.at = "next"}
    /\ torn' = IF job.at \in {"clear", "copy", "strm", "put"} THEN torn \cup Family(path) ELSE torn
    /\ settled' = [n |-> 0, last |-> "none"]
    /\ UNCHANGED <<task, local, node, index, edits, written, deleted, touched, raced, rivals, built>>

-----------------------------------------------------------------------------
(* A file is added in the cloud (README: it is only added to), under a     *)
(* name that is free there.                                                *)
Disturbed ==
    /\ settled' = [n |-> 0, last |-> "none"]
    /\ job' = [job EXCEPT !.calm = FALSE]

AddInCloud(p, c) ==
    /\ p \notin StrmPath
    /\ \A f \in Present : node[f].name # p
    /\ \E f \in Fresh :
        /\ \A g \in Fresh : f <= g
        /\ node' = [node EXCEPT ![f] = [name |-> p, c |-> c, place |-> "root"]]
    /\ deleted' = deleted \ Family(p)
    /\ Disturbed
    /\ UNCHANGED <<task, local, index, ready, edits, faults, written, touched, torn, raced,
                   rivals, built>>

Idly(p) == \A o \in job.ops \cup {job.op} : o.path \notin Family(p)

Edited(p, what) ==
    /\ edits < MaxEdits
    /\ edits' = edits + 1
    /\ local' = [local EXCEPT ![p] = what]
    /\ touched' = touched \cup Family(p)
    /\ raced' = IF Idly(p) THEN raced ELSE raced \cup Family(p)
    /\ Disturbed
    /\ UNCHANGED <<task, node, index, ready, faults, torn, rivals, built>>

Write(p, c) ==
    /\ p \notin StrmPath
    /\ ~(job.at = "copy" /\ path = p)
    /\ Edited(p, File(c))
    /\ written' = [q \in Path |-> IF q = p THEN IF job.at = "idle" THEN c ELSE none
                                  ELSE IF q \in Family(p) THEN none ELSE written[q]]
    /\ deleted' = deleted \ Family(p)

(* Recorded as the only one of its name; no operation is planned for it,   *)
(* and no video waits to replace it.                                       *)
InStep(p) ==
    /\ Has(p) /\ {f \in Present : SavePath(f) = p} = {index[p].fid}
    /\ Idly(p)
    /\ \A v \in VideoPath : StrmOf[v] = p => ~There(v)

Delete(p) ==
    /\ There(p)
    /\ Edited(p, Nothing)
    /\ written' = [q \in Path |-> IF q \in Family(p) THEN none ELSE written[q]]
    /\ deleted' = IF InStep(p) THEN deleted \cup {p} ELSE deleted

JobStep ==
    \/ NextOp \/ ClearNode \/ ClearTree \/ Upload \/ RetireOld \/ WriteStrm
    \/ RemoveOriginal \/ Adopt \/ Refused \/ Download \/ Copy \/ PutRecord

Next ==
    \/ InitTask \/ RunUpload \/ RunDownload
    \/ JobStep
    \/ Fails \/ AnswerLost \/ CutOff
    \/ \E p \in Path : Delete(p) \/ \E c \in Comes[p] : AddInCloud(p, c) \/ Write(p, c)

Spec == Init /\ [][Next]_vars

-----------------------------------------------------------------------------
(* Types of the variables the program keeps.                               *)
TypeOK ==
    /\ task \in Switches
    /\ local \in [Path -> {Nothing} \cup {File(c) : c \in Content \cup {cut}} \cup {Strm(f) : f \in Fid}]
    /\ index \in [Path -> [fid : Fid \cup {none}, kind : {"none", "file", "strm"}, size : Nat]]

(* A content is kept as long as it is whole somewhere.                     *)
Kept(c) ==
    \/ \E p \in Path : local[p] = File(c)
    \/ \E f \in Fid : node[f].place \in {"root", "temp"} /\ node[f].c = c

(* A file is deleted from the cloud for good (PlanCloud's stale copies,    *)
(* decideMissing, decidePlain) only while its content is still whole       *)
(* somewhere, unless the user wrote or deleted a file of that name, an     *)
(* operation on it was cut off, or BuildIndex had recorded it although it  *)
(* never was there locally. So a file that is added in the cloud and that  *)
(* nobody touches survives whatever runs and fails.                        *)
LossHasCause ==
    \A f \in Fid : node[f].place = "gone" =>
        \/ Kept(node[f].c)
        \/ node[f].name \in touched \cup torn
        \/ f \in built

(* What the user puts down while nothing runs is never lost: it stays      *)
(* where it is or it is in the cloud, in the task's directory or the       *)
(* recycle directory (upload, replaceWithStrm, and then PlanCloud, which   *)
(* deletes what the index does not name); unless an operation on it is cut *)
(* off between its effect and its record, or the path was written to while *)
(* an operation was planned for it, or there are two nodes for one .strm   *)
(* (one plan uploads a video and adopts the .strm beside it; BuildIndex    *)
(* records another node of the name).                                      *)
WrittenIsKept == \A p \in Path \ (torn \cup raced \cup rivals) : written[p] # none => Kept(written[p])

(* The same without the last two exceptions, which does not hold.          *)
WrittenIsKeptAlways == \A p \in Path \ torn : written[p] # none => Kept(written[p])

(* What the user deletes and what is then recorded, alone under its name   *)
(* and not about to be worked on, is not fetched again (PlanCloud: "has a  *)
(* record: respect the deletion"), whichever scope runs first and even     *)
(* when the deletion in the cloud fails or is cut off.                     *)
DeletedStaysDeleted == \A p \in deleted : ~There(p)

(* A path and a node are in step: each is the other's, by the index.       *)
Agree(p, f) ==
    /\ SavePath(f) = p /\ index[p].fid = f
    /\ local[p] \in {Strm(f), File(node[f].c)}

(* A video below the threshold is uploaded as it is and then fetched as a  *)
(* .strm, too, or passed over because there is one.                        *)
Small == UNION {Family(v) : v \in {w \in VideoPath : task.toStrm /\
            \/ There(w) /\ local[w].x \notin Big
            \/ \E f \in Fid : node[f].name = w /\ node[f].c \notin Big}}
(* Paths at which the two sides may stay apart for good.                   *)
Odd == raced \cup torn \cup Small

(* After calm runs of the two scopes in turn neither plans anything, and   *)
(* the sides mirror each other: every local file has its node, and, if no  *)
(* path was ever cut off, written to in the middle of an operation, or     *)
(* that of a small video, every node its file. (One odd path is enough to  *)
(* let the numbers of entries agree by accident, and PlanCloud stop.)      *)
Converges ==
    settled.n = Enough =>
        /\ PlanLocal = {} /\ PlanCloud = {}
        /\ \A p \in Path \ Odd : There(p) => \E f \in Present : Agree(p, f)
        /\ Odd = {} => \A f \in Present : Agree(SavePath(f), f)

=============================================================================
