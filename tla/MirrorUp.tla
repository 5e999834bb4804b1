------------------------------ MODULE MirrorUp ------------------------------
(***************************************************************************)
(* The upload scope of a task (internal/mirror: plan.go, apply.go,         *)
(* cloud.go): the local tree is compared with the index, the comparison    *)
(* yields a list of operations, and these are applied to the cloud, the    *)
(* local tree and the index one call at a time, while the user changes the *)
(* local tree, calls fail, and the program is stopped or dies.             *)
(*                                                                         *)
(* A path is the sequence of names below the task's root; none is on the   *)
(* exclusion list, which hides files from the scans. A pickcode is         *)
(* represented by the fid it decodes to. A cloud node keeps the local path *)
(* it was named after instead of a name. Originals are removed once they  *)
(* are uploaded (to_cache off).                                            *)
(***************************************************************************)
EXTENDS Naturals, Sequences, SequencesExt, FiniteSets

CONSTANTS
    Path,       \* the paths that come up
    KeyOrder,   \* Path in the byte order of the index's keys
    DirPath,    \* those the user may make directories
    VideoPath,  \* those with a video extension
    StrmPath,   \* those with the extension .strm
    StrmOf,     \* the .strm path of a video path
    Content,    \* file contents, as far as they are told apart
    Big,        \* the contents that reach the threshold of a video
    SizeOf,     \* the size of a content
    Fid,        \* ids of cloud nodes
    root, temp, elsewhere, \* the task's cloud root, the recycle directory, and
                \* the rest of the cloud
    nowhere,    \* the place of a node that does not exist; also: no fid
    Foreign,    \* nodes that are in the rest of the cloud to begin with: videos
    ToStrm,     \* the task's to_strm switch
    Instant,    \* single-file jobs of the watcher come up, too
    Growing,    \* files change between the plan and their turn in it
    Moves,      \* the user renames .strm files, too
    Start,      \* the local trees a task is set up over
    Removable,  \* the paths the user deletes or renames
    MaxEdits    \* bound: changes the user makes

Root == << >>
Up(p) == Front(p)
Subtree(p) == {q \in Path : IsPrefix(p, q)}
Kids(d) == {p \in Path : p # d /\ Up(p) = d}

ASSUME MirrorUpAssumption ==
    /\ \A p \in Path : p \in Seq(Range(p)) /\ Len(p) > 0 /\ (Up(p) = Root \/ Up(p) \in DirPath)
    /\ KeyOrder \in Seq(Path) /\ \A p \in Path : \E i \in DOMAIN KeyOrder : KeyOrder[i] = p
    /\ \A i, j \in DOMAIN KeyOrder : KeyOrder[i] = KeyOrder[j] => i = j
    /\ StrmOf \in [VideoPath -> StrmPath]
    /\ \A v \in VideoPath : Up(StrmOf[v]) = Up(v)
    /\ DirPath \cup VideoPath \cup StrmPath \cup Removable \subseteq Path
    /\ StrmPath \cap (VideoPath \cup DirPath) = {} /\ VideoPath \cap DirPath = {}
    /\ \A p, q \in Path : Last(p) = Last(q) =>   \* by the extension
        \A kind \in {DirPath, VideoPath, StrmPath} : p \in kind <=> q \in kind
    /\ Big \subseteq Content /\ nowhere \notin Content
    /\ Foreign \subseteq Fid /\ Fid \subseteq Nat /\ IsFiniteSet(Fid)
    /\ {root, temp, elsewhere, nowhere} \cap Fid = {}
    /\ root \notin {temp, elsewhere, nowhere} /\ temp \notin {elsewhere, nowhere} /\ elsewhere # nowhere

VARIABLES
    local,      \* the local tree
    node,       \* the cloud
    index,      \* the persisted index
    job,        \* the plan still to be applied, and how far its first op is
    handed,     \* history: the contents of the originals the program removed
    torn,       \* history: paths whose record still names a node that is
                \* cleared away: the operation then failed or was cut off,
                \* or ClearTree passed over the record
    settled,    \* history: complete full scans in a row that nothing disturbed
    edits       \* the changes the user has made

vars == <<local, node, index, job, handed, torn, settled, edits>>

(* What is at a local path: nothing, a directory, a file, or a .strm that  *)
(* points to a cloud node (or has no pickcode), perhaps by an old link.    *)
Nothing == [k |-> "none", c |-> nowhere, pc |-> nowhere, old |-> FALSE]
Directory == [Nothing EXCEPT !.k = "dir"]
File(c) == [Nothing EXCEPT !.k = "file", !.c = c]
Strm(f, isOld) == [Nothing EXCEPT !.k = "strm", !.pc = f, !.old = isOld]

LocalDir(d) == IF d = Root THEN TRUE ELSE local[d].k = "dir"

ASSUME StartAssumption ==
    \A tree \in Start :
        /\ tree \in [Path -> {Nothing, Directory} \cup {File(c) : c \in Content}]
        /\ \A p \in Path : tree[p] # Nothing =>
                /\ p \notin StrmPath /\ (p \in DirPath <=> tree[p] = Directory)
                /\ Up(p) = Root \/ tree[Up(p)] = Directory

(* A node: its parent, kind, content, and the path it was named after. It  *)
(* exists when the chain of its parents ends at one of the three places.   *)
NoNode == [up |-> nowhere, kind |-> "none", c |-> nowhere, name |-> Root]
Place[f \in Fid] == IF node[f].up \in Fid THEN Place[node[f].up] ELSE node[f].up
Exists(f) == f \in Fid /\ Place[f] # nowhere
IsDir(f) == f = root \/ (Exists(f) /\ node[f].kind = "dir")
Fresh == {f \in Fid : node[f].kind = "none"}

NoRecord == [fid |-> nowhere, kind |-> "none", size |-> 0]
Has(p) == index[p] # NoRecord
FidOf(d) == IF d = Root THEN root ELSE index[d].fid

Idle == [at |-> "idle", ops |-> << >>, fid |-> nowhere, size |-> 0, calm |-> FALSE]

Init ==
    /\ local \in Start
    /\ node = [f \in Fid |-> IF f \in Foreign
                             THEN [NoNode EXCEPT !.up = elsewhere, !.kind = "file"]
                             ELSE NoNode]
    /\ index = [p \in Path |-> NoRecord]
    /\ job = Idle
    /\ handed = {}
    /\ torn = {}
    /\ settled = 0
    /\ edits = 0

-----------------------------------------------------------------------------
(* The plan. An operation: its kind, its path, the node it is about, and,  *)
(* for the upload of a video, the node it replaces.                        *)
Op(kind, p, f) == [kind |-> kind, path |-> p, fid |-> f, video |-> FALSE, replace |-> nowhere]
When(condition, ops) == IF condition THEN ops ELSE << >>

(* Faulty variant: everything is deleted.                                  *)
ClearOpDrops(p) == Op("drop", p, index[p].fid)

(* clearOp: a video is retired (it can be found again), the rest deleted.  *)
ClearOp(p) == Op(IF index[p].kind = "strm" THEN "retire" ELSE "drop", p, index[p].fid)

There(p) == local[p].k # "none"

(* coveredByLocal: the record of a .strm belongs to a video file that is   *)
(* there in its stead, among the entries planDir has not dealt with yet:   *)
(* those without a record, or with one that comes later in key order.      *)
Rank(p) == CHOOSE i \in DOMAIN KeyOrder : KeyOrder[i] = p
CoveredByLocal(p) ==
    /\ ToStrm
    /\ \E v \in VideoPath : /\ StrmOf[v] = p /\ There(v) /\ local[v].k # "dir"
                            /\ Has(v) => Rank(p) < Rank(v)

DecideMissing(p) == When(Has(p), <<ClearOp(p)>>)

DecideDir(p) ==
    When(Has(p) /\ index[p].kind # "dir", <<ClearOp(p)>>)
    \o When(index[p].kind # "dir", <<Op("mkdir", p, nowhere)>>)

DecideStrm(p) ==
    LET pc == local[p].pc
        changed == index[p].kind # "strm" \/ pc # index[p].fid
    IN  When(Has(p) /\ changed, <<ClearOp(p)>>)
        \o When(changed /\ pc # nowhere, <<Op("adopt", p, pc)>>)
        \o When(~changed /\ local[p].old, <<Op("normalize", p, nowhere)>>)

DecidePlain(p) ==
    LET same == index[p].kind = "file" /\ index[p].size = SizeOf[local[p].c]
    IN  When(Has(p) /\ ~same, <<ClearOp(p)>>)
        \o When(~same, <<Op("upload", p, nowhere)>>)

DecideVideo(p) ==
    LET key == StrmOf[p]
        kept == index[key].kind = "strm"
    IN  When(Has(key) /\ ~kept, <<ClearOp(key)>>)
        \o IF local[p].c \in Big
           THEN <<[Op("upload", p, nowhere) EXCEPT
                        !.video = TRUE,
                        !.replace = IF kept THEN index[key].fid ELSE nowhere]>>
           ELSE When(~kept, DecidePlain(p))

DecideFile(p) ==
    IF p \in StrmPath THEN DecideStrm(p)
    ELSE IF ToStrm /\ p \in VideoPath THEN DecideVideo(p)
    ELSE DecidePlain(p)

(* decide: the operations of a subdirectory follow its own.                *)
Decide(p, below) ==
    IF ~There(p) THEN DecideMissing(p)
    ELSE IF local[p].k = "dir" THEN DecideDir(p) \o below
    ELSE DecideFile(p)

(* planDir: the children with a record first, then the new ones, each in   *)
(* key order. A missing .strm that a video covers is left to the video.    *)
Known(d) == {p \in Kids(d) : Has(p) /\ (There(p) \/ ~CoveredByLocal(p))}
New(d) == {p \in Kids(d) : ~Has(p) /\ There(p)}
PlanDir[d \in {Root} \cup Path] ==
    LET plan(kids) == FlattenSeq([i \in DOMAIN KeyOrder |->
                        LET p == KeyOrder[i] IN When(p \in kids, Decide(p, PlanDir[p]))])
    IN  plan(Known(d)) \o plan(New(d))

(* PlanFile: one path, whatever its neighbours are.                        *)
PlanFile(p) == Decide(p, PlanDir[p])

(* Apply sorts the operations by phase, keeping their order within one.    *)
phase == [retire |-> 0, drop |-> 0, mkdir |-> 1, upload |-> 2, adopt |-> 2, normalize |-> 3]
InPhase(n, ops) == FlattenSeq([i \in DOMAIN ops |-> When(phase[ops[i].kind] = n, <<ops[i]>>)])
ByPhase(ops) == InPhase(0, ops) \o InPhase(1, ops) \o InPhase(2, ops) \o InPhase(3, ops)

-----------------------------------------------------------------------------
(* Faulty variant: a plan without operations is not the end.               *)
BeginAlways(ops, full) ==
    /\ job.at = "idle"
    /\ job' = [Idle EXCEPT !.at = "begin", !.ops = ByPhase(ops), !.calm = full]
    /\ UNCHANGED <<local, node, index, handed, torn, settled, edits>>

(* A job starts: its plan is made. A plan without operations ends it.      *)
Begin(ops, full) ==
    /\ job.at = "idle"
    /\ job' = IF ops = << >> THEN Idle
              ELSE [Idle EXCEPT !.at = "begin", !.ops = ByPhase(ops), !.calm = full]
    /\ settled' = IF ops = << >> /\ full /\ settled < 2 THEN settled + 1 ELSE settled
    /\ UNCHANGED <<local, node, index, handed, torn, edits>>

FullScan == Begin(PlanDir[Root], TRUE)

(* The watcher: a quiet directory, or a single video or .strm at once.     *)
DirScan(d) ==
    /\ job.at = "idle"
    /\ LocalDir(d)
    /\ PlanDir[d] # << >>
    /\ Begin(PlanDir[d], FALSE)

FileJob(p) ==
    /\ Instant
    /\ job.at = "idle"
    /\ p \in VideoPath \cup StrmPath
    /\ PlanFile(p) # << >>
    /\ Begin(PlanFile(p), FALSE)

-----------------------------------------------------------------------------
op == Head(job.ops)
Doing(kind, l) == job.at = l /\ op.kind = kind

(* The step goes on inside the operation ...                               *)
Goto(l) == job' = [job EXCEPT !.at = l] /\ UNCHANGED settled

(* ... or ends it. Single failures do not stop the rest.                   *)
Ended(calm) ==
    LET rest == Tail(job.ops) IN
    /\ job' = IF rest = << >> THEN Idle
              ELSE [Idle EXCEPT !.at = "begin", !.ops = rest, !.calm = calm]
    /\ settled' = IF ~calm THEN 0
                  ELSE IF rest = << >> /\ settled < 2 THEN settled + 1 ELSE settled
OpDone == Ended(job.calm)

RecordKey == IF op.kind = "upload" /\ op.video THEN StrmOf[op.path] ELSE op.path

\* The upload made a node other than the one recorded.
\* Faulty variant first: the answer with the same node is not looked at.
SupersedesAlways(f) == op.replace # nowhere
Supersedes(f) == op.replace \notin {nowhere, f}

LeftTorn ==
    IF job.at = "clear" THEN Subtree(op.path)
    ELSE IF job.at \in {"writeStrm", "remove", "put"} /\ Supersedes(job.fid)
         THEN {RecordKey}
    ELSE {}

OpFails ==
    /\ Ended(FALSE)
    /\ torn' = torn \cup LeftTorn
    /\ UNCHANGED <<local, node, index, handed, edits>>

(* upload starts with a look at the file ...                               *)
StatFile ==
    /\ Doing("upload", "begin")
    /\ \/ /\ local[op.path].k = "none"
          /\ OpDone
       \/ /\ local[op.path].k # "none"
          /\ job' = [job EXCEPT !.at = "ensure",
                        !.size = IF local[op.path].k = "file" THEN SizeOf[local[op.path].c] ELSE 0]
          /\ UNCHANGED settled
    /\ UNCHANGED <<local, node, index, handed, torn, edits>>

(* ... and, like mkdir and adopt, needs the directory in the cloud:        *)
(* EnsureLocalDir goes down from the root, creates what has no record, and *)
(* records it.                                                             *)
EnsureOthers ==
    /\ Doing("mkdir", "begin") \/ Doing("adopt", "begin")
    /\ Goto("ensure")
    /\ UNCHANGED <<local, node, index, handed, torn, edits>>

TargetDir == IF op.kind = "mkdir" THEN op.path ELSE Up(op.path)
Unrecorded == {d \in Path : IsPrefix(d, TargetDir) /\ ~Has(d)}
TopUnrecorded == CHOOSE d \in Unrecorded : \A e \in Unrecorded : IsPrefix(d, e)

CreateFolder ==
    /\ job.at = "ensure"
    /\ Unrecorded # {}
    /\ LET d == TopUnrecorded
           parent == FidOf(Up(d))
           twins == {f \in Fid : node[f].up = parent /\ node[f].kind = "dir" /\ node[f].name = d}
       IN  \/ OpFails
           \/ /\ IsDir(parent)
              /\ \E f \in (IF twins # {} THEN twins ELSE Fresh) :
                    /\ f \in Fresh => \A g \in Fresh : f <= g
                    /\ node' = [node EXCEPT ![f] = [NoNode EXCEPT
                                    !.up = parent, !.kind = "dir", !.name = d]]
                    /\ job' = [job EXCEPT !.at = "record", !.fid = f]
              /\ UNCHANGED <<local, index, handed, torn, settled, edits>>

RecordFolder ==
    /\ job.at = "record"
    /\ index' = [index EXCEPT ![TopUnrecorded] =
                    [fid |-> job.fid, kind |-> "dir", size |-> 0]]
    /\ job' = [job EXCEPT !.at = "ensure", !.fid = nowhere]
    /\ UNCHANGED <<local, node, handed, torn, settled, edits>>

Ensured(kind) == Doing(kind, "ensure") /\ Unrecorded = {}

MkdirDone ==
    /\ Ensured("mkdir")
    /\ OpDone
    /\ UNCHANGED <<local, node, index, handed, torn, edits>>

(* UploadHelper sends the file as it is now. The cloud makes a new node,   *)
(* or, for a file it has in that directory, may answer with the old one.   *)
UploadFile ==
    /\ Ensured("upload")
    /\ LET p == op.path
           parent == FidOf(Up(p))
           twins == {f \in Fid : /\ node[f].up = parent /\ node[f].c = local[p].c
                                 /\ \/ node[f].name = p
                                    \/ p \in VideoPath /\ node[f].name = StrmOf[p]}
       IN  \/ OpFails
           \/ /\ local[p].k = "file"
              /\ IsDir(parent)
              /\ \E f \in Fresh \cup twins :
                    /\ f \in Fresh => \A g \in Fresh : f <= g
                    /\ node' = [node EXCEPT ![f] = [up |-> parent, kind |-> "file",
                                    c |-> local[p].c, name |-> p]]
                    /\ job' = [job EXCEPT
                                !.fid = f,
                                !.at = IF ~op.video THEN "put"
                                       ELSE IF Supersedes(f) THEN "retireOld"
                                       ELSE "writeStrm"]
              /\ UNCHANGED <<local, index, handed, torn, settled, edits>>

(* Moving a node: what happens to one that is gone is up to the cloud.     *)
Moved(f, place) == IF Exists(f) THEN [node EXCEPT ![f].up = place] ELSE node

(* replaceWithStrm: retire the video that was there, ...                   *)
RetireOld ==
    /\ job.at = "retireOld"
    /\ \/ OpFails
       \/ /\ node' = Moved(op.replace, temp)
          /\ Goto("writeStrm")
          /\ UNCHANGED <<local, index, handed, torn, edits>>

(* ... write the .strm (so does adopt), ...                                *)
WriteStrm ==
    /\ job.at = "writeStrm"
    /\ \/ OpFails
       \/ /\ LocalDir(Up(RecordKey))
          /\ local[RecordKey].k # "dir"
          /\ local' = [local EXCEPT ![RecordKey] = Strm(job.fid, FALSE)]
          /\ Goto(IF op.kind = "upload" THEN "remove" ELSE "put")
          /\ UNCHANGED <<node, index, handed, torn, edits>>

(* ... remove the original (a failure is only logged), ...                 *)
RemoveOriginal ==
    /\ job.at = "remove"
    /\ \/ /\ local[op.path].k = "file"
          /\ local' = [local EXCEPT ![op.path] = Nothing]
          /\ handed' = handed \cup {local[op.path].c}
          /\ Goto("put")
       \/ /\ local[op.path].k # "file"
          /\ Goto("put")
          /\ UNCHANGED <<local, handed>>
       \/ /\ job' = [job EXCEPT !.at = "put", !.calm = FALSE]
          /\ settled' = 0
          /\ UNCHANGED <<local, handed>>
    /\ UNCHANGED <<node, index, torn, edits>>

(* ... and record the outcome. Faulty variant first: no size is noted.     *)
OutcomeNoSize == [fid |-> job.fid, size |-> 0,
                  kind |-> IF op.kind = "upload" /\ ~op.video THEN "file" ELSE "strm"]
Outcome ==
    IF op.kind = "upload" /\ ~op.video
    THEN [fid |-> job.fid, kind |-> "file", size |-> job.size]
    ELSE [fid |-> job.fid, kind |-> "strm", size |-> 0]

PutRecord ==
    /\ job.at = "put"
    /\ index' = [index EXCEPT ![RecordKey] = Outcome]
    /\ torn' = torn \ {RecordKey}
    /\ OpDone
    /\ UNCHANGED <<local, node, handed, edits>>

(* adopt: move the video to the target directory, then rename it there.    *)
MoveAdopted ==
    /\ Ensured("adopt")
    /\ \/ OpFails
       \/ /\ IsDir(FidOf(Up(op.path)))
          /\ Exists(op.fid)
          /\ node' = Moved(op.fid, FidOf(Up(op.path)))
          /\ job' = [job EXCEPT !.at = "rename", !.fid = op.fid]
          /\ UNCHANGED <<local, index, handed, torn, settled, edits>>

RenameAdopted ==
    /\ job.at = "rename"
    /\ \/ OpFails
       \/ /\ Exists(job.fid)
          /\ node' = [node EXCEPT ![job.fid].name = op.path]
          /\ Goto("writeStrm")
          /\ UNCHANGED <<local, index, handed, torn, edits>>

Normalize ==
    /\ Doing("normalize", "begin")
    /\ \/ OpFails
       \/ /\ local' = [local EXCEPT ![op.path] =
                        IF @.k = "strm" /\ @.pc # nowhere THEN [@ EXCEPT !.old = FALSE] ELSE @]
          /\ OpDone
          /\ UNCHANGED <<node, index, handed, torn, edits>>

(* retire and drop: the call, then ClearTree.                              *)
Retire ==
    /\ Doing("retire", "begin")
    /\ \/ OpFails
       \/ /\ node' = Moved(op.fid, temp)
          /\ Goto("clear")
          /\ UNCHANGED <<local, index, handed, torn, edits>>

Drop ==
    /\ Doing("drop", "begin")
    /\ \/ OpFails
       \/ /\ node' = Moved(op.fid, nowhere)
          /\ Goto("clear")
          /\ UNCHANGED <<local, index, handed, torn, edits>>

(* Faulty variant: the records below the path stay.                        *)
ClearedAlone(p) == {p}

(* ClearTree: from the path's own key on, delete up to the first record    *)
(* that is neither the path's nor below it; what comes after it is passed  *)
(* over.                                                                   *)
PassedOver(p) ==
    {q \in Subtree(p) : Has(q) /\ \E r \in Path \ Subtree(p) :
                            Has(r) /\ Rank(p) < Rank(r) /\ Rank(r) < Rank(q)}
Cleared(p) == Subtree(p) \ PassedOver(p)

ClearTree ==
    /\ job.at = "clear"
    /\ index' = [p \in Path |-> IF p \in Cleared(op.path) THEN NoRecord ELSE index[p]]
    /\ torn' = (torn \ Cleared(op.path)) \cup PassedOver(op.path)
    /\ OpDone
    /\ UNCHANGED <<local, node, handed, edits>>

(* The task is stopped between two operations, or the program dies at any  *)
(* point: what is persistent stays, the plan is lost.                      *)
Interrupt ==
    /\ job.at # "idle"
    /\ job' = Idle
    /\ settled' = 0
    /\ torn' = torn \cup LeftTorn
    /\ UNCHANGED <<local, node, index, handed, edits>>

ApplySteps ==
    \/ StatFile \/ EnsureOthers \/ CreateFolder \/ RecordFolder \/ MkdirDone
    \/ UploadFile \/ RetireOld \/ WriteStrm \/ RemoveOriginal \/ PutRecord
    \/ MoveAdopted \/ RenameAdopted \/ Normalize \/ Retire \/ Drop \/ ClearTree

-----------------------------------------------------------------------------
(* The user's changes to the local tree. A file that is being uploaded or  *)
(* adopted is left alone; unless files are Growing, so is one that the     *)
(* plan is going to.                                                       *)
Coming == {i \in DOMAIN job.ops : job.ops[i].kind \in {"upload", "adopt"}}
Awaited == IF Growing THEN {} ELSE {job.ops[i].path : i \in Coming}
InHand == (IF job.at \in {"idle", "begin"} THEN {} ELSE {op.path}) \cup Awaited

Edited(new) ==
    /\ edits < MaxEdits
    /\ edits' = edits + 1
    /\ local' = new
    /\ settled' = 0
    /\ job' = [job EXCEPT !.calm = FALSE]
    /\ UNCHANGED <<node, index, handed, torn>>

WriteFile(p, c) ==
    /\ p \notin StrmPath \cup DirPath \cup InHand
    /\ LocalDir(Up(p))
    /\ Edited([local EXCEPT ![p] = File(c)])

\* A link to a video elsewhere in the cloud, or the old one in another form.
\* One .strm per node, those included that a plan is going to adopt: two
\* that point to the same one take it from each other (a copied .strm moves
\* the video to where the copy is).
WriteLink(p, f, isOld) ==
    /\ p \in StrmPath
    /\ LocalDir(Up(p))
    /\ f = nowhere => ~isOld
    /\ f # nowhere => /\ Place[f] = elsewhere \/ local[p].pc = f
                      /\ \A q \in Path \ {p} : local[q].pc # f
                      /\ \A i \in Coming : job.ops[i].fid = f => job.ops[i].path = p
    /\ Edited([local EXCEPT ![p] = Strm(f, isOld)])

MakeDir(p) ==
    /\ p \in DirPath
    /\ local[p].k = "none"
    /\ LocalDir(Up(p))
    /\ Edited([local EXCEPT ![p] = Directory])

Delete(p) ==
    /\ p \in Removable
    /\ local[p].k # "none"
    /\ Subtree(p) \cap InHand = {}
    /\ Edited([q \in Path |-> IF q \in Subtree(p) THEN Nothing ELSE local[q]])

(* p becomes q, which did not exist, with everything below it, unless q is *)
(* itself below p.                                                         *)
Rename(p, q) ==
    LET from(x) == p \o SubSeq(x, Len(q) + 1, Len(x)) IN
    /\ p \in Removable
    /\ local[p].k # "none"
    /\ local[q].k = "none"
    /\ LocalDir(Up(q))
    /\ q \notin Subtree(p)
    /\ IF p \in StrmPath THEN Moves /\ q \in StrmPath ELSE q \notin StrmPath
    /\ p \in DirPath <=> q \in DirPath
    /\ Subtree(p) \cap InHand = {} /\ Subtree(q) \cap Awaited = {}
    /\ Edited([x \in Path |->
                IF x \in Subtree(q) THEN IF from(x) \in Path THEN local[from(x)] ELSE Nothing
                ELSE IF x \in Subtree(p) THEN Nothing
                ELSE local[x]])

UserSteps ==
    \/ \E p \in Path, c \in Content : WriteFile(p, c)
    \/ \E p \in Path, f \in Fid \cup {nowhere}, isOld \in BOOLEAN : WriteLink(p, f, isOld)
    \/ \E p \in Path : MakeDir(p) \/ Delete(p)
    \/ \E p, q \in Path : Rename(p, q)

Next ==
    \/ FullScan
    \/ \E d \in DirPath : DirScan(d)
    \/ \E p \in Path : FileJob(p)
    \/ ApplySteps
    \/ Interrupt
    \/ UserSteps

Spec == Init /\ [][Next]_vars

-----------------------------------------------------------------------------
(* Types of the variables.                                                 *)
TypeOK ==
    /\ \A p \in Path : /\ local[p].k \in {"none", "dir", "file", "strm"}
                       /\ local[p].k = "file" => local[p].c \in Content
                       /\ local[p].pc \in Fid \cup {nowhere}
    /\ \A f \in Fid : node[f].up \in Fid \cup {root, temp, elsewhere, nowhere}
    /\ \A p \in Path : /\ index[p].fid \in Fid \cup {nowhere}
                       /\ index[p].kind \in {"none", "dir", "file", "strm"}
                       /\ Has(p) <=> index[p].kind # "none"
    /\ job.at = "idle" <=> job.ops = << >>
    /\ handed \subseteq Content
    /\ torn \subseteq Path
    /\ settled \in 0 .. 2

(* What the program takes from the user it keeps: the content of every     *)
(* original it removed still exists in the cloud, if only in the recycle   *)
(* directory (README: videos that are cleared away can be found again).    *)
HandedIsKept == \A c \in handed : \E f \in Fid : node[f].c = c /\ Exists(f)

(* While a .strm and its record agree, the video they name is not in the   *)
(* recycle directory: what was just uploaded or adopted is not cleared     *)
(* away as a leftover (model.go: phases keep a plan from undoing itself).  *)
TrackedIsNotRecycled ==
    \A p \in Path \ torn :
        job.at = "idle" /\ local[p].k = "strm" /\ index[p].kind = "strm"
            /\ index[p].fid = local[p].pc
        => Place[local[p].pc] # temp

(* Two undisturbed full scans leave nothing to do: the comparison is       *)
(* stable under its own effects, whatever failed or was interrupted before *)
Converges == settled = 2 => PlanDir[Root] = << >>

(* After them the cloud mirrors the local tree: every local directory and  *)
(* file has its record and its node, in the node of its directory, and     *)
(* every record belongs to something local.                                *)
Mirrored(p) ==
    LET rec == index[p] IN
    /\ node[rec.fid].up = FidOf(Up(p))
    /\ CASE local[p].k = "dir" -> rec.kind = "dir" /\ IsDir(rec.fid)
         [] local[p].k = "strm" -> rec.kind = "strm" /\ rec.fid = local[p].pc
         [] local[p].k = "file" -> rec.kind = "file" /\ node[rec.fid].c = local[p].c
    /\ Exists(rec.fid)

IsMirror ==
    settled = 2 =>
        \A p \in Path \ torn :
            IF local[p].k = "none" THEN Has(p) => CoveredByLocal(p)
            ELSE \/ Has(p) /\ Mirrored(p)
                 \/ local[p].k = "strm" /\ local[p].pc = nowhere
                 \/ p \in VideoPath /\ local[p].k = "file" /\ Has(StrmOf[p])

(* What the comment on coveredByLocal says, and does not hold: the node of *)
(* a missing .strm is not retired while its video is there.                *)
CoveredIsLeft ==
    \A v \in VideoPath : ToStrm /\ local[v].k = "file" /\ ~There(StrmOf[v]) =>
        \A i \in DOMAIN PlanDir[Root] :
            PlanDir[Root][i].kind = "retire" => PlanDir[Root][i].path # StrmOf[v]

(* What the comment on ClearTree says, and does not hold: no record is     *)
(* left below a path that has none.                                        *)
RecordsHangTogether == \A p \in Path : Has(p) /\ Up(p) # Root => Has(Up(p))

=============================================================================
