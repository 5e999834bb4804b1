----------------------------- MODULE MirrorDown -----------------------------
(***************************************************************************)
(* The download scope of a task (internal/mirror: scan.go, plan.go,        *)
(* apply.go) and the building of its index (engine.go: initTask): the      *)
(* cloud's tree is walked, directories whose number of entries agrees with *)
(* the local one are taken for synced, what is missing locally is fetched, *)
(* a duplicate of what is recorded is deleted, and a task that only        *)
(* downloads moves the top directories to the recycle directory when it is *)
(* done. Meanwhile files are added in the cloud, the user edits the local  *)
(* tree, calls fail and the program dies.                                  *)
(*                                                                         *)
(* A path is the sequence of names below the task's root, the same on both *)
(* sides. In the cloud things are only added, as the README demands. The   *)
(* upload scope is left to MirrorUp. A file's content is the fid it came   *)
(* from. No name is on the exclusion list.                                 *)
(***************************************************************************)
EXTENDS Naturals, Sequences, SequencesExt, FiniteSets

CONSTANTS
    Path,       \* the paths that come up
    KeyOrder,   \* Path in byte order
    DirPath, VideoPath, StrmPath, \* those of directories, videos, .strm files
    StrmOf,     \* the .strm path of a video path
    Fid,        \* ids of cloud nodes
    nobody,     \* no fid; as a content: the user's own
    Modes,      \* the kinds of task that come up: "twoWay" (upload is on, too),
                \* "archive" (download, then recycle), "plain" (only download)
    ToStrm, ToStrmDl, \* the task's switches to_strm and to_strm_dl
    Failing,    \* calls fail and the program dies
    Still,      \* nothing is added in the cloud while a job is running
    MaxEdits    \* bound: changes the user makes

Root == << >>
Up(p) == Front(p)
FilePath == Path \ DirPath
Under(d) == {p \in Path : IsStrictPrefix(d, p)}

ASSUME MirrorDownAssumption ==
    /\ Path \subseteq Seq(UNION {Range(p) : p \in Path}) \ {Root}
    /\ \A p \in Path : Up(p) \in {Root} \cup DirPath
    /\ Len(KeyOrder) = Cardinality(Path) /\ {KeyOrder[i] : i \in DOMAIN KeyOrder} = Path
    /\ DirPath \cup VideoPath \cup StrmPath \subseteq Path
    /\ DirPath \cap (VideoPath \cup StrmPath) = {} /\ VideoPath \cap StrmPath = {}
    /\ StrmOf \in [VideoPath -> StrmPath]
    /\ \A v \in VideoPath : Up(StrmOf[v]) = Up(v)
    /\ Fid \subseteq Nat /\ IsFiniteSet(Fid) /\ nobody \notin Fid
    /\ Modes \subseteq {"twoWay", "archive", "plain"}

VARIABLES
    mode,       \* what kind of task it is
    cloud,      \* the path of every node, and the place it is in
    local,      \* the local tree
    index,      \* the fid recorded for a path
    ready,      \* initTask has succeeded
    job,        \* what the worker is at: the walk, the plan, the operation
    blind,      \* history: files that the last walk passed over in a
                \* directory it skipped, although they are not there locally or
                \* are stale
    handled,    \* history: files fetched, or found to need no fetching
    excused,    \* history: files archived unseen by the walk, or in spite of
                \* a fetch that failed
    deleted,    \* history: local paths that the user deleted
    built,      \* history: paths that BuildIndex recorded
    settled,    \* history: the last download was complete and undisturbed
    edits       \* the changes the user has made

history == <<handled, excused, deleted, built>>
vars == <<mode, cloud, local, index, ready, job, blind, settled, edits, history>>

(* What is at a local path. A part is what an os.Create leaves behind when *)
(* the copy that fills the file is not finished.                           *)
Nothing == [k |-> "none", f |-> nobody]
Directory == [k |-> "dir", f |-> nobody]
File(f) == [k |-> "file", f |-> f]
Part(f) == [k |-> "part", f |-> f]
Strm(f) == [k |-> "strm", f |-> f]

There(p) == local[p].k # "none"
LocalDir(d) == IF d = Root THEN TRUE ELSE There(d)
Has(p) == index[p] # nobody

Fresh == {f \in Fid : cloud[f].place = "fresh"}
Present == {f \in Fid : cloud[f].place = "root"}
IsDir(f) == cloud[f].path \in DirPath
Files(s) == {f \in s : ~IsDir(f)}
Listing(d) == {f \in Present : Up(cloud[f].path) = d}
Below(d) == {f \in Present : IsStrictPrefix(d, cloud[f].path)}

(* Where a cloud file is landed, or recorded: a video as its .strm.        *)
KeyOf(p, strm) == IF p \in VideoPath /\ strm THEN StrmOf[p] ELSE p
SavePath(f) == KeyOf(cloud[f].path, ToStrmDl)

Rank(p) == CHOOSE i \in DOMAIN KeyOrder : KeyOrder[i] = p
(* Those that come first in path order; duplicates in any order.           *)
First(s) == {f \in s : \A g \in s : Rank(cloud[f].path) <= Rank(cloud[g].path)}

Idle == [at |-> "idle", count |-> << >>, dirs |-> {}, items |-> {}, drops |-> {},
         gets |-> {}, tops |-> {}, fid |-> nobody, failed |-> {}, calm |-> FALSE]

Init ==
    /\ mode \in Modes
    /\ cloud = [f \in Fid |-> [path |-> Root, place |-> "fresh"]]
    /\ local = [p \in Path |-> Nothing]
    /\ index = [p \in Path |-> nobody]
    /\ ready = FALSE
    /\ job = Idle
    /\ blind = {} /\ handled = {} /\ excused = {} /\ deleted = {} /\ built = {}
    /\ settled = FALSE
    /\ edits = 0

-----------------------------------------------------------------------------
(* initTask: a task with upload and an empty index has it built first.     *)
NeedsIndex == mode = "twoWay" /\ \A p \in Path : ~Has(p)

InitTask ==
    /\ ~ready
    /\ job.at = "idle"
    /\ IF NeedsIndex
       THEN job' = [Idle EXCEPT !.at = "survey", !.dirs = {Root}] /\ UNCHANGED ready
       ELSE ready' = TRUE /\ UNCHANGED job
    /\ UNCHANGED <<mode, cloud, local, index, blind, settled, edits, history>>

(* BuildIndex: once the whole tree is known, one record after the other.   *)
BuildRecord ==
    /\ job.at = "survey" /\ job.dirs = {}
    /\ \E f \in First(job.items) :
        LET p == KeyOf(cloud[f].path, ToStrm) IN
        /\ index' = [index EXCEPT ![p] = f]
        /\ built' = built \cup {p}
        /\ job' = [job EXCEPT !.items = @ \ {f}]
    /\ UNCHANGED <<mode, cloud, local, ready, blind, settled, edits, handled, excused, deleted>>

BuildDone ==
    /\ job.at = "survey" /\ job.dirs = {} /\ job.items = {}
    /\ job' = Idle
    /\ ready' = TRUE
    /\ UNCHANGED <<mode, cloud, local, index, blind, settled, edits, history>>

-----------------------------------------------------------------------------
(* PlanCloud. A file is fetched when there is nothing at its place and no  *)
(* record (a record says that the user deleted it); the recorded one's     *)
(* namesakes are stale. Faulty variant: so is one that has no record.      *)
Missing(f) == ~There(SavePath(f)) /\ ~Has(SavePath(f))
StaleOrNew(f) == There(SavePath(f)) /\ index[SavePath(f)] # f
Stale(f) == There(SavePath(f)) /\ Has(SavePath(f)) /\ index[SavePath(f)] # f

(* Faulty variant: a directory counts as its own entry.                    *)
LocalTreeCountWithSelf ==
    [d \in {Root} \cup DirPath |-> Cardinality({p \in (Under(d) \cup {d}) \ {Root} : There(p)})]

(* LocalTreeCount: the entries below each local directory.                 *)
LocalTreeCount ==
    [d \in {Root} \cup DirPath |-> Cardinality({p \in Under(d) : There(p)})]

(* runDownload: the local entries are counted, then the walk begins. The   *)
(* root's count, which the code asks for just before, is read by the walk. *)
BeginDownload ==
    /\ ready
    /\ job.at = "idle"
    /\ job' = [Idle EXCEPT !.at = "scan", !.count = LocalTreeCount,
                           !.dirs = {Root}, !.calm = TRUE]
    /\ blind' = {}
    /\ settled' = FALSE
    /\ UNCHANGED <<mode, cloud, local, index, ready, edits, history>>

(* ScanCloud, one directory at a time, in any order. The count may be      *)
(* unavailable, except the root's, which is known already.                 *)
Agrees(d) == job.at = "scan" /\ Cardinality(Below(d)) = job.count[d]

(* A directory is skipped ...                                              *)
Skip(d) ==
    /\ Agrees(d)
    /\ job' = [job EXCEPT !.dirs = @ \ {d}]
    /\ blind' = blind \cup {f \in Files(Below(d)) : ~There(SavePath(f)) \/ Stale(f)}

\* Faulty variant: the walk does not go down.
ListTop(d) ==
    /\ Agrees(d) => Failing /\ d # Root
    /\ job' = [job EXCEPT !.dirs = @ \ {d}, !.items = @ \cup Listing(d)]
    /\ UNCHANGED blind

(* ... is listed: its files are noted, its directories are to be walked.   *)
List(d) ==
    /\ Agrees(d) => Failing /\ d # Root
    /\ job' = [job EXCEPT
                !.dirs = (@ \ {d}) \cup {cloud[f].path : f \in {g \in Listing(d) : IsDir(g)}},
                !.items = @ \cup Listing(d)]
    /\ UNCHANGED blind

Walk(d) ==
    /\ job.at \in {"survey", "scan"}
    /\ d \in job.dirs
    /\ Skip(d) \/ List(d)
    /\ UNCHANGED <<mode, cloud, local, index, ready, settled, edits, history>>

(* TopDirs: the directories right below the root; files there stay.        *)
TopDirs(items) == {f \in items : IsDir(f) /\ Up(cloud[f].path) = Root}

(* cloudCfg: what a task does depends on its other switches.               *)
DropsStale == mode = "twoWay"
Archives == mode = "archive"

(* PlanCloud, once the walk is over.                                       *)
Plan ==
    /\ job.at = "scan" /\ job.dirs = {}
    /\ LET files == Files(job.items)
           gets == {f \in files : Missing(f)}
       IN  /\ job' = [job EXCEPT
                        !.at = "apply",
                        !.gets = gets,
                        !.drops = {f \in files : DropsStale /\ Stale(f)},
                        !.tops = {f \in TopDirs(job.items) : Archives}]
           /\ handled' = handled \cup (files \ gets)
    /\ UNCHANGED <<mode, cloud, local, index, ready, blind, settled, edits, excused, deleted, built>>

-----------------------------------------------------------------------------
(* Apply: deletions, then downloads, then the archive step. A failure does *)
(* not stop the rest.                                                      *)
Failed(f) ==
    /\ Failing
    /\ job' = [job EXCEPT !.at = "apply", !.drops = @ \ {f}, !.gets = @ \ {f},
                          !.failed = @ \cup {f}, !.calm = FALSE]

DropStale ==
    /\ job.at = "apply"
    /\ \E f \in First(job.drops) :
        \/ /\ Failed(f)
           /\ UNCHANGED cloud
        \/ /\ cloud' = [cloud EXCEPT ![f].place = "gone"]
           /\ job' = [job EXCEPT !.at = "clear", !.fid = f]
    /\ UNCHANGED <<mode, local, index, ready, blind, settled, edits, history>>

\* Faulty variant: the key goes, and with it the place for a record.
ClearTreeAndKey ==
    /\ job.at = "clear"
    /\ index' = [p \in Path \ {SavePath(job.fid)} |-> index[p]]
    /\ job' = [job EXCEPT !.at = "apply", !.drops = @ \ {job.fid}]
    /\ UNCHANGED <<mode, cloud, local, ready, blind, settled, edits, history>>

(* ... and the record of the path, the kept file's, is cleared.            *)
ClearTree ==
    /\ job.at = "clear"
    /\ index' = [index EXCEPT ![SavePath(job.fid)] = nobody]
    /\ job' = [job EXCEPT !.at = "apply", !.drops = @ \ {job.fid}]
    /\ UNCHANGED <<mode, cloud, local, ready, blind, settled, edits, history>>

(* The directories above a path are made (MkdirAll).                       *)
WithDirs(p) == [q \in Path |-> IF q \in DirPath /\ p \in Under(q) THEN Directory ELSE local[q]]

\* Faulty variant: the record is written before the file.
DownloadRecordsFirst ==
    /\ job.at = "apply" /\ job.drops = {}
    /\ \E f \in First(job.gets) :
        LET p == SavePath(f)
            strm == p # cloud[f].path
        IN  /\ index' = [index EXCEPT ![p] = f]
            /\ \/ /\ Failed(f)
                  /\ local' = WithDirs(p)
                  /\ UNCHANGED deleted
               \/ /\ local' = [WithDirs(p) EXCEPT ![p] = IF strm THEN Strm(f) ELSE Part(f)]
                  /\ job' = [job EXCEPT !.at = IF strm THEN "put" ELSE "copy", !.fid = f]
                  /\ deleted' = deleted \ {p}
    /\ UNCHANGED <<mode, cloud, ready, blind, settled, edits, handled, excused, built>>

(* download: a .strm is written at once, another file is created and then  *)
(* filled; either may fail when only the directories have been made.       *)
Download ==
    /\ job.at = "apply" /\ job.drops = {}
    /\ \E f \in First(job.gets) :
        LET p == SavePath(f)
            strm == p # cloud[f].path
        IN  \/ /\ Failed(f)
               /\ local' = WithDirs(p)
               /\ UNCHANGED deleted
            \/ /\ local' = [WithDirs(p) EXCEPT ![p] = IF strm THEN Strm(f) ELSE Part(f)]
               /\ job' = [job EXCEPT !.at = IF strm THEN "put" ELSE "copy", !.fid = f]
               /\ deleted' = deleted \ {p}
    /\ UNCHANGED <<mode, cloud, index, ready, blind, settled, edits, handled, excused, built>>

\* Faulty variant: the error of the copy is lost.
CopyUnchecked ==
    /\ job.at = "copy"
    /\ LET p == cloud[job.fid].path IN
        /\ job' = [job EXCEPT !.at = "put"]
        /\ \/ local' = [local EXCEPT ![p] = IF There(p) THEN File(job.fid) ELSE Nothing]
           \/ Failing /\ UNCHANGED local
    /\ UNCHANGED <<mode, cloud, index, ready, blind, settled, edits, history>>

(* The copy ends, or fails and removes the file. The user may have deleted *)
(* it meanwhile, which the copy does not notice.                           *)
Copy ==
    /\ job.at = "copy"
    /\ LET p == cloud[job.fid].path IN
        \/ /\ local' = [local EXCEPT ![p] = IF There(p) THEN File(job.fid) ELSE Nothing]
           /\ job' = [job EXCEPT !.at = "put"]
        \/ /\ Failed(job.fid)
           /\ local' = [local EXCEPT ![p] = Nothing]
    /\ UNCHANGED <<mode, cloud, index, ready, blind, settled, edits, history>>

PutRecord ==
    /\ job.at = "put"
    /\ index' = [index EXCEPT ![SavePath(job.fid)] = job.fid]
    /\ handled' = handled \cup {job.fid}
    /\ job' = [job EXCEPT !.at = "apply", !.gets = @ \ {job.fid}]
    /\ UNCHANGED <<mode, cloud, local, ready, blind, settled, edits, excused, deleted, built>>

(* Faulty variant: the archive step does not wait for the downloads.       *)
DoneEarly == job.at = "apply" /\ job.drops = {}
Done == job.at = "apply" /\ job.drops = {} /\ job.gets = {}

(* archiveAll moves the top directories with all that is in them by now.   *)
ArchiveAll ==
    /\ Done
    /\ job.tops # {}
    /\ LET moved == {f \in Present : \E t \in job.tops : IsPrefix(cloud[t].path, cloud[f].path)} IN
       \/ /\ cloud' = [f \in Fid |-> IF f \in moved THEN [cloud[f] EXCEPT !.place = "temp"]
                                     ELSE cloud[f]]
          /\ excused' = excused \cup (Files(moved) \ job.items) \cup (moved \cap job.failed)
          /\ settled' = job.calm
       \/ /\ Failing
          /\ UNCHANGED <<cloud, excused, settled>>
    /\ job' = Idle
    /\ UNCHANGED <<mode, local, index, ready, blind, edits, handled, deleted, built>>

Finish ==
    /\ Done
    /\ job.tops = {}
    /\ job' = Idle
    /\ settled' = job.calm
    /\ UNCHANGED <<mode, cloud, local, index, ready, blind, edits, history>>

(* A listing fails, the task is stopped between two operations, or the     *)
(* program dies: the work is given up. Of these only a death is possible   *)
(* inside an operation, and it makes initTask run again.                   *)
GiveUp ==
    /\ Failing
    /\ job.at # "idle"
    /\ job' = Idle
    /\ ready' \in {FALSE, ready /\ job.at \in {"scan", "apply"}}
    /\ UNCHANGED <<mode, cloud, local, index, blind, settled, edits, history>>

-----------------------------------------------------------------------------
(* Something is added in the cloud: no second directory of a name; a       *)
(* second file of a name only while the first is recorded, and no third.   *)
AddInCloud(p) ==
    /\ Still => job.at = "idle"
    /\ Up(p) \in {Root} \cup {cloud[f].path : f \in Present}
    /\ LET namesakes == {f \in Fid : cloud[f].path = p /\ cloud[f].place # "temp"} IN
        \/ namesakes = {}
        \/ /\ p \notin DirPath
           /\ Has(KeyOf(p, ToStrmDl))
           /\ \E g \in Fid : namesakes = {g}
    /\ p \notin StrmPath
    /\ \E f \in Fresh :
        /\ \A g \in Fresh : f <= g
        /\ cloud' = [cloud EXCEPT ![f] = [path |-> p, place |-> "root"]]
    /\ settled' = FALSE
    /\ job' = [job EXCEPT !.calm = FALSE]
    /\ UNCHANGED <<mode, local, index, ready, blind, edits, history>>

(* The user deletes or writes something locally; a file that is being      *)
(* fetched may be deleted but not written.                                 *)
Edited(new, gone) ==
    /\ edits < MaxEdits
    /\ edits' = edits + 1
    /\ local' = new
    /\ deleted' = deleted \cup gone
    /\ settled' = FALSE
    /\ job' = [job EXCEPT !.calm = FALSE]
    /\ UNCHANGED <<mode, cloud, index, ready, blind, handled, excused, built>>

Delete(p) ==
    LET gone == {p} \cup Under(p) IN
    /\ There(p)
    /\ Edited([q \in Path |-> IF q \in gone THEN Nothing ELSE local[q]], {q \in gone : There(q)})

Write(p) ==
    /\ p \in FilePath \ StrmPath
    /\ LocalDir(Up(p))
    /\ job.at = "copy" => cloud[job.fid].path # p
    /\ Edited([local EXCEPT ![p] = File(nobody)], {})

JobSteps ==
    \/ BuildRecord \/ BuildDone
    \/ \E d \in {Root} \cup DirPath : Walk(d)
    \/ Plan \/ DropStale \/ ClearTree \/ Download \/ Copy \/ PutRecord \/ ArchiveAll \/ Finish

Next ==
    \/ InitTask \/ BeginDownload
    \/ JobSteps
    \/ GiveUp
    \/ \E p \in Path : AddInCloud(p) \/ Delete(p) \/ Write(p)

Spec == Init /\ [][Next]_vars

-----------------------------------------------------------------------------
(* Types of the variables.                                                 *)
TypeOK ==
    /\ mode \in Modes
    /\ cloud \in [Fid -> [path : Path \cup {Root}, place : {"fresh", "root", "temp", "gone"}]]
    /\ local \in [Path -> [k : {"none", "dir", "file", "part", "strm"}, f : Fid \cup {nobody}]]
    /\ index \in [Path -> Fid \cup {nobody}]
    /\ ready \in BOOLEAN /\ settled \in BOOLEAN
    /\ job.at \in {"idle", "survey", "scan", "apply", "clear", "copy", "put"}
    /\ job.dirs \subseteq {Root} \cup DirPath
    /\ job.items \cup job.drops \cup job.gets \cup job.tops \cup job.failed \subseteq Fid
    /\ blind \cup handled \cup excused \subseteq Fid
    /\ deleted \cup built \subseteq Path
    /\ edits \in 0 .. MaxEdits

(* What is deleted as a stale duplicate leaves a file of the same name in  *)
(* the cloud (plan.go: "redundant copy of the same name").                 *)
DropKeepsOriginal ==
    \A f \in Fid : cloud[f].place = "gone" =>
        \E g \in Present : cloud[g].path = cloud[f].path

(* ScanCloud's shortcut: in a directory skipped because the counts agree   *)
(* nothing is missing or stale, as long as nobody but the program has put  *)
(* anything into the local tree or taken it out, and the cloud's copy is   *)
(* not archived. (A part counts as there, and is not fetched again.)       *)
SkipIsSound == edits = 0 /\ ~Archives => blind = {}

(* After a complete, undisturbed download there is nothing left to do but  *)
(* what lies in the directories skipped: everything in the cloud is there  *)
(* or was deleted by the user, and nothing is stale.                       *)
QuietRunSettles ==
    settled => \A f \in Files(Present) \ blind :
                    ~Missing(f) /\ ~(DropsStale /\ Stale(f))

(* A record without its local file means that the user has deleted it      *)
(* (PlanCloud and PlanLocal rely on it, and the latter deletes the cloud's *)
(* copy), or that BuildIndex made it.                                      *)
RecordMeansLanded ==
    \A p \in Path : Has(p) /\ ~There(p) => p \in deleted \cup built

(* A file whose copy was cut off is never taken for synced.                *)
RecordedIsWhole == \A p \in Path \ built : local[p].k = "part" => ~Has(p)

(* What was archived had been dealt with before: it had been fetched, or   *)
(* needed no fetching, unless its fetch failed or the walk had not seen it *)
ArchivedIsHandled ==
    \A f \in Files(Fid) : cloud[f].place = "temp" => f \in handled \cup excused

(* What was archived had been landed (model.go, TopDirs: a film is moved   *)
(* away once all of it has been landed).                                   *)
ArchivedIsLanded == \A f \in Files(Fid) : cloud[f].place = "temp" => f \in handled

=============================================================================
