-------------------------- MODULE MirrorBothProofs --------------------------
(***************************************************************************)
(* Proofs about MirrorBoth, for any paths, contents and nodes, and any     *)
(* number of edits, failures, stops and deaths.                            *)
(***************************************************************************)
EXTENDS MirrorBoth, TLAPS

(* The two switches as the instances that pass have them: what is uploaded *)
(* as a video is fetched as one.                                           *)
Forward == \A s \in Switches : s.toStrm => s.toStrmDl

(* The node f is what belongs at the path p.                               *)
Lands(p, f) == node[f].place # "none" /\ SavePath(f) = p

Name == Path \ StrmPath
Node == [name : Name \cup {none}, c : Content \cup {cut, none}, place : {"none", "root", "temp", "gone"}]
Record == [fid : Fid \cup {none}, kind : {"none", "file", "strm"}, size : Nat]
Kind == {"retire", "drop", "upload", "adopt", "download"}
Operation == [kind : Kind, path : Path, fid : Fid \cup {none}, video : BOOLEAN]
Place == {"idle", "next", "clear", "retireOld", "strm", "remove", "put", "copy"} \cup Kind
Job == [scope : {"none", "up", "down"}, at : Place, ops : SUBSET Operation,
        op : Operation \cup {NoOp}, fid : Fid \cup {none}, calm : BOOLEAN]

Typed ==
    /\ TypeOK
    /\ node \in [Fid -> Node]
    /\ ready \in BOOLEAN
    /\ job \in Job
    /\ written \in [Path -> Content \cup {none}]
    /\ deleted \subseteq Path

(* A node has a name and a content for good; a local .strm points to a     *)
(* node of its name; a record of a plain file to one of exactly that name. *)
NodeOK(f) == node[f].place # "none" => node[f].name \in Name /\ node[f].c # none
LocalOK(p) ==
    /\ local[p].k = "file" => p \in Name
    /\ local[p].k = "strm" => p \in StrmPath /\ Lands(p, local[p].x)
RecordOK(p) ==
    /\ Has(p) => index[p].fid \in Fid /\ index[p].kind # "none" /\ node[index[p].fid].place # "none"
    /\ index[p].kind = "file" => p \in Name /\ node[index[p].fid].name = p

(* The operations left and the one under way; what an operation is about.  *)
Pending == job.ops \cup {job.op}
OpOK(o) ==
    /\ o.kind = "upload" => o.path \in Name
    /\ o.kind # "upload" => ~o.video /\ o.fid \in Fid /\ node[o.fid].place # "none"
    /\ o.video => o.path \in VideoPath /\ task.toStrm
    /\ o.kind \in {"adopt", "download"} => Lands(o.path, o.fid)
    /\ o.kind = "adopt" => o.path \in StrmPath

(* Where the run is fits the operation, and what is cleared comes first.   *)
Stage ==
    /\ job.at = "idle" => job.ops = {}
    /\ job.at # "idle" => ready
    /\ job.at \in {"idle", "next"} <=> job.op = NoOp
    /\ job.at \in Kind => job.op.kind = job.at
    /\ job.at = "clear" => job.op.kind \in {"retire", "drop"} /\ node[job.op.fid].place # "root"
    /\ job.at \in {"retireOld", "remove"} => job.op.video
    /\ job.at = "strm" => job.op.kind \in {"upload", "adopt", "download"} /\ RecordKey \in StrmPath
    /\ job.at = "put" => job.op.kind \in {"upload", "adopt", "download"}
    /\ job.at = "copy" => job.op.kind = "download" /\ path \in Name
    /\ job.at \in {"retireOld", "strm", "remove", "put", "copy"} =>
          /\ job.fid \in Fid
          /\ job.op.kind = "upload" => node[job.fid].place = "root" /\ node[job.fid].name = path
          /\ job.op.kind # "upload" => job.fid = job.op.fid
    /\ job.at = "retireOld" => job.op.fid \in Fid \ {job.fid}
    /\ job.op.kind = "upload" => \A o \in job.ops : o.kind # "drop"

Base ==
    /\ Typed
    /\ \A f \in Fid : NodeOK(f)
    /\ \A p \in Path : LocalOK(p) /\ RecordOK(p)
    /\ \A o \in Pending : o # NoOp => OpOK(o)
    /\ Stage

-----------------------------------------------------------------------------
LEMMA Names ==
    /\ VideoPath \subseteq Name /\ StrmPath \subseteq Path
    /\ \A v \in VideoPath : StrmOf[v] \in StrmPath
    /\ none \notin Path /\ none \notin Fid
  BY MirrorBothAssumption DEF Name, StrmPath

LEMMA NoOpIsNone == NoOp \notin Operation /\ NoOp.kind = "none" /\ NoOp.path = none /\ ~NoOp.video
  BY DEF NoOp, Op, Operation, Kind

LEMMA OpIs ==
    ASSUME NEW k \in Kind, NEW p \in Path, NEW f \in Fid \cup {none}
    PROVE  /\ Op(k, p, f) \in Operation
           /\ Op(k, p, f).kind = k /\ Op(k, p, f).path = p
           /\ Op(k, p, f).fid = f /\ ~Op(k, p, f).video
  BY DEF Op, Operation

(* Nodes keep their names and contents, and none vanishes.                 *)
KeepsNames ==
    /\ task' = task
    /\ \A f \in Fid : node[f].place # "none" =>
          /\ node'[f].place # "none"
          /\ node'[f].name = node[f].name /\ node'[f].c = node[f].c

LEMMA LandsStays ==
    ASSUME KeepsNames, NEW p, NEW f \in Fid, Lands(p, f)
    PROVE  Lands(p, f)'
  BY DEF KeepsNames, Lands, SavePath

LEMMA LocalStays ==
    ASSUME Base, KeepsNames, NEW q \in Path, local'[q] = local[q]
    PROVE  LocalOK(q)'
<1>1. local[q].k = "strm" => local[q].x \in Fid
  BY DEF Base, Typed, TypeOK, File, Strm, Nothing
<1> QED
  BY <1>1, LandsStays DEF Base, LocalOK

LEMMA RecordStays ==
    ASSUME Base, KeepsNames, NEW q \in Path, index'[q] = index[q]
    PROVE  RecordOK(q)'
<1>1. index[q].kind = "file" => Has(q)
  BY DEF Has, NoRecord
<1> QED
  BY <1>1 DEF Base, RecordOK, KeepsNames, Has

LEMMA OpStays ==
    ASSUME KeepsNames, NEW o \in Operation, OpOK(o)
    PROVE  OpOK(o)'
<1>1. o.kind \in {"adopt", "download", "retire", "drop"} => o.fid \in Fid
  BY DEF OpOK
<1> QED
  BY <1>1, LandsStays DEF OpOK, KeepsNames, Operation, Kind

LEMMA OpsStay ==
    ASSUME Base, KeepsNames
    PROVE  \A o \in Pending : o # NoOp => OpOK(o)'
<1>1. SUFFICES ASSUME NEW o \in Pending, o # NoOp PROVE OpOK(o)'
  OBVIOUS
<1>2. o \in Operation /\ OpOK(o)
  BY <1>1 DEF Base, Typed, Job, Pending
<1> QED
  BY <1>2, OpStays

(* An operation ends, or goes on to its next stage: what is pending was.   *)
LEMMA EndedKeeps ==
    ASSUME Base, KeepsNames, NEW calm \in BOOLEAN, Ended(calm), ready' = ready, job.at # "idle"
    PROVE  /\ job' \in Job
           /\ \A o \in Pending' : o # NoOp => o \in Pending /\ OpOK(o)'
           /\ Stage'
<1>1. job' = Idle \/ job' = [job EXCEPT !.at = "next", !.op = NoOp, !.fid = none, !.calm = calm]
  BY DEF Ended
<1>0. job \in Job
  BY DEF Base, Typed
<1>2. /\ Idle \in Job /\ Idle.op = NoOp /\ Idle.ops = {} /\ Idle.at = "idle"
  BY DEF Job, Idle, Place
<1> DEFINE next == [job EXCEPT !.at = "next", !.op = NoOp, !.fid = none, !.calm = calm]
<1>3. next \in Job /\ next.op = NoOp /\ next.ops = job.ops /\ next.at = "next"
  BY <1>0 DEF Job, Place
<1>4. job' \in Job
  BY <1>1, <1>2, <1>3
<1>5. job'.op = NoOp /\ job'.ops \subseteq job.ops /\ job'.at \in {"idle", "next"}
      /\ (job'.at = "idle" => job'.ops = {})
  BY <1>1, <1>2, <1>3
<1>6. Stage'
  BY <1>5, NoOpIsNone DEF Base, Stage, Kind
<1> QED
  BY <1>4, <1>5, <1>6, OpsStay DEF Pending

LEMMA StageKeeps ==
    ASSUME Base, KeepsNames, job'.ops = job.ops, job'.op = job.op
    PROVE  \A o \in Pending' : o # NoOp => o \in Pending /\ OpOK(o)'
  BY OpsStay DEF Pending

(* A file that is there.                                                   *)
LEMMA FileThere ==
    ASSUME Base, NEW p \in Name, There(p)
    PROVE  local[p].k = "file" /\ local[p].x \in Content \cup {cut} /\ local[p] = File(local[p].x)
  BY DEF Base, Typed, TypeOK, LocalOK, There, Name, File, Strm, Nothing

-----------------------------------------------------------------------------
(* What the operations of a plan are.                                      *)
Clears(o) == o.kind \in {"retire", "drop"} /\ Has(o.path) /\ o = ClearOp(o.path)
Adopts(o) ==
    /\ o.path \in StrmPath /\ local[o.path].k = "strm" /\ o = Op("adopt", o.path, local[o.path].x)
    /\ ~(index[o.path].kind = "strm" /\ index[o.path].fid = local[o.path].x)
Sends(o) ==
    /\ o.kind = "upload" /\ local[o.path].k = "file" /\ o.path \in Name
    /\ ~o.video => (task.toStrm /\ o.path \in VideoPath => local[o.path].x \notin Big)
    /\ o.video => o.path \in VideoPath /\ task.toStrm /\ local[o.path].x \in Big
Fetches(o) ==
    /\ o = Op("download", SavePath(o.fid), o.fid)
    /\ o.fid \in Present /\ Missing(o.fid)
Prunes(o) ==
    /\ o = Op("drop", SavePath(o.fid), o.fid)
    /\ o.fid \in Present /\ Stale(o.fid)

LEMMA ClearedIs ==
    ASSUME Base, NEW p \in Path, NEW o \in Cleared(p)
    PROVE  o \in Operation /\ Clears(o) /\ o.path = p /\ o.fid = index[p].fid
<1>1. Has(p) /\ o = ClearOp(p)
  BY DEF Cleared
<1>2. index[p].fid \in Fid
  BY <1>1 DEF Base, RecordOK
<1>3. ASSUME NEW k \in {"retire", "drop"}, o = Op(k, p, index[p].fid)
      PROVE  o \in Operation /\ o.kind = k /\ o.path = p /\ o.fid = index[p].fid
  BY <1>2, <1>3, OpIs DEF Kind
<1>4. \E k \in {"retire", "drop"} : o = Op(k, p, index[p].fid)
  BY <1>1 DEF ClearOp
<1> QED
  BY <1>1, <1>3, <1>4 DEF Clears

LEMMA DecidePlainIs ==
    ASSUME Base, NEW p \in Name, local[p].k = "file", NEW o \in DecidePlain(p),
           task.toStrm /\ p \in VideoPath => local[p].x \notin Big
    PROVE  o \in Operation /\ (Clears(o) \/ Sends(o)) /\ o.path = p
<1>0. p \in Path
  BY DEF Name
<1>1. CASE o \in Cleared(p)
  BY <1>0, <1>1, ClearedIs
<1>2. CASE o = Op("upload", p, none)
  BY <1>0, <1>2, OpIs DEF Kind, Sends
<1> QED
  BY <1>1, <1>2 DEF DecidePlain

LEMMA DecideVideoIs ==
    ASSUME Base, NEW p \in VideoPath, local[p].k = "file", task.toStrm, NEW o \in DecideVideo(p)
    PROVE  o \in Operation /\ (Clears(o) \/ Sends(o)) /\ o.path \in {p, StrmOf[p]}
<1>0. p \in Name /\ p \in Path /\ StrmOf[p] \in Path
  BY Names DEF Name
<1>1. CASE o \in Cleared(StrmOf[p])
  BY <1>0, <1>1, ClearedIs
<1>2. CASE local[p].x \notin Big /\ o \in DecidePlain(p)
  BY <1>0, <1>2, DecidePlainIs
<1>3. CASE local[p].x \in Big /\ \E f \in Fid \cup {none} : o = [Op("upload", p, f) EXCEPT !.video = TRUE]
  <2>1. PICK f \in Fid \cup {none} : o = [Op("upload", p, f) EXCEPT !.video = TRUE]
    BY <1>3
  <2>2. o \in Operation /\ o.kind = "upload" /\ o.path = p /\ o.video
    BY <2>1, <1>0 DEF Op, Operation, Kind
  <2> QED
    BY <2>2, <1>3, <1>0 DEF Sends
<1>4. index[StrmOf[p]].fid \in Fid \cup {none}
  BY <1>0 DEF Base, Typed, TypeOK
<1> QED
  BY <1>1, <1>2, <1>3, <1>4 DEF DecideVideo

LEMMA DecideStrmIs ==
    ASSUME Base, NEW p \in Path, local[p].k = "strm", NEW o \in DecideStrm(p)
    PROVE  o \in Operation /\ (Clears(o) \/ Adopts(o)) /\ o.path = p
<1>0. p \in StrmPath /\ local[p].x \in Fid
  BY DEF Base, LocalOK, Typed, TypeOK, Strm, File, Nothing
<1>1. CASE o \in Cleared(p)
  BY <1>1, ClearedIs
<1>2. CASE o = Op("adopt", p, local[p].x) /\ ~(index[p].kind = "strm" /\ index[p].fid = local[p].x)
  BY <1>0, <1>2, OpIs DEF Kind, Adopts
<1> QED
  BY <1>1, <1>2 DEF DecideStrm

LEMMA DecideIs ==
    ASSUME Base, NEW p \in Path, NEW o \in Decide(p)
    PROVE  o \in Operation /\ (Clears(o) \/ Sends(o) \/ Adopts(o))
           /\ (o.path = p \/ (p \in VideoPath /\ There(p) /\ o.path = StrmOf[p]))
<1>1. CASE ~There(p)
  <2>1. Decide(p) = DecideMissing(p)
    BY <1>1 DEF Decide, There
  <2>2. o \in Cleared(p)
    BY <2>1 DEF DecideMissing
  <2> QED
    BY <2>2, ClearedIs
<1>2. CASE There(p) /\ local[p].k = "strm"
  BY <1>2, DecideStrmIs DEF Decide
<1>3. CASE There(p) /\ local[p].k # "strm"
  <2>1. local[p].k = "file" /\ p \in Name
    BY <1>3 DEF Base, LocalOK, Typed, TypeOK, Strm, File, Nothing, There
  <2>2. CASE task.toStrm /\ p \in VideoPath
    BY <1>3, <2>1, <2>2, DecideVideoIs DEF Decide
  <2>3. CASE ~(task.toStrm /\ p \in VideoPath)
    BY <1>3, <2>1, <2>3, DecidePlainIs DEF Decide
  <2> QED
    BY <2>2, <2>3
<1> QED
  BY <1>1, <1>2, <1>3

LEMMA PlanLocalIs ==
    ASSUME Base, NEW o \in PlanLocal
    PROVE  o \in Operation /\ (Clears(o) \/ Sends(o) \/ Adopts(o))
  BY DecideIs DEF PlanLocal

LEMMA SavePathIs ==
    ASSUME Base, NEW f \in Fid, node[f].place # "none"
    PROVE  SavePath(f) \in Path /\ Lands(SavePath(f), f)
  BY MirrorBothAssumption, Names DEF Base, NodeOK, SavePath, Lands, Name

LEMMA PlanCloudIs ==
    ASSUME Base, NEW o \in PlanCloud
    PROVE  o \in Operation /\ (Prunes(o) \/ Fetches(o))
<1>1. PICK k \in {"drop", "download"}, f \in Present :
          o = Op(k, SavePath(f), f) /\ (k = "drop" => Stale(f)) /\ (k = "download" => Missing(f))
  BY DEF PlanCloud
<1>2. f \in Fid /\ SavePath(f) \in Path
  BY SavePathIs DEF Present
<1>3. o \in Operation /\ o.fid = f
  BY <1>1, <1>2, OpIs DEF Kind
<1> QED
  BY <1>1, <1>3 DEF Prunes, Fetches

(* A plan is one of operations that are in order.                          *)
LEMMA PlansAreOK ==
    ASSUME Base
    PROVE  /\ PlanLocal \cup PlanCloud \subseteq Operation
           /\ \A o \in PlanLocal \cup PlanCloud : OpOK(o)
<1>1. ASSUME NEW o \in Operation, Clears(o) PROVE OpOK(o)
  <2>1. index[o.path].fid \in Fid /\ o.path \in Path /\ node[index[o.path].fid].place # "none"
    BY <1>1 DEF Clears, Base, RecordOK, Operation
  <2>2. o.fid = index[o.path].fid /\ ~o.video /\ o.kind \in {"retire", "drop"}
    BY <1>1, <2>1, OpIs DEF Clears, ClearOp, Kind
  <2> QED
    BY <2>1, <2>2 DEF OpOK
<1>2. ASSUME NEW o \in Operation, Sends(o) PROVE OpOK(o)
  BY <1>2 DEF Sends, OpOK
<1>3. ASSUME NEW o \in Operation, Adopts(o) PROVE OpOK(o)
  <2>1. o.path \in StrmPath /\ o.path \in Path /\ local[o.path].x \in Fid /\ Lands(o.path, local[o.path].x)
    BY <1>3, Names DEF Adopts, Base, LocalOK, Typed, TypeOK, Strm, File, Nothing
  <2>2. o.fid = local[o.path].x /\ ~o.video /\ o.kind = "adopt"
    BY <1>3, <2>1, OpIs DEF Adopts, Kind
  <2> QED
    BY <2>1, <2>2 DEF OpOK, Lands
<1>4. ASSUME NEW o \in Operation, Prunes(o) \/ Fetches(o) PROVE OpOK(o)
  <2>1. o.fid \in Fid /\ node[o.fid].place # "none"
    BY <1>4 DEF Prunes, Fetches, Present
  <2>2. ~o.video /\ o.kind \in {"drop", "download"} /\ o.path = SavePath(o.fid)
    BY <1>4, <2>1, SavePathIs, OpIs DEF Prunes, Fetches, Kind
  <2> QED
    BY <2>1, <2>2, SavePathIs DEF OpOK
<1> QED
  BY <1>1, <1>2, <1>3, <1>4, PlanLocalIs, PlanCloudIs

-----------------------------------------------------------------------------
(* The steps keep names and types.                                         *)
LEMMA SameNodes ==
    ASSUME Base, task' = task, node' = node
    PROVE  KeepsNames /\ node' \in [Fid -> Node] /\ \A f \in Fid : NodeOK(f)'
  BY DEF Base, Typed, KeepsNames, NodeOK

LEMMA MovedKeeps ==
    ASSUME Base, task' = task, NEW f \in Fid, NEW place \in {"root", "temp", "gone"}, node' = Moved(f, place)
    PROVE  /\ KeepsNames /\ node' \in [Fid -> Node] /\ \A g \in Fid : NodeOK(g)'
           /\ \A g \in Fid : g # f => node'[g] = node[g]
           /\ node'[f].place = node[f].place \/ node'[f].place = place
           /\ node[f].place = "root" => node'[f].place = place
           /\ \A g \in Fid : node'[g].name = node[g].name /\ node'[g].c = node[g].c
<1>1. CASE node[f].place \in {"root", "temp"}
  <2>1. node' = [node EXCEPT ![f].place = place]
    BY <1>1 DEF Moved
  <2>2. node \in [Fid -> Node]
    BY DEF Base, Typed
  <2>3. node' \in [Fid -> Node]
    BY <2>1, <2>2 DEF Node
  <2>4. \A g \in Fid : node'[g].name = node[g].name /\ node'[g].c = node[g].c
                       /\ (g # f => node'[g] = node[g]) /\ node'[f].place = place
    BY <2>1, <2>2 DEF Node
  <2> QED
    BY <1>1, <2>3, <2>4 DEF Base, KeepsNames, NodeOK
<1>2. CASE node[f].place \notin {"root", "temp"}
  <2>1. node' = node
    BY <1>2 DEF Moved
  <2> QED
    BY <1>2, <2>1, SameNodes
<1> QED
  BY <1>1, <1>2

LEMMA StoredKeeps ==
    ASSUME Base, task' = task, path \in Name, There(path), NEW f \in Fid, Stored(f)
    PROVE  /\ KeepsNames /\ node' \in [Fid -> Node] /\ \A g \in Fid : NodeOK(g)'
           /\ \A g \in Fid : g # f => node'[g] = node[g]
           /\ node'[f] = [name |-> path, c |-> local[path].x, place |-> "root"]
           /\ node[f].place = "none" \/ node'[f] = node[f]
<1>1. local[path].x \in Content \cup {cut} /\ none \notin Content \cup {cut}
  BY FileThere, MirrorBothAssumption
<1> DEFINE new == [name |-> path, c |-> local[path].x, place |-> "root"]
<1>2. new \in Node /\ new.name = path /\ new.c = local[path].x /\ new.place = "root"
  BY <1>1 DEF Node
<1>3. node \in [Fid -> Node] /\ node' = [node EXCEPT ![f] = new]
  BY DEF Base, Typed, Stored
<1>4. node[f].place = "none" \/ node[f] = new
  BY DEF Stored, Fresh, Twins
<1> HIDE DEF new
<1>5. node' \in [Fid -> Node] /\ node'[f] = new /\ \A g \in Fid : g # f => node'[g] = node[g]
  BY <1>2, <1>3
<1>6. KeepsNames
  BY <1>2, <1>4, <1>5 DEF KeepsNames
<1>7. \A g \in Fid : NodeOK(g)'
  BY <1>1, <1>2, <1>5 DEF Base, NodeOK
<1> QED
  BY <1>4, <1>5, <1>6, <1>7 DEF new

(* What is left when only the run and the nodes go on.                     *)
LEMMA TreesStay ==
    ASSUME Base, KeepsNames, local' = local, index' = index
    PROVE  TypeOK' /\ \A p \in Path : LocalOK(p)' /\ RecordOK(p)'
<1>1. TypeOK'
  BY DEF Base, Typed, TypeOK, KeepsNames
<1> QED
  BY <1>1, LocalStays, RecordStays

LEMMA InitBase == Init => Base
<1> SUFFICES ASSUME Init PROVE Base
  OBVIOUS
<1>1. job = Idle /\ job.ops = {} /\ job.op = NoOp /\ job.at = "idle" /\ job.fid = none /\ job \in Job
  BY DEF Init, Idle, Job, Place
<1>2. TypeOK
  BY DEF Init, TypeOK, Nothing, NoRecord
<1>3. Typed
  BY <1>1, <1>2 DEF Init, Typed, Node, NoNode
<1>4. \A f \in Fid : NodeOK(f)
  BY DEF Init, NodeOK, NoNode
<1>5. \A p \in Path : LocalOK(p) /\ RecordOK(p)
  BY DEF Init, LocalOK, RecordOK, Nothing, NoRecord, Has
<1>6. Stage
  BY <1>1, NoOpIsNone DEF Stage, Kind
<1> QED
  BY <1>1, <1>3, <1>4, <1>5, <1>6 DEF Base, Pending

LEMMA RunBase ==
    ASSUME Base, NEW scope \in {"up", "down"}, NEW ops \in SUBSET Operation, Run(scope, ops),
           \A o \in ops : OpOK(o)
    PROVE  Base'
<1>1. KeepsNames /\ task' = task /\ local' = local /\ node' = node /\ index' = index /\ ready' = ready
  BY DEF Run, KeepsNames
<1>2. CASE job' = job
  BY <1>1, <1>2 DEF Run, Base, Typed, TypeOK, NodeOK, LocalOK, RecordOK, Lands, SavePath, Has, Pending,
                    OpOK, Stage, RecordKey
<1>3. CASE job' = [Idle EXCEPT !.scope = scope, !.at = "next", !.ops = ops, !.calm = TRUE]
  <2>1. job'.at = "next" /\ job'.op = NoOp /\ job'.ops = ops /\ job' \in Job
    BY <1>3 DEF Idle, Job, Place
  <2>2. \A o \in Pending' : o # NoOp => OpOK(o)'
    BY <2>1, <1>1, OpStays DEF Pending
  <2>3. Stage'
    BY <2>1, <1>1, NoOpIsNone DEF Stage, Kind, Run
  <2>4. Typed'
    BY <2>1, <1>1, TreesStay, SameNodes DEF Typed, Run, Base
  <2> QED
    BY <2>2, <2>3, <2>4, <1>1, TreesStay, SameNodes DEF Base
<1> QED
  BY <1>2, <1>3 DEF Run

LEMMA NextOpBase == ASSUME Base, NextOp PROVE Base'
<1>1. KeepsNames /\ task' = task /\ local' = local /\ node' = node /\ index' = index /\ ready' = ready
      /\ written' = written /\ deleted' = deleted
  BY DEF NextOp, KeepsNames, history
<1>2. PICK o \in Soonest(job.ops) : job' = [job EXCEPT !.at = o.kind, !.op = o, !.ops = @ \ {o}]
  BY DEF NextOp
<1>3. job \in Job /\ o \in job.ops /\ o \in Operation /\ o # NoOp
  BY NoOpIsNone DEF Soonest, Base, Typed, Job
<1>4. job'.at = o.kind /\ job'.op = o /\ job'.ops = job.ops \ {o} /\ job' \in Job
  BY <1>2, <1>3 DEF Job, Place, Operation
<1>5. \A q \in Pending' : q # NoOp => OpOK(q)'
  BY <1>3, <1>4, <1>1, OpsStay DEF Pending
<1>6. o.kind = "upload" => \A q \in job.ops : q.kind # "drop"
  BY DEF Soonest, phase
<1>7. Stage'
  BY <1>1, <1>3, <1>4, <1>6 DEF Stage, Kind, Operation, Base, NextOp
<1>8. Typed'
  BY <1>4, <1>1, TreesStay, SameNodes DEF Typed, Base
<1> QED
  BY <1>5, <1>7, <1>8, <1>1, TreesStay, SameNodes DEF Base

LEMMA BuiltIs ==
    ASSUME Base, NEW kept \in SUBSET Present, NEW p \in Path
    PROVE  \/ BuildIndex(kept)[p] = index[p] /\ \A f \in kept : UpName(f) # p
           \/ \E f \in kept : UpName(f) = p /\ BuildIndex(kept)[p] = BuiltRecord(f)
<1>1. CASE \E f \in kept : UpName(f) = p
  <2>1. BuildIndex(kept)[p] = BuiltRecord(CHOOSE f \in kept : UpName(f) = p)
    BY <1>1 DEF BuildIndex
  <2>2. PICK f \in kept : UpName(f) = p /\ f = CHOOSE g \in kept : UpName(g) = p
    BY <1>1
  <2> QED
    BY <2>1, <2>2
<1>2. CASE ~\E f \in kept : UpName(f) = p
  BY <1>2 DEF BuildIndex
<1> QED
  BY <1>1, <1>2

LEMMA InitTaskBase == ASSUME Base, InitTask PROVE Base'
<1>1. task' = task /\ local' = local /\ node' = node /\ job' = job /\ written' = written /\ deleted' = deleted
  BY DEF InitTask
<1>2. KeepsNames /\ node' \in [Fid -> Node] /\ \A f \in Fid : NodeOK(f)'
  BY <1>1, SameNodes
<1>3. ready' \in BOOLEAN
  BY DEF InitTask
<1>4. \A p \in Path : LocalOK(p)'
  BY <1>1, <1>2, LocalStays
<1>5. \A o \in Pending' : o # NoOp => OpOK(o)'
  BY <1>1, <1>2, OpsStay DEF Pending
<1>6. Stage'
  BY <1>1 DEF Base, Stage, RecordKey, InitTask
<1>7. index' \in [Path -> Record] /\ \A p \in Path : RecordOK(p)'
  <2>1. CASE index' = index
    BY <2>1, <1>2, RecordStays DEF Base, Typed, TypeOK, Record
  <2>2. CASE \E kept \in SUBSET Present : index' = BuildIndex(kept)
    <3>1. PICK kept \in SUBSET Present : index' = BuildIndex(kept)
      BY <2>2
    <3>2. ASSUME NEW p \in Path, NEW f \in kept, UpName(f) = p, index'[p] = BuiltRecord(f)
          PROVE  index'[p] \in Record /\ RecordOK(p)'
      <4>1. f \in Fid /\ node[f].place = "root" /\ node[f].name \in Name /\ node[f].c \in Content \cup {cut}
        BY DEF Present, Base, NodeOK, Typed, Node
      <4>2. /\ index'[p] = [fid |-> f, kind |-> IF node[f].name \in VideoPath THEN "strm" ELSE "file",
                             size |-> SizeOf[node[f].c]]
            /\ SizeOf[node[f].c] \in Nat
        BY <3>2, <4>1, MirrorBothAssumption DEF BuiltRecord
      <4>3. index'[p] \in Record /\ index'[p].fid = f /\ index'[p].kind # "none" /\ f # none
        BY <4>1, <4>2, MirrorBothAssumption DEF Record
      <4>4. index'[p].kind = "file" => node[f].name = p /\ p \in Name
        BY <3>2, <4>1, <4>2 DEF UpName, UpKey
      <4> QED
        BY <4>1, <4>3, <4>4, <1>1 DEF RecordOK
    <3>3. \A p \in Path : index'[p] \in Record /\ RecordOK(p)'
      BY <3>1, <3>2, <1>2, BuiltIs, RecordStays DEF Base, Typed, TypeOK, Record
    <3>4. DOMAIN index' = Path /\ index' = [p \in Path |-> index'[p]]
      BY <3>1 DEF BuildIndex
    <3> QED
      BY <3>3, <3>4
  <2> QED
    BY <2>1, <2>2 DEF InitTask
<1>8. Typed'
  BY <1>1, <1>2, <1>3, <1>7 DEF Base, Typed, TypeOK, Record
<1> QED
  BY <1>2, <1>4, <1>5, <1>6, <1>7, <1>8 DEF Base

(* Facts of a run that is in an operation.                                 *)
LEMMA InOp ==
    ASSUME Base, job.at \notin {"idle", "next"}
    PROVE  /\ job.op \in Operation /\ job.op # NoOp /\ OpOK(job.op) /\ path \in Path
           /\ job \in Job /\ RecordKey \in Path
<1>1. job.op \in Operation /\ job.op # NoOp /\ job \in Job
  BY NoOpIsNone DEF Base, Typed, Job, Stage
<1>2. OpOK(job.op)
  BY <1>1 DEF Base, Pending
<1> QED
  BY <1>1, <1>2, Names DEF Operation, RecordKey, OpOK, path

LEMMA ClearNodeBase == ASSUME Base, ClearNode PROVE Base'
<1>1. task' = task /\ local' = local /\ index' = index /\ ready' = ready /\ written' = written /\ deleted' = deleted
      /\ job' = [job EXCEPT !.at = "clear"] /\ job.at \in {"retire", "drop"} /\ job.op.kind = job.at
  BY DEF ClearNode, Same, Goto, Base, Stage, Kind
<1>2. job.op \in Operation /\ OpOK(job.op) /\ job \in Job /\ job.op.fid \in Fid
  BY <1>1, InOp DEF OpOK
<1>3. PICK place \in {"temp", "gone"} : node' = Moved(job.op.fid, place)
  BY DEF ClearNode
<1>4. /\ KeepsNames /\ node' \in [Fid -> Node] /\ (\A g \in Fid : NodeOK(g)')
      /\ node'[job.op.fid].place # "root"
  <2> DEFINE f == job.op.fid
  <2> HIDE DEF f
  <2>1. f \in Fid /\ node' = Moved(f, place)
    BY <1>2, <1>3 DEF f
  <2>2. (node'[f].place = node[f].place \/ node'[f].place = place)
        /\ (node[f].place = "root" => node'[f].place = place)
    BY <2>1, <1>1, <1>3, MovedKeeps
  <2> QED
    BY <2>1, <2>2, <1>1, <1>3, MovedKeeps DEF f
<1>5. job' \in Job /\ job'.ops = job.ops /\ job'.op = job.op /\ job'.at = "clear"
  BY <1>1, <1>2 DEF Job, Place
<1>6. Stage'
  BY <1>1, <1>2, <1>4, <1>5, NoOpIsNone DEF Base, Stage, Kind
<1>7. Typed'
  BY <1>1, <1>4, <1>5, TreesStay DEF Base, Typed
<1> QED
  BY <1>1, <1>4, <1>5, <1>6, <1>7, TreesStay, StageKeeps DEF Base

LEMMA ClearTreeBase == ASSUME Base, ClearTree PROVE Base'
<1>1. task' = task /\ local' = local /\ node' = node /\ ready' = ready /\ written' = written /\ deleted' = deleted
      /\ index' = [index EXCEPT ![path] = NoRecord] /\ job.at = "clear" /\ Ended(job.calm)
  BY DEF ClearTree, Same
<1>2. KeepsNames /\ node' \in [Fid -> Node] /\ \A f \in Fid : NodeOK(f)'
  BY <1>1, SameNodes
<1>3. path \in Path /\ job.calm \in BOOLEAN
  BY <1>1, InOp DEF Job
<1>4. index' \in [Path -> Record] /\ index'[path] = NoRecord
      /\ \A p \in Path : p # path => index'[p] = index[p]
  BY <1>1, <1>3 DEF Base, Typed, TypeOK, Record, NoRecord
<1>5. \A p \in Path : RecordOK(p)'
  <2>1. ASSUME NEW p \in Path, p # path PROVE RecordOK(p)'
    BY <2>1, <1>2, <1>4, RecordStays
  <2>2. ASSUME NEW p \in Path, p = path PROVE RecordOK(p)'
    BY <2>2, <1>4 DEF RecordOK, Has, NoRecord
  <2> QED
    BY <2>1, <2>2
<1>6. job' \in Job /\ (\A o \in Pending' : o # NoOp => OpOK(o)') /\ Stage'
  BY <1>1, <1>2, <1>3, EndedKeeps
<1>7. \A p \in Path : LocalOK(p)'
  BY <1>1, <1>2, LocalStays
<1>8. Typed'
  BY <1>1, <1>2, <1>4, <1>6 DEF Base, Typed, TypeOK, Record
<1> QED
  BY <1>2, <1>5, <1>6, <1>7, <1>8 DEF Base

LEMMA UploadBase == ASSUME Base, Upload PROVE Base'
<1>1. task' = task /\ local' = local /\ index' = index /\ ready' = ready /\ written' = written /\ deleted' = deleted
      /\ job.at = "upload" /\ job.op.kind = "upload"
  BY DEF Upload, Same, Base, Stage, Kind
<1>2. path \in Name /\ job \in Job /\ job.op \in Operation /\ OpOK(job.op) /\ job.calm \in BOOLEAN
  BY <1>1, InOp DEF OpOK, Job, path
<1>3. CASE ~There(path)
  <2>1. node' = node /\ Ended(job.calm)
    BY <1>3 DEF Upload
  <2>2. KeepsNames /\ node' \in [Fid -> Node] /\ \A f \in Fid : NodeOK(f)'
    BY <1>1, <2>1, SameNodes
  <2>3. job' \in Job /\ (\A o \in Pending' : o # NoOp => OpOK(o)') /\ Stage'
    BY <1>1, <1>2, <2>1, <2>2, EndedKeeps
  <2>4. Typed'
    BY <1>1, <2>2, <2>3, TreesStay DEF Base, Typed
  <2> QED
    BY <1>1, <2>2, <2>3, <2>4, TreesStay DEF Base
<1>4. CASE There(path)
  <2>1. PICK f \in Fid, calm \in BOOLEAN, at \in {"put", "retireOld", "strm"} :
            /\ Stored(f) /\ job' = [job EXCEPT !.fid = f, !.calm = calm, !.at = at]
            /\ at = "put" <=> ~job.op.video
            /\ at = "retireOld" => job.op.fid \notin {none, f}
    <3>1. PICK f \in Fid :
            /\ Stored(f)
            /\ job' = [job EXCEPT !.fid = f,
                         !.calm = @ /\ (Twins # {} => f \in Twins),
                         !.at = IF ~job.op.video THEN "put"
                                ELSE IF job.op.fid \notin {none, f} THEN "retireOld" ELSE "strm"]
      BY <1>4 DEF Upload
    <3>2. (job.calm /\ (Twins # {} => f \in Twins)) \in BOOLEAN
      OBVIOUS
    <3> QED
      BY <3>1, <3>2
  <2>2. /\ KeepsNames /\ node' \in [Fid -> Node] /\ (\A g \in Fid : NodeOK(g)')
        /\ node'[f] = [name |-> path, c |-> local[path].x, place |-> "root"]
    BY <1>1, <1>2, <1>4, <2>1, StoredKeeps
  <2>3. job' \in Job /\ job'.ops = job.ops /\ job'.op = job.op /\ job'.fid = f /\ job'.at = at
    BY <1>2, <2>1 DEF Job, Place
  <2>4. node'[f].place = "root" /\ node'[f].name = job'.op.path
    BY <2>2, <2>3 DEF path
  <2>5. RecordKey' \in StrmPath \/ at = "put"
    BY <1>1, <1>2, <2>1, <2>3, Names DEF RecordKey, OpOK, path
  <2>6. Stage'
    BY <1>1, <1>2, <2>1, <2>3, <2>4, <2>5, NoOpIsNone DEF Base, Stage, Kind, path, Operation
  <2>7. Typed'
    BY <1>1, <2>2, <2>3, TreesStay DEF Base, Typed
  <2> QED
    BY <1>1, <2>2, <2>3, <2>6, <2>7, TreesStay, StageKeeps DEF Base
<1> QED
  BY <1>3, <1>4

LEMMA RetireOldBase == ASSUME Base, RetireOld PROVE Base'
<1>1. task' = task /\ local' = local /\ index' = index /\ ready' = ready /\ written' = written /\ deleted' = deleted
      /\ job.at = "retireOld" /\ job' = [job EXCEPT !.at = "strm"]
  BY DEF RetireOld, Same, Goto
<1>2. /\ job.op \in Operation /\ OpOK(job.op) /\ job \in Job /\ job.op.fid \in Fid \ {job.fid} /\ job.op.video
      /\ job.fid \in Fid /\ job.op.kind = "upload"
  BY <1>1, InOp DEF Base, Stage, OpOK
<1> DEFINE f == job.op.fid
<1>3. f \in Fid /\ f # job.fid /\ node' = Moved(f, "temp")
  BY <1>2 DEF RetireOld
<1> HIDE DEF f
<1>4. KeepsNames /\ node' \in [Fid -> Node] /\ (\A g \in Fid : NodeOK(g)') /\ node'[job.fid] = node[job.fid]
  BY <1>1, <1>2, <1>3, MovedKeeps
<1>5. job' \in Job /\ job'.ops = job.ops /\ job'.op = job.op /\ job'.at = "strm" /\ job'.fid = job.fid
  BY <1>1, <1>2 DEF Job, Place
<1>6. RecordKey' \in StrmPath
  BY <1>1, <1>2, <1>5, Names DEF RecordKey, OpOK, path
<1>7. Stage'
  BY <1>1, <1>2, <1>4, <1>5, <1>6, NoOpIsNone DEF Base, Stage, Kind, path
<1>8. Typed'
  BY <1>1, <1>4, <1>5, TreesStay DEF Base, Typed
<1> QED
  BY <1>1, <1>4, <1>5, <1>7, <1>8, TreesStay, StageKeeps DEF Base

(* A change of one path of the local tree.                                 *)
LEMMA LocalChanges ==
    ASSUME Base, KeepsNames, NEW p \in Path,
           NEW new \in {Nothing} \cup {File(c) : c \in Content \cup {cut}} \cup {Strm(f) : f \in Fid},
           local' = [local EXCEPT ![p] = new], index' = index,
           new.k = "file" => p \in Name,
           new.k = "strm" => p \in StrmPath /\ Lands(p, new.x)
    PROVE  TypeOK' /\ \A q \in Path : LocalOK(q)' /\ RecordOK(q)'
<1>1. local'[p] = new /\ \A q \in Path : q # p => local'[q] = local[q]
  BY DEF Base, Typed, TypeOK
<1>2. new.k = "strm" => new.x \in Fid
  BY DEF Strm, File, Nothing
<1>3. LocalOK(p)'
  BY <1>1, <1>2, LandsStays DEF LocalOK
<1>4. TypeOK'
  BY DEF Base, Typed, TypeOK, KeepsNames
<1> QED
  BY <1>1, <1>3, <1>4, LocalStays, RecordStays

LEMMA WriteStrmBase == ASSUME Base, Forward, WriteStrm PROVE Base'
<1>1. task' = task /\ node' = node /\ index' = index /\ ready' = ready /\ written' = written /\ deleted' = deleted
      /\ job.at = "strm" /\ local' = [local EXCEPT ![RecordKey] = Strm(job.fid)]
  BY DEF WriteStrm, Same
<1>2. /\ job.op \in Operation /\ OpOK(job.op) /\ job \in Job /\ job.fid \in Fid /\ RecordKey \in StrmPath
      /\ job.op.kind \in {"upload", "adopt", "download"} /\ RecordKey \in Path
  BY <1>1, InOp DEF Base, Stage
<1>3. PICK at \in {"remove", "put"} : job' = [job EXCEPT !.at = at] /\ (at = "remove" <=> job.op.kind = "upload")
  BY DEF WriteStrm, Goto
<1>4. KeepsNames /\ node' \in [Fid -> Node] /\ \A f \in Fid : NodeOK(f)'
  BY <1>1, SameNodes
<1>5. job' \in Job /\ job'.ops = job.ops /\ job'.op = job.op /\ job'.at = at /\ job'.fid = job.fid
  BY <1>2, <1>3 DEF Job, Place
<1>6. job.op.kind = "upload" => job.op.video /\ RecordKey = StrmOf[path]
  BY <1>2 DEF RecordKey, OpOK, Name, path
<1>7. Lands(RecordKey, job.fid)
  <2>1. CASE job.op.kind = "upload"
    <3>1. task.toStrmDl /\ path \in VideoPath
      BY <1>2, <1>6, <2>1 DEF Forward, Base, Typed, TypeOK, OpOK, path
    <3>2. node[job.fid].name = path /\ node[job.fid].place = "root"
      BY <1>1, <2>1 DEF Base, Stage
    <3> QED
      BY <3>1, <3>2, <1>6, <2>1 DEF Lands, SavePath
  <2>2. CASE job.op.kind # "upload"
    BY <1>1, <1>2, <2>2 DEF Base, Stage, OpOK, RecordKey, path
  <2> QED
    BY <2>1, <2>2
<1> DEFINE new == Strm(job.fid)
<1>8. /\ new \in {Nothing} \cup {File(c) : c \in Content \cup {cut}} \cup {Strm(f) : f \in Fid}
      /\ new.k = "strm" /\ new.x = job.fid
  BY <1>2 DEF Strm
<1> HIDE DEF new
<1>9. TypeOK' /\ \A q \in Path : LocalOK(q)' /\ RecordOK(q)'
  BY <1>1, <1>2, <1>4, <1>7, <1>8, LocalChanges DEF new
<1>10. Stage'
  BY <1>1, <1>2, <1>3, <1>4, <1>5, <1>6, NoOpIsNone DEF Base, Stage, Kind, path
<1>11. Typed'
  BY <1>1, <1>4, <1>5, <1>9 DEF Base, Typed
<1> QED
  BY <1>4, <1>5, <1>9, <1>10, <1>11, StageKeeps DEF Base

(* The original is removed or stays.                                       *)
LEMMA RemovalIs ==
    ASSUME Base, RemoveOriginal
    PROVE  /\ job.at = "remove"
           /\ UNCHANGED <<task, node, index, ready, edits, written, deleted, touched, torn, raced,
                          rivals, built>>
           /\ local' = local \/ local' = [local EXCEPT ![path] = Nothing]
           /\ \E calm \in BOOLEAN : job' = [job EXCEPT !.at = "put", !.calm = calm]
<1>1. job \in Job /\ job.calm \in BOOLEAN
  BY DEF Base, Typed, Job
<1>2. [job EXCEPT !.at = "put"] = [job EXCEPT !.at = "put", !.calm = job.calm]
  BY <1>1 DEF Job
<1>3. \/ /\ local' = [local EXCEPT ![path] = Nothing] /\ job' = [job EXCEPT !.at = "put"]
      \/ /\ local' = local /\ job' = [job EXCEPT !.at = "put", !.calm = FALSE]
  BY DEF RemoveOriginal, Goto
<1>4. \E calm \in BOOLEAN : job' = [job EXCEPT !.at = "put", !.calm = calm]
  BY <1>1, <1>2, <1>3
<1> QED
  BY <1>3, <1>4 DEF RemoveOriginal

LEMMA RemoveOriginalBase == ASSUME Base, RemoveOriginal PROVE Base'
<1>0. PICK calm \in BOOLEAN : job' = [job EXCEPT !.at = "put", !.calm = calm]
  BY RemovalIs
<1>1. task' = task /\ node' = node /\ index' = index /\ ready' = ready /\ written' = written /\ deleted' = deleted
      /\ job.at = "remove" /\ (local' = local \/ local' = [local EXCEPT ![path] = Nothing])
  BY RemovalIs
<1>2. job.op \in Operation /\ OpOK(job.op) /\ job \in Job /\ path \in Path /\ job.op.video /\ job.op.kind = "upload"
  BY <1>1, InOp DEF Base, Stage, OpOK
<1>4. KeepsNames /\ node' \in [Fid -> Node] /\ \A f \in Fid : NodeOK(f)'
  BY <1>1, SameNodes
<1>5. job' \in Job /\ job'.ops = job.ops /\ job'.op = job.op /\ job'.at = "put" /\ job'.fid = job.fid
  BY <1>0, <1>1, <1>2 DEF Job, Place
<1>9. TypeOK' /\ \A q \in Path : LocalOK(q)' /\ RecordOK(q)'
  <2>1. Nothing.k = "none"
    BY DEF Nothing
  <2>2. CASE local' = local
    <3>1. TypeOK'
      BY <1>1, <2>2 DEF Base, Typed, TypeOK
    <3>2. \A q \in Path : LocalOK(q)' /\ RecordOK(q)'
      BY <1>1, <1>4, <2>2, LocalStays, RecordStays
    <3> QED
      BY <3>1, <3>2
  <2>3. CASE local' = [local EXCEPT ![path] = Nothing]
    BY <1>1, <1>2, <1>4, <2>1, <2>3, LocalChanges
  <2> QED
    BY <1>1, <2>2, <2>3
<1>10. Stage'
  BY <1>1, <1>2, <1>5, NoOpIsNone DEF Base, Stage, Kind, path
<1>11. Typed'
  BY <1>1, <1>4, <1>5, <1>9 DEF Base, Typed
<1> QED
  BY <1>4, <1>5, <1>9, <1>10, <1>11, StageKeeps DEF Base

LEMMA AdoptBase == ASSUME Base, Adopt PROVE Base'
<1>1. task' = task /\ local' = local /\ index' = index /\ ready' = ready /\ written' = written /\ deleted' = deleted
      /\ job.at = "adopt" /\ job' = [job EXCEPT !.at = "strm", !.fid = job.op.fid]
  BY DEF Adopt, Same
<1>2. /\ job.op \in Operation /\ OpOK(job.op) /\ job \in Job /\ job.op.kind = "adopt" /\ job.op.fid \in Fid
      /\ path \in StrmPath /\ ~job.op.video
  BY <1>1, InOp DEF Base, Stage, OpOK, Kind, path
<1> DEFINE f == job.op.fid
<1>3. f \in Fid /\ node' = Moved(f, "root")
  BY <1>2 DEF Adopt
<1> HIDE DEF f
<1>4. KeepsNames /\ node' \in [Fid -> Node] /\ (\A g \in Fid : NodeOK(g)')
  BY <1>1, <1>3, MovedKeeps
<1>5. job' \in Job /\ job'.ops = job.ops /\ job'.op = job.op /\ job'.at = "strm" /\ job'.fid = job.op.fid
  BY <1>1, <1>2 DEF Job, Place
<1>6. RecordKey' \in StrmPath
  BY <1>2, <1>5 DEF RecordKey, path
<1>7. Stage'
  BY <1>1, <1>2, <1>5, <1>6, NoOpIsNone DEF Base, Stage, Kind, path
<1>8. Typed'
  BY <1>1, <1>4, <1>5, TreesStay DEF Base, Typed
<1> QED
  BY <1>1, <1>4, <1>5, <1>7, <1>8, TreesStay, StageKeeps DEF Base

LEMMA DownloadBase == ASSUME Base, Download PROVE Base'
<1>1. task' = task /\ node' = node /\ index' = index /\ ready' = ready /\ written' = written /\ deleted' = deleted
      /\ job.at = "download"
  BY DEF Download, Same
<1>2. /\ job.op \in Operation /\ OpOK(job.op) /\ job \in Job /\ job.op.kind = "download" /\ job.op.fid \in Fid
      /\ path \in Path /\ ~job.op.video
  BY <1>1, InOp DEF Base, Stage, OpOK, Kind
<1>3. PICK at \in {"strm", "copy"} : /\ job' = [job EXCEPT !.at = at, !.fid = job.op.fid]
                                     /\ at = "strm" <=> path \in StrmPath
                                     /\ at = "strm" => local' = local
                                     /\ at = "copy" => local' = [local EXCEPT ![path] = File(cut)]
  BY DEF Download
<1>4. KeepsNames /\ node' \in [Fid -> Node] /\ (\A g \in Fid : NodeOK(g)')
  BY <1>1, SameNodes
<1>5. job' \in Job /\ job'.ops = job.ops /\ job'.op = job.op /\ job'.at = at /\ job'.fid = job.op.fid
  BY <1>3, <1>2 DEF Job, Place
<1>6. TypeOK' /\ \A q \in Path : LocalOK(q)' /\ RecordOK(q)'
  <2>1. CASE at = "strm"
    BY <2>1, <1>1, <1>3, <1>4, TreesStay
  <2>2. CASE at = "copy"
    <3>1. File(cut) \in {File(c) : c \in Content \cup {cut}} /\ File(cut).k = "file" /\ path \in Name
      BY <2>2, <1>2, <1>3 DEF File, Name
    <3> QED
      BY <3>1, <2>2, <1>1, <1>2, <1>3, <1>4, LocalChanges
  <2> QED
    BY <2>1, <2>2
<1>7. RecordKey' = path /\ path' = path /\ (at = "copy" => path \in Name)
  BY <1>2, <1>3, <1>5 DEF RecordKey, path, Name
<1>8. Stage'
  BY <1>1, <1>2, <1>3, <1>5, <1>7, NoOpIsNone DEF Base, Stage, Kind
<1>9. Typed'
  BY <1>1, <1>4, <1>5, <1>6 DEF Base, Typed
<1> QED
  BY <1>4, <1>5, <1>6, <1>8, <1>9, StageKeeps DEF Base

LEMMA CopyBase == ASSUME Base, Copy PROVE Base'
<1>1. task' = task /\ node' = node /\ index' = index /\ ready' = ready /\ written' = written /\ deleted' = deleted
      /\ job.at = "copy" /\ job' = [job EXCEPT !.at = "put"]
      /\ local' = [local EXCEPT ![path] = IF There(path) THEN File(node[job.fid].c) ELSE Nothing]
  BY DEF Copy, Same, Goto
<1>2. /\ job.op \in Operation /\ OpOK(job.op) /\ job \in Job /\ job.op.kind = "download"
      /\ path \in Path /\ path \in Name /\ ~job.op.video /\ job.fid \in Fid /\ job.fid = job.op.fid
  BY <1>1, InOp DEF Base, Stage, OpOK
<1>3. node[job.fid].c \in Content \cup {cut}
  BY <1>2 DEF OpOK, Lands, Base, NodeOK, Typed, Node
<1>4. KeepsNames /\ node' \in [Fid -> Node] /\ (\A g \in Fid : NodeOK(g)')
  BY <1>1, SameNodes
<1>5. job' \in Job /\ job'.ops = job.ops /\ job'.op = job.op /\ job'.at = "put" /\ job'.fid = job.fid
  BY <1>1, <1>2 DEF Job, Place
<1> DEFINE new == IF There(path) THEN File(node[job.fid].c) ELSE Nothing
<1>6. /\ new \in {Nothing} \cup {File(c) : c \in Content \cup {cut}} \cup {Strm(f) : f \in Fid}
      /\ new.k \in {"none", "file"}
  BY <1>3 DEF File, Nothing
<1> HIDE DEF new
<1>7. TypeOK' /\ \A q \in Path : LocalOK(q)' /\ RecordOK(q)'
  BY <1>1, <1>2, <1>4, <1>6, LocalChanges DEF new
<1>8. Stage'
  BY <1>1, <1>2, <1>5, NoOpIsNone DEF Base, Stage, Kind
<1>9. Typed'
  BY <1>1, <1>4, <1>5, <1>7 DEF Base, Typed
<1> QED
  BY <1>4, <1>5, <1>7, <1>8, <1>9, StageKeeps DEF Base

(* What is recorded belongs at the path it is recorded for.                *)
LEMMA PutIs ==
    ASSUME Base, job.at = "put"
    PROVE  /\ RecordKey \in Path /\ job.fid \in Fid /\ RecordSize \in Nat
           /\ node[job.fid].place # "none"
           /\ RecordKey \notin StrmPath => RecordKey \in Name /\ node[job.fid].name = RecordKey
<1>1. /\ job.op \in Operation /\ OpOK(job.op) /\ job \in Job /\ job.op.kind \in {"upload", "adopt", "download"}
      /\ path \in Path /\ RecordKey \in Path /\ job.fid \in Fid
      /\ job.op.kind = "upload" => node[job.fid].place = "root" /\ node[job.fid].name = path
      /\ job.op.kind # "upload" => job.fid = job.op.fid /\ Lands(path, job.fid) /\ ~job.op.video
  BY InOp DEF Base, Stage, OpOK, path
<1>2. node[job.fid].place # "none"
  BY <1>1 DEF Lands
<1>3. ASSUME RecordKey \notin StrmPath PROVE RecordKey \in Name /\ node[job.fid].name = RecordKey
  <2>1. RecordKey = path /\ ~(job.op.kind = "upload" /\ job.op.video)
    BY <1>1, <1>3, Names DEF RecordKey, OpOK, path
  <2> QED
    BY <1>1, <1>3, <2>1, Names DEF Name, Lands, SavePath
<1>4. RecordSize \in Nat
  <2>1. node[job.fid].c \in Content \cup {cut}
    BY <1>1, <1>2 DEF Base, NodeOK, Typed, Node
  <2>2. CASE RecordKey \in StrmPath
    BY <2>1, <2>2, <1>1, MirrorBothAssumption DEF RecordSize
  <2>3. CASE RecordKey \notin StrmPath /\ job.op.kind = "upload"
    BY <2>1, <2>3, MirrorBothAssumption DEF RecordSize
  <2>4. CASE RecordKey \notin StrmPath /\ job.op.kind # "upload"
    <3>1. There(path) => local[path].x \in Content \cup {cut}
      BY <1>1, <1>3, <2>4, FileThere DEF RecordKey
    <3> QED
      BY <2>4, <3>1, MirrorBothAssumption DEF RecordSize
  <2> QED
    BY <2>2, <2>3, <2>4
<1> QED
  BY <1>1, <1>2, <1>3, <1>4

LEMMA PutRecordBase == ASSUME Base, PutRecord PROVE Base'
<1>1. task' = task /\ node' = node /\ local' = local /\ ready' = ready /\ written' = written /\ deleted' = deleted
      /\ job.at = "put" /\ Ended(job.calm)
  BY DEF PutRecord, RecordAs, Same
<1> DEFINE new == [fid |-> job.fid, kind |-> IF RecordKey \in StrmPath THEN "strm" ELSE "file", size |-> RecordSize]
<1>2. index' = [index EXCEPT ![RecordKey] = new]
  BY DEF PutRecord, RecordAs
<1>3. /\ RecordKey \in Path /\ job.fid \in Fid /\ new \in Record /\ new.fid = job.fid
      /\ new.kind = (IF RecordKey \in StrmPath THEN "strm" ELSE "file") /\ job.calm \in BOOLEAN
  BY <1>1, PutIs, InOp DEF Record, Job
<1> HIDE DEF new
<1>4. KeepsNames /\ node' \in [Fid -> Node] /\ (\A g \in Fid : NodeOK(g)')
  BY <1>1, SameNodes
<1>5. index' \in [Path -> Record] /\ index'[RecordKey] = new /\ \A p \in Path : p # RecordKey => index'[p] = index[p]
  BY <1>2, <1>3 DEF Base, Typed, TypeOK, Record
<1>6. \A p \in Path : RecordOK(p)'
  <2>1. ASSUME NEW p \in Path, p # RecordKey PROVE RecordOK(p)'
    BY <2>1, <1>4, <1>5, RecordStays
  <2>2. ASSUME NEW p \in Path, p = RecordKey PROVE RecordOK(p)'
    BY <2>2, <1>1, <1>3, <1>5, PutIs DEF RecordOK
  <2> QED
    BY <2>1, <2>2
<1>7. job' \in Job /\ (\A o \in Pending' : o # NoOp => OpOK(o)') /\ Stage'
  BY <1>1, <1>3, <1>4, EndedKeeps
<1>8. \A p \in Path : LocalOK(p)'
  BY <1>1, <1>4, LocalStays
<1>9. Typed'
  BY <1>1, <1>4, <1>5, <1>7 DEF Base, Typed, TypeOK, Record
<1> QED
  BY <1>4, <1>6, <1>7, <1>8, <1>9 DEF Base

(* An operation that ends without a trace, or with one in the cloud only.  *)
LEMMA EndsBase ==
    ASSUME Base, Ended(FALSE), job.at # "idle", KeepsNames, node' \in [Fid -> Node], \A g \in Fid : NodeOK(g)',
           TypeOK' /\ \A p \in Path : LocalOK(p)' /\ RecordOK(p)',
           ready' = ready, written' = written, deleted' = deleted
    PROVE  Base'
<1>1. job' \in Job /\ (\A o \in Pending' : o # NoOp => OpOK(o)') /\ Stage'
  BY EndedKeeps
<1>2. Typed'
  BY <1>1 DEF Base, Typed
<1> QED
  BY <1>1, <1>2 DEF Base

LEMMA RefusedBase == ASSUME Base, Refused PROVE Base'
<1>1. KeepsNames /\ node' \in [Fid -> Node] /\ \A g \in Fid : NodeOK(g)'
  BY SameNodes DEF Refused, Same
<1>2. TypeOK' /\ \A p \in Path : LocalOK(p)' /\ RecordOK(p)'
  BY <1>1, TreesStay DEF Refused
<1> QED
  BY <1>1, <1>2, EndsBase DEF Refused, Same

LEMMA FailsBase == ASSUME Base, Fails PROVE Base'
<1>1. KeepsNames /\ node' \in [Fid -> Node] /\ \A g \in Fid : NodeOK(g)'
  BY SameNodes DEF Fails
<1>2. TypeOK' /\ \A p \in Path : LocalOK(p)' /\ RecordOK(p)'
  <2>1. CASE job.at = "copy"
    <3>1. local' = [local EXCEPT ![path] = Nothing] /\ index' = index /\ path \in Path /\ Nothing.k = "none"
      BY <2>1, InOp DEF Fails, Nothing
    <3> QED
      BY <3>1, <1>1, LocalChanges
  <2>2. CASE job.at # "copy"
    BY <2>2, <1>1, TreesStay DEF Fails
  <2> QED
    BY <2>1, <2>2
<1>3. job.at # "idle" /\ Ended(FALSE) /\ ready' = ready /\ written' = written /\ deleted' = deleted
  BY DEF Fails
<1> QED
  BY <1>1, <1>2, <1>3, EndsBase

LEMMA AnswerLostBase == ASSUME Base, AnswerLost PROVE Base'
<1>1. path \in Name /\ There(path) /\ task' = task /\ job.at # "idle" /\ Ended(FALSE)
      /\ local' = local /\ index' = index /\ ready' = ready /\ written' = written /\ deleted' = deleted
  BY InOp DEF AnswerLost, Base, Stage, OpOK, Kind, path
<1>2. PICK f \in Fid : Stored(f)
  BY DEF AnswerLost
<1>3. KeepsNames /\ node' \in [Fid -> Node] /\ \A g \in Fid : NodeOK(g)'
  BY <1>1, <1>2, StoredKeeps
<1>4. TypeOK' /\ \A p \in Path : LocalOK(p)' /\ RecordOK(p)'
  BY <1>1, <1>3, TreesStay
<1> QED
  BY <1>1, <1>3, <1>4, EndsBase

LEMMA CutOffBase == ASSUME Base, CutOff PROVE Base'
<1>1. task' = task /\ local' = local /\ node' = node /\ index' = index /\ job' = Idle /\ ready' \in BOOLEAN
      /\ written' = written /\ deleted' = deleted
  BY DEF CutOff
<1>2. KeepsNames /\ node' \in [Fid -> Node] /\ \A g \in Fid : NodeOK(g)'
  BY <1>1, SameNodes
<1>3. Idle \in Job /\ Idle.op = NoOp /\ Idle.ops = {} /\ Idle.at = "idle"
  BY DEF Job, Idle, Place
<1>4. Stage'
  BY <1>1, <1>3, NoOpIsNone DEF Stage, Kind
<1>5. Typed'
  BY <1>1, <1>2, <1>3, TreesStay DEF Base, Typed
<1> QED
  BY <1>1, <1>2, <1>3, <1>4, <1>5, TreesStay DEF Base, Pending

(* Somebody else does something: only the run's calm is disturbed.         *)
LEMMA DisturbedKeeps ==
    ASSUME Base, KeepsNames, Disturbed, ready' = ready,
           \A f \in Fid : node[f].place # "none" => node'[f].place = node[f].place
    PROVE  /\ job' \in Job /\ (\A o \in Pending' : o # NoOp => OpOK(o)') /\ Stage'
           /\ job'.ops = job.ops /\ job'.op = job.op /\ job'.at = job.at /\ job'.fid = job.fid
<1>1. job' \in Job /\ job'.ops = job.ops /\ job'.op = job.op /\ job'.at = job.at /\ job'.fid = job.fid
  BY DEF Disturbed, Base, Typed, Job
<1>2. \A o \in Pending' : o # NoOp => OpOK(o)'
  BY <1>1, StageKeeps
<1>3. path' = path /\ RecordKey' = RecordKey
  BY <1>1 DEF path, RecordKey
<1>4. ASSUME job.at = "clear" PROVE node'[job.op.fid].place # "root"
  <2> DEFINE f == job.op.fid
  <2>1. f \in Fid /\ OpOK(job.op)
    BY <1>4, InOp DEF OpOK, Base, Stage
  <2>2. node[f].place # "none"
    BY <1>4, <2>1 DEF OpOK, Base, Stage
  <2> QED
    BY <1>4, <2>1, <2>2 DEF Base, Stage, KeepsNames
<1>5. Stage'
  BY <1>1, <1>3, <1>4 DEF Base, Stage, KeepsNames
<1> QED
  BY <1>1, <1>2, <1>5

LEMMA AddInCloudBase ==
    ASSUME Base, NEW p \in Path, NEW c \in Comes[p], AddInCloud(p, c)
    PROVE  /\ Base' /\ KeepsNames
           /\ \E f \in Fresh : /\ node'[f] = [name |-> p, c |-> c, place |-> "root"]
                               /\ \A g \in Fid : g # f => node'[g] = node[g]
<1>1. task' = task /\ local' = local /\ index' = index /\ ready' = ready /\ written' = written
      /\ deleted' = deleted \ Family(p) /\ p \in Name /\ Disturbed
  BY DEF AddInCloud, Name
<1> DEFINE new == [name |-> p, c |-> c, place |-> "root"]
<1>2. PICK f \in Fresh : node' = [node EXCEPT ![f] = new]
  BY DEF AddInCloud
<1>3. c \in Content /\ c # none
  BY MirrorBothAssumption
<1>4. new \in Node /\ new.name = p /\ new.c = c /\ new.place = "root"
  BY <1>1, <1>3 DEF Node
<1> HIDE DEF new
<1>5. f \in Fid /\ node[f].place = "none" /\ node \in [Fid -> Node]
  BY DEF Fresh, Base, Typed
<1>6. node' \in [Fid -> Node] /\ node'[f] = new /\ \A g \in Fid : g # f => node'[g] = node[g]
  BY <1>2, <1>4, <1>5
<1>7. KeepsNames /\ (\A g \in Fid : NodeOK(g)')
      /\ \A g \in Fid : node[g].place # "none" => node'[g].place = node[g].place
  BY <1>1, <1>3, <1>4, <1>5, <1>6 DEF KeepsNames, NodeOK, Base
<1>8. job' \in Job /\ (\A o \in Pending' : o # NoOp => OpOK(o)') /\ Stage'
  BY <1>1, <1>7, DisturbedKeeps
<1>9. Typed'
  BY <1>1, <1>6, <1>7, <1>8, TreesStay DEF Base, Typed
<1> QED
  BY <1>1, <1>6, <1>7, <1>8, <1>9, TreesStay DEF Base, new

(* The user changes a path.                                                *)
LEMMA EditedKeeps ==
    ASSUME Base, NEW p \in Path, NEW what, Edited(p, what),
           what \in {Nothing} \cup {File(c) : c \in Content \cup {cut}} \cup {Strm(f) : f \in Fid},
           what.k = "file" => p \in Name, what.k # "strm",
           written' \in [Path -> Content \cup {none}], deleted' \subseteq Path
    PROVE  Base'
<1>1. KeepsNames /\ node' \in [Fid -> Node] /\ \A g \in Fid : NodeOK(g)'
  BY SameNodes DEF Edited
<1>2. TypeOK' /\ \A q \in Path : LocalOK(q)' /\ RecordOK(q)'
  BY <1>1, LocalChanges DEF Edited
<1>3. job' \in Job /\ (\A o \in Pending' : o # NoOp => OpOK(o)') /\ Stage'
  BY <1>1, DisturbedKeeps DEF Edited
<1>4. Typed'
  BY <1>1, <1>2, <1>3 DEF Edited, Base, Typed
<1> QED
  BY <1>1, <1>2, <1>3, <1>4 DEF Base

LEMMA WriteBase ==
    ASSUME Base, NEW p \in Path, NEW c \in Comes[p], Write(p, c)
    PROVE  Base'
<1>1. p \in Name /\ Edited(p, File(c)) /\ c \in Content
  BY MirrorBothAssumption DEF Write, Name
<1>2. written' \in [Path -> Content \cup {none}]
  BY <1>1 DEF Write, Base, Typed
<1>3. deleted' \subseteq Path
  BY DEF Write, Base, Typed
<1>4. File(c).k = "file" /\ File(c) \in {File(d) : d \in Content \cup {cut}}
  BY <1>1 DEF File
<1> QED
  BY <1>1, <1>2, <1>3, <1>4, EditedKeeps

LEMMA DeleteBase ==
    ASSUME Base, NEW p \in Path, Delete(p)
    PROVE  Base'
<1>1. Edited(p, Nothing) /\ Nothing.k = "none"
  BY DEF Delete, Nothing
<1>2. written' \in [Path -> Content \cup {none}]
  BY DEF Delete, Base, Typed
<1>3. deleted' \subseteq Path
  BY DEF Delete, Base, Typed
<1> QED
  BY <1>1, <1>2, <1>3, EditedKeeps

LEMMA RunUploadBase == ASSUME Base, RunUpload PROVE Base'
  BY RunBase, PlansAreOK DEF RunUpload

LEMMA RunDownloadBase == ASSUME Base, RunDownload PROVE Base'
  BY RunBase, PlansAreOK DEF RunDownload

LEMMA IdleBase == ASSUME Base, UNCHANGED vars PROVE Base'
  BY DEF vars, history, Base, Typed, TypeOK, NodeOK, LocalOK, RecordOK, Lands, SavePath, Has, Pending,
         OpOK, Stage, RecordKey, path

(* The steps of a run that is in an operation, and all the steps.          *)
LEMMA JobStepBase == ASSUME Base, Forward, JobStep PROVE Base'
  BY NextOpBase, ClearNodeBase, ClearTreeBase, UploadBase, RetireOldBase, WriteStrmBase, RemoveOriginalBase,
     AdoptBase, RefusedBase, DownloadBase, CopyBase, PutRecordBase DEF JobStep

LEMMA NextBase == ASSUME Base, Forward, [Next]_vars PROVE Base'
<1>1. CASE \E p \in Path : Delete(p) \/ \E c \in Comes[p] : AddInCloud(p, c) \/ Write(p, c)
  BY <1>1, DeleteBase, WriteBase, AddInCloudBase
<1> QED
  BY <1>1, InitTaskBase, RunUploadBase, RunDownloadBase, JobStepBase, FailsBase, AnswerLostBase, CutOffBase,
     IdleBase DEF Next

-----------------------------------------------------------------------------
(* A deleted path is recorded as the only one of its name, or there is     *)
(* none; no operation brings it back, and no video either.                 *)
Brings(o, p) ==
    /\ o.kind \in {"upload", "adopt", "download"}
    /\ o.path = p \/ (o.video /\ StrmOf[o.path] = p)
Gone(p) ==
    /\ ~There(p)
    /\ \A f \in Present : SavePath(f) = p => Has(p) /\ f = index[p].fid
    /\ \A o \in Pending : ~Brings(o, p)
    /\ \A o \in Pending : o.kind \in {"retire", "drop"} /\ o.path = p /\ Has(p) => o.fid = index[p].fid
    /\ \A v \in VideoPath : StrmOf[v] = p => ~There(v)
    /\ p \in StrmPath => task.toStrmDl
    /\ p \in VideoPath => ~task.toStrmDl
GoneOK == \A p \in deleted : Gone(p)

(* Nothing comes up at the path, no node of its name and no operation.     *)
LEMMA GoneStays ==
    ASSUME Base, KeepsNames, NEW p \in Path, Gone(p),
           There(p)' => There(p), index'[p] = index[p],
           \A f \in Fid : node'[f].place = "root" => node[f].place = "root" \/ SavePath(f)' # p,
           Pending' \subseteq Pending \cup {NoOp},
           \A v \in VideoPath : StrmOf[v] = p /\ There(v)' => There(v)
    PROVE  Gone(p)'
<1>1. ~There(p)' /\ (\A v \in VideoPath : StrmOf[v] = p => ~There(v)') /\ (Has(p)' <=> Has(p))
  BY DEF Gone, Has
<1>2. ASSUME NEW f \in Present', SavePath(f)' = p PROVE Has(p)' /\ f = index'[p].fid
  <2>1. f \in Fid /\ node'[f].place = "root"
    BY DEF Present
  <2>2. node[f].place = "root"
    BY <2>1, <1>2
  <2>3. SavePath(f) = p /\ f \in Present
    BY <1>2, <2>1, <2>2 DEF KeepsNames, SavePath, Present
  <2> QED
    BY <2>3, <1>1 DEF Gone
<1>3. \A o \in Pending' : ~Brings(o, p) /\
        (o.kind \in {"retire", "drop"} /\ o.path = p /\ Has(p)' => o.fid = index'[p].fid)
  <2>1. ~Brings(NoOp, p) /\ NoOp.kind = "none"
    BY NoOpIsNone DEF Brings
  <2> QED
    BY <2>1, <1>1 DEF Gone
<1> QED
  BY <1>1, <1>2, <1>3 DEF Gone, KeepsNames

(* An operation that ends leaves nothing new pending.                      *)
LEMMA EndedLeaves ==
    ASSUME Base, NEW calm \in BOOLEAN, Ended(calm)
    PROVE  Pending' \subseteq Pending \cup {NoOp}
<1>1. job' = Idle \/ job' = [job EXCEPT !.at = "next", !.op = NoOp, !.fid = none, !.calm = calm]
  BY DEF Ended
<1>2. job \in Job
  BY DEF Base, Typed
<1>3. CASE job' = Idle
  BY <1>3 DEF Idle, Pending
<1>4. CASE job' = [job EXCEPT !.at = "next", !.op = NoOp, !.fid = none, !.calm = calm]
  <2>1. job'.op = NoOp /\ job'.ops = job.ops
    BY <1>2, <1>4 DEF Job
  <2> QED
    BY <2>1 DEF Pending
<1> QED
  BY <1>1, <1>3, <1>4

LEMMA EndedGoesOn ==
    ASSUME Base, NEW calm, Ended(calm)
    PROVE  job'.op = NoOp /\ job'.at \in {"idle", "next"}
<1>1. CASE job' = Idle
  BY <1>1 DEF Idle
<1>2. CASE job' = [job EXCEPT !.at = "next", !.op = NoOp, !.fid = none, !.calm = calm]
  BY <1>2 DEF Base, Typed, Job
<1> QED
  BY <1>1, <1>2 DEF Ended

LEMMA GoneInit == Init => GoneOK
  BY DEF Init, GoneOK

LEMMA GoneInitTask == ASSUME Base, Forward, GoneOK, InitTask PROVE GoneOK'
<1> SUFFICES ASSUME NEW p \in deleted' PROVE Gone(p)'
  BY DEF GoneOK
<1>1. deleted' = deleted /\ p \in Path /\ Gone(p) /\ task' = task /\ local' = local /\ node' = node /\ job' = job
  BY DEF InitTask, GoneOK, Base, Typed
<1>2. KeepsNames
  BY <1>1, SameNodes
<1>3. index'[p] = index[p]
  <2>1. CASE index' = index
    BY <2>1
  <2>2. CASE ~Has(p) /\ \E kept \in SUBSET Present : index' = BuildIndex(kept)
    <3>1. PICK kept \in SUBSET Present : index' = BuildIndex(kept)
      BY <2>2
    <3>2. ASSUME NEW f \in kept, UpName(f) = p PROVE FALSE
      <4>1. f \in Fid /\ f \in Present /\ SavePath(f) # p
        BY <2>2, <1>1 DEF Gone, Present
      <4>2. task.toStrm => task.toStrmDl
        BY DEF Forward, Base, Typed, TypeOK
      <4>3. p \in VideoPath => ~task.toStrmDl
        BY <1>1 DEF Gone
      <4> QED
        BY <3>2, <4>1, <4>2, <4>3 DEF UpName, UpKey, SavePath
    <3> QED
      BY <3>1, <3>2, <1>1, BuiltIs
  <2> QED
    BY <1>1, <2>1, <2>2 DEF InitTask
<1> QED
  BY <1>1, <1>2, <1>3, GoneStays DEF There, Pending

(* A plan is made of operations that do not bring the path back.           *)
LEMMA GoneRun ==
    ASSUME Base, GoneOK, NEW scope \in {"up", "down"}, NEW ops \in SUBSET Operation, Run(scope, ops),
           \A o \in ops : \A p \in deleted : ~Brings(o, p) /\
              (o.kind \in {"retire", "drop"} /\ o.path = p => o.fid = index[p].fid)
    PROVE  GoneOK'
<1> SUFFICES ASSUME NEW p \in deleted' PROVE Gone(p)'
  BY DEF GoneOK
<1>1. /\ deleted' = deleted /\ p \in Path /\ Gone(p) /\ task' = task /\ local' = local /\ node' = node
      /\ index' = index
  BY DEF Run, GoneOK, Base, Typed
<1>2. CASE job' = job
  BY <1>1, <1>2 DEF Gone, There, Present, SavePath, Has, Pending
<1>3. CASE job' = [Idle EXCEPT !.scope = scope, !.at = "next", !.ops = ops, !.calm = TRUE]
  <2>1. job'.op = NoOp /\ job'.ops = ops
    BY <1>3 DEF Idle
  <2>2. \A o \in Pending' : ~Brings(o, p) /\
          (o.kind \in {"retire", "drop"} /\ o.path = p => o.fid = index'[p].fid)
    BY <1>1, <2>1, NoOpIsNone DEF Pending, Brings
  <2> QED
    BY <1>1, <2>2 DEF Gone, There, Present, SavePath, Has
<1> QED
  BY <1>2, <1>3 DEF Run

LEMMA GoneRunUpload == ASSUME Base, GoneOK, RunUpload PROVE GoneOK'
<1>1. ASSUME NEW o \in PlanLocal, NEW p \in deleted
      PROVE  ~Brings(o, p) /\ (o.kind \in {"retire", "drop"} /\ o.path = p => o.fid = index[p].fid)
  <2>1. p \in Path /\ ~There(p) /\ (\A v \in VideoPath : StrmOf[v] = p => ~There(v))
    BY DEF GoneOK, Gone, Base, Typed
  <2>2. o \in Operation /\ (Clears(o) \/ Sends(o) \/ Adopts(o))
    BY PlanLocalIs
  <2>3. CASE Clears(o)
    <3>1. o.path \in Path /\ index[o.path].fid \in Fid
      BY <2>2, <2>3 DEF Clears, Base, RecordOK, Operation
    <3> QED
      BY <2>3, <3>1, OpIs DEF Clears, ClearOp, Kind, Brings
  <2>4. CASE Sends(o)
    BY <2>1, <2>4 DEF Sends, Brings, There
  <2>5. CASE Adopts(o)
    <3>1. o.path \in Path /\ local[o.path].x \in Fid
      BY <2>5, Names DEF Adopts, Base, LocalOK, Typed, TypeOK, Strm, File, Nothing
    <3>2. ~o.video /\ o.kind = "adopt"
      BY <2>5, <3>1, OpIs DEF Adopts, Kind
    <3> QED
      BY <2>1, <2>5, <3>2 DEF Adopts, Brings, There
  <2> QED
    BY <2>2, <2>3, <2>4, <2>5
<1>2. PlanLocal \subseteq Operation
  BY PlansAreOK
<1> QED
  BY <1>1, <1>2, GoneRun DEF RunUpload

LEMMA GoneRunDownload == ASSUME Base, GoneOK, RunDownload PROVE GoneOK'
<1>1. ASSUME NEW o \in PlanCloud, NEW p \in deleted
      PROVE  ~Brings(o, p) /\ (o.kind \in {"retire", "drop"} /\ o.path = p => o.fid = index[p].fid)
  <2>1. p \in Path /\ ~There(p) /\ \A f \in Present : SavePath(f) = p => Has(p) /\ f = index[p].fid
    BY DEF GoneOK, Gone, Base, Typed
  <2>2. o \in Operation /\ (Prunes(o) \/ Fetches(o))
    BY PlanCloudIs
  <2>3. o.fid \in Present /\ o.fid \in Fid /\ node[o.fid].place # "none"
    BY <2>2 DEF Prunes, Fetches, Present
  <2>4. ~o.video /\ o.kind \in {"drop", "download"} /\ o.path = SavePath(o.fid)
    BY <2>2, <2>3, SavePathIs, OpIs DEF Prunes, Fetches, Kind
  <2>5. CASE Prunes(o)
    <3>1. o.kind = "drop" /\ There(o.path)
      BY <2>3, <2>4, <2>5, SavePathIs, OpIs DEF Prunes, Stale, Kind
    <3> QED
      BY <2>1, <3>1 DEF Brings
  <2>6. CASE Fetches(o)
    <3>1. o.kind = "download" /\ ~Has(o.path)
      BY <2>3, <2>4, <2>6, SavePathIs, OpIs DEF Fetches, Missing, Kind
    <3> QED
      BY <2>1, <2>3, <2>4, <3>1 DEF Brings
  <2> QED
    BY <2>2, <2>5, <2>6
<1>2. PlanCloud \subseteq Operation
  BY PlansAreOK
<1> QED
  BY <1>1, <1>2, GoneRun DEF RunDownload

LEMMA GoneNextOp == ASSUME Base, GoneOK, NextOp PROVE GoneOK'
<1> SUFFICES ASSUME NEW p \in deleted' PROVE Gone(p)'
  BY DEF GoneOK
<1>1. /\ deleted' = deleted /\ p \in Path /\ Gone(p) /\ task' = task /\ local' = local /\ node' = node
      /\ index' = index
  BY DEF NextOp, history, GoneOK, Base, Typed
<1>2. PICK o \in job.ops : job' = [job EXCEPT !.at = o.kind, !.op = o, !.ops = @ \ {o}]
  BY DEF NextOp, Soonest
<1>3. job'.op = o /\ job'.ops = job.ops \ {o}
  BY <1>2 DEF Base, Typed, Job
<1>4. Pending' \subseteq Pending \cup {NoOp} /\ KeepsNames
  BY <1>1, <1>3, SameNodes DEF Pending
<1> QED
  BY <1>1, <1>4, GoneStays DEF There

(* A step of an operation: what it does to the trees and the index is not  *)
(* about the path.                                                         *)
LEMMA GoneOpStep ==
    ASSUME Base, GoneOK, KeepsNames, deleted' = deleted, Pending' \subseteq Pending \cup {NoOp},
           \A p \in deleted :
              /\ There(p)' => There(p)
              /\ index'[p] = index[p]
              /\ \A f \in Fid : node'[f].place = "root" => node[f].place = "root" \/ SavePath(f)' # p
              /\ \A v \in VideoPath : StrmOf[v] = p /\ There(v)' => There(v)
    PROVE  GoneOK'
  BY GoneStays DEF GoneOK, Base, Typed

LEMMA OpNotForGone ==
    ASSUME Base, GoneOK, NEW p \in deleted, job.op.kind \in {"upload", "adopt", "download"}
    PROVE  /\ path # p /\ RecordKey # p
           /\ job.op.video => StrmOf[path] # p
           /\ p \in Path
<1>1. ~Brings(job.op, p) /\ p \in Path
  BY DEF GoneOK, Gone, Pending, Base, Typed
<1> QED
  BY <1>1 DEF Brings, RecordKey, path

LEMMA SameJob ==
    ASSUME Base, NEW at, NEW fid, NEW calm,
           \/ job' = [job EXCEPT !.at = at]
           \/ job' = [job EXCEPT !.at = at, !.calm = calm]
           \/ job' = [job EXCEPT !.at = at, !.fid = fid]
           \/ job' = [job EXCEPT !.at = at, !.fid = fid, !.calm = calm]
           \/ job' = [job EXCEPT !.fid = fid, !.calm = calm, !.at = at]
    PROVE  job'.op = job.op /\ job'.ops = job.ops /\ job'.at = at /\ Pending' = Pending
<1>1. job \in Job
  BY DEF Base, Typed
<1>2. job'.op = job.op /\ job'.ops = job.ops /\ job'.at = at
  BY <1>1 DEF Job
<1> QED
  BY <1>2 DEF Pending

LEMMA GoneClearNode == ASSUME Base, GoneOK, ClearNode PROVE GoneOK'
<1>1. /\ task' = task /\ local' = local /\ index' = index /\ deleted' = deleted
      /\ job.at \in {"retire", "drop"} /\ job' = [job EXCEPT !.at = "clear"]
  BY DEF ClearNode, Same, Goto
<1>2. PICK place \in {"temp", "gone"} : node' = Moved(job.op.fid, place)
  BY DEF ClearNode
<1> DEFINE f == job.op.fid
<1>3. f \in Fid /\ node' = Moved(f, place)
  BY <1>1, <1>2, InOp DEF OpOK, Base, Stage, Kind
<1> HIDE DEF f
<1>4. KeepsNames /\ \A g \in Fid : node'[g].place = "root" => node[g].place = "root"
  BY <1>1, <1>2, <1>3, MovedKeeps
<1>5. Pending' \subseteq Pending \cup {NoOp}
  BY <1>1, SameJob
<1> QED
  BY <1>1, <1>4, <1>5, GoneOpStep DEF There

LEMMA GoneClearTree == ASSUME Base, GoneOK, ClearTree PROVE GoneOK'
<1>1. task' = task /\ local' = local /\ node' = node /\ deleted' = deleted
      /\ index' = [index EXCEPT ![path] = NoRecord] /\ job.at = "clear" /\ Ended(job.calm)
  BY DEF ClearTree, Same
<1>2. KeepsNames
  BY <1>1, SameNodes
<1>3. path \in Path /\ job.calm \in BOOLEAN
  BY <1>1, InOp DEF Job
<1>4. index'[path] = NoRecord /\ \A p \in Path : p # path => index'[p] = index[p]
  BY <1>1, <1>3 DEF Base, Typed, TypeOK
<1>5. Pending' \subseteq Pending \cup {NoOp}
  BY <1>1, <1>3, EndedLeaves
<1> SUFFICES ASSUME NEW p \in deleted PROVE Gone(p)'
  BY <1>1 DEF GoneOK
<1>6. p \in Path /\ Gone(p)
  BY DEF GoneOK, Base, Typed
<1>7. CASE p # path
  BY <1>1, <1>2, <1>4, <1>5, <1>6, <1>7, GoneStays DEF There
<1>8. CASE p = path
  <2>1. ~Has(p)'
    BY <1>4, <1>8 DEF Has
  <2>2. \A f \in Present : SavePath(f) # p
    <3>1. ASSUME NEW f \in Present, SavePath(f) = p PROVE FALSE
      <4>1. Has(p) /\ f = index[p].fid /\ node[f].place = "root"
        BY <1>6, <3>1 DEF Gone, Present
      <4>2. job.op.kind \in {"retire", "drop"} /\ job.op.path = p /\ job.op \in Pending
            /\ node[job.op.fid].place # "root"
        BY <1>1, <1>8 DEF Base, Stage, path, Pending
      <4> QED
        BY <1>6, <4>1, <4>2 DEF Gone
    <3> QED
      BY <3>1
  <2>3. \A o \in Pending' : ~Brings(o, p)
    <3>1. ~Brings(NoOp, p)
      BY NoOpIsNone DEF Brings
    <3> QED
      BY <3>1, <1>5, <1>6 DEF Gone
  <2> QED
    BY <2>1, <2>2, <2>3, <1>1, <1>6 DEF Gone, There, Present, SavePath
<1> QED
  BY <1>7, <1>8

(* A file is sent to the cloud.                                            *)
LEMMA GoneStored ==
    ASSUME Base, GoneOK, task' = task, path \in Name, There(path), job.op.kind = "upload",
           NEW f \in Fid, Stored(f), NEW p \in deleted
    PROVE  \A g \in Fid : node'[g].place = "root" => node[g].place = "root" \/ SavePath(g)' # p
<1>1. path # p /\ p \in Path
  BY OpNotForGone
<1>2. \A v \in VideoPath : StrmOf[v] = p => ~There(v)
  BY DEF GoneOK, Gone
<1>3. /\ \A g \in Fid : g # f => node'[g] = node[g]
      /\ node'[f] = [name |-> path, c |-> local[path].x, place |-> "root"]
  BY StoredKeeps
<1>4. SavePath(f)' # p
  BY <1>1, <1>2, <1>3 DEF SavePath
<1> QED
  BY <1>3, <1>4

LEMMA GoneUpload == ASSUME Base, GoneOK, Upload PROVE GoneOK'
<1>1. task' = task /\ local' = local /\ index' = index /\ deleted' = deleted
      /\ job.at = "upload" /\ job.op.kind = "upload"
  BY DEF Upload, Same, Base, Stage, Kind
<1>2. path \in Name /\ job.calm \in BOOLEAN
  BY <1>1, InOp DEF OpOK, Job, path
<1>3. CASE ~There(path)
  <2>1. node' = node /\ Ended(job.calm)
    BY <1>3 DEF Upload
  <2> QED
    BY <1>1, <1>2, <2>1, SameNodes, EndedLeaves, GoneOpStep DEF There
<1>4. CASE There(path)
  <2>1. PICK f \in Fid :
            /\ Stored(f)
            /\ job' = [job EXCEPT !.fid = f,
                         !.calm = @ /\ (Twins # {} => f \in Twins),
                         !.at = IF ~job.op.video THEN "put"
                                ELSE IF job.op.fid \notin {none, f} THEN "retireOld" ELSE "strm"]
    BY <1>4 DEF Upload
  <2>2. Pending' = Pending
    BY <2>1 DEF Pending, Base, Typed, Job
  <2>3. KeepsNames /\ \A p \in deleted : \A g \in Fid :
            node'[g].place = "root" => node[g].place = "root" \/ SavePath(g)' # p
    BY <1>1, <1>2, <1>4, <2>1, StoredKeeps, GoneStored
  <2> QED
    BY <1>1, <2>2, <2>3, GoneOpStep DEF There
<1> QED
  BY <1>3, <1>4

LEMMA GoneRetireOld == ASSUME Base, GoneOK, RetireOld PROVE GoneOK'
<1>1. task' = task /\ local' = local /\ index' = index /\ deleted' = deleted
      /\ job.at = "retireOld" /\ job' = [job EXCEPT !.at = "strm"]
  BY DEF RetireOld, Same, Goto
<1> DEFINE f == job.op.fid
<1>3. f \in Fid /\ node' = Moved(f, "temp")
  BY <1>1 DEF RetireOld, Base, Stage
<1> HIDE DEF f
<1>4. KeepsNames /\ \A g \in Fid : node'[g].place = "root" => node[g].place = "root"
  BY <1>1, <1>3, MovedKeeps
<1>5. Pending' \subseteq Pending \cup {NoOp}
  BY <1>1, SameJob
<1> QED
  BY <1>1, <1>4, <1>5, GoneOpStep DEF There

LEMMA GoneWriteStrm == ASSUME Base, GoneOK, WriteStrm PROVE GoneOK'
<1>1. /\ task' = task /\ node' = node /\ index' = index /\ deleted' = deleted /\ job.at = "strm"
      /\ local' = [local EXCEPT ![RecordKey] = Strm(job.fid)]
  BY DEF WriteStrm, Same
<1>2. PICK at : job' = [job EXCEPT !.at = at]
  BY DEF WriteStrm, Goto
<1>3. RecordKey \in StrmPath /\ job.op.kind \in {"upload", "adopt", "download"}
  BY <1>1 DEF Base, Stage
<1>4. \A q \in Path : q # RecordKey => (There(q)' <=> There(q))
  BY <1>1 DEF There, Base, Typed, TypeOK
<1>5. \A p \in deleted : p # RecordKey /\ p \in Path
  BY <1>3, OpNotForGone
<1>6. \A v \in VideoPath : v # RecordKey /\ v \in Path
  BY <1>3, Names DEF Name
<1> QED
  BY <1>1, <1>2, <1>4, <1>5, <1>6, SameNodes, SameJob, GoneOpStep

LEMMA GoneRemoveOriginal == ASSUME Base, GoneOK, RemoveOriginal PROVE GoneOK'
<1>0. PICK calm \in BOOLEAN : job' = [job EXCEPT !.at = "put", !.calm = calm]
  BY RemovalIs
<1>1. /\ task' = task /\ node' = node /\ index' = index /\ deleted' = deleted
      /\ local' = local \/ local' = [local EXCEPT ![path] = Nothing]
  BY RemovalIs
<1>2. \A q \in Path : There(q)' => There(q)
  BY <1>1 DEF There, Nothing, Base, Typed, TypeOK
<1>3. deleted \subseteq Path /\ VideoPath \subseteq Path
  BY MirrorBothAssumption DEF Base, Typed
<1> QED
  BY <1>0, <1>1, <1>2, <1>3, SameNodes, SameJob, GoneOpStep

LEMMA GoneAdopt == ASSUME Base, GoneOK, Adopt PROVE GoneOK'
<1>1. task' = task /\ local' = local /\ index' = index /\ deleted' = deleted
      /\ job.at = "adopt" /\ job' = [job EXCEPT !.at = "strm", !.fid = job.op.fid]
  BY DEF Adopt, Same
<1>2. job.op.kind = "adopt" /\ job.op.fid \in Fid /\ Lands(path, job.op.fid)
  BY <1>1, InOp DEF Base, Stage, OpOK, Kind, path
<1>3. PICK f \in Fid : node' = Moved(f, "root") /\ Lands(path, f)
  BY <1>2 DEF Adopt
<1>4. KeepsNames /\ \A g \in Fid : g # f => node'[g] = node[g]
  BY <1>1, <1>3, MovedKeeps
<1>5. SavePath(f)' = path
  BY <1>3, <1>4 DEF Lands, KeepsNames, SavePath
<1>6. \A p \in deleted : path # p
  BY <1>2, OpNotForGone
<1>7. \A p \in deleted : \A g \in Fid :
          node'[g].place = "root" => node[g].place = "root" \/ SavePath(g)' # p
  BY <1>4, <1>5, <1>6
<1>8. Pending' \subseteq Pending \cup {NoOp}
  BY <1>1, SameJob
<1> QED
  BY <1>1, <1>4, <1>7, <1>8, GoneOpStep DEF There

LEMMA GoneRefused == ASSUME Base, GoneOK, Refused PROVE GoneOK'
  BY SameNodes, EndedLeaves, GoneOpStep DEF Refused, Same, There

(* Not a video of the name either: such a one is fetched as a .strm.       *)
LEMMA GoneDownload == ASSUME Base, GoneOK, Download PROVE GoneOK'
<1>1. task' = task /\ node' = node /\ index' = index /\ deleted' = deleted /\ job.at = "download"
  BY DEF Download, Same
<1>2. job.op.kind = "download" /\ job.op.fid \in Fid /\ Lands(path, job.op.fid) /\ path \in Path
  BY <1>1, InOp DEF Base, Stage, OpOK, Kind, path
<1>3. PICK at : job' = [job EXCEPT !.at = at, !.fid = job.op.fid]
  BY DEF Download
<1>4. Pending' \subseteq Pending \cup {NoOp}
  BY <1>3, SameJob
<1>5. \A q \in Path : q # path => (There(q)' <=> There(q))
  BY DEF Download, There, Base, Typed, TypeOK
<1>6. ASSUME NEW p \in deleted, NEW v \in VideoPath, StrmOf[v] = p PROVE v # path
  <2>1. task.toStrmDl
    BY <1>6, Names DEF GoneOK, Gone
  <2>2. path \in VideoPath => SavePath(job.op.fid) \in StrmPath
    BY <1>2, <2>1, Names DEF Lands, SavePath
  <2> QED
    BY <1>2, <2>2, Names DEF Lands, Name
<1>7. \A p \in deleted : path # p /\ p \in Path
  BY <1>2, OpNotForGone
<1>8. VideoPath \subseteq Path
  BY MirrorBothAssumption
<1> QED
  BY <1>1, <1>4, <1>5, <1>6, <1>7, <1>8, SameNodes, GoneOpStep

LEMMA GoneCopy == ASSUME Base, GoneOK, Copy PROVE GoneOK'
<1>1. /\ task' = task /\ node' = node /\ index' = index /\ deleted' = deleted /\ job' = [job EXCEPT !.at = "put"]
      /\ local' = [local EXCEPT ![path] = IF There(path) THEN File(node[job.fid].c) ELSE Nothing]
  BY DEF Copy, Same, Goto
<1>2. \A q \in Path : There(q)' => There(q)
  BY <1>1 DEF There, Nothing, File, Base, Typed, TypeOK
<1>3. deleted \subseteq Path /\ VideoPath \subseteq Path
  BY MirrorBothAssumption DEF Base, Typed
<1> QED
  BY <1>1, <1>2, <1>3, SameNodes, SameJob, GoneOpStep

LEMMA GonePutRecord == ASSUME Base, GoneOK, PutRecord PROVE GoneOK'
<1>1. task' = task /\ node' = node /\ local' = local /\ deleted' = deleted /\ job.at = "put" /\ Ended(job.calm)
  BY DEF PutRecord, RecordAs, Same
<1>2. job.op.kind \in {"upload", "adopt", "download"} /\ job.calm \in BOOLEAN
  BY <1>1, InOp DEF Base, Stage, Job
<1>3. \A p \in deleted : p # RecordKey /\ p \in Path
  BY <1>2, OpNotForGone
<1>4. \A p \in Path : p # RecordKey => index'[p] = index[p]
  BY DEF PutRecord, RecordAs, Base, Typed, TypeOK
<1> QED
  BY <1>1, <1>2, <1>3, <1>4, SameNodes, EndedLeaves, GoneOpStep DEF There

LEMMA GoneFails == ASSUME Base, GoneOK, Fails PROVE GoneOK'
<1>1. task' = task /\ node' = node /\ index' = index /\ deleted' = deleted /\ Ended(FALSE)
  BY DEF Fails
<1>2. \A q \in Path : There(q)' => There(q)
  BY DEF Fails, There, Nothing, Base, Typed, TypeOK
<1>3. deleted \subseteq Path /\ VideoPath \subseteq Path
  BY MirrorBothAssumption DEF Base, Typed
<1> QED
  BY <1>1, <1>2, <1>3, SameNodes, EndedLeaves, GoneOpStep

LEMMA GoneAnswerLost == ASSUME Base, GoneOK, AnswerLost PROVE GoneOK'
<1>1. /\ path \in Name /\ There(path) /\ task' = task /\ job.op.kind = "upload" /\ Ended(FALSE)
      /\ local' = local /\ index' = index /\ deleted' = deleted
  BY InOp DEF AnswerLost, Base, Stage, OpOK, Kind, path
<1>2. PICK f \in Fid : Stored(f)
  BY DEF AnswerLost
<1>3. KeepsNames /\ \A p \in deleted : \A g \in Fid :
          node'[g].place = "root" => node[g].place = "root" \/ SavePath(g)' # p
  BY <1>1, <1>2, StoredKeeps, GoneStored
<1> QED
  BY <1>1, <1>3, EndedLeaves, GoneOpStep DEF There

LEMMA GoneCutOff == ASSUME Base, GoneOK, CutOff PROVE GoneOK'
<1>1. task' = task /\ local' = local /\ node' = node /\ index' = index /\ job' = Idle /\ deleted' = deleted
  BY DEF CutOff
<1>2. Pending' \subseteq Pending \cup {NoOp}
  BY <1>1 DEF Pending, Idle
<1> QED
  BY <1>1, <1>2, SameNodes, GoneOpStep DEF There

(* A file that is added takes its name, and that of its .strm, back.       *)
LEMMA GoneAddInCloud ==
    ASSUME Base, GoneOK, NEW q \in Path, NEW c \in Comes[q], AddInCloud(q, c)
    PROVE  GoneOK'
<1> SUFFICES ASSUME NEW p \in deleted' PROVE Gone(p)'
  BY DEF GoneOK
<1>1. local' = local /\ index' = index /\ Disturbed /\ p \in deleted /\ p \notin Family(q)
  BY DEF AddInCloud
<1>2. KeepsNames
  BY AddInCloudBase
<1>3. PICK f \in Fid : /\ node'[f] = [name |-> q, c |-> c, place |-> "root"]
                       /\ \A g \in Fid : g # f => node'[g] = node[g]
  BY AddInCloudBase DEF Fresh
<1>4. SavePath(f)' # p
  BY <1>1, <1>3 DEF SavePath, Family
<1>5. Pending' = Pending
  BY <1>1 DEF Disturbed, Pending, Base, Typed, Job
<1> QED
  BY <1>1, <1>2, <1>3, <1>4, <1>5, GoneStays DEF There, GoneOK, Base, Typed

LEMMA GoneWrite ==
    ASSUME Base, GoneOK, NEW q \in Path, NEW c \in Comes[q], Write(q, c)
    PROVE  GoneOK'
<1> SUFFICES ASSUME NEW p \in deleted' PROVE Gone(p)'
  BY DEF GoneOK
<1>1. /\ task' = task /\ node' = node /\ index' = index /\ Disturbed /\ p \in deleted /\ p \notin Family(q)
      /\ local' = [local EXCEPT ![q] = File(c)]
  BY DEF Write, Edited
<1>2. Pending' = Pending
  BY <1>1 DEF Disturbed, Pending, Base, Typed, Job
<1>3. \A r \in Path : r # q => (There(r)' <=> There(r))
  BY <1>1 DEF There, Base, Typed, TypeOK
<1>4. p # q /\ \A v \in VideoPath : StrmOf[v] = p => v # q
  BY <1>1 DEF Family
<1>5. p \in Path /\ VideoPath \subseteq Path
  BY <1>1, MirrorBothAssumption DEF Base, Typed
<1> QED
  BY <1>1, <1>2, <1>3, <1>4, <1>5, SameNodes, GoneStays DEF GoneOK

(* It starts with what was in step.                                        *)
LEMMA GoneStarts ==
    ASSUME Base, NEW p \in Path, InStep(p), Delete(p)
    PROVE  Gone(p)'
<1>1. /\ task' = task /\ node' = node /\ index' = index /\ Disturbed
      /\ local' = [local EXCEPT ![p] = Nothing]
  BY DEF Delete, Edited
<1>2. Pending' = Pending
  BY <1>1 DEF Disturbed, Pending, Base, Typed, Job
<1>3. ~There(p)' /\ \A r \in Path : There(r)' => There(r)
  BY <1>1 DEF There, Nothing, Base, Typed, TypeOK
<1>4. \A v \in VideoPath : StrmOf[v] = p => ~There(v)'
  BY <1>3, MirrorBothAssumption DEF InStep
<1>5. \A f \in Present : SavePath(f) = p => Has(p) /\ f = index[p].fid
  BY DEF InStep
<1>6. \A o \in Pending : o.path # p
  BY DEF InStep, Idly, Pending, Family
<1>7. ASSUME NEW o \in Pending, o.video, StrmOf[o.path] = p PROVE FALSE
  <2>1. o \in Operation /\ OpOK(o)
    BY <1>7, NoOpIsNone DEF Base, Typed, Job, Pending
  <2>2. o.path \in VideoPath
    BY <2>1, <1>7 DEF OpOK
  <2> QED
    BY <2>2, <1>7 DEF InStep, Idly, Pending, Family
<1>8. PICK f \in Present : SavePath(f) = p
  BY DEF InStep
<1>9. node[f].name \in Name
  BY <1>8 DEF Present, Base, NodeOK
<1>10. (p \in StrmPath => task.toStrmDl) /\ (p \in VideoPath => ~task.toStrmDl)
  BY <1>8, <1>9, Names DEF SavePath, Name
<1> QED
  BY <1>1, <1>2, <1>3, <1>4, <1>5, <1>6, <1>7, <1>10 DEF Gone, Brings, Present, SavePath, Has

LEMMA GoneDelete == ASSUME Base, GoneOK, NEW q \in Path, Delete(q) PROVE GoneOK'
<1> SUFFICES ASSUME NEW p \in deleted' PROVE Gone(p)'
  BY DEF GoneOK
<1>1. /\ task' = task /\ node' = node /\ index' = index /\ Disturbed
      /\ local' = [local EXCEPT ![q] = Nothing] /\ (p \in deleted \/ (p = q /\ InStep(q)))
  BY DEF Delete, Edited
<1>2. Pending' = Pending
  BY <1>1 DEF Disturbed, Pending, Base, Typed, Job
<1>3. \A r \in Path : There(r)' => There(r)
  BY <1>1 DEF There, Nothing, Base, Typed, TypeOK
<1>4. CASE p \in deleted
  <2>1. p \in Path /\ VideoPath \subseteq Path
    BY <1>4, MirrorBothAssumption DEF Base, Typed
  <2> QED
    BY <1>1, <1>2, <1>3, <1>4, <2>1, SameNodes, GoneStays DEF GoneOK
<1>5. CASE p = q /\ InStep(q)
  BY <1>5, GoneStarts
<1> QED
  BY <1>1, <1>4, <1>5

LEMMA GoneIdle == ASSUME GoneOK, UNCHANGED vars PROVE GoneOK'
  BY DEF vars, history, GoneOK, Gone, There, Present, SavePath, Has, Pending

LEMMA GoneNext == ASSUME Base, Forward, GoneOK, [Next]_vars PROVE GoneOK'
<1>1. CASE \E p \in Path : Delete(p) \/ \E c \in Comes[p] : AddInCloud(p, c) \/ Write(p, c)
  BY <1>1, GoneDelete, GoneWrite, GoneAddInCloud
<1>2. CASE JobStep
  BY <1>2, GoneNextOp, GoneClearNode, GoneClearTree, GoneUpload, GoneRetireOld, GoneWriteStrm,
     GoneRemoveOriginal, GoneAdopt, GoneRefused, GoneDownload, GoneCopy, GonePutRecord DEF JobStep
<1> QED
  BY <1>1, <1>2, GoneInitTask, GoneRunUpload, GoneRunDownload, GoneFails, GoneAnswerLost, GoneCutOff,
     GoneIdle DEF Next

(* Types, and what the trees, the index and the plans always agree on.     *)
THEOREM BaseHolds == ASSUME Forward PROVE Spec => []Base
<1>1. Base /\ [Next]_vars => Base'
  BY NextBase
<1> QED
  BY <1>1, InitBase, PTL DEF Spec

(* What the user deletes and what is then recorded, alone under its name   *)
(* and not about to be worked on, is not fetched again (PlanCloud), if     *)
(* what is uploaded as a video is fetched as one.                          *)
THEOREM DeletedStaysDeletedHolds == ASSUME Forward PROVE Spec => []DeletedStaysDeleted
<1>1. Base /\ GoneOK /\ [Next]_vars => (Base /\ GoneOK)'
  BY NextBase, GoneNext
<1>2. GoneOK => DeletedStaysDeleted
  BY DEF GoneOK, Gone, DeletedStaysDeleted
<1> QED
  BY <1>1, <1>2, InitBase, GoneInit, PTL DEF Spec

-----------------------------------------------------------------------------
(* No two videos share a .strm name (there is no a.mkv beside an a.mp4).   *)
StrmsDiffer == \A v, w \in VideoPath : StrmOf[v] = StrmOf[w] => v = w

Exempt == torn \cup raced \cup rivals

(* The small videos: under the name of a video only those are recorded,    *)
(* sent as a plain file or about to be.                                    *)
SmallOK ==
    task.toStrm => \A v \in VideoPath \ raced :
        /\ index[v].kind = "file" => node[index[v].fid].c \notin Big
        /\ \A o \in Pending : o.kind = "upload" /\ o.path = v /\ ~o.video /\ There(v) => local[v].x \notin Big
        /\ job.at = "put" /\ job.op.kind = "upload" /\ path = v /\ ~job.op.video => node[job.fid].c \notin Big

(* What a run may do to a path that was written before it began.           *)
PlanOK ==
    /\ \A o \in Pending : o.path \in Path /\ written[o.path] # none /\ o.path \notin Exempt =>
          /\ o.video => written[o.path] \in Big
          /\ o.kind # "download"
    /\ \A o, q \in Pending : o.video /\ q.kind = "adopt" /\ q.path = StrmOf[o.path] => o.path \in rivals
    /\ \A o, q \in Pending : ~(o.kind = "upload" /\ q.kind = "download")

(* The content is where the user put it, also while it is uploaded, until  *)
(* the original is removed; by then its node and its .strm are there.      *)
AtHome(p) ==
    /\ local[p] = File(written[p])
    /\ path = p /\ job.op.video /\ job.at # "upload" => node[job.fid].c = written[p]
    /\ path = p /\ job.at = "remove" => local[StrmOf[p]] = Strm(job.fid)

(* It is in the cloud, behind the .strm that stands for it: recorded for   *)
(* it or about to be, and no operation is going to delete it.              *)
Away(p, f) ==
    /\ p \in VideoPath /\ task.toStrm
    /\ written[p] \in Big /\ node[f].c = written[p]
    /\ node[f].name = p /\ node[f].place \in {"root", "temp"}
    /\ local[p] = Nothing /\ local[StrmOf[p]] = Strm(f)
    /\ \/ ~Has(StrmOf[p])
       \/ index[StrmOf[p]].fid = f
       \/ (path = p /\ job.op.video /\ job.at = "put")
    /\ path = p /\ job.op.kind = "upload" =>
          job.at = "upload" \/ (job.at = "put" /\ job.op.video /\ job.fid = f)
    /\ \A o \in Pending :
          /\ o.kind = "drop" => o.fid # f
          /\ o.path = StrmOf[p] => o.kind # "download" /\ (o.kind = "adopt" => o.fid = f)

WrittenOK == \A p \in Path \ Exempt : written[p] # none => AtHome(p) \/ \E f \in Fid : Away(p, f)

KeepInv == Base /\ SmallOK /\ PlanOK /\ WrittenOK

(* A video is not fetched under its own name.                              *)
LEMMA NoVideoFetched ==
    ASSUME Base, Forward, task.toStrm, NEW o \in Operation, OpOK(o), o.kind \in {"adopt", "download"}
    PROVE  o.path \notin VideoPath
<1>1. SavePath(o.fid) = o.path /\ task.toStrmDl
  BY DEF OpOK, Lands, Forward, Base, Typed, TypeOK
<1> QED
  BY <1>1, Names DEF SavePath, Name

LEMMA SmallStays ==
    ASSUME Base, SmallOK, KeepsNames, raced \subseteq raced', Pending' \subseteq Pending \cup {NoOp},
           \A v \in VideoPath \ raced' : task.toStrm =>
              /\ index'[v] = index[v] \/ index'[v].kind # "file" \/ node'[index'[v].fid].c \notin Big
              /\ \/ local'[v] = local[v] \/ ~There(v)'
                 \/ \A o \in Pending' : ~(o.kind = "upload" /\ o.path = v)
              /\ job'.at = "put" /\ job'.op.kind = "upload" /\ job'.op.path = v /\ ~job'.op.video =>
                    \/ job.at = "put" /\ job'.op = job.op /\ job'.fid = job.fid
                    \/ node'[job'.fid].c \notin Big
    PROVE  SmallOK'
<1> SUFFICES ASSUME task.toStrm, NEW v \in VideoPath \ raced'
             PROVE  /\ index'[v].kind = "file" => node'[index'[v].fid].c \notin Big
                    /\ \A o \in Pending' : o.kind = "upload" /\ o.path = v /\ ~o.video /\ There(v)'
                          => local'[v].x \notin Big
                    /\ job'.at = "put" /\ job'.op.kind = "upload" /\ path' = v /\ ~job'.op.video
                          => node'[job'.fid].c \notin Big
  BY DEF SmallOK, KeepsNames
<1>0. v \in VideoPath /\ v \notin raced /\ v \in Path
  BY MirrorBothAssumption
<1>1. ASSUME index'[v].kind = "file" PROVE node'[index'[v].fid].c \notin Big
  <2>1. CASE index'[v] = index[v]
    <3>1. index[v].fid \in Fid /\ node[index[v].fid].place # "none"
      BY <1>0, <1>1, <2>1 DEF Base, RecordOK, Has, NoRecord
    <3>2. node[index[v].fid].c \notin Big
      BY <1>0, <1>1, <2>1 DEF SmallOK
    <3> QED
      BY <2>1, <3>1, <3>2 DEF KeepsNames
  <2> QED
    BY <1>1, <2>1
<1>2. ASSUME NEW o \in Pending', o.kind = "upload", o.path = v, ~o.video, There(v)'
      PROVE  local'[v].x \notin Big
  <2>1. local'[v] = local[v] /\ o \in Pending
    BY <1>2, NoOpIsNone
  <2> QED
    BY <1>0, <1>2, <2>1 DEF SmallOK, There
<1>3. ASSUME job'.at = "put", job'.op.kind = "upload", path' = v, ~job'.op.video
      PROVE  node'[job'.fid].c \notin Big
  <2>1. CASE job.at = "put" /\ job'.op = job.op /\ job'.fid = job.fid
    <3>1. job.fid \in Fid /\ node[job.fid].place # "none" /\ node[job.fid].c \notin Big
      BY <1>0, <1>3, <2>1 DEF Base, Stage, SmallOK, path
    <3> QED
      BY <2>1, <3>1 DEF KeepsNames
  <2> QED
    BY <1>3, <2>1 DEF path
<1> QED
  BY <1>1, <1>2, <1>3

LEMMA PlanStays ==
    ASSUME Base, PlanOK, Pending' \subseteq Pending \cup {NoOp}, Exempt \subseteq Exempt', rivals \subseteq rivals',
           \A p \in Path : written'[p] \in {written[p], none}
    PROVE  PlanOK'
<1>1. NoOp.kind = "none" /\ ~NoOp.video
  BY NoOpIsNone
<1> QED
  BY <1>1 DEF PlanOK

LEMMA AtHomeStays ==
    ASSUME Base, KeepsNames, NEW p \in Path, AtHome(p), written'[p] = written[p], local'[p] = local[p],
           \/ job'.op = NoOp
           \/ /\ job'.op = job.op /\ job'.at = job.at /\ job'.fid = job.fid
              /\ p \in VideoPath => local'[StrmOf[p]] = local[StrmOf[p]]
    PROVE  AtHome(p)'
<1>1. CASE job'.op = NoOp
  <2>1. path' # p
    BY <1>1, NoOpIsNone, Names DEF path
  <2> QED
    BY <2>1 DEF AtHome
<1>2. CASE /\ job'.op = job.op /\ job'.at = job.at /\ job'.fid = job.fid
           /\ p \in VideoPath => local'[StrmOf[p]] = local[StrmOf[p]]
  <2>1. path' = path
    BY <1>2 DEF path
  <2>2. ASSUME path = p, job.op.video, job.at # "upload" PROVE node'[job.fid].c = written[p]
    <3>1. job.at \notin {"idle", "next"} /\ job.op.kind = "upload"
      BY <2>2, NoOpIsNone, InOp DEF Base, Stage, OpOK
    <3>2. job.fid \in Fid /\ node[job.fid].place = "root"
      BY <2>2, <3>1 DEF Base, Stage, Kind, Typed, Job, Place
    <3> QED
      BY <2>2, <3>2 DEF KeepsNames, AtHome
  <2>3. path = p /\ job.at = "remove" => p \in VideoPath
    BY InOp DEF Base, Stage, OpOK, path
  <2> QED
    BY <1>2, <2>1, <2>2, <2>3 DEF AtHome
<1> QED
  BY <1>1, <1>2

LEMMA AwayStays ==
    ASSUME Base, KeepsNames, NEW p \in Path, NEW f \in Fid, Away(p, f), written'[p] = written[p],
           local'[p] = local[p], local'[StrmOf[p]] = local[StrmOf[p]], node'[f].place \in {"root", "temp"},
           Pending' \subseteq Pending \cup {NoOp},
           index'[StrmOf[p]] = index[StrmOf[p]] \/ ~Has(StrmOf[p])' \/ index'[StrmOf[p]].fid = f,
           path = p /\ job.at = "put" =>
              index'[StrmOf[p]].fid = f \/ (job'.op = job.op /\ job'.at = "put" /\ job'.fid = job.fid),
           job'.op.path = p /\ job'.op.kind = "upload" =>
              job'.at = "upload" \/ (job'.op = job.op /\ job'.at = job.at /\ job'.fid = job.fid)
    PROVE  Away(p, f)'
<1>1. node'[f].c = node[f].c /\ node'[f].name = node[f].name /\ task' = task
  BY DEF Away, KeepsNames
<1>2. \/ ~Has(StrmOf[p])'
      \/ index'[StrmOf[p]].fid = f
      \/ (path' = p /\ job'.op.video /\ job'.at = "put")
  BY DEF Away, Has, path
<1>3. path' = p /\ job'.op.kind = "upload" =>
          job'.at = "upload" \/ (job'.at = "put" /\ job'.op.video /\ job'.fid = f)
  BY DEF Away, path
<1>4. \A o \in Pending' :
          /\ o.kind = "drop" => o.fid # f
          /\ o.path = StrmOf[p] => o.kind # "download" /\ (o.kind = "adopt" => o.fid = f)
  BY NoOpIsNone DEF Away
<1> QED
  BY <1>1, <1>2, <1>3, <1>4 DEF Away

(* No step but the planning of a run makes anything new pending.           *)
LEMMA StepKeeps ==
    ASSUME Base, \/ InitTask \/ JobStep \/ Fails \/ AnswerLost \/ CutOff
                 \/ \E p \in Path : Delete(p) \/ \E c \in Comes[p] : AddInCloud(p, c) \/ Write(p, c)
    PROVE  KeepsNames /\ Pending' \subseteq Pending \cup {NoOp}
<1>1. CASE InitTask
  BY <1>1, SameNodes DEF InitTask, Pending
<1>2. CASE NextOp
  <2>1. PICK o \in job.ops : job' = [job EXCEPT !.at = o.kind, !.op = o, !.ops = @ \ {o}]
    BY <1>2 DEF NextOp, Soonest
  <2>2. job'.op = o /\ job'.ops = job.ops \ {o}
    BY <2>1 DEF Base, Typed, Job
  <2> QED
    BY <1>2, <2>2, SameNodes DEF Pending, NextOp
<1>3. CASE ClearNode
  <2>1. PICK place \in {"temp", "gone"} : node' = Moved(job.op.fid, place)
    BY <1>3 DEF ClearNode
  <2>2. PICK f \in Fid : node' = Moved(f, place)
    BY <1>3, <2>1, InOp DEF ClearNode, OpOK, Base, Stage, Kind
  <2>3. task' = task /\ job' = [job EXCEPT !.at = "clear"]
    BY <1>3 DEF ClearNode, Same, Goto
  <2> QED
    BY <2>1, <2>2, <2>3, MovedKeeps, SameJob
<1>4. CASE ClearTree
  <2>1. job.calm \in BOOLEAN /\ Ended(job.calm)
    BY <1>4 DEF ClearTree, Base, Typed, Job
  <2> QED
    BY <1>4, <2>1, SameNodes, EndedLeaves DEF ClearTree, Same
<1>5. CASE Upload
  <2>0. task' = task /\ job.op.kind = "upload" /\ path \in Name /\ job.calm \in BOOLEAN
    BY <1>5, InOp DEF Upload, Same, Base, Stage, OpOK, Kind, path, Job
  <2>1. CASE ~There(path)
    BY <1>5, <2>0, <2>1, SameNodes, EndedLeaves DEF Upload
  <2>2. CASE There(path)
    <3>1. PICK f \in Fid :
            /\ Stored(f)
            /\ job' = [job EXCEPT !.fid = f,
                         !.calm = @ /\ (Twins # {} => f \in Twins),
                         !.at = IF ~job.op.video THEN "put"
                                ELSE IF job.op.fid \notin {none, f} THEN "retireOld" ELSE "strm"]
      BY <1>5, <2>2 DEF Upload
    <3>2. Pending' = Pending
      BY <3>1 DEF Pending, Base, Typed, Job
    <3> QED
      BY <2>0, <2>2, <3>1, <3>2, StoredKeeps
  <2> QED
    BY <2>1, <2>2
<1>6. CASE RetireOld
  <2>1. PICK f \in Fid : node' = Moved(f, "temp")
    BY <1>6 DEF RetireOld, Base, Stage
  <2>2. task' = task /\ job' = [job EXCEPT !.at = "strm"]
    BY <1>6 DEF RetireOld, Same, Goto
  <2> QED
    BY <2>1, <2>2, MovedKeeps, SameJob
<1>7. CASE WriteStrm
  <2>1. PICK at : job' = [job EXCEPT !.at = at]
    BY <1>7 DEF WriteStrm, Goto
  <2> QED
    BY <1>7, <2>1, SameNodes, SameJob DEF WriteStrm, Same
<1>8. CASE RemoveOriginal
  <2>1. PICK calm \in BOOLEAN : job' = [job EXCEPT !.at = "put", !.calm = calm]
    BY <1>8, RemovalIs
  <2> QED
    BY <1>8, <2>1, RemovalIs, SameNodes, SameJob
<1>9. CASE Adopt
  <2>1. PICK f \in Fid : node' = Moved(f, "root")
    BY <1>9, InOp DEF Adopt, Base, Stage, OpOK, Kind
  <2>2. task' = task /\ job' = [job EXCEPT !.at = "strm", !.fid = job.op.fid]
    BY <1>9 DEF Adopt, Same
  <2> QED
    BY <2>1, <2>2, MovedKeeps, SameJob
<1>10. CASE Refused
  BY <1>10, SameNodes, EndedLeaves DEF Refused, Same
<1>11. CASE Download
  <2>1. PICK at : job' = [job EXCEPT !.at = at, !.fid = job.op.fid]
    BY <1>11 DEF Download
  <2> QED
    BY <1>11, <2>1, SameNodes, SameJob DEF Download, Same
<1>12. CASE Copy
  BY <1>12, SameNodes, SameJob DEF Copy, Same, Goto
<1>13. CASE PutRecord
  <2>1. job.calm \in BOOLEAN /\ Ended(job.calm)
    BY <1>13 DEF PutRecord, RecordAs, Base, Typed, Job
  <2> QED
    BY <1>13, <2>1, SameNodes, EndedLeaves DEF PutRecord, RecordAs, Same
<1>14. CASE Fails
  BY <1>14, SameNodes, EndedLeaves DEF Fails
<1>15. CASE AnswerLost
  <2>1. path \in Name /\ There(path) /\ task' = task /\ Ended(FALSE)
    BY <1>15, InOp DEF AnswerLost, Base, Stage, OpOK, Kind, path
  <2>2. PICK f \in Fid : Stored(f)
    BY <1>15 DEF AnswerLost
  <2> QED
    BY <2>1, <2>2, StoredKeeps, EndedLeaves
<1>16. CASE CutOff
  BY <1>16, SameNodes DEF CutOff, Pending, Idle
<1>17. CASE \E p \in Path : Delete(p) \/ \E c \in Comes[p] : AddInCloud(p, c) \/ Write(p, c)
  <2>1. Disturbed
    BY <1>17 DEF Delete, Write, AddInCloud, Edited
  <2>2. Pending' = Pending
    BY <2>1 DEF Disturbed, Pending, Base, Typed, Job
  <2>3. KeepsNames
    BY <1>17, SameNodes, AddInCloudBase DEF Delete, Write, Edited
  <2> QED
    BY <2>2, <2>3
<1> QED
  BY <1>1, <1>2, <1>3, <1>4, <1>5, <1>6, <1>7, <1>8, <1>9, <1>10, <1>11, <1>12, <1>13, <1>14, <1>15, <1>16,
     <1>17 DEF JobStep

(* What the plans are: videos that are there, and of one side only.        *)
LEMMA PlansAreOfOneSide ==
    ASSUME Base
    PROVE  /\ \A o \in PlanLocal : /\ o.kind # "download"
                                   /\ o.video => local[o.path].k = "file" /\ local[o.path].x \in Big
                                   /\ o.kind = "upload" => /\ local[o.path].k = "file"
                                                           /\ o.video \/ ~task.toStrm \/ o.path \notin VideoPath
                                                              \/ local[o.path].x \notin Big
                                   /\ o.kind = "adopt" => o.fid = local[o.path].x
                                   /\ o.kind = "drop" => Has(o.path) /\ index[o.path].kind # "strm"
                                                         /\ o.fid = index[o.path].fid
           /\ \A o \in PlanCloud : /\ ~o.video /\ o.kind \in {"drop", "download"}
                                   /\ o.path = SavePath(o.fid) /\ o.fid \in Fid
                                   /\ o.kind = "download" => ~There(o.path)
                                   /\ o.kind = "drop" => Stale(o.fid)
<1>1. ASSUME NEW o \in PlanLocal
      PROVE  /\ o.kind # "download"
             /\ o.video => local[o.path].k = "file" /\ local[o.path].x \in Big
             /\ o.kind = "upload" => /\ local[o.path].k = "file"
                                     /\ o.video \/ ~task.toStrm \/ o.path \notin VideoPath
                                        \/ local[o.path].x \notin Big
             /\ o.kind = "adopt" => o.fid = local[o.path].x
             /\ o.kind = "drop" => Has(o.path) /\ index[o.path].kind # "strm" /\ o.fid = index[o.path].fid
  <2>1. o \in Operation /\ (Clears(o) \/ Sends(o) \/ Adopts(o))
    BY PlanLocalIs
  <2>2. CASE Clears(o)
    <3>1. o.path \in Path /\ index[o.path].fid \in Fid
      BY <2>1, <2>2 DEF Clears, Base, RecordOK, Operation
    <3>2. \E k \in {"retire", "drop"} : o = Op(k, o.path, index[o.path].fid)
             /\ (k = "drop" => index[o.path].kind # "strm")
      BY <2>2 DEF Clears, ClearOp
    <3> QED
      BY <2>2, <3>1, <3>2, OpIs DEF Clears, Kind
  <2>3. CASE Sends(o)
    BY <2>3 DEF Sends
  <2>4. CASE Adopts(o)
    <3>1. o.path \in Path /\ local[o.path].x \in Fid
      BY <2>4, Names DEF Adopts, Base, LocalOK, Typed, TypeOK, Strm, File, Nothing
    <3> QED
      BY <2>4, <3>1, OpIs DEF Adopts, Kind
  <2> QED
    BY <2>1, <2>2, <2>3, <2>4
<1>2. ASSUME NEW o \in PlanCloud
      PROVE  /\ ~o.video /\ o.kind \in {"drop", "download"}
             /\ o.path = SavePath(o.fid) /\ o.fid \in Fid
             /\ o.kind = "download" => ~There(o.path)
             /\ o.kind = "drop" => Stale(o.fid)
  <2>1. o \in Operation /\ (Prunes(o) \/ Fetches(o))
    BY PlanCloudIs
  <2>2. o.fid \in Fid /\ node[o.fid].place # "none"
    BY <2>1 DEF Prunes, Fetches, Present
  <2> QED
    BY <2>1, <2>2, SavePathIs, OpIs DEF Prunes, Fetches, Missing, Kind
<1> QED
  BY <1>1, <1>2

LEMMA RunIs ==
    ASSUME Base, NEW scope, NEW ops \in SUBSET Operation, Run(scope, ops)
    PROVE  /\ KeepsNames /\ node' = node /\ index' = index /\ local' = local /\ written' = written
           /\ torn' = torn /\ raced' = raced /\ rivals' = rivals \cup Rivals(ops) /\ task' = task
           /\ job'.op = NoOp /\ job'.at \in {"idle", "next"} /\ job'.ops = ops /\ job.op = NoOp /\ job.at = "idle"
<1>1. job.at = "idle" /\ job.op = NoOp /\ job.ops = {}
  BY DEF Run, Base, Stage
<1>2. job'.op = NoOp /\ job'.at \in {"idle", "next"} /\ job'.ops = ops
  BY <1>1 DEF Run, Idle
<1> QED
  BY <1>1, <1>2, SameNodes DEF Run

(* The small videos.                                                       *)
LEMMA SmallRun ==
    ASSUME Base, SmallOK, RunUpload \/ RunDownload
    PROVE  SmallOK'
<1>1. PICK scope \in {"up", "down"}, ops \in SUBSET Operation :
          Run(scope, ops) /\ (ops = PlanLocal \/ ops = PlanCloud)
  BY PlansAreOK DEF RunUpload, RunDownload
<1>2. ASSUME NEW o \in Pending', o.kind = "upload", ~o.video, task.toStrm, o.path \in VideoPath
      PROVE  local[o.path].x \notin Big
  <2>1. o \in ops
    BY <1>1, <1>2, RunIs, NoOpIsNone DEF Pending
  <2> QED
    BY <1>1, <1>2, <2>1, PlansAreOfOneSide
<1> QED
  BY <1>1, <1>2, RunIs DEF SmallOK

LEMMA SmallNext ==
    ASSUME Base, Forward, SmallOK,
           \/ InitTask \/ JobStep \/ Fails \/ AnswerLost \/ CutOff
           \/ \E p \in Path : Delete(p) \/ \E c \in Comes[p] : AddInCloud(p, c) \/ Write(p, c)
    PROVE  SmallOK'
<1>0. KeepsNames /\ Pending' \subseteq Pending \cup {NoOp}
  BY StepKeeps
<1>a. VideoPath \subseteq Path /\ VideoPath \subseteq Name /\ \A v \in VideoPath : v \notin StrmPath
  BY Names, MirrorBothAssumption DEF Name
<1>b. ASSUME Ended(TRUE) \/ Ended(FALSE) \/ Ended(job.calm) PROVE job'.at # "put"
  BY <1>b, EndedGoesOn
<1>c. ASSUME NEW v \in VideoPath, task.toStrm, job.op.kind = "download", job.at \notin {"idle", "next"}
      PROVE  path # v
  BY <1>c, InOp, NoVideoFetched DEF path
<1>1. CASE InitTask
  <2>1. local' = local /\ job' = job /\ raced' = raced /\ task' = task /\ node' = node
    BY <1>1 DEF InitTask
  <2>2. ASSUME NEW v \in VideoPath, task.toStrm PROVE index'[v] = index[v]
    <3>1. \A f \in Present : UpName(f) # v
      BY <2>2, <1>a, Names DEF UpName, UpKey
    <3>2. CASE \E kept \in SUBSET Present : index' = BuildIndex(kept)
      BY <3>1, <3>2, <1>a, BuiltIs
    <3> QED
      BY <1>1, <3>2 DEF InitTask
  <2> QED
    BY <1>0, <2>1, <2>2, SmallStays
<1>2. CASE NextOp
  <2>1. local' = local /\ index' = index /\ raced' = raced
    BY <1>2 DEF NextOp, history
  <2>2. job'.at # "put"
    <3>1. PICK o \in job.ops : job' = [job EXCEPT !.at = o.kind, !.op = o, !.ops = @ \ {o}]
      BY <1>2 DEF NextOp, Soonest
    <3>2. o.kind \in Kind /\ job \in Job
      BY <3>1 DEF Base, Typed, Job, Operation
    <3> QED
      BY <3>1, <3>2 DEF Job, Kind
  <2> QED
    BY <1>0, <2>1, <2>2, SmallStays
<1>3. CASE ClearNode
  <2>1. local' = local /\ index' = index /\ raced' = raced /\ job'.at = "clear"
    BY <1>3, SameJob DEF ClearNode, Same, Goto
  <2> QED
    BY <1>0, <2>1, SmallStays
<1>4. CASE ClearTree
  <2>1. local' = local /\ raced' = raced /\ job'.at # "put"
    BY <1>4, <1>b DEF ClearTree, Same
  <2>2. \A v \in VideoPath : index'[v] = index[v] \/ index'[v].kind # "file"
    BY <1>4, <1>a DEF ClearTree, NoRecord, Base, Typed, TypeOK
  <2> QED
    BY <1>0, <2>1, <2>2, SmallStays
<1>5. CASE Upload
  <2>0. local' = local /\ index' = index /\ raced' = raced /\ task' = task /\ job.at = "upload"
        /\ job.op.kind = "upload" /\ path \in Name
    BY <1>5, InOp DEF Upload, Same, Base, Stage, OpOK, Kind, path
  <2>1. CASE ~There(path)
    <3>1. job'.at # "put"
      BY <1>5, <2>1, <1>b DEF Upload
    <3> QED
      BY <1>0, <2>0, <3>1, SmallStays
  <2>2. CASE There(path)
    <3>1. PICK f \in Fid :
            /\ Stored(f)
            /\ job' = [job EXCEPT !.fid = f,
                         !.calm = @ /\ (Twins # {} => f \in Twins),
                         !.at = IF ~job.op.video THEN "put"
                                ELSE IF job.op.fid \notin {none, f} THEN "retireOld" ELSE "strm"]
      BY <1>5, <2>2 DEF Upload
    <3>2. node'[f].c = local[path].x
      BY <2>0, <2>2, <3>1, StoredKeeps
    <3>3. job'.fid = f /\ job'.op = job.op
      BY <3>1 DEF Base, Typed, Job
    <3>4. ASSUME NEW v \in VideoPath \ raced', task.toStrm, path = v, ~job.op.video
          PROVE  local[path].x \notin Big
      BY <3>4, <2>0, <2>2 DEF SmallOK, Pending, path
    <3> QED
      BY <1>0, <2>0, <3>2, <3>3, <3>4, SmallStays DEF path
  <2> QED
    BY <2>1, <2>2
<1>6. CASE RetireOld
  <2>1. local' = local /\ index' = index /\ raced' = raced /\ job'.at = "strm"
    BY <1>6, SameJob DEF RetireOld, Same, Goto
  <2> QED
    BY <1>0, <2>1, SmallStays
<1>7. CASE WriteStrm
  <2>1. index' = index /\ raced' = raced /\ job.op.kind \in {"upload", "adopt", "download"} /\ RecordKey \in StrmPath
    BY <1>7 DEF WriteStrm, Same, Base, Stage
  <2>2. \A v \in VideoPath : local'[v] = local[v]
    BY <1>7, <2>1, <1>a DEF WriteStrm, Base, Typed, TypeOK
  <2>3. job'.op = job.op /\ (job'.at = "put" => job.op.kind # "upload")
    BY <1>7, SameJob DEF WriteStrm, Goto
  <2> QED
    BY <1>0, <2>1, <2>2, <2>3, SmallStays
<1>8. CASE RemoveOriginal
  <2>0. PICK calm \in BOOLEAN : job' = [job EXCEPT !.at = "put", !.calm = calm]
    BY <1>8, RemovalIs
  <2>1. index' = index /\ raced' = raced /\ job'.op.video
    BY <1>8, <2>0, RemovalIs, SameJob DEF Base, Stage
  <2>2. \A v \in VideoPath : local'[v] = local[v] \/ ~There(v)'
    <3>1. local' = local \/ local' = [local EXCEPT ![path] = Nothing]
      BY <1>8, RemovalIs
    <3>2. Nothing.k = "none"
      BY DEF Nothing
    <3> QED
      BY <1>a, <3>1, <3>2 DEF There, Base, Typed, TypeOK
  <2> QED
    BY <1>0, <2>1, <2>2, SmallStays
<1>9. CASE Adopt
  <2>1. local' = local /\ index' = index /\ raced' = raced /\ job'.at = "strm"
    BY <1>9, SameJob DEF Adopt, Same
  <2> QED
    BY <1>0, <2>1, SmallStays
<1>10. CASE Refused
  <2>1. local' = local /\ index' = index /\ raced' = raced /\ job'.at # "put"
    BY <1>10, <1>b DEF Refused, Same
  <2> QED
    BY <1>0, <2>1, SmallStays
<1>11. CASE Download
  <2>1. index' = index /\ raced' = raced /\ job.at = "download" /\ job.op.kind = "download"
    BY <1>11 DEF Download, Same, Base, Stage, Kind
  <2>2. \A v \in VideoPath : task.toStrm => local'[v] = local[v]
    BY <1>11, <2>1, <1>a, <1>c DEF Download, Base, Typed, TypeOK
  <2>3. job'.at # "put"
    BY <1>11, SameJob DEF Download
  <2> QED
    BY <1>0, <2>1, <2>2, <2>3, SmallStays
<1>12. CASE Copy
  <2>1. index' = index /\ raced' = raced /\ job.at = "copy" /\ job.op.kind = "download"
    BY <1>12 DEF Copy, Same, Base, Stage
  <2>2. \A v \in VideoPath : task.toStrm => local'[v] = local[v]
    BY <1>12, <2>1, <1>a, <1>c DEF Copy, Base, Typed, TypeOK
  <2>3. job'.op = job.op
    BY <1>12, SameJob DEF Copy, Goto
  <2> QED
    BY <1>0, <2>1, <2>2, <2>3, SmallStays
<1>13. CASE PutRecord
  <2>1. local' = local /\ raced' = raced /\ job'.at # "put" /\ task' = task /\ node' = node /\ job.at = "put"
    BY <1>13, <1>b DEF PutRecord, RecordAs, Same
  <2>2. job.op.kind \in {"upload", "adopt", "download"} /\ job.op \in Operation /\ OpOK(job.op)
    BY <2>1, InOp DEF Base, Stage
  <2>3. ASSUME NEW v \in VideoPath \ raced', task.toStrm
        PROVE  index'[v] = index[v] \/ node'[index'[v].fid].c \notin Big
    <3>1. CASE RecordKey # v
      BY <1>13, <3>1, <1>a DEF PutRecord, RecordAs, Base, Typed, TypeOK
    <3>2. CASE RecordKey = v
      <4>1. path = v /\ ~(job.op.kind = "upload" /\ job.op.video)
        BY <3>2, <1>a, <2>2, Names DEF RecordKey, OpOK, path
      <4>2. job.op.kind = "upload" /\ ~job.op.video
        BY <2>2, <2>3, <4>1, NoVideoFetched DEF path
      <4>3. node[job.fid].c \notin Big
        BY <2>1, <2>3, <4>1, <4>2 DEF SmallOK
      <4>4. index'[v].fid = job.fid
        BY <1>13, <3>2, <1>a DEF PutRecord, RecordAs, Base, Typed, TypeOK
      <4> QED
        BY <2>1, <4>3, <4>4
    <3> QED
      BY <3>1, <3>2
  <2> QED
    BY <1>0, <2>1, <2>3, SmallStays
<1>14. CASE Fails
  <2>1. index' = index /\ raced' = raced /\ job'.at # "put"
    BY <1>14, <1>b DEF Fails
  <2>2. \A v \in VideoPath : local'[v] = local[v] \/ ~There(v)'
    BY <1>14, <1>a DEF Fails, There, Nothing, Base, Typed, TypeOK
  <2> QED
    BY <1>0, <2>1, <2>2, SmallStays
<1>15. CASE AnswerLost
  <2>1. local' = local /\ index' = index /\ raced' = raced /\ job'.at # "put"
    BY <1>15, <1>b DEF AnswerLost
  <2> QED
    BY <1>0, <2>1, SmallStays
<1>16. CASE CutOff
  <2>1. local' = local /\ index' = index /\ raced' = raced /\ job'.at # "put"
    BY <1>16 DEF CutOff, Idle
  <2> QED
    BY <1>0, <2>1, SmallStays
<1>17. CASE \E p \in Path : \E c \in Comes[p] : AddInCloud(p, c)
  <2>1. local' = local /\ index' = index /\ raced' = raced
        /\ job'.at = job.at /\ job'.op = job.op /\ job'.fid = job.fid
    BY <1>17 DEF AddInCloud, Disturbed, Base, Typed, Job
  <2> QED
    BY <1>0, <2>1, SmallStays
<1>18. CASE \E p \in Path : Delete(p) \/ \E c \in Comes[p] : Write(p, c)
  <2>1. PICK p \in Path : Delete(p) \/ \E c \in Comes[p] : Write(p, c)
    BY <1>18
  <2>2. /\ index' = index /\ job'.at = job.at /\ job'.op = job.op /\ job'.fid = job.fid /\ job'.ops = job.ops
        /\ raced' = IF Idly(p) THEN raced ELSE raced \cup Family(p)
        /\ \A v \in VideoPath : v # p => local'[v] = local[v]
    BY <2>1, <1>a DEF Delete, Write, Edited, Disturbed, Base, Typed, TypeOK, Job
  <2>3. ASSUME NEW v \in VideoPath \ raced', v = p, NEW o \in Pending', o.path = v PROVE FALSE
    BY <2>2, <2>3 DEF Idly, Family, Pending
  <2> QED
    BY <1>0, <2>2, <2>3, SmallStays
<1> QED
  BY <1>1, <1>2, <1>3, <1>4, <1>5, <1>6, <1>7, <1>8, <1>9, <1>10, <1>11, <1>12, <1>13, <1>14, <1>15, <1>16,
     <1>17, <1>18 DEF JobStep

(* The plans.                                                              *)
LEMMA PlanRun ==
    ASSUME KeepInv, Forward, RunUpload \/ RunDownload
    PROVE  PlanOK'
<1>1. PICK scope \in {"up", "down"}, ops \in SUBSET Operation :
          Run(scope, ops) /\ (ops = PlanLocal \/ ops = PlanCloud)
  BY PlansAreOK DEF RunUpload, RunDownload, KeepInv
<1>2. /\ written' = written /\ torn' = torn /\ raced' = raced /\ rivals' = rivals \cup Rivals(ops)
      /\ Pending' = ops \cup {NoOp} /\ Exempt \subseteq Exempt'
  BY <1>1, RunIs DEF Pending, Exempt, KeepInv
<1>3. NoOp.kind = "none" /\ ~NoOp.video /\ NoOp.path = none
  BY NoOpIsNone
<1>4. ASSUME NEW o \in ops, o.path \in Path, written[o.path] # none, o.path \notin Exempt
      PROVE  (o.video => written[o.path] \in Big) /\ o.kind # "download"
  <2> DEFINE p == o.path
  <2>1. AtHome(p) \/ \E f \in Fid : Away(p, f)
    BY <1>4 DEF KeepInv, WrittenOK
  <2>2. ASSUME o.video PROVE written[p] \in Big
    <3>1. local[p].k = "file" /\ local[p].x \in Big
      BY <1>1, <2>2, PlansAreOfOneSide DEF KeepInv
    <3> QED
      BY <2>1, <3>1 DEF AtHome, Away, File, Nothing
  <2>3. ASSUME o.kind = "download" PROVE FALSE
    <3>1. ~There(p) /\ o \in Operation /\ OpOK(o)
      BY <1>1, <2>3, PlansAreOfOneSide, PlansAreOK DEF KeepInv
    <3>2. CASE AtHome(p)
      BY <3>1, <3>2 DEF AtHome, There, File
    <3>3. CASE \E f \in Fid : Away(p, f)
      BY <3>1, <3>3, <2>3, NoVideoFetched DEF Away, KeepInv
    <3> QED
      BY <2>1, <3>2, <3>3
  <2> QED
    BY <2>2, <2>3
<1>5. ASSUME NEW o \in ops, NEW q \in ops, o.video, q.kind = "adopt", q.path = StrmOf[o.path]
      PROVE  o.path \in Rivals(ops)
  <2>1. o.path \in VideoPath
    BY <1>1, <1>5, PlansAreOK DEF OpOK, KeepInv
  <2> QED
    BY <1>5, <2>1 DEF Rivals
<1>6. ASSUME NEW o \in ops, NEW q \in ops PROVE ~(o.kind = "upload" /\ q.kind = "download")
  BY <1>1, PlansAreOfOneSide DEF KeepInv
<1> QED
  BY <1>2, <1>3, <1>4, <1>5, <1>6 DEF PlanOK

LEMMA PlanNext ==
    ASSUME Base, PlanOK,
           \/ InitTask \/ JobStep \/ Fails \/ AnswerLost \/ CutOff
           \/ \E p \in Path : Delete(p) \/ \E c \in Comes[p] : AddInCloud(p, c) \/ Write(p, c)
    PROVE  PlanOK'
<1>0. KeepsNames /\ Pending' \subseteq Pending \cup {NoOp}
  BY StepKeeps
<1>1. CASE InitTask \/ JobStep \/ Fails \/ AnswerLost \/ CutOff
           \/ \E p \in Path : \E c \in Comes[p] : AddInCloud(p, c)
  <2>1. written' = written
    BY <1>1 DEF InitTask, JobStep, NextOp, history, ClearNode, ClearTree, Upload, RetireOld, WriteStrm,
                RemoveOriginal, Adopt, Refused, Download, Copy, PutRecord, RecordAs, Same, Fails, AnswerLost,
                CutOff, AddInCloud
  <2>2. torn \subseteq torn' /\ raced \subseteq raced' /\ rivals \subseteq rivals'
    BY <1>1 DEF InitTask, JobStep, NextOp, history, ClearNode, ClearTree, Upload, RetireOld, WriteStrm,
                RemoveOriginal, Adopt, Refused, Download, Copy, PutRecord, RecordAs, Same, Fails, AnswerLost,
                CutOff, AddInCloud
  <2> QED
    BY <1>0, <2>1, <2>2, PlanStays DEF Exempt
<1>2. CASE \E p \in Path : Delete(p)
  <2>1. torn \subseteq torn' /\ raced \subseteq raced' /\ rivals \subseteq rivals'
        /\ \A p \in Path : written'[p] \in {written[p], none}
    BY <1>2 DEF Delete, Edited
  <2> QED
    BY <1>0, <2>1, PlanStays DEF Exempt
<1>3. CASE \E p \in Path : \E c \in Comes[p] : Write(p, c)
  <2>1. PICK p \in Path : \E c \in Comes[p] : Write(p, c)
    BY <1>3
  <2>2. torn \subseteq torn' /\ raced \subseteq raced' /\ rivals \subseteq rivals'
    BY <2>1 DEF Write, Edited
  <2>3. CASE job.at = "idle"
    <3>1. Pending = {NoOp}
      BY <2>3 DEF Base, Stage, Pending
    <3>2. Pending' \subseteq {NoOp}
      BY <1>0, <3>1
    <3> QED
      BY <3>2, NoOpIsNone, Names DEF PlanOK
  <2>4. CASE job.at # "idle"
    <3>1. \A q \in Path : written'[q] \in {written[q], none}
      BY <2>1, <2>4 DEF Write
    <3> QED
      BY <1>0, <2>2, <3>1, PlanStays DEF Exempt
  <2> QED
    BY <2>3, <2>4
<1> QED
  BY <1>1, <1>2, <1>3

(* Where the content is.                                                   *)
Safe(p) == AtHome(p) \/ \E f \in Fid : Away(p, f)

LEMMA AwayIs ==
    ASSUME Base, Forward, NEW p \in Path, NEW f \in Fid, Away(p, f)
    PROVE  /\ p \in VideoPath /\ p \in Name /\ p \notin StrmPath /\ StrmOf[p] \in StrmPath /\ StrmOf[p] \in Path
           /\ StrmOf[p] \notin Name /\ ~There(p) /\ There(StrmOf[p]) /\ task.toStrm /\ task.toStrmDl
           /\ node[f].place # "none" /\ SavePath(f) = StrmOf[p]
  BY Names DEF Away, Name, There, Nothing, Strm, Forward, Base, Typed, TypeOK, SavePath

LEMMA HomeIs ==
    ASSUME Base, NEW p \in Path, AtHome(p)
    PROVE  p \in Name /\ p \notin StrmPath /\ There(p) /\ local[p].k = "file"
  BY DEF AtHome, Base, LocalOK, There, File, Name

LEMMA SafeInitTask ==
    ASSUME KeepInv, Base', Forward, InitTask, NEW p \in Path \ Exempt', Safe(p)
    PROVE  Safe(p)'
<1>1. local' = local /\ node' = node /\ job' = job /\ written' = written /\ task' = task
  BY DEF InitTask
<1>2. KeepsNames /\ Base
  BY <1>1, SameNodes DEF KeepInv
<1>3. CASE AtHome(p)
  BY <1>1, <1>2, <1>3, AtHomeStays DEF Safe
<1>4. ASSUME NEW f \in Fid, Away(p, f) PROVE Away(p, f)'
  <2> DEFINE s == StrmOf[p]
  <2>1. s \in Path /\ p \in VideoPath
    BY <1>2, <1>4, AwayIs
  <2>2. CASE index' = index
    BY <1>1, <2>2, <1>4 DEF Away, Has, path, Pending
  <2>3. CASE rivals' = rivals \cup Outvoted(index')
    <3>1. index'[s].fid \in {none, f}
      BY <2>1, <2>3, <1>1, <1>4 DEF Outvoted, Exempt, Away, Strm
    <3>2. ~Has(s)' \/ index'[s].fid = f
      BY <2>1, <3>1, Names DEF Base, RecordOK
    <3> QED
      BY <1>1, <3>2, <1>4 DEF Away, path, Pending
  <2> QED
    BY <2>2, <2>3 DEF InitTask
<1> QED
  BY <1>3, <1>4 DEF Safe

LEMMA SafeRun ==
    ASSUME KeepInv, Base', Forward, RunUpload \/ RunDownload, NEW p \in Path \ Exempt', Safe(p)
    PROVE  Safe(p)'
<1>0. Base
  BY DEF KeepInv
<1>1. PICK scope \in {"up", "down"}, ops \in SUBSET Operation :
          Run(scope, ops) /\ (ops = PlanLocal \/ ops = PlanCloud)
  BY <1>0, PlansAreOK DEF RunUpload, RunDownload
<1>2. /\ KeepsNames /\ node' = node /\ index' = index /\ local' = local /\ written' = written /\ task' = task
      /\ job'.op = NoOp /\ job'.at \in {"idle", "next"} /\ job'.ops = ops /\ job.op = NoOp /\ job.at = "idle"
      /\ raced' = raced
  BY <1>0, <1>1, RunIs
<1>3. CASE AtHome(p)
  BY <1>0, <1>2, <1>3, AtHomeStays DEF Safe
<1>4. ASSUME NEW f \in Fid, Away(p, f) PROVE Away(p, f)'
  <2> DEFINE s == StrmOf[p]
  <2>1. /\ s \in Path /\ p \in VideoPath /\ p \in Path /\ task.toStrm /\ There(s) /\ SavePath(f) = s /\ p \notin raced
        /\ node[f].name = p /\ node[f].c \in Big
    BY <1>0, <1>2, <1>4, AwayIs DEF Exempt, Away
  <2>2. ~Has(s) \/ index[s].fid = f
    BY <1>2, <1>4 DEF Away
  <2>3. ASSUME NEW o \in ops
        PROVE  /\ o.kind = "drop" => o.fid # f
               /\ o.path = s => o.kind # "download" /\ (o.kind = "adopt" => o.fid = f)
    <3>1. CASE o \in PlanLocal
      <4>1. ASSUME o.kind = "drop", o.fid = f PROVE FALSE
        <5>1. Has(o.path) /\ index[o.path].kind # "strm" /\ index[o.path].fid = f /\ o.path \in Path
          BY <1>0, <3>1, <4>1, PlansAreOfOneSide, PlansAreOK DEF Operation
        <5>2. index[o.path].kind = "file"
          BY <1>0, <5>1 DEF Base, RecordOK, Typed, TypeOK
        <5>3. o.path = p
          BY <1>0, <5>1, <5>2, <2>1 DEF Base, RecordOK
        <5> QED
          BY <5>1, <5>2, <5>3, <2>1 DEF KeepInv, SmallOK
      <4>2. o.path = s => o.kind # "download" /\ (o.kind = "adopt" => o.fid = f)
        BY <1>0, <3>1, <1>4, PlansAreOfOneSide DEF Away, Strm
      <4> QED
        BY <4>1, <4>2
    <3>2. CASE o \in PlanCloud
      <4>1. /\ o.kind \in {"drop", "download"}
            /\ o.path = SavePath(o.fid) /\ o.fid \in Fid
            /\ o.kind = "download" => ~There(o.path)
            /\ o.kind = "drop" => Stale(o.fid)
        BY <1>0, <3>2, PlansAreOfOneSide
      <4> QED
        BY <4>1, <2>1, <2>2 DEF Stale
    <3> QED
      BY <1>1, <3>1, <3>2
  <2>4. \A o \in Pending' :
          /\ o.kind = "drop" => o.fid # f
          /\ o.path = s => o.kind # "download" /\ (o.kind = "adopt" => o.fid = f)
    BY <1>2, <2>3, NoOpIsNone DEF Pending
  <2>5. (~Has(s)' \/ index'[s].fid = f) /\ job'.op.kind # "upload"
    BY <1>2, <2>2, NoOpIsNone DEF Has
  <2> QED
    BY <1>2, <1>4, <2>4, <2>5 DEF Away
<1> QED
  BY <1>3, <1>4 DEF Safe

(* A step of an operation that moves no file and records nothing.          *)
LEMMA SafeStep ==
    ASSUME KeepInv, KeepsNames, Pending' \subseteq Pending \cup {NoOp}, local' = local, written' = written,
           NEW p \in Path, Safe(p),
           \A f \in Fid : Away(p, f) =>
              /\ node'[f].place \in {"root", "temp"}
              /\ index'[StrmOf[p]] = index[StrmOf[p]] \/ ~Has(StrmOf[p])' \/ index'[StrmOf[p]].fid = f
              /\ path = p /\ job.at = "put" =>
                    index'[StrmOf[p]].fid = f \/ (job'.op = job.op /\ job'.at = "put" /\ job'.fid = job.fid)
              /\ job'.op.path = p /\ job'.op.kind = "upload" =>
                    job'.at = "upload" \/ (job'.op = job.op /\ job'.at = job.at /\ job'.fid = job.fid),
           AtHome(p) =>
              \/ job'.op = NoOp
              \/ job'.op = job.op /\ job'.at = job.at /\ job'.fid = job.fid
              \/ job'.op.path # p
              \/ ~job'.op.video /\ job'.at # "remove"
              \/ job'.at = "upload"
    PROVE  Safe(p)'
<1>0. Base
  BY DEF KeepInv
<1>1. CASE AtHome(p)
  <2>1. CASE job'.op = NoOp \/ (job'.op = job.op /\ job'.at = job.at /\ job'.fid = job.fid)
    BY <1>0, <1>1, <2>1, AtHomeStays DEF Safe
  <2>2. CASE job'.op.path # p
    BY <1>1, <2>2 DEF Safe, AtHome, path
  <2>3. CASE ~job'.op.video /\ job'.at # "remove"
    BY <1>1, <2>3 DEF Safe, AtHome, path
  <2>4. CASE job'.at = "upload"
    BY <1>1, <2>4 DEF Safe, AtHome, path
  <2> QED
    BY <1>1, <2>1, <2>2, <2>3, <2>4
<1>2. ASSUME NEW f \in Fid, Away(p, f) PROVE Away(p, f)'
  BY <1>0, <1>2, AwayStays
<1> QED
  BY <1>1, <1>2 DEF Safe

LEMMA SafeNextOp ==
    ASSUME KeepInv, NextOp, NEW p \in Path, Safe(p)
    PROVE  Safe(p)'
<1>0. Base /\ KeepsNames /\ Pending' \subseteq Pending \cup {NoOp}
  BY StepKeeps DEF KeepInv, JobStep
<1>1. job.at = "next" /\ local' = local /\ node' = node /\ index' = index /\ written' = written
  BY DEF NextOp, history
<1>2. PICK o \in job.ops : job' = [job EXCEPT !.at = o.kind, !.op = o, !.ops = @ \ {o}]
  BY DEF NextOp, Soonest
<1>3. job'.op = o /\ job'.at = o.kind /\ o \in Operation /\ o # NoOp
  BY <1>0, <1>2, NoOpIsNone DEF Base, Typed, Job
<1>4. OpOK(o) /\ o.kind # "remove"
  BY <1>0, <1>2, <1>3 DEF Base, Pending, Operation, Kind
<1>5. o.video => o.kind = "upload"
  BY <1>4 DEF OpOK
<1> QED
  BY <1>0, <1>1, <1>3, <1>4, <1>5, SafeStep DEF Away

LEMMA SafeClearNode ==
    ASSUME KeepInv, ClearNode, NEW p \in Path, Safe(p)
    PROVE  Safe(p)'
<1>0. Base /\ KeepsNames /\ Pending' \subseteq Pending \cup {NoOp}
  BY StepKeeps DEF KeepInv, JobStep
<1>1. /\ job.at \in {"retire", "drop"} /\ job.op.kind = job.at /\ local' = local /\ index' = index
      /\ written' = written /\ task' = task /\ job' = [job EXCEPT !.at = "clear"]
  BY <1>0 DEF ClearNode, Same, Goto, Base, Stage, Kind
<1>2. job'.op = job.op /\ job'.at = "clear" /\ ~job.op.video
  BY <1>0, <1>1, SameJob, InOp DEF OpOK
<1>3. PICK f \in Fid : f = job.op.fid /\ node' = Moved(f, IF job.at = "drop" THEN "gone" ELSE "temp")
  BY <1>0, <1>1, InOp DEF ClearNode, OpOK
<1>4. ASSUME NEW g \in Fid, Away(p, g) PROVE node'[g].place \in {"root", "temp"}
  <2>1. CASE job.at = "drop"
    <3>1. g # f
      BY <1>1, <1>3, <1>4, <2>1 DEF Away, Pending
    <3> QED
      BY <1>0, <1>1, <1>3, <1>4, <2>1, <3>1, MovedKeeps DEF Away
  <2>2. CASE job.at = "retire"
    <3>1. node' = Moved(f, "temp")
      BY <1>3, <2>2
    <3> QED
      BY <1>0, <1>1, <1>4, <3>1, MovedKeeps DEF Away
  <2> QED
    BY <1>1, <2>1, <2>2
<1> QED
  BY <1>0, <1>1, <1>2, <1>4, SafeStep

LEMMA SafeClearTree ==
    ASSUME KeepInv, ClearTree, NEW p \in Path, Safe(p)
    PROVE  Safe(p)'
<1>0. Base /\ KeepsNames /\ Pending' \subseteq Pending \cup {NoOp}
  BY StepKeeps DEF KeepInv, JobStep
<1>1. job.at = "clear" /\ local' = local /\ node' = node /\ written' = written
      /\ index' = [index EXCEPT ![path] = NoRecord]
  BY DEF ClearTree, Same
<1>2. job'.op = NoOp
  BY <1>0, EndedGoesOn DEF ClearTree
<1>3. \A q \in Path : index'[q] = index[q] \/ ~Has(q)'
  BY <1>0, <1>1 DEF Has, Base, Typed, TypeOK
<1>4. ASSUME NEW f \in Fid, Away(p, f) PROVE StrmOf[p] \in Path /\ node'[f].place \in {"root", "temp"}
  BY <1>1, <1>4, MirrorBothAssumption DEF Away
<1> QED
  BY <1>0, <1>1, <1>2, <1>3, <1>4, NoOpIsNone, SafeStep

(* Sending another file does not touch the node.                           *)
LEMMA StoredElsewhere ==
    ASSUME Base, task' = task, path \in Name, There(path), NEW g \in Fid, Stored(g),
           NEW p \in Path, NEW f \in Fid, Away(p, f)
    PROVE  node'[f].place \in {"root", "temp"}
<1>1. node[g].place = "none" \/ node'[g] = node[g]
  BY StoredKeeps
<1>2. \A h \in Fid : h # g => node'[h] = node[h]
  BY StoredKeeps
<1> QED
  BY <1>1, <1>2 DEF Away

LEMMA SafeUpload ==
    ASSUME KeepInv, Upload, NEW p \in Path, Safe(p)
    PROVE  Safe(p)'
<1>0. Base /\ KeepsNames /\ Pending' \subseteq Pending \cup {NoOp}
  BY StepKeeps DEF KeepInv, JobStep
<1>1. /\ job.at = "upload" /\ local' = local /\ index' = index /\ written' = written /\ task' = task
      /\ job.op.kind = "upload" /\ path \in Name
  BY <1>0, InOp DEF Upload, Same, Base, Stage, OpOK, Kind, path
<1>2. CASE ~There(path)
  <2>1. job'.op = NoOp /\ node' = node
    BY <1>0, <1>2, EndedGoesOn DEF Upload
  <2> QED
    BY <1>0, <1>1, <2>1, NoOpIsNone, SafeStep DEF Away
<1>3. CASE There(path)
  <2>1. PICK f \in Fid :
          /\ Stored(f)
          /\ job' = [job EXCEPT !.fid = f,
                       !.calm = @ /\ (Twins # {} => f \in Twins),
                       !.at = IF ~job.op.video THEN "put"
                              ELSE IF job.op.fid \notin {none, f} THEN "retireOld" ELSE "strm"]
    BY <1>3 DEF Upload
  <2>2. job'.op = job.op /\ job'.fid = f /\ job'.at \in {"put", "retireOld", "strm"}
        /\ (job'.at = "put" => ~job.op.video)
    BY <1>0, <2>1 DEF Base, Typed, Job
  <2>3. node'[f].c = local[path].x
    BY <1>0, <1>1, <1>3, <2>1, StoredKeeps
  <2>4. CASE AtHome(p)
    BY <1>1, <2>2, <2>3, <2>4 DEF Safe, AtHome, path, File
  <2>5. ASSUME NEW g \in Fid, Away(p, g) PROVE Away(p, g)'
    <3>1. path # p
      BY <1>3, <2>5 DEF There, Away, Nothing
    <3>2. node'[g].place \in {"root", "temp"}
      BY <1>0, <1>1, <1>3, <2>1, <2>5, StoredElsewhere
    <3> QED
      BY <1>0, <1>1, <2>2, <2>5, <3>1, <3>2, AwayStays DEF path
  <2> QED
    BY <2>4, <2>5 DEF Safe
<1> QED
  BY <1>2, <1>3

LEMMA SafeRetireOld ==
    ASSUME KeepInv, RetireOld, NEW p \in Path, Safe(p)
    PROVE  Safe(p)'
<1>0. Base /\ KeepsNames /\ Pending' \subseteq Pending \cup {NoOp}
  BY StepKeeps DEF KeepInv, JobStep
<1>1. /\ job.at = "retireOld" /\ local' = local /\ index' = index /\ written' = written /\ task' = task
      /\ job' = [job EXCEPT !.at = "strm"] /\ job.op.video /\ job.op.kind = "upload" /\ job.fid \in Fid
  BY <1>0, InOp DEF RetireOld, Same, Goto, Base, Stage, OpOK
<1>2. job'.op = job.op /\ job'.at = "strm" /\ job'.fid = job.fid
  BY <1>0, <1>1 DEF Base, Typed, Job
<1>3. PICK g \in Fid : node' = Moved(g, "temp")
  BY <1>0, <1>1 DEF RetireOld, Base, Stage
<1>4. \A f \in Fid : node[f].place \in {"root", "temp"} => node'[f].place \in {"root", "temp"}
  BY <1>0, <1>1, <1>3, MovedKeeps
<1>5. CASE AtHome(p)
  <2>1. node'[job.fid].c = node[job.fid].c
    BY <1>0, <1>1, <1>3, MovedKeeps
  <2> QED
    BY <1>1, <1>2, <1>5, <2>1 DEF Safe, AtHome, path
<1>6. ASSUME NEW f \in Fid, Away(p, f) PROVE Away(p, f)'
  <2>1. path # p
    BY <1>1, <1>6 DEF Away
  <2>2. node'[f].place \in {"root", "temp"}
    BY <1>4, <1>6 DEF Away
  <2> QED
    BY <1>0, <1>1, <1>2, <1>6, <2>1, <2>2, AwayStays DEF path
<1> QED
  BY <1>5, <1>6 DEF Safe

(* The .strm of another video is another one.                              *)
LEMMA SafeWriteStrm ==
    ASSUME KeepInv, Forward, StrmsDiffer, WriteStrm, NEW p \in Path, Safe(p)
    PROVE  Safe(p)'
<1>0. Base /\ KeepsNames /\ Pending' \subseteq Pending \cup {NoOp}
  BY StepKeeps DEF KeepInv, JobStep
<1>1. /\ job.at = "strm" /\ node' = node /\ index' = index /\ written' = written
      /\ local' = [local EXCEPT ![RecordKey] = Strm(job.fid)]
      /\ job.op.kind \in {"upload", "adopt", "download"} /\ RecordKey \in StrmPath /\ RecordKey \in Path
      /\ job.op \in Operation /\ OpOK(job.op)
  BY <1>0, InOp DEF WriteStrm, Same, Base, Stage
<1>2. /\ job'.op = job.op /\ job'.fid = job.fid /\ job'.at = IF job.op.kind = "upload" THEN "remove" ELSE "put"
  BY <1>0 DEF WriteStrm, Goto, Base, Typed, Job
<1>3. /\ local'[RecordKey] = Strm(job.fid)
      /\ \A q \in Path : q # RecordKey => local'[q] = local[q]
  BY <1>0, <1>1 DEF Base, Typed, TypeOK
<1>4. job.op.kind = "upload" => job.op.video /\ RecordKey = StrmOf[path] /\ path \in VideoPath
  BY <1>1 DEF RecordKey, OpOK, Name, path
<1>5. job.op.video => job.op.kind = "upload"
  BY <1>1 DEF OpOK
<1>6. CASE AtHome(p)
  <2>1. local'[p] = local[p]
    BY <1>0, <1>1, <1>3, <1>6, HomeIs
  <2> QED
    BY <1>1, <1>2, <1>3, <1>4, <1>5, <1>6, <2>1 DEF Safe, AtHome, path
<1>7. ASSUME NEW f \in Fid, Away(p, f) PROVE Away(p, f)'
  <2>0. /\ p \in VideoPath /\ p \notin StrmPath /\ StrmOf[p] \in Path
    BY <1>0, <1>7, AwayIs
  <2>1. ~(path = p /\ job.op.kind = "upload")
    BY <1>1, <1>7 DEF Away
  <2>2. local'[StrmOf[p]] = local[StrmOf[p]]
    <3>1. CASE RecordKey # StrmOf[p]
      BY <1>3, <2>0, <3>1
    <3>2. CASE RecordKey = StrmOf[p]
      <4>1. job.op.kind # "upload"
        BY <1>4, <2>0, <2>1, <3>2 DEF StrmsDiffer
      <4>2. job.op.path = StrmOf[p] /\ job.op \in Pending
        BY <3>2, <4>1 DEF RecordKey, path, Pending
      <4>3. job.op.kind = "adopt" /\ job.op.fid = f
        BY <1>1, <1>7, <4>1, <4>2 DEF Away
      <4>4. job.fid = f
        BY <1>0, <1>1, <4>3 DEF Base, Stage
      <4> QED
        BY <1>3, <1>7, <3>2, <4>4 DEF Away
    <3> QED
      BY <3>1, <3>2
  <2>3. local'[p] = local[p]
    BY <1>1, <1>3, <2>0
  <2>4. node'[f].place \in {"root", "temp"}
    BY <1>1, <1>7 DEF Away
  <2> QED
    BY <1>0, <1>1, <1>2, <1>7, <2>1, <2>2, <2>3, <2>4, AwayStays DEF path
<1> QED
  BY <1>6, <1>7 DEF Safe

(* The original goes: its content is in the cloud by then.                 *)
LEMMA SafeRemoveOriginal ==
    ASSUME KeepInv, Forward, RemoveOriginal, NEW p \in Path \ Exempt, written[p] # none, Safe(p)
    PROVE  Safe(p)'
<1>0. Base /\ KeepsNames /\ Pending' \subseteq Pending \cup {NoOp}
  BY StepKeeps DEF KeepInv, JobStep
<1>b. PICK calm \in BOOLEAN : job' = [job EXCEPT !.at = "put", !.calm = calm]
  BY <1>0, RemovalIs
<1>1. /\ job.at = "remove" /\ node' = node /\ index' = index /\ written' = written /\ task' = task
      /\ (local' = local \/ local' = [local EXCEPT ![path] = Nothing]) /\ job.op.video /\ job.op.kind = "upload"
      /\ path \in VideoPath /\ task.toStrm /\ job.fid \in Fid /\ job.op \in Pending
      /\ node[job.fid].place = "root" /\ node[job.fid].name = path
  BY <1>0, InOp, RemovalIs DEF Base, Stage, OpOK, Pending, path
<1>2. job'.op = job.op /\ job'.at = "put" /\ job'.fid = job.fid /\ job'.ops = job.ops
  BY <1>0, <1>b DEF Base, Typed, Job
<1>3. path \in Path /\ path \in Name /\ StrmOf[path] \in StrmPath /\ StrmOf[path] # path
  BY <1>1, Names DEF Name
<1>4. (local' = local \/ local'[path] = Nothing) /\ \A q \in Path : q # path => local'[q] = local[q]
  BY <1>0, <1>1, <1>3 DEF Base, Typed, TypeOK
<1>5. CASE AtHome(p) /\ (path # p \/ local' = local)
  <2>1. local'[p] = local[p]
    BY <1>4, <1>5
  <2> QED
    BY <1>1, <1>2, <1>5, <2>1 DEF Safe, AtHome, path
<1>6. CASE AtHome(p) /\ path = p /\ local' # local
  <2>1. PICK f \in Fid : f = job.fid
    BY <1>1
  <2>2. p \notin rivals /\ p \notin Exempt
    BY DEF Exempt
  <2>3. written[p] \in Big
    BY <1>1, <1>6, <2>2 DEF KeepInv, PlanOK, path
  <2>4. node[f].c = written[p] /\ local[StrmOf[p]] = Strm(f)
    BY <1>1, <1>6, <2>1 DEF AtHome
  <2>5. ASSUME NEW o \in Pending
        PROVE  o.kind # "drop" /\ (o.path = StrmOf[p] => o.kind \notin {"download", "adopt"})
    <3>1. o.kind # "drop"
      BY <1>0, <1>1, <2>5 DEF Base, Stage, Pending
    <3>2. o.kind # "download"
      BY <1>1, <2>5 DEF KeepInv, PlanOK
    <3>3. ASSUME o.path = StrmOf[p], o.kind = "adopt" PROVE FALSE
      <4>1. job.op.path = p
        BY <1>6 DEF path
      <4> QED
        BY <1>1, <2>2, <2>5, <3>3, <4>1 DEF KeepInv, PlanOK
    <3> QED
      BY <3>1, <3>2, <3>3
  <2>6. Pending' = Pending
    BY <1>2 DEF Pending
  <2>7. local'[p] = Nothing /\ local'[StrmOf[p]] = Strm(f) /\ path' = p /\ job'.op.video /\ p \in VideoPath
        /\ task' = task /\ node[f].name = p /\ node[f].place = "root"
    BY <1>1, <1>2, <1>3, <1>4, <1>6, <2>1, <2>4, Names DEF path
  <2>8. Away(p, f)'
    BY <1>1, <1>2, <2>1, <2>3, <2>4, <2>5, <2>6, <2>7 DEF Away
  <2> QED
    BY <2>8 DEF Safe
<1>7. ASSUME NEW f \in Fid, Away(p, f) PROVE Away(p, f)'
  <2>1. path # p
    BY <1>1, <1>7 DEF Away
  <2>2. StrmOf[p] \in Path /\ StrmOf[p] # path
    BY <1>0, <1>3, <1>7, AwayIs
  <2> QED
    BY <1>0, <1>1, <1>2, <1>4, <1>7, <2>1, <2>2, AwayStays DEF path, Away
<1> QED
  BY <1>5, <1>6, <1>7 DEF Safe

LEMMA SafeAdopt ==
    ASSUME KeepInv, Adopt, NEW p \in Path, Safe(p)
    PROVE  Safe(p)'
<1>0. Base /\ KeepsNames /\ Pending' \subseteq Pending \cup {NoOp}
  BY StepKeeps DEF KeepInv, JobStep
<1>1. /\ job.at = "adopt" /\ local' = local /\ index' = index /\ written' = written /\ task' = task
      /\ job.op.kind = "adopt" /\ ~job.op.video /\ job.op.fid \in Fid
  BY <1>0, InOp DEF Adopt, Same, Base, Stage, OpOK, Kind
<1>2. job'.op = job.op /\ job'.at = "strm"
  BY <1>0 DEF Adopt, Base, Typed, Job
<1>3. PICK g \in Fid : node' = Moved(g, "root")
  BY <1>1 DEF Adopt
<1>4. \A f \in Fid : node[f].place \in {"root", "temp"} => node'[f].place \in {"root", "temp"}
  BY <1>0, <1>1, <1>3, MovedKeeps
<1>5. \A f \in Fid : Away(p, f) => node'[f].place \in {"root", "temp"}
  BY <1>4 DEF Away
<1> QED
  BY <1>0, <1>1, <1>2, <1>5, SafeStep

LEMMA SafeRefused ==
    ASSUME KeepInv, Refused, NEW p \in Path, Safe(p)
    PROVE  Safe(p)'
<1>0. Base /\ KeepsNames /\ Pending' \subseteq Pending \cup {NoOp}
  BY StepKeeps DEF KeepInv, JobStep
<1>1. job.at # "put" /\ local' = local /\ node' = node /\ index' = index /\ written' = written
  BY DEF Refused, Same
<1>2. job'.op = NoOp
  BY <1>0, EndedGoesOn DEF Refused
<1> QED
  BY <1>0, <1>1, <1>2, NoOpIsNone, SafeStep DEF Away

(* What is fetched is not for a path where the content is, nor for its     *)
(* .strm.                                                                  *)
LEMMA FetchedElsewhere ==
    ASSUME KeepInv, Forward, job.op.kind = "download", job.at \notin {"idle", "next"},
           NEW p \in Path \ Exempt, written[p] # none, Safe(p)
    PROVE  path # p /\ ~job.op.video /\ \A f \in Fid : Away(p, f) => path # StrmOf[p]
<1>1. job.op \in Pending /\ job.op \in Operation /\ OpOK(job.op) /\ Base
  BY InOp DEF Pending, KeepInv
<1>2. p \in Path /\ p \notin Exempt
  OBVIOUS
<1>3. path # p
  BY <1>1, <1>2 DEF KeepInv, PlanOK, path
<1>4. \A f \in Fid : Away(p, f) => path # StrmOf[p]
  BY <1>1 DEF Away, path
<1> QED
  BY <1>1, <1>3, <1>4 DEF OpOK

LEMMA SafeDownload ==
    ASSUME KeepInv, Forward, Download \/ Copy, NEW p \in Path \ Exempt, written[p] # none, Safe(p)
    PROVE  Safe(p)'
<1>0. Base /\ KeepsNames /\ Pending' \subseteq Pending \cup {NoOp}
  BY StepKeeps DEF KeepInv, JobStep
<1>1. /\ job.at \in {"download", "copy"} /\ node' = node /\ index' = index /\ written' = written
      /\ job.op.kind = "download"
  BY <1>0 DEF Download, Copy, Same, Base, Stage, Kind
<1>2. job'.op = job.op
  BY <1>0, SameJob DEF Download, Copy, Goto
<1>3. \A q \in Path : q # path => local'[q] = local[q]
  BY <1>0 DEF Download, Copy, Base, Typed, TypeOK
<1>4. path # p /\ ~job.op.video
  BY <1>1, FetchedElsewhere
<1>5. CASE AtHome(p)
  BY <1>1, <1>2, <1>3, <1>4, <1>5 DEF Safe, AtHome, path
<1>6. ASSUME NEW f \in Fid, Away(p, f) PROVE Away(p, f)'
  <2>1. StrmOf[p] \in Path /\ StrmOf[p] # path
    BY <1>0, <1>1, <1>6, FetchedElsewhere, AwayIs
  <2>2. node'[f].place \in {"root", "temp"}
    BY <1>1, <1>6 DEF Away
  <2> QED
    BY <1>0, <1>1, <1>2, <1>3, <1>4, <1>6, <2>1, <2>2, AwayStays DEF path
<1> QED
  BY <1>5, <1>6 DEF Safe

LEMMA SafePutRecord ==
    ASSUME KeepInv, Forward, StrmsDiffer, PutRecord, NEW p \in Path, Safe(p)
    PROVE  Safe(p)'
<1>0. Base /\ KeepsNames /\ Pending' \subseteq Pending \cup {NoOp}
  BY StepKeeps DEF KeepInv, JobStep
<1>1. /\ job.at = "put" /\ node' = node /\ local' = local /\ written' = written
      /\ job.op.kind \in {"upload", "adopt", "download"} /\ RecordKey \in Path
      /\ job.op \in Operation /\ OpOK(job.op) /\ job.op \in Pending
  BY <1>0, InOp DEF PutRecord, RecordAs, Same, Base, Stage, Pending
<1>2. job'.op = NoOp
  BY <1>0, EndedGoesOn DEF PutRecord, RecordAs
<1>3. index'[RecordKey].fid = job.fid /\ \A q \in Path : q # RecordKey => index'[q] = index[q]
  BY <1>0, <1>1 DEF PutRecord, RecordAs, Base, Typed, TypeOK
<1>4. ASSUME NEW f \in Fid, Away(p, f)
      PROVE  /\ index'[StrmOf[p]] = index[StrmOf[p]] \/ index'[StrmOf[p]].fid = f
             /\ path = p => index'[StrmOf[p]].fid = f
             /\ node'[f].place \in {"root", "temp"}
  <2>1. StrmOf[p] \in Path /\ StrmOf[p] \in StrmPath /\ p \in VideoPath /\ p \notin StrmPath
    BY <1>0, <1>4, AwayIs
  <2>2. ASSUME job.op.kind = "upload", path = p PROVE RecordKey = StrmOf[p] /\ job.fid = f
    BY <1>1, <1>4, <2>2 DEF Away, RecordKey
  <2>3. ASSUME RecordKey = StrmOf[p] PROVE job.fid = f
    <3>1. CASE job.op.kind = "upload"
      <4>1. job.op.video /\ path \in VideoPath
        BY <1>1, <2>1, <2>3, <3>1 DEF RecordKey, OpOK, Name, path
      <4>2. path = p
        BY <2>1, <2>3, <3>1, <4>1 DEF RecordKey, StrmsDiffer
      <4> QED
        BY <2>2, <3>1, <4>2
    <3>2. CASE job.op.kind # "upload"
      <4>1. job.op.path = StrmOf[p]
        BY <2>3, <3>2 DEF RecordKey, path
      <4>2. job.op.kind = "adopt" /\ job.op.fid = f
        BY <1>1, <1>4, <3>2, <4>1 DEF Away
      <4> QED
        BY <1>0, <1>1, <4>2 DEF Base, Stage
    <3> QED
      BY <3>1, <3>2
  <2>4. ASSUME path = p PROVE job.op.kind = "upload"
    <3>1. job.op.kind # "adopt"
      BY <1>1, <2>1, <2>4 DEF OpOK, path
    <3>2. job.op.kind # "download"
      BY <1>0, <1>1, <1>4, <2>1, <2>4, NoVideoFetched, AwayIs DEF path
    <3> QED
      BY <1>1, <3>1, <3>2
  <2> QED
    BY <1>1, <1>3, <1>4, <2>1, <2>2, <2>3, <2>4 DEF Away
<1> QED
  BY <1>0, <1>1, <1>2, <1>4, NoOpIsNone, SafeStep

LEMMA SafeFails ==
    ASSUME KeepInv, Forward, Fails, NEW p \in Path \ Exempt, written[p] # none, Safe(p)
    PROVE  Safe(p)'
<1>0. Base /\ KeepsNames /\ Pending' \subseteq Pending \cup {NoOp}
  BY StepKeeps DEF KeepInv
<1>1. /\ job.at # "put" /\ node' = node /\ index' = index /\ written' = written
      /\ local' = IF job.at = "copy" THEN [local EXCEPT ![path] = Nothing] ELSE local
  BY DEF Fails
<1>2. job'.op = NoOp
  BY <1>0, EndedGoesOn DEF Fails
<1>3. CASE job.at # "copy"
  BY <1>0, <1>1, <1>2, <1>3, NoOpIsNone, SafeStep DEF Away
<1>4. CASE job.at = "copy"
  <2>1. job.op.kind = "download"
    BY <1>0, <1>4 DEF Base, Stage
  <2>2. path # p /\ \A f \in Fid : Away(p, f) => path # StrmOf[p]
    BY <1>4, <2>1, FetchedElsewhere
  <2>3. \A q \in Path : q # path => local'[q] = local[q]
    BY <1>0, <1>1 DEF Base, Typed, TypeOK
  <2>4. CASE AtHome(p)
    BY <1>0, <1>1, <1>2, <2>2, <2>3, <2>4, AtHomeStays DEF Safe
  <2>5. ASSUME NEW f \in Fid, Away(p, f) PROVE Away(p, f)'
    <3>1. StrmOf[p] \in Path
      BY <1>0, <2>5, AwayIs
    <3>2. node'[f].place \in {"root", "temp"}
      BY <1>1, <2>5 DEF Away
    <3> QED
      BY <1>0, <1>1, <1>2, <2>2, <2>3, <2>5, <3>1, <3>2, NoOpIsNone, AwayStays
  <2> QED
    BY <2>4, <2>5 DEF Safe
<1> QED
  BY <1>3, <1>4

LEMMA SafeAnswerLost ==
    ASSUME KeepInv, AnswerLost, NEW p \in Path, Safe(p)
    PROVE  Safe(p)'
<1>0. Base /\ KeepsNames /\ Pending' \subseteq Pending \cup {NoOp}
  BY StepKeeps DEF KeepInv
<1>1. /\ path \in Name /\ There(path) /\ task' = task /\ job.at = "upload"
      /\ local' = local /\ index' = index /\ written' = written
  BY <1>0, InOp DEF AnswerLost, Base, Stage, OpOK, Kind, path
<1>2. PICK g \in Fid : Stored(g)
  BY DEF AnswerLost
<1>3. job'.op = NoOp
  BY <1>0, EndedGoesOn DEF AnswerLost
<1>4. \A f \in Fid : Away(p, f) => node'[f].place \in {"root", "temp"}
  BY <1>0, <1>1, <1>2, StoredElsewhere
<1> QED
  BY <1>0, <1>1, <1>3, <1>4, NoOpIsNone, SafeStep

(* A death between the .strm and its record leaves the path torn.          *)
LEMMA SafeCutOff ==
    ASSUME KeepInv, CutOff, NEW p \in Path \ Exempt', Safe(p)
    PROVE  Safe(p)'
<1>0. Base /\ KeepsNames /\ Pending' \subseteq Pending \cup {NoOp}
  BY StepKeeps DEF KeepInv
<1>1. local' = local /\ index' = index /\ written' = written /\ node' = node /\ job'.op = NoOp
  BY DEF CutOff, Idle
<1>2. ~(path = p /\ job.at = "put")
  BY DEF CutOff, Exempt, Family
<1> QED
  BY <1>0, <1>1, <1>2, NoOpIsNone, SafeStep DEF Away

LEMMA SafeAddInCloud ==
    ASSUME KeepInv, NEW q \in Path, NEW c \in Comes[q], AddInCloud(q, c), NEW p \in Path, Safe(p)
    PROVE  Safe(p)'
<1>0. Base /\ KeepsNames /\ Pending' \subseteq Pending \cup {NoOp}
  BY StepKeeps DEF KeepInv
<1>1. local' = local /\ index' = index /\ written' = written
      /\ job'.op = job.op /\ job'.at = job.at /\ job'.fid = job.fid
  BY <1>0 DEF AddInCloud, Disturbed, Base, Typed, Job
<1>2. PICK g \in Fresh : \A f \in Fid : f # g => node'[f] = node[f]
  BY <1>0, AddInCloudBase
<1>3. \A f \in Fid : Away(p, f) => node'[f].place \in {"root", "temp"}
  BY <1>2 DEF Away, Fresh
<1> QED
  BY <1>0, <1>1, <1>3, SafeStep

(* The user changes another path than those of the content and its .strm.  *)
LEMMA SafeEdited ==
    ASSUME KeepInv, NEW q \in Path, NEW what, Edited(q, what), KeepsNames, Pending' = Pending,
           NEW p \in Path, p \notin Family(q), written'[p] = written[p], Safe(p)
    PROVE  Safe(p)'
<1>0. Base
  BY DEF KeepInv
<1>1. /\ node' = node /\ index' = index
      /\ job'.op = job.op /\ job'.at = job.at /\ job'.fid = job.fid
  BY <1>0 DEF Edited, Disturbed, Base, Typed, Job
<1>2. \A r \in Path : r # q => local'[r] = local[r]
  BY <1>0 DEF Edited, Base, Typed, TypeOK
<1>3. p # q /\ (p \in VideoPath => StrmOf[p] # q /\ StrmOf[p] \in Path)
  BY MirrorBothAssumption DEF Family
<1>4. CASE AtHome(p)
  BY <1>0, <1>1, <1>2, <1>3, <1>4, AtHomeStays DEF Safe
<1>5. ASSUME NEW f \in Fid, Away(p, f) PROVE Away(p, f)'
  <2>1. p \in VideoPath /\ node'[f].place \in {"root", "temp"}
    BY <1>1, <1>5 DEF Away
  <2> QED
    BY <1>0, <1>1, <1>2, <1>3, <1>5, <2>1, AwayStays
<1> QED
  BY <1>4, <1>5 DEF Safe

LEMMA SafeUser ==
    ASSUME KeepInv, NEW q \in Path, Delete(q) \/ \E c \in Comes[q] : Write(q, c),
           NEW p \in Path \ Exempt', written'[p] # none
    PROVE  Safe(p)'
<1>0. Base /\ KeepsNames
  BY StepKeeps DEF KeepInv
<1>1. PICK what : Edited(q, what)
  BY DEF Delete, Write
<1>2. Pending' = Pending
  BY <1>0, <1>1 DEF Edited, Disturbed, Pending, Base, Typed, Job
<1>3. p \in Path /\ p \notin Exempt
  BY <1>1 DEF Edited, Exempt
<1>4. CASE p \notin Family(q)
  <2>1. written'[p] = written[p]
    BY <1>3, <1>4 DEF Delete, Write, Family
  <2>2. Safe(p)
    BY <1>3, <2>1 DEF KeepInv, WrittenOK, Safe
  <2> QED
    BY <1>0, <1>1, <1>2, <1>3, <1>4, <2>1, <2>2, SafeEdited
<1>5. CASE p \in Family(q)
  <2>1. PICK c \in Comes[q] : Write(q, c)
    BY <1>3, <1>5 DEF Delete
  <2>2. p = q /\ job.at = "idle" /\ written'[p] = c
    BY <1>3, <1>5, <2>1 DEF Write
  <2>3. local'[p] = File(c)
    BY <1>0, <2>1, <2>2 DEF Write, Edited, Base, Typed, TypeOK
  <2>4. job'.op = NoOp
    BY <1>0, <2>1, <2>2 DEF Write, Edited, Disturbed, Base, Stage, Typed, Job
  <2>5. path' # p
    BY <2>4, <1>3, NoOpIsNone, Names DEF path
  <2> QED
    BY <2>2, <2>3, <2>5 DEF Safe, AtHome
<1> QED
  BY <1>4, <1>5

LEMMA SafeIdle ==
    ASSUME UNCHANGED vars, KeepInv
    PROVE  SmallOK' /\ PlanOK' /\ WrittenOK'
<1> USE DEF vars, history
<1>1. SmallOK'
  BY DEF KeepInv, SmallOK, Pending, path, There
<1>2. PlanOK'
  BY DEF KeepInv, PlanOK, Pending, Exempt
<1>3. WrittenOK'
  BY DEF KeepInv, WrittenOK, AtHome, Away, Exempt, Pending, path, Has
<1> QED
  BY <1>1, <1>2, <1>3

LEMMA KeepNext ==
    ASSUME KeepInv, Forward, StrmsDiffer, [Next]_vars
    PROVE  KeepInv'
<1>1. Base /\ Base'
  BY NextBase DEF KeepInv
<1>2. CASE UNCHANGED vars
  BY <1>1, <1>2, SafeIdle DEF KeepInv
<1>3. CASE RunUpload \/ RunDownload
  <2>1. SmallOK' /\ PlanOK'
    BY <1>1, <1>3, SmallRun, PlanRun DEF KeepInv
  <2>2. WrittenOK'
    <3>1. SUFFICES ASSUME NEW p \in Path \ Exempt', written'[p] # none PROVE Safe(p)'
      BY DEF WrittenOK, Safe
    <3>2. written' = written /\ Exempt \subseteq Exempt'
      BY <1>3 DEF RunUpload, RunDownload, Run, Exempt
    <3>3. Safe(p)
      BY <3>1, <3>2 DEF KeepInv, WrittenOK, Safe
    <3> QED
      BY <1>1, <1>3, <3>3, SafeRun
  <2> QED
    BY <1>1, <2>1, <2>2 DEF KeepInv
<1>4. CASE \/ InitTask \/ JobStep \/ Fails \/ AnswerLost \/ CutOff
           \/ \E p \in Path : Delete(p) \/ \E c \in Comes[p] : AddInCloud(p, c) \/ Write(p, c)
  <2>1. SmallOK' /\ PlanOK'
    BY <1>1, <1>4, SmallNext, PlanNext DEF KeepInv
  <2>2. WrittenOK'
    <3>1. SUFFICES ASSUME NEW p \in Path \ Exempt', written'[p] # none PROVE Safe(p)'
      BY DEF WrittenOK, Safe
    <3>2. CASE \E q \in Path : Delete(q) \/ \E c \in Comes[q] : Write(q, c)
      BY <3>1, <3>2, SafeUser
    <3>3. CASE \/ InitTask \/ JobStep \/ Fails \/ AnswerLost \/ CutOff
               \/ \E q \in Path : \E c \in Comes[q] : AddInCloud(q, c)
      <4>1. written' = written /\ torn \subseteq torn' /\ raced \subseteq raced' /\ rivals \subseteq rivals'
        BY <3>3 DEF InitTask, JobStep, NextOp, history, ClearNode, ClearTree, Upload, RetireOld, WriteStrm,
                    RemoveOriginal, Adopt, Refused, Download, Copy, PutRecord, RecordAs, Same, Fails,
                    AnswerLost, CutOff, AddInCloud
      <4>2. p \in Path /\ p \in Path \ Exempt /\ written[p] # none /\ Safe(p)
        BY <3>1, <4>1 DEF KeepInv, WrittenOK, Safe, Exempt
      <4> QED
        BY <1>1, <3>3, <4>2, SafeInitTask, SafeNextOp, SafeClearNode, SafeClearTree, SafeUpload, SafeRetireOld,
           SafeWriteStrm, SafeRemoveOriginal, SafeAdopt, SafeRefused, SafeDownload, SafePutRecord, SafeFails,
           SafeAnswerLost, SafeCutOff, SafeAddInCloud DEF JobStep
    <3> QED
      BY <1>4, <3>2, <3>3
  <2> QED
    BY <1>1, <2>1, <2>2 DEF KeepInv
<1> QED
  BY <1>2, <1>3, <1>4 DEF Next

LEMMA KeepInit == Init => KeepInv
<1> SUFFICES ASSUME Init PROVE KeepInv
  OBVIOUS
<1>1. Base
  BY InitBase
<1>2. Pending = {NoOp} /\ job.at = "idle" /\ \A p \in Path : index[p].kind = "none" /\ written[p] = none
  BY DEF Init, Idle, Pending, NoRecord
<1>3. SmallOK
  BY <1>2, NoOpIsNone, Names DEF SmallOK, Name
<1>4. PlanOK
  BY <1>2, NoOpIsNone DEF PlanOK, Init
<1>5. WrittenOK
  BY <1>2 DEF WrittenOK
<1> QED
  BY <1>1, <1>3, <1>4, <1>5 DEF KeepInv

(* What the user puts down while nothing runs is never lost: it stays      *)
(* where it is or it is in the cloud (upload, replaceWithStrm, PlanCloud), *)
(* but for the exceptions WrittenIsKept names; if what is uploaded as a    *)
(* video is fetched as one, and no two videos share a .strm name.          *)
THEOREM WrittenIsKeptHolds == ASSUME Forward, StrmsDiffer PROVE Spec => []WrittenIsKept
<1>1. KeepInv /\ [Next]_vars => KeepInv'
  BY KeepNext
<1>2. KeepInv => WrittenIsKept
  <2>1. SUFFICES ASSUME KeepInv, NEW p \in Path \ Exempt, written[p] # none PROVE Kept(written[p])
    BY DEF WrittenIsKept, Exempt
  <2>2. AtHome(p) \/ \E f \in Fid : Away(p, f)
    BY <2>1 DEF KeepInv, WrittenOK
  <2> QED
    BY <2>2 DEF AtHome, Away, Kept
<1> QED
  BY <1>1, <1>2, KeepInit, PTL DEF Spec

-----------------------------------------------------------------------------
(***************************************************************************)
(* Why nothing is deleted in the cloud for no reason: as long as nobody    *)
(* touches a path and no operation on it is cut off, there is one node of  *)
(* its name, what is there locally is recorded as that node, and no plan   *)
(* does more to it than to fetch it, or to clear what BuildIndex recorded. *)
(***************************************************************************)

(* The two switches as the preset of a two-way task has them.              *)
Alike == \A s \in Switches : s.toStrm = s.toStrmDl

Quiet == Path \ (touched \cup torn)

(* The path is the name of the node, or the .strm of that name.            *)
Near(p, f) ==
    /\ node[f].place # "none"
    /\ \/ p = node[f].name
       \/ node[f].name \in VideoPath /\ p = StrmOf[node[f].name]

Kin == \A v \in VideoPath : v \in Quiet <=> StrmOf[v] \in Quiet
Related ==
    /\ Kin
    /\ \A p \in Path : Has(p) => Near(p, index[p].fid)
    /\ \A o \in Pending : o.fid # none => Near(o.path, o.fid)

OneNode ==
    \A f, g \in Present : node[f].name \in Quiet /\ node[f].name = node[g].name => f = g

(* What is at a path is what its record says, and its node is there.       *)
Matched(p) ==
    /\ Has(p) /\ index[p].fid \in Present
    /\ local[p].k = "strm" => index[p].kind = "strm" /\ index[p].fid = local[p].x
    /\ local[p].k = "file" => index[p].kind = "file" /\ index[p].size = SizeOf[local[p].x]

(* What a plan may hold for a path: to clear a record that BuildIndex made *)
(* or to fetch the node.                                                   *)
Clearing(o) == o.kind \in {"retire", "drop"} /\ ~There(o.path) /\ Has(o.path) /\ o.fid = index[o.path].fid
Fetching(o) ==
    /\ o.kind = "download" /\ o.fid \in Present /\ ~Has(o.path)
    /\ There(o.path) => o = job.op /\ job.at \in {"copy", "put"}

Untouched(p) ==
    /\ There(p) => Matched(p) \/ (path = p /\ job.at \in {"copy", "put"})
    /\ Has(p) => Lands(p, index[p].fid) /\ (There(p) \/ index[p].fid \in built)
    /\ \A o \in Pending : o.path = p => Clearing(o) \/ Fetching(o)
    /\ \A o, q \in job.ops : o.path = p /\ q.path = p => o = q
    /\ path = p =>
          /\ \A o \in job.ops : o.path # p
          /\ job.at \in {"copy", "put"} => There(p)
          /\ p \in StrmPath /\ job.at = "put" => local[p].x = job.fid

Spared == \A f \in Fid : node[f].place = "gone" /\ node[f].name \in Quiet => f \in built

LossInv == Base /\ Related /\ OneNode /\ (\A p \in Quiet : Untouched(p)) /\ Spared

LEMMA AlikeIsForward == Alike => Forward
  BY DEF Alike, Forward

LEMMA FamilyIs ==
    ASSUME StrmsDiffer, NEW p \in Path, NEW v \in VideoPath
    PROVE  v \in Family(p) <=> StrmOf[v] \in Family(p)
  BY MirrorBothAssumption DEF StrmsDiffer, Family

LEMMA KinStays ==
    ASSUME StrmsDiffer, Kin, NEW p \in Path, touched' \in {touched, touched \cup Family(p)},
           torn' \in {torn, torn \cup Family(p)}
    PROVE  Kin' /\ Quiet' \subseteq Quiet
<1>1. SUFFICES ASSUME NEW v \in VideoPath PROVE v \in Quiet' <=> StrmOf[v] \in Quiet'
  BY DEF Kin, Quiet
<1>2. v \in Path /\ StrmOf[v] \in Path
  BY Names, MirrorBothAssumption
<1> QED
  BY <1>2, FamilyIs DEF Kin, Quiet

LEMMA NearStays ==
    ASSUME KeepsNames, NEW p, NEW f \in Fid, Near(p, f)
    PROVE  Near(p, f)'
  BY DEF KeepsNames, Near

LEMMA LandsNear == ASSUME NEW p, NEW f, Lands(p, f) PROVE Near(p, f)
  BY DEF Lands, Near, SavePath

LEMMA NearQuiet ==
    ASSUME Base, Kin, NEW p, NEW f \in Fid, Near(p, f)
    PROVE  p \in Quiet <=> node[f].name \in Quiet
  BY DEF Near, Kin

(* Two nodes that are saved at one path have one name.                     *)
LEMMA SameSave ==
    ASSUME Base, StrmsDiffer, NEW f \in Fid, NEW g \in Fid, node[f].place # "none", node[g].place # "none",
           SavePath(f) = SavePath(g)
    PROVE  node[f].name = node[g].name
<1>1. node[f].name \in Name /\ node[g].name \in Name
  BY DEF Base, NodeOK
<1> QED
  BY <1>1, Names DEF SavePath, StrmsDiffer, Name

LEMMA UpIsSave == ASSUME Base, Alike, NEW f PROVE UpName(f) = SavePath(f)
  BY DEF Base, Typed, TypeOK, Alike, UpName, UpKey, SavePath

(* An operation that ends leaves the others.                               *)
LEMMA EndedIs ==
    ASSUME Base, NEW calm, Ended(calm)
    PROVE  job'.op = NoOp /\ job'.ops \subseteq job.ops /\ job'.op.path = none
<1>1. job \in Job
  BY DEF Base, Typed
<1>2. Idle.ops = {} /\ Idle.op = NoOp
  BY DEF Idle
<1>3. job'.op = NoOp /\ job'.ops \subseteq job.ops
  BY <1>1, <1>2 DEF Ended, Job
<1> QED
  BY <1>3, NoOpIsNone

-----------------------------------------------------------------------------
(* A path stays untouched when neither it nor its nodes are in hand.       *)
LEMMA UntouchedStays ==
    ASSUME Base, KeepsNames, NEW p \in Path, Untouched(p),
           local'[p] = local[p], index'[p] = index[p], built \subseteq built', job'.ops \subseteq job.ops,
           path = p \/ path' = p =>
               job'.op = job.op /\ job'.fid = job.fid /\ \A l \in {"copy", "put"} : job'.at = l <=> job.at = l,
           There(p) \/ ~Has(p) => \A f \in Present : SavePath(f) = p => node'[f].place = "root"
    PROVE  Untouched(p)'
<1>1. (There(p)' <=> There(p)) /\ (Has(p)' <=> Has(p))
  BY DEF There, Has
<1>2. Has(p) => index[p].fid \in Fid
  BY DEF Base, RecordOK
<1>3. There(p) /\ Matched(p) => Matched(p)'
  <2>1. SUFFICES ASSUME There(p), Matched(p) PROVE index[p].fid \in Present'
    BY <1>1 DEF Matched
  <2>2. SavePath(index[p].fid) = p /\ index[p].fid \in Present
    BY <2>1 DEF Matched, Untouched, Lands
  <2> QED
    BY <2>1, <2>2 DEF Present
<1>4. There(p)' => Matched(p)' \/ (path' = p /\ job'.at \in {"copy", "put"})
  BY <1>1, <1>3 DEF Untouched, path
<1>5. Has(p)' => Lands(p, index[p].fid)' /\ (There(p)' \/ index'[p].fid \in built')
  BY <1>1, <1>2, LandsStays DEF Untouched
<1>6. ASSUME NEW o \in Pending', o.path = p PROVE Clearing(o)' \/ Fetching(o)'
  <2>1. o \in Pending /\ (o = job.op => job'.op = job.op)
    BY <1>6 DEF Pending, path
  <2>2. CASE Clearing(o)
    BY <1>1, <1>6, <2>2 DEF Clearing
  <2>3. CASE Fetching(o)
    <3>1. o.fid \in Fid /\ SavePath(o.fid) = p /\ o # NoOp
      BY <1>6, <2>1, <2>3, NoOpIsNone DEF Base, Fetching, Present, OpOK, Lands
    <3>2. o.fid \in Present'
      BY <1>6, <2>3, <3>1 DEF Fetching, Present
    <3>3. There(p) => o = job'.op /\ job'.at \in {"copy", "put"}
      BY <1>6, <2>1, <2>3 DEF Fetching, path
    <3> QED
      BY <1>1, <1>6, <2>3, <3>2, <3>3 DEF Fetching
  <2> QED
    BY <1>6, <2>1, <2>2, <2>3 DEF Untouched
<1>7. \A o, q \in job'.ops : o.path = p /\ q.path = p => o = q
  BY DEF Untouched
<1>8. path' = p =>
          /\ \A o \in job'.ops : o.path # p
          /\ job'.at \in {"copy", "put"} => There(p)'
          /\ p \in StrmPath /\ job'.at = "put" => local'[p].x = job'.fid
  BY <1>1, NoOpIsNone DEF Untouched, path
<1>9. StrmPath' = StrmPath
  BY DEF StrmPath
<1> QED
  BY <1>4, <1>5, <1>6, <1>7, <1>8, <1>9 DEF Untouched

(* The operation on it ends.                                               *)
LEMMA UntouchedEnds ==
    ASSUME NEW p \in Path, Untouched(p), path = p, job'.op = NoOp, job'.ops \subseteq job.ops,
           There(p)' => Matched(p)',
           Has(p)' => Lands(p, index[p].fid)' /\ (There(p)' \/ index'[p].fid \in built')
    PROVE  Untouched(p)'
<1>1. path' # p
  BY NoOpIsNone, MirrorBothAssumption DEF path
<1>2. \A o \in Pending' : o.path # p
  BY NoOpIsNone, MirrorBothAssumption DEF Pending, Untouched
<1>3. \A o, q \in job'.ops : o.path = p /\ q.path = p => o = q
  BY DEF Untouched
<1> QED
  BY <1>1, <1>2, <1>3 DEF Untouched

(* What is left to show of a step.                                         *)
LEMMA LossStays ==
    ASSUME LossInv, Base', KeepsNames, Kin', Quiet' \subseteq Quiet, built \subseteq built', OneNode',
           \A p \in Quiet' : Untouched(p)',
           \A p \in Path : Has(p)' => index'[p] = index[p] \/ Near(p, index[p].fid)',
           Pending' \subseteq Pending \cup {NoOp},
           \A f \in Fid : node'[f].place = "gone" =>
               node[f].place = "gone" \/ node'[f].name \notin Quiet \/ f \in built'
    PROVE  LossInv'
<1>1. ASSUME NEW p \in Path, Has(p)' PROVE Near(p, index[p].fid)'
  <2>1. CASE index'[p] = index[p]
    <3>1. Has(p) /\ index[p].fid \in Fid
      BY <1>1, <2>1 DEF Has, LossInv, Base, RecordOK
    <3> QED
      BY <2>1, <3>1, NearStays DEF LossInv, Related
  <2> QED
    BY <1>1, <2>1
<1>2. ASSUME NEW o \in Pending', o.fid # none PROVE Near(o.path, o.fid)'
  <2>1. o \in Pending /\ o # NoOp
    BY <1>2 DEF NoOp, Op
  <2>2. o.fid \in Fid
    BY <1>2, <2>1 DEF LossInv, Base, Typed, Job, Pending, Operation
  <2> QED
    BY <1>2, <2>1, <2>2, NearStays DEF LossInv, Related
<1>3. Related'
  BY <1>1, <1>2 DEF Related
<1>4. Spared'
  BY DEF LossInv, Spared, KeepsNames
<1> QED
  BY <1>3, <1>4 DEF LossInv

(* No node appears that was not there, but under names that are not quiet. *)
LEMMA OneNodeStays ==
    ASSUME LossInv, KeepsNames, Quiet' \subseteq Quiet,
           \A f \in Fid : node'[f].place = "root" => node[f].place = "root" \/ node'[f].name \notin Quiet
    PROVE  OneNode'
<1>1. SUFFICES ASSUME NEW f \in Present', NEW g \in Present', node'[f].name \in Quiet', node'[f].name = node'[g].name
               PROVE  f = g
  BY DEF OneNode
<1>2. f \in Present /\ g \in Present
  BY <1>1 DEF Present
<1> QED
  BY <1>1, <1>2 DEF LossInv, OneNode, KeepsNames, Present

(* Nothing but the run, its nodes and the histories change.                *)
LEMMA NodesSame ==
    ASSUME LossInv, task' = task, node' = node
    PROVE  /\ KeepsNames
           /\ \A f \in Fid : node'[f].place = "root" => node[f].place = "root" \/ node'[f].name \notin Quiet
           /\ \A f \in Present : node'[f].place = "root"
           /\ \A f \in Fid : node'[f].place = "gone" =>
               node[f].place = "gone" \/ node'[f].name \notin Quiet \/ f \in built'
  BY DEF KeepsNames, Present

LEMMA QuietSame ==
    ASSUME LossInv, touched' = touched, torn' = torn
    PROVE  Kin' /\ Quiet' = Quiet
  BY DEF LossInv, Related, Kin, Quiet, StrmPath

(* What is in hand for a quiet path, by the stage the run is at.           *)
LEMMA InHand ==
    ASSUME LossInv, path \in Quiet
    PROVE  /\ job.at \notin {"idle", "next", "upload", "adopt", "retireOld", "remove"}
           /\ job.op.kind \in {"retire", "drop", "download"} /\ ~job.op.video /\ job.op # NoOp
           /\ job.op \in Operation /\ OpOK(job.op) /\ job.op.fid \in Fid
           /\ RecordKey = path
           /\ Clearing(job.op) \/ Fetching(job.op)
           /\ job.at \in {"retire", "drop", "clear"} => Clearing(job.op)
           /\ job.at \in {"download", "strm", "copy", "put"} => Fetching(job.op)
<1>0. Quiet \subseteq Path
  BY DEF Quiet
<1>1. job.op # NoOp /\ job.op \in Pending /\ Base /\ Untouched(path)
  BY <1>0, NoOpIsNone, MirrorBothAssumption DEF LossInv, Pending, path
<1>2. (Clearing(job.op) \/ Fetching(job.op)) /\ OpOK(job.op) /\ job.op \in Operation
  BY <1>1 DEF Untouched, Base, Typed, Job, path
<1>3. job.op.kind \in {"retire", "drop", "download"} /\ ~job.op.video /\ job.op.fid \in Fid
  BY <1>2 DEF Clearing, Fetching, OpOK
<1>4. job.at \notin {"idle", "next", "upload", "adopt", "retireOld", "remove"}
  BY <1>1, <1>3 DEF Base, Stage, Kind
<1>5. job.at \in {"retire", "drop", "clear"} => Clearing(job.op)
  BY <1>1, <1>2 DEF Base, Stage, Kind, Clearing, Fetching
<1>6. job.at \in {"download", "strm", "copy", "put"} => Fetching(job.op)
  BY <1>1, <1>2 DEF Base, Stage, Kind, Clearing, Fetching
<1> QED
  BY <1>1, <1>2, <1>3, <1>4, <1>5, <1>6 DEF RecordKey

(* A node that belongs near the path of the operation.                     *)
LEMMA FidOfQuiet ==
    ASSUME LossInv, job.op.fid \in Fid
    PROVE  /\ Near(path, job.op.fid)
           /\ path \in Quiet <=> node[job.op.fid].name \in Quiet
           /\ \A p \in Quiet : SavePath(job.op.fid) = p => path \in Quiet
<1>1. Near(path, job.op.fid)
  BY MirrorBothAssumption DEF LossInv, Related, Pending, path
<1>2. path \in Quiet <=> node[job.op.fid].name \in Quiet
  BY <1>1, NearQuiet DEF LossInv, Related
<1>3. ASSUME NEW p \in Quiet, SavePath(job.op.fid) = p PROVE path \in Quiet
  <2>1. Near(p, job.op.fid)
    BY <1>1, <1>3 DEF Near, SavePath
  <2> QED
    BY <2>1, <1>2, <1>3, NearQuiet DEF LossInv, Related
<1> QED
  BY <1>1, <1>2, <1>3

LEMMA InitLoss == Init => LossInv
<1> SUFFICES ASSUME Init PROVE LossInv
  OBVIOUS
<1>1. Base
  BY InitBase
<1>2. job.ops = {} /\ job.op = NoOp /\ path = none /\ NoOp.fid = none
  BY NoOpIsNone DEF Init, Idle, path, NoOp, Op
<1>3. \A p \in Path : ~Has(p) /\ ~There(p)
  BY DEF Init, Has, There, Nothing
<1>4. \A f \in Fid : node[f].place = "none"
  BY DEF Init, NoNode
<1>5. Quiet = Path
  BY DEF Init, Quiet
<1>6. Kin
  BY <1>5, Names, MirrorBothAssumption DEF Kin
<1>7. Related
  BY <1>2, <1>3, <1>6 DEF Related, Pending
<1>8. OneNode /\ Spared
  BY <1>4 DEF OneNode, Spared, Present
<1>9. \A p \in Quiet : Untouched(p)
  BY <1>2, <1>3, <1>5, NoOpIsNone, MirrorBothAssumption DEF Untouched, Pending
<1> QED
  BY <1>1, <1>7, <1>8, <1>9 DEF LossInv

LEMMA ClearNodeLoss == ASSUME LossInv, Alike, StrmsDiffer, ClearNode PROVE LossInv'
<1>1. /\ task' = task /\ local' = local /\ index' = index /\ built' = built /\ touched' = touched /\ torn' = torn
      /\ job' = [job EXCEPT !.at = "clear"] /\ job.at \in {"retire", "drop"}
      /\ Base /\ job.op.kind = job.at /\ job.op.fid \in Fid
  BY InOp DEF ClearNode, Same, Goto, LossInv, Base, Stage, Kind, OpOK
<1>2. Base'
  BY <1>1, ClearNodeBase
<1> DEFINE f == job.op.fid
<1>3. PICK place \in {"temp", "gone"} : node' = Moved(job.op.fid, place)
  BY DEF ClearNode
<1>4. /\ KeepsNames /\ \A g \in Fid : g # f => node'[g] = node[g]
      /\ node'[f].place = node[f].place \/ node'[f].place = place
      /\ \A g \in Fid : node'[g].name = node[g].name
  BY <1>1, <1>3, MovedKeeps
<1>5. Kin' /\ Quiet' = Quiet
  BY <1>1, QuietSame
<1>6. job'.ops = job.ops /\ job'.op = job.op /\ job'.fid = job.fid /\ job'.at = "clear"
  BY <1>1 DEF Base, Typed, Job
<1>7. path \in Quiet => Clearing(job.op) /\ Untouched(path) /\ path \in Path
  BY <1>1, InHand DEF LossInv, Quiet
<1>8. path \in Quiet => ~There(path) /\ Has(path) /\ f = index[path].fid /\ SavePath(f) = path /\ f \in built
  BY <1>7 DEF Clearing, Untouched, Lands, path
<1>9. ASSUME NEW p \in Quiet PROVE Untouched(p)'
  <2>1. p \in Path /\ Untouched(p)
    BY DEF Quiet, LossInv
  <2>2. There(p) \/ ~Has(p) => SavePath(f) # p
    BY <1>1, <1>8, FidOfQuiet
  <2>3. There(p) \/ ~Has(p) => \A g \in Present : SavePath(g) = p => node'[g].place = "root"
    BY <2>2, <1>4 DEF Present
  <2> QED
    BY <1>1, <1>4, <1>6, <2>1, <2>3, UntouchedStays
<1>10. \A g \in Fid : node'[g].place = "gone" => node[g].place = "gone" \/ node'[g].name \notin Quiet \/ g \in built'
  BY <1>1, <1>4, <1>8, FidOfQuiet
<1>11. OneNode'
  BY <1>1, <1>3, <1>4, <1>5, OneNodeStays
<1>12. Pending' = Pending
  BY <1>6 DEF Pending
<1> QED
  BY <1>1, <1>2, <1>4, <1>5, <1>9, <1>10, <1>11, <1>12, LossStays

LEMMA ClearTreeLoss == ASSUME LossInv, ClearTree PROVE LossInv'
<1>1. /\ task' = task /\ local' = local /\ node' = node /\ built' = built /\ touched' = touched /\ torn' = torn
      /\ index' = [index EXCEPT ![path] = NoRecord] /\ job.at = "clear" /\ Ended(job.calm) /\ Base
  BY DEF ClearTree, Same, LossInv
<1>2. Base' /\ path \in Path
  BY <1>1, ClearTreeBase, InOp
<1>3. index'[path] = NoRecord /\ \A p \in Path : p # path => index'[p] = index[p]
  BY <1>1, <1>2 DEF Base, Typed, TypeOK
<1>4. Kin' /\ Quiet' = Quiet
  BY <1>1, QuietSame
<1>5. job'.op = NoOp /\ job'.ops \subseteq job.ops /\ path' = none
  BY <1>1, EndedIs DEF path
<1>6. ASSUME NEW p \in Quiet PROVE Untouched(p)'
  <2>1. p \in Path /\ Untouched(p)
    BY DEF Quiet, LossInv
  <2>2. CASE p = path
    <3>1. ~There(p)' /\ ~Has(p)'
      BY <1>1, <1>3, <2>2, InHand DEF Clearing, There, Has, path
    <3> QED
      BY <1>5, <2>1, <2>2, <3>1, UntouchedEnds
  <2>3. CASE p # path
    BY <1>1, <1>3, <1>5, <2>1, <2>3, NodesSame, UntouchedStays, MirrorBothAssumption
  <2> QED
    BY <2>2, <2>3
<1>7. \A p \in Path : Has(p)' => index'[p] = index[p]
  BY <1>3 DEF Has
<1>8. OneNode' /\ Pending' \subseteq Pending \cup {NoOp}
  BY <1>1, <1>4, <1>5, NodesSame, OneNodeStays DEF Pending
<1> QED
  BY <1>1, <1>2, <1>4, <1>6, <1>7, <1>8, NodesSame, LossStays

(* A step of an operation on a path that is not quiet.                     *)
LEMMA ElsewhereLoss ==
    ASSUME LossInv, Base', KeepsNames, path \notin Quiet, job'.op \in {job.op, NoOp}, job'.ops \subseteq job.ops,
           touched' = touched, torn' = torn, built' = built,
           \A p \in Quiet : local'[p] = local[p] /\ index'[p] = index[p],
           \A p \in Path : Has(p)' => index'[p] = index[p] \/ Near(p, index[p].fid)',
           \A f \in Present : SavePath(f) \in Quiet => node'[f].place = "root",
           \A f \in Fid : node'[f].place = "root" => node[f].place = "root" \/ node'[f].name \notin Quiet,
           \A f \in Fid : node'[f].place = "gone" =>
               node[f].place = "gone" \/ node'[f].name \notin Quiet \/ f \in built'
    PROVE  LossInv'
<1>1. Kin' /\ Quiet' = Quiet
  BY QuietSame
<1>2. none \notin Quiet /\ path' \in {path, none}
  BY NoOpIsNone, MirrorBothAssumption DEF Quiet, path
<1>3. ASSUME NEW p \in Quiet PROVE Untouched(p)'
  <2>1. p \in Path /\ Untouched(p) /\ path # p /\ path' # p
    BY <1>2 DEF Quiet, LossInv
  <2> QED
    BY <2>1, UntouchedStays DEF LossInv
<1>4. OneNode'
  BY <1>1, OneNodeStays
<1>5. Pending' \subseteq Pending \cup {NoOp}
  BY DEF Pending
<1> QED
  BY <1>1, <1>3, <1>4, <1>5, LossStays

LEMMA StoredLoss ==
    ASSUME LossInv, task' = task, There(path), job.at = "upload", NEW f \in Fid, Stored(f)
    PROVE  /\ path \in Name /\ path \notin Quiet /\ KeepsNames
           /\ \A g \in Present : SavePath(g) \in Quiet => node'[g].place = "root"
           /\ \A g \in Fid : node'[g].place = "root" => node[g].place = "root" \/ node'[g].name \notin Quiet
           /\ \A g \in Fid : node'[g].place = "gone" => node[g].place = "gone"
<1>1. path \in Name /\ path \notin Quiet /\ Base
  BY InHand, InOp DEF LossInv, Base, Stage, OpOK, Kind, path
<1>2. /\ KeepsNames /\ \A g \in Fid : g # f => node'[g] = node[g]
      /\ node'[f] = [name |-> path, c |-> local[path].x, place |-> "root"]
  BY <1>1, StoredKeeps
<1> QED
  BY <1>1, <1>2 DEF Present

LEMMA UploadLoss == ASSUME LossInv, Upload PROVE LossInv'
<1>1. /\ task' = task /\ local' = local /\ index' = index /\ built' = built /\ touched' = touched /\ torn' = torn
      /\ job.at = "upload" /\ Base /\ Base' /\ path \notin Quiet /\ job \in Job
  BY UploadBase, InHand DEF Upload, Same, LossInv, Base, Typed
<1>2. CASE ~There(path)
  <2>1. node' = node /\ job'.op = NoOp /\ job'.ops \subseteq job.ops
    BY <1>1, <1>2, EndedIs DEF Upload
  <2> QED
    BY <1>1, <2>1, NodesSame, ElsewhereLoss DEF Has
<1>3. CASE There(path)
  <2>1. PICK f \in Fid : Stored(f)
    BY <1>3 DEF Upload
  <2>2. job'.op = job.op /\ job'.ops = job.ops
    BY <1>1, <1>3 DEF Upload, Job
  <2> QED
    BY <1>1, <1>3, <2>1, <2>2, StoredLoss, ElsewhereLoss DEF Has
<1> QED
  BY <1>2, <1>3

LEMMA AnswerLostLoss == ASSUME LossInv, AnswerLost PROVE LossInv'
<1>1. /\ task' = task /\ local' = local /\ index' = index /\ built' = built /\ touched' = touched /\ torn' = torn
      /\ job.at = "upload" /\ Base /\ Base' /\ path \notin Quiet /\ There(path)
      /\ job'.op = NoOp /\ job'.ops \subseteq job.ops
  BY AnswerLostBase, InHand, EndedIs DEF AnswerLost, LossInv
<1>2. PICK f \in Fid : Stored(f)
  BY DEF AnswerLost
<1> QED
  BY <1>1, <1>2, StoredLoss, ElsewhereLoss DEF Has

LEMMA RetireOldLoss == ASSUME LossInv, RetireOld PROVE LossInv'
<1>1. /\ task' = task /\ local' = local /\ index' = index /\ built' = built /\ touched' = touched /\ torn' = torn
      /\ job.at = "retireOld" /\ job' = [job EXCEPT !.at = "strm"] /\ Base /\ Base' /\ path \notin Quiet
      /\ job.op.fid \in Fid
  BY RetireOldBase, InHand DEF RetireOld, Same, Goto, LossInv, Base, Stage
<1>2. job'.op = job.op /\ job'.ops = job.ops
  BY <1>1 DEF Base, Typed, Job
<1> DEFINE f == job.op.fid
<1>3. node' = Moved(f, "temp")
  BY DEF RetireOld
<1>4. node[f].name \notin Quiet /\ SavePath(f) \notin Quiet
  BY <1>1, FidOfQuiet
<1> HIDE DEF f
<1>5. f \in Fid
  BY <1>1 DEF f
<1>6. /\ KeepsNames /\ (\A g \in Fid : g # f => node'[g] = node[g])
      /\ node'[f].place = node[f].place \/ node'[f].place = "temp"
      /\ \A g \in Fid : node'[g].name = node[g].name
  BY <1>1, <1>3, <1>5, MovedKeeps
<1> QED
  BY <1>1, <1>2, <1>4, <1>5, <1>6, ElsewhereLoss DEF Has, Present

LEMMA RemoveOriginalLoss == ASSUME LossInv, RemoveOriginal PROVE LossInv'
<1>0. PICK calm \in BOOLEAN : job' = [job EXCEPT !.at = "put", !.calm = calm]
  BY RemovalIs DEF LossInv
<1>1. /\ task' = task /\ node' = node /\ index' = index /\ built' = built /\ touched' = touched /\ torn' = torn
      /\ job.at = "remove" /\ Base /\ Base' /\ path \notin Quiet
      /\ local' = local \/ local' = [local EXCEPT ![path] = Nothing]
  BY RemoveOriginalBase, RemovalIs, InHand DEF LossInv
<1>2. job'.op = job.op /\ job'.ops = job.ops
  BY <1>0, <1>1 DEF Base, Typed, Job
<1>3. \A p \in Quiet : local'[p] = local[p]
  BY <1>1 DEF Base, Typed, TypeOK, Quiet
<1> QED
  BY <1>1, <1>2, <1>3, NodesSame, ElsewhereLoss DEF Has

LEMMA AdoptLoss == ASSUME LossInv, Adopt PROVE LossInv'
<1>1. /\ task' = task /\ local' = local /\ index' = index /\ built' = built /\ touched' = touched /\ torn' = torn
      /\ job.at = "adopt" /\ job' = [job EXCEPT !.at = "strm", !.fid = job.op.fid] /\ Base /\ Base'
      /\ path \notin Quiet /\ job.op.fid \in Fid
  BY AdoptBase, InHand, InOp DEF Adopt, Same, LossInv, Base, Stage, OpOK, Kind
<1>2. job'.op = job.op /\ job'.ops = job.ops
  BY <1>1 DEF Base, Typed, Job
<1> DEFINE f == job.op.fid
<1>3. node' = Moved(f, "root")
  BY DEF Adopt
<1>4. node[f].name \notin Quiet
  BY <1>1, FidOfQuiet
<1> HIDE DEF f
<1>5. f \in Fid
  BY <1>1 DEF f
<1>6. /\ KeepsNames /\ (\A g \in Fid : g # f => node'[g] = node[g])
      /\ node'[f].place = node[f].place \/ node'[f].place = "root"
      /\ \A g \in Fid : node'[g].name = node[g].name
  BY <1>1, <1>3, <1>5, MovedKeeps
<1> QED
  BY <1>1, <1>2, <1>4, <1>5, <1>6, ElsewhereLoss DEF Has, Present

LEMMA RefusedLoss == ASSUME LossInv, Refused PROVE LossInv'
<1>1. /\ task' = task /\ node' = node /\ local' = local /\ index' = index /\ built' = built
      /\ touched' = touched /\ torn' = torn /\ Base /\ Base' /\ path \notin Quiet
      /\ job'.op = NoOp /\ job'.ops \subseteq job.ops
  BY RefusedBase, InHand, EndedIs DEF Refused, Same, LossInv
<1> QED
  BY <1>1, NodesSame, ElsewhereLoss DEF Has

(* A step at the path of a download, of one that is quiet.                 *)
LEMMA FetchStep ==
    ASSUME LossInv, Base', task' = task, node' = node, index' = index, built' = built,
           touched' = touched, torn' = torn, job'.op = job.op, job'.ops = job.ops,
           \A p \in Path : p # path => local'[p] = local[p],
           path \in Quiet => /\ Fetching(job.op)
                             /\ There(path)' => job'.at \in {"copy", "put"}
                             /\ job'.at \in {"copy", "put"} => There(path)'
                             /\ path \in StrmPath /\ job'.at = "put" => local'[path].x = job'.fid
    PROVE  LossInv'
<1>1. Kin' /\ Quiet' = Quiet /\ path' = path /\ Pending' = Pending /\ StrmPath' = StrmPath /\ Present' = Present
  BY QuietSame DEF path, Pending, StrmPath, Present
<1>2. ASSUME NEW p \in Quiet PROVE Untouched(p)'
  <2>0. p \in Path /\ Untouched(p)
    BY DEF Quiet, LossInv
  <2>1. CASE p # path
    BY <1>1, <2>0, <2>1, NodesSame, UntouchedStays DEF LossInv
  <2>2. CASE p = path
    <3>1. ~Has(p) /\ ~Has(p)' /\ Fetching(job.op)
      BY <2>2 DEF Fetching, Has, path
    <3>2. \A o \in Pending : o.path = p => o = job.op
      BY <2>0, <2>2 DEF Untouched, Pending
    <3>3. Fetching(job.op)'
      BY <2>2, <3>1, <1>1 DEF Fetching, path
    <3> QED
      BY <1>1, <2>0, <2>2, <3>1, <3>2, <3>3 DEF Untouched
  <2> QED
    BY <2>1, <2>2
<1>3. OneNode'
  BY <1>1, NodesSame, OneNodeStays
<1> QED
  BY <1>1, <1>2, <1>3, NodesSame, LossStays DEF Has

LEMMA DownloadLoss == ASSUME LossInv, Download PROVE LossInv'
<1>1. /\ task' = task /\ node' = node /\ index' = index /\ built' = built /\ touched' = touched /\ torn' = torn
      /\ job.at = "download" /\ Base /\ Base' /\ path \in Path /\ job \in Job /\ local \in [Path -> {local[p] : p \in Path}]
  BY DownloadBase, InOp DEF Download, Same, LossInv, Base, Typed, TypeOK
<1>2. PICK at \in {"strm", "copy"} : /\ job' = [job EXCEPT !.at = at, !.fid = job.op.fid]
                                     /\ at = "strm" => local' = local
                                     /\ at = "copy" => local' = [local EXCEPT ![path] = File(cut)]
  BY <1>1 DEF Download
<1>3. job'.op = job.op /\ job'.ops = job.ops /\ job'.at = at
  BY <1>1, <1>2 DEF Job
<1>4. \A p \in Path : p # path => local'[p] = local[p]
  BY <1>1, <1>2
<1>5. at = "copy" => There(path)'
  <2>1. ASSUME at = "copy" PROVE local'[path] = File(cut) /\ path' = path
    BY <1>1, <1>2, <1>3, <2>1 DEF path
  <2> QED
    BY <2>1 DEF There, File
<1>6. ASSUME path \in Quiet, at = "strm" PROVE ~There(path)'
  <2>1. ~There(path) /\ path' = path /\ local' = local
    BY <1>1, <1>2, <1>3, <1>6, InHand DEF Fetching, path
  <2> QED
    BY <2>1 DEF There
<1>7. path \in Quiet => Fetching(job.op)
  BY <1>1, InHand
<1> QED
  BY <1>1, <1>2, <1>3, <1>4, <1>5, <1>6, <1>7, FetchStep

LEMMA CopyLoss == ASSUME LossInv, Copy PROVE LossInv'
<1>1. /\ task' = task /\ node' = node /\ index' = index /\ built' = built /\ touched' = touched /\ torn' = torn
      /\ job.at = "copy" /\ Base /\ Base' /\ path \in Path /\ path \in Name /\ job \in Job
      /\ job' = [job EXCEPT !.at = "put"]
      /\ local' = [local EXCEPT ![path] = IF There(path) THEN File(node[job.fid].c) ELSE Nothing]
  BY CopyBase, InOp DEF Copy, Same, Goto, LossInv, Base, Stage
<1>2. job'.op = job.op /\ job'.ops = job.ops /\ job'.at = "put" /\ path' = path
  BY <1>1 DEF Job, path
<1>3. (\A p \in Path : p # path => local'[p] = local[p])
      /\ local'[path] = IF There(path) THEN File(node[job.fid].c) ELSE Nothing
  BY <1>1 DEF Base, Typed, TypeOK
<1>4. ASSUME path \in Quiet PROVE Fetching(job.op) /\ There(path)' /\ path \notin StrmPath
  <2>1. Fetching(job.op) /\ There(path)
    BY <1>1, <1>4, InHand DEF LossInv, Untouched
  <2> QED
    BY <1>1, <1>2, <1>3, <2>1 DEF There, File, Name
<1> QED
  BY <1>1, <1>2, <1>3, <1>4, FetchStep

LEMMA WriteStrmLoss == ASSUME LossInv, Alike, StrmsDiffer, WriteStrm PROVE LossInv'
<1>1. /\ task' = task /\ node' = node /\ index' = index /\ built' = built /\ touched' = touched /\ torn' = torn
      /\ job.at = "strm" /\ local' = [local EXCEPT ![RecordKey] = Strm(job.fid)]
      /\ Base /\ Base' /\ path \in Path /\ job \in Job /\ RecordKey \in Path /\ Kin
      /\ job.op \in Operation /\ OpOK(job.op)
  BY AlikeIsForward, WriteStrmBase, InOp DEF WriteStrm, Same, LossInv, Base, Typed, Related
<1>2. PICK at \in {"remove", "put"} : job' = [job EXCEPT !.at = at] /\ (at = "remove" <=> job.op.kind = "upload")
  BY DEF WriteStrm, Goto
<1>3. job'.op = job.op /\ job'.ops = job.ops /\ job'.at = at /\ path' = path /\ job'.fid = job.fid
  BY <1>1, <1>2 DEF Job, path
<1>4. local'[RecordKey] = Strm(job.fid) /\ \A p \in Path : p # RecordKey => local'[p] = local[p]
  BY <1>1 DEF Base, Typed, TypeOK
<1>5. CASE path \in Quiet
  <2>1. Fetching(job.op) /\ RecordKey = path
    BY <1>1, <1>5, InHand
  <2>2. at = "put"
    BY <1>2, <2>1 DEF Fetching
  <2>3. There(path)' /\ local'[path].x = job'.fid
    BY <1>3, <1>4, <2>1 DEF There, Strm
  <2> QED
    BY <1>1, <1>3, <1>4, <2>1, <2>2, <2>3, FetchStep
<1>6. CASE path \notin Quiet
  <2>1. RecordKey \notin Quiet
    BY <1>1, <1>6 DEF RecordKey, Kin, OpOK, path
  <2>2. \A p \in Quiet : local'[p] = local[p]
    BY <1>4, <2>1 DEF Quiet
  <2> QED
    BY <1>1, <1>3, <1>6, <2>2, NodesSame, ElsewhereLoss DEF Has
<1> QED
  BY <1>5, <1>6

(* What is recorded belongs near the path it is recorded for.              *)
LEMMA PutNear ==
    ASSUME Base, job.at = "put"
    PROVE  Near(RecordKey, job.fid)
<1>1. /\ job.op \in Operation /\ OpOK(job.op) /\ job.op.kind \in {"upload", "adopt", "download"}
      /\ job.op.kind = "upload" => node[job.fid].place = "root" /\ node[job.fid].name = path
      /\ job.op.kind # "upload" => job.fid = job.op.fid /\ Lands(path, job.fid) /\ ~job.op.video
      /\ job.op.video => path \in VideoPath
  BY InOp DEF Base, Stage, OpOK, path
<1> QED
  BY <1>1, LandsNear DEF RecordKey, Near

LEMMA PutRecordLoss == ASSUME LossInv, PutRecord PROVE LossInv'
<1>1. /\ task' = task /\ node' = node /\ local' = local /\ built' = built /\ touched' = touched /\ torn' = torn
      /\ job.at = "put" /\ Base /\ Base' /\ path \in Path /\ job \in Job /\ RecordKey \in Path /\ Kin
      /\ job.op \in Operation /\ OpOK(job.op)
  BY PutRecordBase, InOp DEF PutRecord, RecordAs, Same, LossInv, Base, Typed, Related
<1> DEFINE new == [fid |-> job.fid, kind |-> IF RecordKey \in StrmPath THEN "strm" ELSE "file", size |-> RecordSize]
<1>2. index' = [index EXCEPT ![RecordKey] = new]
  BY DEF PutRecord, RecordAs
<1>3. index'[RecordKey] = new /\ \A p \in Path : p # RecordKey => index'[p] = index[p]
  BY <1>1, <1>2 DEF Base, Typed, TypeOK
<1>4. job'.op = NoOp /\ job'.ops \subseteq job.ops
  BY <1>1, EndedIs DEF PutRecord, RecordAs
<1>5. \A p \in Path : index'[p] = index[p] \/ Near(p, index[p].fid)'
  <2>1. Near(RecordKey, job.fid) /\ job.fid \in Fid
    BY <1>1, PutNear, PutIs
  <2> QED
    BY <1>1, <1>3, <2>1, NodesSame, NearStays
<1>6. CASE path \notin Quiet
  <2>1. RecordKey \notin Quiet
    BY <1>1, <1>6 DEF RecordKey, Kin, OpOK, path
  <2>2. \A p \in Quiet : index'[p] = index[p]
    BY <1>3, <2>1 DEF Quiet
  <2> QED
    BY <1>1, <1>4, <1>5, <1>6, <2>2, NodesSame, ElsewhereLoss
<1>7. CASE path \in Quiet
  <2>1. /\ Fetching(job.op) /\ RecordKey = path /\ There(path) /\ job.op.kind = "download"
        /\ path \in StrmPath => local[path].x = job.fid
    BY <1>1, <1>7, InHand DEF LossInv, Untouched, Fetching
  <2>2. PICK f \in Fid : f = job.fid /\ f \in Present /\ Lands(path, f)
    <3>1. job.fid \in Fid /\ job.fid = job.op.fid
      BY <1>1, <2>1 DEF Base, Stage
    <3> QED
      BY <1>1, <2>1, <3>1 DEF OpOK, Fetching, path
  <2>3. KeepsNames /\ Kin' /\ Quiet' = Quiet /\ path' = none
    BY <1>1, <1>4, NodesSame, QuietSame, NoOpIsNone DEF path
  <2>4. index'[path] = new
    BY <1>3, <2>1
  <2>5. ASSUME NEW p \in Quiet PROVE Untouched(p)'
    <3>0. p \in Path /\ Untouched(p) /\ p # none
      BY MirrorBothAssumption DEF Quiet, LossInv
    <3>1. CASE p # path
      BY <1>1, <1>3, <1>4, <2>1, <2>3, <3>0, <3>1, NodesSame, UntouchedStays
    <3>2. CASE p = path
      <4>1. index'[p] = new /\ There(p)' /\ local'[p] = local[p]
        BY <1>1, <2>1, <2>4, <3>2 DEF There
      <4>2. new # NoRecord /\ new.fid = f
        BY <2>2, MirrorBothAssumption DEF NoRecord
      <4>3. Has(p)' /\ index'[p].fid = f
        BY <4>1, <4>2 DEF Has
      <4>4. f \in Present' /\ Lands(p, f)'
        BY <1>1, <2>2, <2>3, <3>2, LandsStays DEF Present
      <4>5. local[p].k = "strm" => index'[p].kind = "strm" /\ f = local[p].x
        BY <1>1, <2>1, <2>2, <3>2, <4>1 DEF Base, LocalOK
      <4>6. ASSUME local[p].k = "file" PROVE index'[p].kind = "file" /\ index'[p].size = SizeOf[local[p].x]
        <5>1. path \notin StrmPath
          BY <1>1, <3>2, <4>6 DEF Base, LocalOK, Name
        <5>2. RecordSize = SizeOf[local[path].x]
          BY <2>1, <5>1 DEF RecordSize
        <5> QED
          BY <2>1, <3>2, <4>1, <5>1, <5>2
      <4>7. Matched(p)'
        BY <4>1, <4>3, <4>4, <4>5, <4>6 DEF Matched
      <4> QED
        BY <1>4, <3>0, <3>2, <4>1, <4>3, <4>4, <4>7, UntouchedEnds
    <3> QED
      BY <3>1, <3>2
  <2>6. OneNode' /\ Pending' \subseteq Pending \cup {NoOp}
    BY <1>1, <1>4, <2>3, NodesSame, OneNodeStays DEF Pending
  <2> QED
    BY <1>1, <1>5, <2>3, <2>5, <2>6, NodesSame, LossStays
<1> QED
  BY <1>6, <1>7

LEMMA NextOpLoss == ASSUME LossInv, NextOp PROVE LossInv'
<1>1. /\ task' = task /\ node' = node /\ local' = local /\ index' = index /\ built' = built
      /\ touched' = touched /\ torn' = torn /\ job.at = "next" /\ job.op = NoOp /\ path = none
      /\ Base /\ Base' /\ job \in Job
  BY NextOpBase, NoOpIsNone DEF NextOp, history, LossInv, Base, Stage, Typed, path
<1>2. PICK o \in job.ops : job' = [job EXCEPT !.at = o.kind, !.op = o, !.ops = @ \ {o}]
  BY DEF NextOp, Soonest
<1>3. job'.op = o /\ job'.ops = job.ops \ {o} /\ job'.at = o.kind /\ path' = o.path
      /\ o \in Operation /\ o.kind \in Kind
  BY <1>1, <1>2 DEF Job, path, Operation
<1>4. Kin' /\ Quiet' = Quiet
  BY <1>1, QuietSame
<1>5. ASSUME NEW p \in Quiet PROVE Untouched(p)'
  <2>0. p \in Path /\ Untouched(p) /\ p # none
    BY MirrorBothAssumption DEF Quiet, LossInv
  <2>1. CASE p # o.path
    BY <1>1, <1>3, <2>0, <2>1, NodesSame, UntouchedStays
  <2>2. CASE p = o.path
    <3>1. Clearing(o) \/ Fetching(o)
      BY <2>0, <2>2 DEF Untouched, Pending
    <3>2. ~There(p)
      BY <1>1, <2>2, <3>1 DEF Clearing, Fetching
    <3>3. \A q \in job.ops : q.path = p => q = o
      BY <2>0, <2>2 DEF Untouched
    <3>4. Clearing(o)' \/ Fetching(o)'
      BY <1>1, <2>2, <3>1, <3>2 DEF Clearing, Fetching, There, Has, Present
    <3>5. ~There(p)' /\ (Has(p)' <=> Has(p))
      BY <1>1, <3>2 DEF There, Has
    <3>6. Has(p) => Lands(p, index[p].fid)' /\ index'[p].fid \in built'
      BY <1>1, <2>0, <3>2 DEF Untouched, Lands, SavePath
    <3>7. job'.at \notin {"copy", "put"}
      BY <1>3 DEF Kind
    <3>8. \A q \in Pending' : q.path = p => q = o
      BY <1>3, <3>3 DEF Pending
    <3> QED
      BY <1>3, <3>3, <3>4, <3>5, <3>6, <3>7, <3>8 DEF Untouched
  <2> QED
    BY <2>1, <2>2
<1>6. OneNode' /\ Pending' \subseteq Pending \cup {NoOp}
  BY <1>1, <1>3, <1>4, NodesSame, OneNodeStays DEF Pending
<1> QED
  BY <1>1, <1>4, <1>5, <1>6, NodesSame, LossStays DEF Has

LEMMA InitTaskLoss == ASSUME LossInv, Alike, InitTask PROVE LossInv'
<1>1. /\ task' = task /\ node' = node /\ local' = local /\ job' = job /\ touched' = touched /\ torn' = torn
      /\ ~ready /\ Base /\ Base'
  BY InitTaskBase DEF InitTask, LossInv
<1>2. /\ job.at = "idle" /\ job.ops = {} /\ job.op = NoOp /\ path = none /\ path' = none
      /\ Pending = {NoOp} /\ Pending' = {NoOp} /\ NoOp.path = none
  BY <1>1, NoOpIsNone DEF Base, Stage, path, Pending
<1>3. Kin' /\ Quiet' = Quiet
  BY <1>1, QuietSame
<1>4. OneNode'
  BY <1>1, <1>3, NodesSame, OneNodeStays
<1>5. CASE index' = index /\ built' = built
  <2>1. ASSUME NEW p \in Quiet PROVE Untouched(p)'
    <3>1. p \in Path /\ Untouched(p)
      BY DEF Quiet, LossInv
    <3> QED
      BY <1>1, <1>5, <3>1, NodesSame, UntouchedStays
  <2> QED
    BY <1>1, <1>2, <1>3, <1>4, <1>5, <2>1, NodesSame, LossStays DEF Has
<1>6. CASE /\ \A p \in Path : ~Has(p)
           /\ \E kept \in SUBSET Present : index' = BuildIndex(kept) /\ built' = built \cup kept
  <2>1. PICK kept \in SUBSET Present : index' = BuildIndex(kept) /\ built' = built \cup kept
    BY <1>6
  <2>2. ASSUME NEW p \in Path, Has(p)' PROVE \E f \in kept : SavePath(f) = p /\ index'[p].fid = f
    <3>1. index'[p] # index[p]
      BY <1>6, <2>2 DEF Has
    <3>2. PICK f \in kept : UpName(f) = p /\ index'[p] = BuiltRecord(f)
      BY <1>1, <2>1, <3>1, BuiltIs
    <3> QED
      BY <1>1, <3>2, UpIsSave DEF BuiltRecord
  <2>3. ASSUME NEW p \in Path, Has(p)'
        PROVE  Lands(p, index[p].fid)' /\ Near(p, index[p].fid)' /\ index'[p].fid \in built'
    <3>1. PICK f \in kept : SavePath(f) = p /\ index'[p].fid = f
      BY <2>2, <2>3
    <3>2. Lands(p, f) /\ f \in Fid
      BY <3>1 DEF Lands, Present
    <3> QED
      BY <1>1, <2>1, <3>1, <3>2, LandsNear, LandsStays, NearStays, NodesSame
  <2>4. ASSUME NEW p \in Quiet PROVE Untouched(p)'
    <3>1. p \in Path /\ Untouched(p) /\ p # none
      BY MirrorBothAssumption DEF Quiet, LossInv
    <3>2. ~There(p)' /\ \A o \in Pending' : o.path # p
      BY <1>1, <1>2, <1>6, <3>1 DEF Untouched, Matched, There
    <3> QED
      BY <1>1, <1>2, <2>3, <3>1, <3>2 DEF Untouched
  <2> QED
    BY <1>1, <1>2, <1>3, <1>4, <2>1, <2>3, <2>4, NodesSame, LossStays
<1> QED
  BY <1>5, <1>6 DEF InitTask

(* A quiet path that is in step is left alone by the upload scope.         *)
LEMMA DecideNothing ==
    ASSUME LossInv, Alike, NEW p \in Quiet, There(p), Matched(p)
    PROVE  Decide(p) = {}
<1>1. p \in Path /\ Lands(p, index[p].fid) /\ Base
  BY DEF Quiet, LossInv, Untouched, Matched
<1>2. CASE local[p].k = "strm"
  BY <1>2 DEF Decide, DecideStrm, Matched, There
<1>3. CASE local[p].k = "file"
  <2>1. p \in Name
    BY <1>1, <1>3 DEF Base, LocalOK
  <2>2. ~(task.toStrm /\ p \in VideoPath)
    BY <1>1, <2>1, Names DEF Lands, SavePath, Name, Base, Typed, TypeOK, Alike
  <2> QED
    BY <1>3, <2>2 DEF Decide, DecidePlain, Matched, There
<1>4. local[p].k \in {"strm", "file"}
  BY <1>1 DEF Base, Typed, TypeOK, There, Nothing, File, Strm
<1> QED
  BY <1>2, <1>3, <1>4

LEMMA PlanLocalQuiet ==
    ASSUME LossInv, Alike, job.at = "idle", NEW o \in PlanLocal, o.path \in Quiet
    PROVE  o = ClearOp(o.path) /\ Clearing(o)
<1>1. PICK p \in Path : o \in Decide(p)
  BY DEF PlanLocal
<1>2. o.path = p \/ (p \in VideoPath /\ There(p) /\ o.path = StrmOf[p])
  BY <1>1, DecideIs DEF LossInv
<1>3. p \in Quiet
  BY <1>2 DEF LossInv, Related, Kin
<1>4. ~There(p)
  BY <1>1, <1>3, DecideNothing DEF LossInv, Untouched
<1>5. o \in Cleared(p) /\ o.path = p
  BY <1>1, <1>2, <1>4 DEF Decide, DecideMissing, There
<1>6. Clears(o) /\ o.fid = index[p].fid
  BY <1>5, <1>1, ClearedIs DEF LossInv
<1> QED
  BY <1>4, <1>5, <1>6 DEF Clears, Clearing

LEMMA PlanCloudQuiet ==
    ASSUME LossInv, StrmsDiffer, job.at = "idle", NEW o \in PlanCloud, o.path \in Quiet
    PROVE  Fetching(o) /\ ~There(o.path) /\ o = Op("download", o.path, o.fid)
           /\ node[o.fid].name \in Quiet /\ SavePath(o.fid) = o.path
<1>1. o \in Operation /\ (Prunes(o) \/ Fetches(o)) /\ Base /\ Untouched(o.path) /\ Kin
  BY PlanCloudIs DEF LossInv, Related
<1>2. o.fid \in Present /\ o.fid \in Fid /\ node[o.fid].place # "none"
  BY <1>1 DEF Prunes, Fetches, Present
<1>3. o.path = SavePath(o.fid) /\ o.kind = (IF Prunes(o) THEN "drop" ELSE "download")
  BY <1>1, <1>2, SavePathIs, OpIs DEF Prunes, Fetches, Kind
<1>4. Near(o.path, o.fid) /\ node[o.fid].name \in Quiet
  BY <1>1, <1>2, <1>3, NearQuiet DEF Near, SavePath
<1>5. ASSUME Prunes(o) PROVE FALSE
  <2> DEFINE g == index[o.path].fid
  <2>1. There(o.path) /\ Has(o.path) /\ g # o.fid
    BY <1>3, <1>5 DEF Prunes, Stale
  <2>2. g \in Present /\ Lands(o.path, g)
    BY <1>1, <2>1 DEF Untouched, Matched
  <2>3. g \in Fid /\ node[g].place # "none" /\ SavePath(g) = SavePath(o.fid)
    BY <1>3, <2>2 DEF Lands, Present
  <2>4. node[g].name = node[o.fid].name
    BY <1>1, <1>2, <2>3, SameSave
  <2> QED
    BY <1>2, <1>4, <2>1, <2>2, <2>4 DEF LossInv, OneNode
<1> QED
  BY <1>1, <1>2, <1>3, <1>4, <1>5 DEF Fetches, Fetching, Missing

(* The node an upload is to replace is the one recorded for the video.     *)
LEMMA SendsFor ==
    ASSUME Base, NEW o \in PlanLocal, o.kind = "upload", o.fid # none
    PROVE  o.path \in VideoPath /\ Has(StrmOf[o.path]) /\ o.fid = index[StrmOf[o.path]].fid
<1>1. PICK p \in Path : o \in Decide(p)
  BY DEF PlanLocal
<1>2. \A q \in Path : o \notin Cleared(q)
  <2>1. ASSUME NEW q \in Path, o \in Cleared(q) PROVE FALSE
    <3>1. index[q].fid \in Fid /\ q \in Path
      BY <2>1 DEF Cleared, Base, RecordOK
    <3> QED
      BY <2>1, <3>1, OpIs DEF Cleared, ClearOp, Kind
  <2> QED
    BY <2>1
<1>3. \A q \in Path : o # Op("upload", q, none)
  BY OpIs DEF Kind
<1>4. \A q \in Path : o # Op("adopt", q, local[q].x)
  BY DEF Op
<1>5. o \in DecideVideo(p) /\ p \in VideoPath
  BY <1>1, <1>2, <1>3, <1>4 DEF Decide, DecideMissing, DecideStrm, DecidePlain
<1>6. StrmOf[p] \in Path
  BY <1>5, MirrorBothAssumption
<1>7. LET f == IF index[StrmOf[p]].kind = "strm" THEN index[StrmOf[p]].fid ELSE none
      IN  o = [Op("upload", p, f) EXCEPT !.video = TRUE]
  BY <1>1, <1>2, <1>3, <1>5, <1>6 DEF DecideVideo, DecidePlain
<1>8. o.path = p /\ index[StrmOf[p]].kind = "strm" /\ o.fid = index[StrmOf[p]].fid
  BY <1>7 DEF Op
<1> QED
  BY <1>5, <1>8 DEF Has, NoRecord

LEMMA PlanNear ==
    ASSUME LossInv, StrmsDiffer, NEW o \in PlanLocal \cup PlanCloud, o.fid # none
    PROVE  Near(o.path, o.fid)
<1>1. Base /\ Related
  BY DEF LossInv
<1>2. CASE o \in PlanCloud
  <2>1. o.fid \in Present /\ o.fid \in Fid /\ node[o.fid].place # "none"
    BY <1>1, <1>2, PlanCloudIs DEF Prunes, Fetches, Present
  <2>2. o.path = SavePath(o.fid)
    BY <1>1, <1>2, <2>1, PlanCloudIs, SavePathIs, OpIs DEF Prunes, Fetches, Kind
  <2> QED
    BY <2>1, <2>2 DEF Near, SavePath
<1>3. CASE o \in PlanLocal /\ o.kind = "upload"
  <2>1. o.path \in VideoPath /\ Near(StrmOf[o.path], o.fid) /\ o.fid \in Fid
    BY <1>1, <1>3, SendsFor, Names DEF Related, Base, RecordOK
  <2>2. node[o.fid].name \in Name
    BY <1>1, <2>1 DEF Near, Base, NodeOK
  <2> QED
    BY <2>1, <2>2, Names DEF Near, StrmsDiffer, Name
<1>4. CASE o \in PlanLocal /\ o.kind # "upload"
  <2>1. o \in Operation /\ (Clears(o) \/ Adopts(o))
    BY <1>1, <1>4, PlanLocalIs DEF Sends
  <2>2. CASE Clears(o)
    <3>1. o.path \in Path /\ Has(o.path) /\ o.fid = index[o.path].fid
      BY <1>1, <2>1, <2>2, OpIs DEF Clears, ClearOp, Operation, Base, RecordOK, Kind
    <3> QED
      BY <1>1, <3>1 DEF Related
  <2>3. CASE Adopts(o)
    <3>1. o.path \in Path /\ local[o.path].k = "strm" /\ local[o.path].x \in Fid
      BY <1>1, <2>1, <2>3 DEF Adopts, Operation, Base, LocalOK, Typed, TypeOK, Strm, File, Nothing
    <3>2. o.fid = local[o.path].x
      BY <2>3, <3>1, OpIs DEF Adopts, Kind
    <3> QED
      BY <1>1, <3>1, <3>2, LandsNear DEF Base, LocalOK
  <2> QED
    BY <2>1, <2>2, <2>3
<1> QED
  BY <1>2, <1>3, <1>4

LEMMA RunLoss ==
    ASSUME LossInv, NEW scope \in {"up", "down"}, NEW ops, Run(scope, ops), Base',
           \A o \in ops : o.fid # none => Near(o.path, o.fid),
           \A o \in ops : o.path \in Quiet => Clearing(o) \/ (Fetching(o) /\ ~There(o.path)),
           \A o, q \in ops : o.path \in Quiet /\ o.path = q.path => o = q
    PROVE  LossInv'
<1>1. /\ task' = task /\ node' = node /\ local' = local /\ index' = index /\ built' = built
      /\ touched' = touched /\ torn' = torn /\ job.at = "idle" /\ Base
  BY DEF Run, LossInv
<1>2. Kin' /\ Quiet' = Quiet
  BY <1>1, QuietSame
<1>3. OneNode'
  BY <1>1, <1>2, NodesSame, OneNodeStays
<1>4. CASE job' = job
  <2>1. ASSUME NEW p \in Quiet PROVE Untouched(p)'
    <3>1. p \in Path /\ Untouched(p)
      BY DEF Quiet, LossInv
    <3> QED
      BY <1>1, <1>4, <3>1, NodesSame, UntouchedStays
  <2>2. Pending' = Pending
    BY <1>4 DEF Pending
  <2> QED
    BY <1>1, <1>2, <1>3, <2>1, <2>2, NodesSame, LossStays DEF Has
<1>5. CASE job' = [Idle EXCEPT !.scope = scope, !.at = "next", !.ops = ops, !.calm = TRUE]
  <2>1. job'.op = NoOp /\ job'.ops = ops /\ job'.at = "next" /\ path' = none /\ NoOp.fid = none /\ NoOp.path = none
    BY <1>5, NoOpIsNone DEF Idle, path, NoOp, Op
  <2>2. ASSUME NEW p \in Quiet PROVE Untouched(p)'
    <3>1. p \in Path /\ Untouched(p) /\ p # none
      BY MirrorBothAssumption DEF Quiet, LossInv
    <3>2. There(p) => Matched(p)'
      BY <1>1, <3>1 DEF Untouched, Matched, Has, Present
    <3>3. (There(p)' <=> There(p)) /\ (Has(p)' <=> Has(p))
      BY <1>1 DEF There, Has
    <3>4. Has(p) => Lands(p, index[p].fid)' /\ (There(p)' \/ index'[p].fid \in built')
      BY <1>1, <3>1, <3>3 DEF Untouched, Lands, SavePath
    <3>5. \A o \in Pending' : o.path = p => Clearing(o)' \/ Fetching(o)'
      BY <1>1, <2>1, <3>1 DEF Pending, Clearing, Fetching, There, Has, Present
    <3> QED
      BY <2>1, <3>1, <3>2, <3>3, <3>4, <3>5 DEF Untouched
  <2>3. Related'
    BY <1>1, <1>2, <2>1 DEF LossInv, Related, Near, Pending, Has
  <2>4. Spared'
    BY <1>1, <1>2 DEF LossInv, Spared
  <2> QED
    BY <1>2, <1>3, <2>2, <2>3, <2>4 DEF LossInv
<1> QED
  BY <1>4, <1>5 DEF Run

LEMMA RunUploadLoss == ASSUME LossInv, Alike, StrmsDiffer, RunUpload PROVE LossInv'
<1>1. Run("up", PlanLocal) /\ job.at = "idle" /\ Base'
  BY RunUploadBase DEF RunUpload, Run, LossInv
<1>2. \A o \in PlanLocal : o.fid # none => Near(o.path, o.fid)
  BY PlanNear
<1>3. \A o \in PlanLocal : o.path \in Quiet => o = ClearOp(o.path) /\ Clearing(o)
  BY <1>1, PlanLocalQuiet
<1> QED
  BY <1>1, <1>2, <1>3, RunLoss

LEMMA RunDownloadLoss == ASSUME LossInv, StrmsDiffer, RunDownload PROVE LossInv'
<1>1. Run("down", PlanCloud) /\ job.at = "idle" /\ Base'
  BY RunDownloadBase DEF RunDownload, Run, LossInv
<1>2. \A o \in PlanCloud : o.fid # none => Near(o.path, o.fid)
  BY PlanNear
<1>3. \A o \in PlanCloud : o.path \in Quiet =>
          /\ Fetching(o) /\ ~There(o.path) /\ o = Op("download", o.path, o.fid)
          /\ node[o.fid].name \in Quiet /\ SavePath(o.fid) = o.path
  BY <1>1, PlanCloudQuiet
<1>4. ASSUME NEW o \in PlanCloud, NEW q \in PlanCloud, o.path \in Quiet, o.path = q.path PROVE o = q
  <2>1. o.fid \in Present /\ q.fid \in Present
    BY <1>3, <1>4 DEF Fetching
  <2>2. node[o.fid].name = node[q.fid].name
    BY <1>3, <1>4, <2>1, SameSave DEF LossInv, Present
  <2>3. o.fid = q.fid
    BY <1>3, <1>4, <2>1, <2>2 DEF LossInv, OneNode
  <2>4. o = Op("download", o.path, o.fid) /\ q = Op("download", q.path, q.fid)
    BY <1>3, <1>4
  <2> QED
    BY <1>4, <2>3, <2>4
<1> QED
  BY <1>1, <1>2, <1>3, <1>4, RunLoss

(* A failure, a stop or a death: what is cut off between its effect and    *)
(* its record is not quiet any more, and the rest has no effect.           *)
LEMMA BreaksLoss ==
    ASSUME LossInv, Base', StrmsDiffer, task' = task, node' = node, index' = index, built' = built,
           touched' = touched, torn' \in {torn, torn \cup Family(path)}, path \in Path \cup {none},
           job'.op = NoOp, job'.ops \subseteq job.ops,
           \A p \in Path : p # path => local'[p] = local[p],
           path \in Quiet' => local'[path].k = "none"
    PROVE  LossInv'
<1>1. Kin' /\ Quiet' \subseteq Quiet
  <2>1. CASE torn' = torn
    BY <2>1, QuietSame
  <2>2. CASE path \in Path
    BY <2>2, KinStays DEF LossInv, Related
  <2>3. CASE path = none
    <3>1. Family(path) \subseteq {none}
      BY <2>3, MirrorBothAssumption DEF Family
    <3> QED
      BY <3>1, MirrorBothAssumption, Names DEF Kin, Quiet, LossInv, Related
  <2> QED
    BY <2>1, <2>2, <2>3
<1>2. KeepsNames /\ path' = none /\ Present' = Present
  BY NodesSame, NoOpIsNone DEF path, Present
<1>3. ASSUME NEW p \in Quiet' PROVE Untouched(p)'
  <2>0. p \in Path /\ p \in Quiet /\ Untouched(p) /\ p # none
    BY <1>1, MirrorBothAssumption DEF Quiet, LossInv
  <2>1. CASE p # path
    BY <1>2, <2>0, <2>1, NodesSame, UntouchedStays DEF LossInv
  <2>2. CASE p = path
    <3>1. Clearing(job.op) \/ Fetching(job.op)
      BY <2>0, <2>2, InHand
    <3>2. ASSUME Has(p)' PROVE Lands(p, index[p].fid)' /\ index'[p].fid \in built'
      <4>1. Has(p)
        BY <3>2 DEF Has
      <4>2. ~There(p)
        BY <2>2, <3>1, <4>1 DEF Clearing, Fetching, path
      <4>3. index[p].fid \in Fid
        BY <2>0, <4>1 DEF LossInv, Base, RecordOK
      <4> QED
        BY <1>2, <2>0, <4>1, <4>2, <4>3, LandsStays DEF Untouched
    <3> QED
      BY <1>3, <2>0, <2>2, <3>2, UntouchedEnds DEF There
  <2> QED
    BY <2>1, <2>2
<1>4. OneNode' /\ Pending' \subseteq Pending \cup {NoOp}
  BY <1>1, <1>2, NodesSame, OneNodeStays DEF Pending
<1> QED
  BY <1>1, <1>2, <1>3, <1>4, NodesSame, LossStays DEF Has

LEMMA OwnFamily == ASSUME NEW p PROVE p \in Family(p)
  BY DEF Family

LEMMA FailsLoss == ASSUME LossInv, StrmsDiffer, Fails PROVE LossInv'
<1>1. /\ task' = task /\ node' = node /\ index' = index /\ built' = built /\ touched' = touched
      /\ torn' = IF job.at = "strm" THEN torn \cup Family(path) ELSE torn
      /\ local' = IF job.at = "copy" THEN [local EXCEPT ![path] = Nothing] ELSE local
      /\ job.at \in {"retire", "drop", "upload", "retireOld", "strm", "adopt", "download", "copy"}
      /\ Base /\ Base' /\ path \in Path /\ job'.op = NoOp /\ job'.ops \subseteq job.ops
  BY FailsBase, InOp, EndedIs DEF Fails, LossInv
<1>2. /\ \A p \in Path : p # path => local'[p] = local[p]
      /\ job.at = "copy" => local'[path] = Nothing
  BY <1>1 DEF Base, Typed, TypeOK
<1>3. ASSUME path \in Quiet' PROVE local'[path].k = "none"
  <2>1. job.at # "strm" /\ path \in Quiet
    BY <1>1, <1>3, OwnFamily DEF Quiet
  <2>2. CASE job.at = "copy"
    BY <1>2, <2>2 DEF Nothing
  <2>3. CASE job.at # "copy"
    BY <1>1, <2>1, <2>3, InHand DEF Clearing, Fetching, There, path
  <2> QED
    BY <2>2, <2>3
<1> QED
  BY <1>1, <1>2, <1>3, BreaksLoss

LEMMA CutOffLoss == ASSUME LossInv, StrmsDiffer, CutOff PROVE LossInv'
<1>1. /\ task' = task /\ node' = node /\ local' = local /\ index' = index /\ built' = built /\ touched' = touched
      /\ torn' = IF job.at \in {"clear", "copy", "strm", "put"} THEN torn \cup Family(path) ELSE torn
      /\ Base /\ Base' /\ job' = Idle
  BY CutOffBase DEF CutOff, LossInv
<1>2. job'.op = NoOp /\ job'.ops \subseteq job.ops
  BY <1>1 DEF Idle
<1>3. path \in Path \cup {none}
  BY <1>1, NoOpIsNone DEF Base, Typed, Job, Operation, path
<1>4. ASSUME path \in Quiet' PROVE local'[path].k = "none"
  <2>1. job.at \notin {"clear", "copy", "strm", "put"} /\ path \in Quiet
    BY <1>1, <1>4, OwnFamily DEF Quiet
  <2> QED
    BY <1>1, <2>1, InHand DEF Clearing, Fetching, There, path
<1> QED
  BY <1>1, <1>2, <1>3, <1>4, BreaksLoss

(* Others leave the run where it is.                                       *)
LEMMA DisturbedIs ==
    ASSUME Base, Disturbed
    PROVE  /\ job'.op = job.op /\ job'.ops = job.ops /\ job'.at = job.at /\ job'.fid = job.fid
           /\ path' = path /\ Pending' = Pending
  BY DEF Disturbed, Base, Typed, Job, path, Pending

LEMMA AddInCloudLoss ==
    ASSUME LossInv, NEW p \in Path, NEW c \in Comes[p], AddInCloud(p, c)
    PROVE  LossInv'
<1>1. /\ task' = task /\ local' = local /\ index' = index /\ built' = built /\ touched' = touched /\ torn' = torn
      /\ Disturbed /\ Base /\ Base' /\ KeepsNames /\ \A f \in Present : node[f].name # p
  BY AddInCloudBase DEF AddInCloud, LossInv
<1>2. PICK f \in Fresh : node'[f] = [name |-> p, c |-> c, place |-> "root"] /\ \A g \in Fid : g # f => node'[g] = node[g]
  BY <1>1, AddInCloudBase
<1>3. Kin' /\ Quiet' = Quiet
  BY <1>1, QuietSame
<1>4. \A g \in Present : g # f /\ node'[g].place = "root"
  BY <1>2 DEF Present, Fresh
<1>5. ASSUME NEW q \in Quiet PROVE Untouched(q)'
  <2>1. q \in Path /\ Untouched(q)
    BY DEF Quiet, LossInv
  <2> QED
    BY <1>1, <1>4, <2>1, DisturbedIs, UntouchedStays
<1>6. OneNode'
  BY <1>1, <1>2, <1>3 DEF LossInv, OneNode, Present
<1>7. \A g \in Fid : node'[g].place = "gone" => node[g].place = "gone"
  BY <1>2
<1> QED
  BY <1>1, <1>3, <1>5, <1>6, <1>7, DisturbedIs, LossStays DEF Has

LEMMA EditedLoss ==
    ASSUME LossInv, Base', StrmsDiffer, NEW p \in Path, NEW what, Edited(p, what)
    PROVE  LossInv'
<1>1. /\ task' = task /\ node' = node /\ index' = index /\ built' = built /\ torn' = torn
      /\ touched' = touched \cup Family(p) /\ local' = [local EXCEPT ![p] = what] /\ Disturbed /\ Base
  BY DEF Edited, LossInv
<1>2. Kin' /\ Quiet' \subseteq Quiet /\ p \notin Quiet'
  BY <1>1, KinStays, OwnFamily DEF LossInv, Related, Quiet
<1>3. ASSUME NEW q \in Quiet' PROVE Untouched(q)'
  <2>1. q \in Path /\ Untouched(q) /\ q # p
    BY <1>2 DEF Quiet, LossInv
  <2>2. local'[q] = local[q]
    BY <1>1, <2>1 DEF Base, Typed, TypeOK
  <2> QED
    BY <1>1, <2>1, <2>2, DisturbedIs, NodesSame, UntouchedStays
<1>4. OneNode'
  BY <1>1, <1>2, NodesSame, OneNodeStays
<1> QED
  BY <1>1, <1>2, <1>3, <1>4, DisturbedIs, NodesSame, LossStays DEF Has

LEMMA IdleLoss == ASSUME LossInv, UNCHANGED vars PROVE LossInv'
<1>1. /\ task' = task /\ node' = node /\ local' = local /\ index' = index /\ built' = built /\ torn' = torn
      /\ touched' = touched /\ job' = job /\ Base'
  BY IdleBase DEF vars, history, LossInv
<1>2. Kin' /\ Quiet' = Quiet /\ Pending' = Pending
  BY <1>1, QuietSame DEF Pending
<1>3. ASSUME NEW q \in Quiet PROVE Untouched(q)'
  <2>1. q \in Path /\ Untouched(q)
    BY DEF Quiet, LossInv
  <2> QED
    BY <1>1, <2>1, NodesSame, UntouchedStays DEF LossInv
<1>4. OneNode'
  BY <1>1, <1>2, NodesSame, OneNodeStays
<1> QED
  BY <1>1, <1>2, <1>3, <1>4, NodesSame, LossStays DEF Has

LEMMA NextLoss == ASSUME LossInv, Alike, StrmsDiffer, [Next]_vars PROVE LossInv'
<1>1. CASE JobStep
  BY <1>1, NextOpLoss, ClearNodeLoss, ClearTreeLoss, UploadLoss, RetireOldLoss, WriteStrmLoss, RemoveOriginalLoss,
     AdoptLoss, RefusedLoss, DownloadLoss, CopyLoss, PutRecordLoss DEF JobStep
<1>2. CASE \E p \in Path : Delete(p) \/ \E c \in Comes[p] : AddInCloud(p, c) \/ Write(p, c)
  <2>1. ASSUME NEW p \in Path, Delete(p) PROVE LossInv'
    BY <2>1, DeleteBase, EditedLoss DEF Delete, LossInv
  <2>2. ASSUME NEW p \in Path, NEW c \in Comes[p], Write(p, c) PROVE LossInv'
    BY <2>2, WriteBase, EditedLoss DEF Write, LossInv
  <2> QED
    BY <1>2, <2>1, <2>2, AddInCloudLoss
<1> QED
  BY <1>1, <1>2, InitTaskLoss, RunUploadLoss, RunDownloadLoss, FailsLoss, AnswerLostLoss, CutOffLoss, IdleLoss DEF Next

(* A file is deleted from the cloud for good only when somebody touched a  *)
(* path of its name, an operation there was cut off, or BuildIndex had     *)
(* recorded it (PlanCloud, decideMissing, decidePlain): whatever is added  *)
(* in the cloud, in whatever order the scopes run, fail and are cut off    *)
(* elsewhere. If the two switches agree, and no two videos share a .strm   *)
(* name.                                                                   *)
THEOREM LossHasCauseHolds == ASSUME Alike, StrmsDiffer PROVE Spec => []LossHasCause
<1>1. LossInv /\ [Next]_vars => LossInv'
  BY NextLoss
<1>2. LossInv => LossHasCause
  <2>1. SUFFICES ASSUME LossInv, NEW f \in Fid, node[f].place = "gone", node[f].name \notin touched \cup torn
                 PROVE  f \in built
    BY DEF LossHasCause
  <2>2. node[f].name \in Quiet
    BY <2>1 DEF LossInv, Base, NodeOK, Name, Quiet
  <2> QED
    BY <2>1, <2>2 DEF LossInv, Spared
<1> QED
  BY <1>1, <1>2, InitLoss, PTL DEF Spec

=============================================================================
