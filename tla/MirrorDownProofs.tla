-------------------------- MODULE MirrorDownProofs --------------------------
(***************************************************************************)
(* A download drops no last copy, tells the truth in its records, archives *)
(* nothing it has not dealt with, and leaves nothing to do when it was not *)
(* disturbed, for any tree of paths and any number of nodes in the cloud.  *)
(***************************************************************************)
EXTENDS MirrorDown, SequenceTheorems, FiniteSetTheorems, TLAPS

(* No two videos in a directory share a stem, and so a .strm.              *)
StrmsDiffer == \A v, w \in VideoPath : StrmOf[v] = StrmOf[w] => v = w

(* No other path in the cloud lands, or is recorded, where this one is.    *)
OwnKey(p) == \A q \in Path \ StrmPath : KeyOf(q, ToStrmDl) = KeyOf(p, ToStrmDl) => q = p

-----------------------------------------------------------------------------
(***************************************************************************)
(* The inductive invariant: types, ...                                     *)
(***************************************************************************)
Nodes == [path : Path \cup {Root}, place : {"fresh", "root", "temp", "gone"}]
Things == [k : {"none", "dir", "file", "part", "strm"}, f : Fid \cup {nobody}]
Jobs ==
    [at : {"idle", "survey", "scan", "apply", "clear", "copy", "put"}, count : {job.count},
     dirs : SUBSET ({Root} \cup DirPath), items : SUBSET Fid, drops : SUBSET Fid,
     gets : SUBSET Fid, tops : SUBSET Fid, fid : Fid \cup {nobody}, failed : SUBSET Fid,
     calm : BOOLEAN]

Typed ==
    /\ mode \in Modes
    /\ cloud \in [Fid -> Nodes]
    /\ local \in [Path -> Things]
    /\ index \in [Path -> Fid \cup {nobody}]
    /\ ready \in BOOLEAN /\ settled \in BOOLEAN
    /\ job \in Jobs
    /\ handled \subseteq Fid /\ excused \subseteq Fid
    /\ deleted \subseteq Path /\ built \subseteq Path

(* ... what the cloud's tree is like: at most two files of a name, and of  *)
(* two that are there the first is recorded, ...                           *)
Same(f, g) == cloud[f].path = cloud[g].path
Kept == {f \in Fid : cloud[f].place \in {"root", "gone"}}

NodesFine ==
    \A f \in Fid :
        /\ cloud[f].place # "fresh" => cloud[f].path \in Path \ StrmPath
        /\ cloud[f].place = "fresh" => cloud[f].path = Root
        /\ cloud[f].place = "temp" => mode = "archive"
        /\ cloud[f].place = "gone" => mode = "twoWay" /\ ~IsDir(f)

FewNamesakes ==
    \A f, g, h \in Kept : Same(f, g) /\ Same(g, h) => f = g \/ g = h \/ f = h

SecondIsRecorded ==
    \A f, g \in Present : Same(f, g) /\ f # g =>
        ~IsDir(f) /\ (OwnKey(cloud[f].path) => Has(SavePath(f)))

(* ... how the job stands, ...                                             *)
Applying == job.at \in {"apply", "clear", "copy", "put"}
ToDrop == {f \in job.drops : job.at = "clear" => f # job.fid}

JobFine ==
    /\ job.items \subseteq Fid \ Fresh
    /\ job.at \in {"survey", "scan"} => job.items \subseteq Present
    /\ job.at = "survey" => mode = "twoWay"
    /\ job.dirs # {} /\ job.at = "survey" => \A p \in Path : ~Has(p)
    /\ ~Applying => job.gets = {} /\ job.drops = {} /\ job.tops = {}
    /\ job.drops # {} => mode = "twoWay"
    /\ job.tops # {} => mode = "archive"
    /\ job.gets \subseteq Present /\ ToDrop \subseteq Present
    /\ job.gets \cap job.drops = {}
    /\ \A f \in job.gets \cup job.drops : ~IsDir(f)
    /\ job.at = "clear" => job.fid \in Fid /\ cloud[job.fid].place = "gone"
    /\ job.at \in {"copy", "put"} => job.fid \in job.gets /\ job.drops = {}
    /\ job.at = "copy" => SavePath(job.fid) = cloud[job.fid].path

(* ... what the records and the local tree have to do with each other, ... *)
GetsUnrecorded ==
    \A f \in job.gets : OwnKey(cloud[f].path) => ~Has(SavePath(f))

Landing ==
    /\ job.at \in {"copy", "put"} => There(SavePath(job.fid)) \/ SavePath(job.fid) \in deleted
    /\ job.at = "put" => local[SavePath(job.fid)].k # "part"

(* ... what has become of the files the walk has seen, ...                 *)
Handling ==
    Applying => Files(job.items) \subseteq job.gets \cup handled \cup job.failed

(* ... and which nodes are recorded: of a name one, which is not dropped.  *)
RecordFine(p) ==
    /\ index[p] \notin Fresh
    /\ \/ cloud[index[p]].path = p
       \/ cloud[index[p]].path \in VideoPath /\ StrmOf[cloud[index[p]].path] = p
    /\ StrmsDiffer => cloud[index[p]].place # "gone"
RecordsFine == \A p \in Path : Has(p) => RecordFine(p)

OneRecord ==
    StrmsDiffer /\ mode = "twoWay" =>
        \A p, q \in Path : Has(p) /\ Has(q) /\ Same(index[p], index[q]) => index[p] = index[q]

SurveyFine ==
    StrmsDiffer /\ job.at = "survey" =>
        \A f, g \in job.items \cup {index[p] : p \in {q \in Path : Has(q)}} : Same(f, g) => f = g

DropsFine ==
    StrmsDiffer =>
        \A f \in ToDrop :
            /\ Has(SavePath(f))
            /\ \A p \in Path : index[p] # f

DownInv ==
    /\ Typed /\ NodesFine /\ FewNamesakes /\ SecondIsRecorded /\ JobFine
    /\ GetsUnrecorded /\ Landing /\ Handling
    /\ RecordsFine /\ OneRecord /\ SurveyFine /\ DropsFine
    /\ RecordMeansLanded /\ RecordedIsWhole /\ ArchivedIsHandled
    /\ StrmsDiffer => DropKeepsOriginal

-----------------------------------------------------------------------------
(***************************************************************************)
(* For the last property: the tree hangs together, what the walk has still *)
(* to see lies below a directory it has still to go to, and what is to be  *)
(* done has been planned.                                                  *)
(***************************************************************************)
TreeFine ==
    \A f \in Present : \A n \in 1 .. Len(cloud[f].path) - 1 :
        \E g \in Present : IsDir(g) /\ cloud[g].path = SubSeq(cloud[f].path, 1, n)

Synced(f) == There(SavePath(f)) /\ ~Stale(f)
NothingToDo(f) == ~Missing(f) /\ ~(DropsStale /\ Stale(f))

WalkFine ==
    job.at = "scan" /\ job.calm =>
        \A f \in Files(Present) :
            \/ f \in job.items \cup blind \/ Synced(f)
            \/ \E d \in job.dirs : IsStrictPrefix(d, cloud[f].path)

PlanFine ==
    Applying /\ job.calm =>
        /\ \A f \in Files(Present) : f \in blind \cup job.gets \cup job.drops \/ NothingToDo(f)
        /\ \A f \in job.drops : There(SavePath(f))
        /\ job.at \in {"clear", "copy", "put"} => There(SavePath(job.fid))

QuietInv ==
    /\ TreeFine /\ WalkFine /\ PlanFine
    /\ job.at = "scan" \/ Applying => ready
    /\ settled => job.at = "idle" /\ ready
    /\ QuietRunSettles

-----------------------------------------------------------------------------
(* The places of a cloud path.                                             *)
LEMMA KeyIs ==
    ASSUME NEW p \in Path \ StrmPath, NEW s
    PROVE  /\ KeyOf(p, s) \in Path
           /\ KeyOf(p, s) = p \/ (p \in VideoPath /\ KeyOf(p, s) = StrmOf[p] /\ StrmOf[p] \in StrmPath)
BY MirrorDownAssumption DEF KeyOf

LEMMA PlainKeyIsOwn ==
    ASSUME NEW p \in Path \ StrmPath, KeyOf(p, ToStrmDl) = p
    PROVE  OwnKey(p)
<1>1. SUFFICES ASSUME NEW q \in Path \ StrmPath, KeyOf(q, ToStrmDl) = KeyOf(p, ToStrmDl)
               PROVE  q = p
  BY DEF OwnKey
<1>2. QED BY <1>1, KeyIs

LEMMA KeysAreOwn ==
    ASSUME StrmsDiffer, NEW p \in Path \ StrmPath
    PROVE  OwnKey(p)
<1>1. SUFFICES ASSUME NEW q \in Path \ StrmPath, KeyOf(q, ToStrmDl) = KeyOf(p, ToStrmDl)
               PROVE  q = p
  BY DEF OwnKey
<1>2. QED BY <1>1, KeyIs DEF StrmsDiffer

LEMMA RootIsNoPath == Root \notin Path
BY MirrorDownAssumption

LEMMA NodeIs ==
    ASSUME Typed, NodesFine, NEW f \in Fid, cloud[f].place # "fresh"
    PROVE  /\ cloud[f].path \in Path \ StrmPath /\ SavePath(f) \in Path
           /\ SavePath(f) = cloud[f].path => OwnKey(cloud[f].path)
           /\ SavePath(f) # cloud[f].path => SavePath(f) \in StrmPath
           /\ StrmsDiffer => OwnKey(cloud[f].path)
<1>1. cloud[f].path \in Path \ StrmPath
  BY DEF NodesFine
<1>2. QED BY <1>1, KeyIs, PlainKeyIsOwn, KeysAreOwn DEF SavePath

(* Who has a record of the same name as a node's.                          *)
LEMMA RecordIs ==
    ASSUME StrmsDiffer, Typed, NodesFine, RecordsFine, NEW f \in Fid, cloud[f].place # "fresh",
           Has(SavePath(f))
    PROVE  index[SavePath(f)] \in Fid /\ Same(index[SavePath(f)], f)
<1>1. PICK p \in Path : p = SavePath(f)
  BY NodeIs
<1>2. PICK g \in Fid : g = index[p]
  BY <1>1 DEF Has, Typed
<1>3. cloud[g].place # "fresh" /\ cloud[g].path \in Path \ StrmPath
  BY <1>1, <1>2 DEF RecordsFine, RecordFine, NodesFine, Fresh
<1>4. \/ cloud[g].path = p
      \/ cloud[g].path \in VideoPath /\ StrmOf[cloud[g].path] = p
  BY <1>1, <1>2 DEF RecordsFine, RecordFine
<1>5. cloud[f].path \in Path \ StrmPath
  BY NodeIs
<1>6. p = KeyOf(cloud[f].path, ToStrmDl)
  BY <1>1 DEF SavePath
<1>7. cloud[g].path = cloud[f].path
  BY <1>3, <1>4, <1>5, <1>6, KeyIs, MirrorDownAssumption DEF StrmsDiffer
<1>8. QED BY <1>1, <1>2, <1>7 DEF Same

-----------------------------------------------------------------------------
(* What an action leaves alone.                                            *)
LEMMA TreeStays ==
    ASSUME DownInv, UNCHANGED <<mode, cloud>>
    PROVE  /\ NodesFine' /\ FewNamesakes'
           /\ (StrmsDiffer => DropKeepsOriginal)'
           /\ handled \subseteq handled' /\ excused \subseteq excused' => ArchivedIsHandled'
BY DEF DownInv, NodesFine, IsDir, FewNamesakes, Same, Kept, DropKeepsOriginal, Present, Files,
       ArchivedIsHandled

LEMMA RecordsStay ==
    ASSUME DownInv, UNCHANGED <<mode, cloud, index>>
    PROVE  SecondIsRecorded' /\ RecordsFine' /\ OneRecord'
BY DEF DownInv, SecondIsRecorded, RecordsFine, RecordFine, OneRecord, Same, Present, Fresh, IsDir,
       SavePath, Has

LEMMA LocalStays ==
    ASSUME DownInv, UNCHANGED <<index, local, deleted, built>>
    PROVE  RecordMeansLanded' /\ RecordedIsWhole'
BY DEF DownInv, RecordMeansLanded, RecordedIsWhole, Has, There

LEMMA IdleIs ==
    ASSUME job' = Idle
    PROVE  /\ job' \in Jobs' /\ JobFine' /\ GetsUnrecorded' /\ Landing' /\ Handling'
           /\ SurveyFine' /\ DropsFine' /\ ~Applying'
<1>1. job' \in Jobs'
  BY DEF Idle, Jobs
<1>2. QED
  BY <1>1 DEF Idle, JobFine, GetsUnrecorded, Landing, Handling, SurveyFine, DropsFine, ToDrop, Applying

LEMMA InitIsInv == Init => DownInv
<1>1. SUFFICES ASSUME Init PROVE DownInv
  OBVIOUS
<1>2. /\ cloud = [f \in Fid |-> [path |-> Root, place |-> "fresh"]]
      /\ \A f \in Fid : cloud[f].path = Root /\ cloud[f].place = "fresh"
      /\ index = [p \in Path |-> nobody] /\ \A p \in Path : ~Has(p)
      /\ local = [p \in Path |-> Nothing] /\ \A p \in Path : local[p].k = "none"
      /\ job = Idle
  BY <1>1 DEF Init, Has, Nothing
<1>3. Typed
  <2>1. job \in Jobs
    BY <1>2 DEF Idle, Jobs
  <2>2. cloud \in [Fid -> Nodes] /\ local \in [Path -> Things]
    BY <1>2 DEF Nodes, Things, Nothing
  <2>3. QED BY <1>1, <1>2, <2>1, <2>2 DEF Init, Typed
<1>4. NodesFine /\ FewNamesakes /\ SecondIsRecorded
  BY <1>2 DEF NodesFine, FewNamesakes, Kept, SecondIsRecorded, Present
<1>5. JobFine /\ GetsUnrecorded /\ Landing /\ Handling /\ SurveyFine /\ DropsFine
  BY <1>2 DEF Idle, JobFine, GetsUnrecorded, Landing, Handling, SurveyFine, DropsFine, ToDrop, Applying
<1>6. RecordsFine /\ OneRecord
  BY <1>2 DEF RecordsFine, OneRecord
<1>7. RecordMeansLanded /\ RecordedIsWhole /\ ArchivedIsHandled /\ DropKeepsOriginal
  BY <1>2 DEF RecordMeansLanded, RecordedIsWhole, ArchivedIsHandled, DropKeepsOriginal, Files
<1>8. QED BY <1>3, <1>4, <1>5, <1>6, <1>7 DEF DownInv

(* A job ends, or is given up.                                             *)
LEMMA EndKeepsInv ==
    ASSUME DownInv, job' = Idle, ready' \in BOOLEAN, settled' \in BOOLEAN,
           UNCHANGED <<mode, cloud, local, index, history>>
    PROVE  DownInv'
<1>1. UNCHANGED <<handled, excused, deleted, built>>
  BY DEF history
<1>2. Typed'
  BY <1>1, IdleIs DEF DownInv, Typed
<1>3. QED BY <1>1, <1>2, IdleIs, TreeStays, RecordsStay, LocalStays DEF DownInv

LEMMA EndsKeepInv ==
    ASSUME DownInv, BuildDone \/ Finish \/ GiveUp
    PROVE  DownInv'
<1>1. /\ job' = Idle /\ ready' \in BOOLEAN /\ settled' \in BOOLEAN
      /\ UNCHANGED <<mode, cloud, local, index, history>>
  BY DEF DownInv, Typed, Jobs, BuildDone, Finish, GiveUp
<1>2. QED BY <1>1, EndKeepsInv

(* A walk begins, to build the index or to plan a download.                *)
LEMMA WalkBegins ==
    ASSUME DownInv, job'.at \in {"survey", "scan"}, job' \in Jobs',
           job'.dirs = {Root}, job'.items = {}, job'.drops = {}, job'.gets = {}, job'.tops = {},
           job'.at = "survey" => mode = "twoWay" /\ \A p \in Path : ~Has(p),
           ready' \in BOOLEAN, settled' \in BOOLEAN,
           UNCHANGED <<mode, cloud, local, index, history>>
    PROVE  DownInv'
<1>1. UNCHANGED <<handled, excused, deleted, built>>
  BY DEF history
<1>2. Typed'
  BY <1>1 DEF DownInv, Typed
<1>3. JobFine' /\ GetsUnrecorded' /\ Landing' /\ Handling' /\ DropsFine'
  BY DEF JobFine, GetsUnrecorded, Landing, Handling, DropsFine, ToDrop, Applying, Has
<1>4. SurveyFine'
  BY DEF SurveyFine, Has
<1>5. QED BY <1>1, <1>2, <1>3, <1>4, TreeStays, RecordsStay, LocalStays DEF DownInv

LEMMA InitTaskKeepsInv ==
    ASSUME DownInv, InitTask
    PROVE  DownInv'
<1>1. CASE NeedsIndex
  <2>1. job' = [Idle EXCEPT !.at = "survey", !.dirs = {Root}] /\ ready' = ready
        /\ UNCHANGED <<mode, cloud, local, index, settled, history>>
    BY <1>1 DEF InitTask
  <2>2. job' \in Jobs' /\ job'.at = "survey" /\ job'.dirs = {Root} /\ job'.items = {}
        /\ job'.drops = {} /\ job'.gets = {} /\ job'.tops = {}
    BY <2>1 DEF Idle, Jobs
  <2>3. ready' \in BOOLEAN /\ settled' \in BOOLEAN
    BY <2>1 DEF DownInv, Typed
  <2>4. QED BY <1>1, <2>1, <2>2, <2>3, WalkBegins DEF NeedsIndex
<1>2. CASE ~NeedsIndex
  <2>1. ready' = TRUE /\ UNCHANGED <<mode, cloud, local, index, job, settled, history>>
    BY <1>2 DEF InitTask
  <2>2. UNCHANGED <<handled, excused, deleted, built>>
    BY <2>1 DEF history
  <2>3. Typed'
    BY <2>1, <2>2 DEF DownInv, Typed, Jobs
  <2>4. JobFine' /\ GetsUnrecorded' /\ Landing' /\ Handling' /\ DropsFine' /\ SurveyFine'
    BY <2>1, <2>2 DEF DownInv, JobFine, GetsUnrecorded, Landing, Handling, DropsFine, SurveyFine,
         ToDrop, Applying, Has, SavePath, Present, Fresh, Same, IsDir, Files, There
  <2>5. QED BY <2>1, <2>2, <2>3, <2>4, TreeStays, RecordsStay, LocalStays DEF DownInv
<1>3. QED BY <1>1, <1>2

LEMMA BeginDownloadKeepsInv ==
    ASSUME DownInv, BeginDownload
    PROVE  DownInv'
<1>1. /\ job' = [Idle EXCEPT !.at = "scan", !.count = LocalTreeCount, !.dirs = {Root}, !.calm = TRUE]
      /\ ready' = ready /\ settled' = FALSE
      /\ UNCHANGED <<mode, cloud, local, index, history>>
  BY DEF BeginDownload
<1>2. job' \in Jobs' /\ job'.at = "scan" /\ job'.dirs = {Root} /\ job'.items = {}
      /\ job'.drops = {} /\ job'.gets = {} /\ job'.tops = {}
  BY <1>1 DEF Idle, Jobs
<1>3. ready' \in BOOLEAN /\ settled' \in BOOLEAN
  BY <1>1 DEF DownInv, Typed
<1>4. QED BY <1>1, <1>2, <1>3, WalkBegins

(* The walk. What a survey notes is there, with no second file of a name.  *)
LEMMA WalkIs ==
    ASSUME DownInv, NEW d \in {Root} \cup DirPath, Walk(d)
    PROVE  /\ job.at \in {"survey", "scan"} /\ job.dirs # {}
           /\ UNCHANGED <<mode, cloud, local, index, ready, settled, history>>
           /\ job' \in Jobs' /\ job'.at = job.at /\ job'.drops = job.drops /\ job'.gets = job.gets
           /\ job'.tops = job.tops /\ job'.failed = job.failed /\ job'.calm = job.calm
           /\ job.items \subseteq job'.items
           /\ job'.items \subseteq job.items \cup Present
           /\ \/ /\ Agrees(d) /\ job'.dirs = job.dirs \ {d} /\ job'.items = job.items
                 /\ blind' = blind \cup {f \in Files(Below(d)) : ~There(SavePath(f)) \/ Stale(f)}
              \/ /\ blind' = blind
                 /\ job'.items = job.items \cup Listing(d)
                 /\ job'.dirs = (job.dirs \ {d}) \cup
                                {cloud[f].path : f \in {g \in Listing(d) : IsDir(g)}}
<1>1. /\ job.at \in {"survey", "scan"} /\ d \in job.dirs /\ job \in Jobs
      /\ UNCHANGED <<mode, cloud, local, index, ready, settled, history>>
  BY DEF Walk, history, DownInv, Typed
<1>2. CASE Skip(d)
  <2>1. job' = [job EXCEPT !.dirs = @ \ {d}]
    BY <1>2 DEF Skip
  <2>2. job' \in Jobs' /\ job'.at = job.at /\ job'.drops = job.drops /\ job'.gets = job.gets
        /\ job'.tops = job.tops /\ job'.failed = job.failed /\ job'.calm = job.calm
        /\ job'.items = job.items /\ job'.dirs = job.dirs \ {d}
    BY <1>1, <2>1 DEF Jobs
  <2>3. QED BY <1>1, <1>2, <2>2 DEF Skip
<1>3. CASE List(d)
  <2>1. PICK D : D = {cloud[f].path : f \in {g \in Listing(d) : IsDir(g)}}
    OBVIOUS
  <2>2. PICK L \in SUBSET Fid : L = Listing(d)
    BY DEF Listing, Present
  <2>3. D \subseteq DirPath
    BY <2>1 DEF IsDir
  <2>4. job' = [job EXCEPT !.dirs = (@ \ {d}) \cup D, !.items = @ \cup L]
    BY <1>3, <2>1, <2>2 DEF List
  <2>5. job' \in Jobs' /\ job'.at = job.at /\ job'.drops = job.drops /\ job'.gets = job.gets
        /\ job'.tops = job.tops /\ job'.failed = job.failed /\ job'.calm = job.calm
        /\ job'.items = job.items \cup L /\ job'.dirs = (job.dirs \ {d}) \cup D
    BY <1>1, <2>3, <2>4 DEF Jobs
  <2>6. L \subseteq Present
    BY <2>2 DEF Listing
  <2>7. blind' = blind
    BY <1>3 DEF List
  <2>8. QED BY <1>1, <2>1, <2>2, <2>5, <2>6, <2>7
<1>4. QED BY <1>2, <1>3 DEF Walk

LEMMA WalkKeepsInv ==
    ASSUME DownInv, NEW d \in {Root} \cup DirPath, Walk(d)
    PROVE  DownInv'
<1>1. /\ job.at \in {"survey", "scan"} /\ job.dirs # {}
      /\ UNCHANGED <<mode, cloud, local, index, ready, settled, history>>
      /\ job' \in Jobs' /\ job'.at = job.at /\ job'.drops = job.drops /\ job'.gets = job.gets
      /\ job'.tops = job.tops
      /\ job'.items \subseteq job.items \cup Present
  BY WalkIs
<1>2. UNCHANGED <<handled, excused, deleted, built>>
  BY <1>1 DEF history
<1>3. Typed'
  BY <1>1, <1>2 DEF DownInv, Typed
<1>4. job.gets = {} /\ job.drops = {} /\ job.tops = {}
  BY <1>1 DEF DownInv, JobFine, Applying
<1>5. JobFine' /\ GetsUnrecorded' /\ Landing' /\ Handling' /\ DropsFine'
  BY <1>1, <1>4 DEF DownInv, JobFine, GetsUnrecorded, Landing, Handling, DropsFine,
         ToDrop, Applying, Has, Present, Fresh
<1>6. SurveyFine'
  <2>1. SUFFICES ASSUME StrmsDiffer, job.at = "survey"
                 PROVE  \A f, g \in job'.items \cup {index[p] : p \in {q \in Path : Has(q)}} :
                            Same(f, g) => f = g
    BY <1>1 DEF SurveyFine, Same, Has
  <2>2. \A p \in Path : ~Has(p)
    BY <1>1, <2>1 DEF DownInv, JobFine
  <2>3. job'.items \subseteq Present
    BY <1>1, <2>1 DEF DownInv, JobFine
  <2>4. ASSUME NEW f \in Present, NEW g \in Present, Same(f, g) PROVE f = g
    <3>1. SavePath(f) \in Path /\ OwnKey(cloud[f].path)
      BY <2>1, NodeIs DEF DownInv, Present
    <3>2. QED BY <2>2, <2>4, <3>1 DEF DownInv, SecondIsRecorded
  <2>5. QED BY <2>2, <2>3, <2>4
<1>7. QED BY <1>1, <1>2, <1>3, <1>5, <1>6, TreeStays, RecordsStay, LocalStays DEF DownInv

LEMMA BuildRecordKeepsInv ==
    ASSUME DownInv, BuildRecord
    PROVE  DownInv'
<1>1. /\ job.at = "survey" /\ job.dirs = {} /\ mode = "twoWay"
      /\ job.gets = {} /\ job.drops = {} /\ job.tops = {} /\ job.items \subseteq Present
      /\ UNCHANGED <<mode, cloud, local, ready, settled, handled, excused, deleted>>
  BY DEF BuildRecord, DownInv, JobFine, Applying
<1>2. PICK f, p :
        /\ f \in job.items
        /\ p = KeyOf(cloud[f].path, ToStrm)
        /\ index' = [index EXCEPT ![p] = f] /\ built' = built \cup {p}
        /\ job' = [job EXCEPT !.items = @ \ {f}]
  BY DEF BuildRecord, First
<1>3. f \in Fid /\ f \in Present /\ f # nobody /\ cloud[f].path \in Path \ StrmPath /\ cloud[f].place = "root"
  BY <1>1, <1>2, MirrorDownAssumption DEF DownInv, NodesFine, Present
<1>4. p \in Path /\ (p = cloud[f].path \/ (cloud[f].path \in VideoPath /\ StrmOf[cloud[f].path] = p))
  BY <1>2, <1>3, KeyIs
<1>5. /\ job' \in Jobs' /\ job'.at = "survey" /\ job'.dirs = {} /\ job'.items = job.items \ {f}
      /\ job'.gets = {} /\ job'.drops = {} /\ job'.tops = {}
  BY <1>1, <1>2 DEF DownInv, Typed, Jobs
<1>6. /\ index' \in [Path -> Fid \cup {nobody}] /\ index'[p] = f
      /\ \A q \in Path : index'[q] = IF q = p THEN f ELSE index[q]
  BY <1>2, <1>3, <1>4 DEF DownInv, Typed
<1>7. Typed'
  BY <1>1, <1>2, <1>4, <1>5, <1>6 DEF DownInv, Typed
<1>8. SecondIsRecorded'
  <2>1. SUFFICES ASSUME NEW h \in Present, NEW g \in Present, Same(h, g), h # g
                 PROVE  ~IsDir(h) /\ (OwnKey(cloud[h].path) => Has(SavePath(h))')
    BY <1>1 DEF SecondIsRecorded, Present, Same, IsDir
  <2>2. ~IsDir(h) /\ (OwnKey(cloud[h].path) => Has(SavePath(h)))
    BY <2>1 DEF DownInv, SecondIsRecorded
  <2>3. SavePath(h) \in Path /\ SavePath(h)' = SavePath(h)
    BY <1>1, NodeIs DEF DownInv, Present, SavePath
  <2>4. QED BY <1>3, <1>6, <2>2, <2>3 DEF Has
<1>9. JobFine' /\ GetsUnrecorded' /\ Landing' /\ Handling' /\ DropsFine'
  BY <1>1, <1>5 DEF DownInv, JobFine, GetsUnrecorded, Landing, Handling, DropsFine, ToDrop, Applying,
       Present, Fresh
<1>10. RecordsFine'
  BY <1>1, <1>3, <1>4, <1>6 DEF DownInv, RecordsFine, RecordFine, Has, Fresh, Present
<1>11. OneRecord' /\ SurveyFine'
  <2>1. SUFFICES ASSUME StrmsDiffer PROVE OneRecord' /\ SurveyFine'
    BY DEF OneRecord, SurveyFine
  <2>2. PICK S : S = job.items \cup {index[q] : q \in {r \in Path : Has(r)}}
    OBVIOUS
  <2>3. \A h, g \in S : Same(h, g) => h = g
    BY <1>1, <2>1, <2>2 DEF DownInv, SurveyFine
  <2>4. \A q \in Path : Has(q)' => index'[q] \in S
    BY <1>2, <1>6, <2>2 DEF Has
  <2>5. job'.items \subseteq S
    BY <1>5, <2>2
  <2>6. \A h, g : Same(h, g)' <=> Same(h, g)
    BY <1>1 DEF Same
  <2>7. OneRecord'
    BY <2>3, <2>4, <2>6 DEF OneRecord
  <2>8. SurveyFine'
    BY <2>3, <2>4, <2>5, <2>6 DEF SurveyFine
  <2>9. QED BY <2>7, <2>8
<1>12. RecordMeansLanded' /\ RecordedIsWhole'
  BY <1>1, <1>2, <1>6 DEF DownInv, RecordMeansLanded, RecordedIsWhole, Has, There
<1>13. QED BY <1>1, <1>7, <1>8, <1>9, <1>10, <1>11, <1>12, TreeStays DEF DownInv

-----------------------------------------------------------------------------
(* The plan: what is fetched has no record, and what is dropped is not the *)
(* recorded one.                                                           *)
LEMMA PlanIs ==
    ASSUME DownInv, Plan
    PROVE  /\ job.at = "scan" /\ job.dirs = {}
           /\ UNCHANGED <<mode, cloud, local, index, ready, blind, settled, excused, deleted, built>>
           /\ job' \in Jobs' /\ job'.at = "apply" /\ job'.items = job.items /\ job'.dirs = {}
           /\ job'.calm = job.calm
           /\ job'.gets = {f \in Files(job.items) : Missing(f)}
           /\ job'.drops = {f \in Files(job.items) : DropsStale /\ Stale(f)}
           /\ job'.tops = {f \in TopDirs(job.items) : Archives}
           /\ handled' = handled \cup (Files(job.items) \ job'.gets)
<1>1. PICK G, D, T :
        /\ G = {f \in Files(job.items) : Missing(f)}
        /\ D = {f \in Files(job.items) : DropsStale /\ Stale(f)}
        /\ T = {f \in TopDirs(job.items) : Archives}
  OBVIOUS
<1>2. /\ job.at = "scan" /\ job.dirs = {} /\ job \in Jobs
      /\ UNCHANGED <<mode, cloud, local, index, ready, blind, settled, excused, deleted, built>>
      /\ job' = [job EXCEPT !.at = "apply", !.gets = G, !.drops = D, !.tops = T]
      /\ handled' = handled \cup (Files(job.items) \ G)
  BY <1>1 DEF Plan, DownInv, Typed
<1>3. job.items \in SUBSET Fid
  BY <1>2 DEF Jobs
<1>4. G \in SUBSET Fid /\ D \in SUBSET Fid /\ T \in SUBSET Fid
  BY <1>1, <1>3 DEF Files, TopDirs
<1>5. /\ job' \in Jobs' /\ job'.at = "apply" /\ job'.items = job.items /\ job'.dirs = {}
      /\ job'.calm = job.calm /\ job'.gets = G /\ job'.drops = D /\ job'.tops = T
  BY <1>2, <1>4 DEF Jobs
<1>6. QED BY <1>1, <1>2, <1>5

LEMMA PlanKeepsInv ==
    ASSUME DownInv, Plan
    PROVE  DownInv'
<1>1. /\ job.at = "scan"
      /\ UNCHANGED <<mode, cloud, local, index, ready, settled, excused, deleted, built>>
      /\ job' \in Jobs' /\ job'.at = "apply" /\ job'.items = job.items /\ job'.dirs = {}
      /\ job'.gets = {f \in Files(job.items) : Missing(f)}
      /\ job'.drops = {f \in Files(job.items) : DropsStale /\ Stale(f)}
      /\ job'.tops = {f \in TopDirs(job.items) : Archives}
      /\ handled' = handled \cup (Files(job.items) \ job'.gets)
  BY PlanIs
<1>2. job.items \subseteq Fid \ Fresh /\ job.items \subseteq Present
  BY <1>1 DEF DownInv, JobFine
<1>3. Typed'
  BY <1>1, <1>2 DEF DownInv, Typed, Files
<1>4. ToDrop' = job'.drops
  BY <1>1 DEF ToDrop
<1>5. job'.gets \subseteq Present /\ GetsUnrecorded'
  <2>1. ASSUME NEW f \in job'.gets PROVE f \in Present /\ ~Has(SavePath(f))
    <3>1. ~Has(SavePath(f)) /\ f \in job.items
      BY <1>1, <2>1 DEF Missing, Files
    <3>2. QED BY <1>2, <3>1
  <2>2. QED BY <1>1, <2>1 DEF GetsUnrecorded, Has, SavePath
<1>6. /\ \A f \in Fid : DropsStale' = DropsStale /\ IsDir(f)' = IsDir(f) /\ SavePath(f)' = SavePath(f)
      /\ Present' = Present /\ Fresh' = Fresh /\ \A p \in Path : Has(p)' = Has(p)
      /\ \A f, g \in Fid : Same(f, g)' = Same(f, g)
  BY <1>1 DEF IsDir, SavePath, Present, Fresh, Has, DropsStale, Same
<1>7. JobFine'
  <2>1. job'.drops \subseteq Present /\ (job'.drops # {} => mode = "twoWay")
    BY <1>1, <1>2 DEF Files, DropsStale
  <2>2. job'.tops # {} => mode = "archive"
    BY <1>1 DEF Archives
  <2>3. \A f \in job'.gets \cup job'.drops : f \in Fid /\ ~IsDir(f)
    BY <1>1, <1>2 DEF Files
  <2>4. job'.gets \cap job'.drops = {}
    BY <1>1 DEF Missing, Stale
  <2>5. QED BY <1>1, <1>2, <1>4, <1>5, <1>6, <2>1, <2>2, <2>3, <2>4 DEF JobFine, Applying
<1>8. Landing' /\ SurveyFine'
  BY <1>1 DEF Landing, SurveyFine
<1>9. Handling'
  <2>1. Files(job.items)' = Files(job.items)
    BY <1>1 DEF Files, IsDir
  <2>2. QED BY <1>1, <2>1 DEF Handling, Files
<1>10. DropsFine'
  <2>1. SUFFICES ASSUME StrmsDiffer, NEW f \in job'.drops
                 PROVE  Has(SavePath(f)) /\ \A p \in Path : index[p] # f
    BY <1>1, <1>4 DEF DropsFine, Has, SavePath
  <2>2. f \in Present /\ mode = "twoWay" /\ Stale(f)
    BY <1>1, <1>2 DEF Files, DropsStale
  <2>3. f \in Fid /\ cloud[f].place = "root" /\ Has(SavePath(f)) /\ index[SavePath(f)] # f
    BY <2>2 DEF Present, Stale
  <2>4. SavePath(f) \in Path /\ Same(index[SavePath(f)], f)
    BY <2>1, <2>3, NodeIs, RecordIs DEF DownInv
  <2>5. ASSUME NEW p \in Path, index[p] = f PROVE FALSE
    <3>1. Has(p)
      BY <2>3, <2>5, MirrorDownAssumption DEF Has
    <3>2. QED BY <2>1, <2>2, <2>3, <2>4, <2>5, <3>1 DEF DownInv, OneRecord
  <2>6. QED BY <2>3, <2>5
<1>11. ArchivedIsHandled' /\ (StrmsDiffer => DropKeepsOriginal)' /\ NodesFine' /\ FewNamesakes'
  BY <1>1, TreeStays
<1>12. QED
  BY <1>1, <1>3, <1>5, <1>7, <1>8, <1>9, <1>10, <1>11, RecordsStay, LocalStays DEF DownInv

-----------------------------------------------------------------------------
(* The operations.                                                         *)
LEMMA FailedIs ==
    ASSUME Typed, NEW f \in Fid, Failed(f)
    PROVE  /\ job' \in Jobs' /\ job'.at = "apply" /\ job'.calm = FALSE
           /\ job'.drops = job.drops \ {f} /\ job'.gets = job.gets \ {f}
           /\ job'.failed = job.failed \cup {f}
           /\ job'.items = job.items /\ job'.tops = job.tops /\ job'.dirs = job.dirs
BY DEF Failed, Typed, Jobs

(* An operation that fails leaves all but the local tree as it is.         *)
LEMMA FailedKeepsJob ==
    ASSUME DownInv, NEW f \in Fid, Failed(f), Applying, job.at # "clear",
           UNCHANGED <<mode, cloud, index, handled>>
    PROVE  /\ job' \in Jobs' /\ JobFine' /\ GetsUnrecorded' /\ Landing' /\ Handling'
           /\ SurveyFine' /\ DropsFine'
<1>1. /\ job' \in Jobs' /\ job'.at = "apply"
      /\ job'.drops = job.drops \ {f} /\ job'.gets = job.gets \ {f}
      /\ job'.failed = job.failed \cup {f}
      /\ job'.items = job.items /\ job'.tops = job.tops /\ job'.dirs = job.dirs
  BY FailedIs DEF DownInv
<1>2. ToDrop = job.drops /\ ToDrop' = job'.drops
  BY <1>1 DEF ToDrop, Applying
<1>3. /\ Present' = Present /\ Fresh' = Fresh /\ Files(job.items)' = Files(job.items)
      /\ \A g \in Fid : IsDir(g)' = IsDir(g) /\ SavePath(g)' = SavePath(g)
      /\ \A p \in Path : Has(p)' = Has(p)
  BY <1>1 DEF Present, Fresh, IsDir, SavePath, Has, Files
<1>4. JobFine'
  BY <1>1, <1>2, <1>3 DEF DownInv, JobFine, Applying, IsDir, Present
<1>5. GetsUnrecorded' /\ Landing' /\ SurveyFine'
  BY <1>1, <1>3 DEF DownInv, GetsUnrecorded, Landing, SurveyFine, Has, SavePath
<1>6. Handling'
  BY <1>1, <1>3 DEF DownInv, Handling, Files
<1>7. DropsFine'
  BY <1>1, <1>2, <1>3 DEF DownInv, DropsFine, Has, SavePath
<1>8. QED BY <1>1, <1>4, <1>5, <1>6, <1>7

LEMMA PlaceIsSet ==
    ASSUME Typed, NEW f \in Fid, NEW w \in {"root", "temp", "gone"},
           cloud' = [cloud EXCEPT ![f].place = w]
    PROVE  /\ cloud' \in [Fid -> Nodes]
           /\ \A g \in Fid : /\ cloud'[g].path = cloud[g].path
                             /\ cloud'[g].place = IF g = f THEN w ELSE cloud[g].place
BY DEF Typed, Nodes

LEMMA DropStaleKeepsInv ==
    ASSUME DownInv, DropStale
    PROVE  DownInv'
<1>1. /\ job.at = "apply" /\ ToDrop = job.drops /\ mode' = mode
      /\ UNCHANGED <<local, index, ready, settled, handled, excused, deleted, built>>
  BY DEF DropStale, history, ToDrop
<1>2. PICK f \in job.drops :
        \/ Failed(f) /\ UNCHANGED cloud
        \/ /\ cloud' = [cloud EXCEPT ![f].place = "gone"]
           /\ job' = [job EXCEPT !.at = "clear", !.fid = f]
  BY DEF DropStale, First
<1>3. /\ f \in Fid /\ cloud[f].place = "root" /\ mode = "twoWay" /\ ~IsDir(f) /\ f \notin job.gets
      /\ job \in Jobs
  BY <1>1, <1>2 DEF DownInv, JobFine, Typed, Present
<1>4. CASE Failed(f) /\ UNCHANGED cloud
  <2>1. Typed'
    BY <1>1, <1>3, <1>4, FailedIs DEF DownInv, Typed
  <2>2. QED
    BY <1>1, <1>3, <1>4, <2>1, FailedKeepsJob, TreeStays, RecordsStay, LocalStays
    DEF DownInv, Applying
<1>5. CASE /\ cloud' = [cloud EXCEPT ![f].place = "gone"]
           /\ job' = [job EXCEPT !.at = "clear", !.fid = f]
  <2>1. /\ cloud' \in [Fid -> Nodes]
        /\ \A g \in Fid : /\ cloud'[g].path = cloud[g].path
                          /\ cloud'[g].place = IF g = f THEN "gone" ELSE cloud[g].place
    <3>1. PICK w \in {"root", "temp", "gone"} : w = "gone"
      OBVIOUS
    <3>2. QED BY <1>3, <1>5, <3>1, PlaceIsSet DEF DownInv
  <2>2. /\ job' \in Jobs' /\ job'.at = "clear" /\ job'.fid = f /\ job'.items = job.items
        /\ job'.drops = job.drops /\ job'.gets = job.gets /\ job'.tops = job.tops
        /\ job'.dirs = job.dirs /\ job'.failed = job.failed
    BY <1>3, <1>5 DEF Jobs
  <2>3. /\ Present' = Present \ {f} /\ Fresh' = Fresh /\ Kept' = Kept
        /\ \A g \in Fid : IsDir(g)' = IsDir(g) /\ SavePath(g)' = SavePath(g)
        /\ \A g, h \in Fid : Same(g, h)' = Same(g, h)
        /\ \A p \in Path : Has(p)' = Has(p)
        /\ ToDrop' = job.drops \ {f}
    BY <1>1, <1>3, <2>1, <2>2 DEF Present, Fresh, Kept, IsDir, SavePath, Same, Has, ToDrop
  <2>4. Typed'
    BY <1>1, <2>1, <2>2 DEF DownInv, Typed
  <2>5. NodesFine'
    BY <1>1, <1>3, <2>1, <2>3 DEF DownInv, NodesFine
  <2>6. FewNamesakes'
    BY <2>3 DEF DownInv, FewNamesakes, Kept
  <2>7. SecondIsRecorded'
    <3>1. SUFFICES ASSUME NEW g \in Present, NEW h \in Present, Same(g, h), g # h
                   PROVE  ~IsDir(g) /\ (OwnKey(cloud[g].path) => Has(SavePath(g)))
      BY <1>1, <2>1, <2>3 DEF SecondIsRecorded, Present, Has
    <3>2. QED BY <3>1 DEF DownInv, SecondIsRecorded
  <2>8. JobFine'
    <3>1. job.gets \cup job.drops \subseteq Fid
      BY <1>3 DEF Jobs
    <3>2. \A g \in job'.gets \cup job'.drops : ~IsDir(g)'
      BY <2>2, <2>3, <3>1 DEF DownInv, JobFine
    <3>3. QED
      BY <1>1, <1>3, <2>1, <2>2, <2>3, <3>2 DEF DownInv, JobFine, Applying
  <2>9. GetsUnrecorded' /\ Landing' /\ SurveyFine'
    BY <1>1, <2>1, <2>2, <2>3 DEF DownInv, GetsUnrecorded, Landing, SurveyFine, Typed, Jobs, Has
  <2>10. Handling' /\ ArchivedIsHandled'
    BY <1>1, <2>1, <2>2, <2>3 DEF DownInv, Handling, ArchivedIsHandled, Files, Applying, Typed, Jobs
  <2>11. DropsFine'
    BY <1>1, <2>2, <2>3 DEF DownInv, DropsFine, Has, Typed, Jobs
  <2>12. RecordsFine'
    <3>1. ASSUME NEW p \in Path, Has(p) PROVE RecordFine(p)'
      <4>1. index[p] \in Fid
        BY <3>1 DEF DownInv, Typed, Has
      <4>2. RecordFine(p) /\ (StrmsDiffer => index[p] # f)
        BY <1>1, <1>2, <3>1 DEF DownInv, RecordsFine, DropsFine
      <4>3. QED BY <1>1, <2>1, <2>3, <4>1, <4>2 DEF RecordFine
    <3>2. QED BY <2>3, <3>1 DEF RecordsFine
  <2>13. OneRecord'
    <3>1. \A p \in Path : Has(p) => index[p] \in Fid
      BY DEF DownInv, Typed, Has
    <3>2. QED BY <1>1, <2>3, <3>1 DEF DownInv, OneRecord
  <2>14. (StrmsDiffer => DropKeepsOriginal)'
    <3>1. SUFFICES ASSUME StrmsDiffer, NEW h \in Fid, cloud'[h].place = "gone"
                   PROVE  \E g \in Present' : cloud'[g].path = cloud'[h].path
      BY DEF DropKeepsOriginal
    <3>2. PICK g \in Fid : g = index[SavePath(f)] /\ Same(g, f) /\ g # f /\ cloud[g].place = "root"
      <4>1. SavePath(f) \in Path /\ Has(SavePath(f)) /\ index[SavePath(f)] # f
        BY <1>1, <1>2, <1>3, <3>1, NodeIs DEF DownInv, DropsFine
      <4>2. index[SavePath(f)] \in Fid /\ Same(index[SavePath(f)], f)
        BY <1>3, <3>1, <4>1, RecordIs DEF DownInv
      <4>3. PICK g \in Fid : g = index[SavePath(f)]
        BY <4>2
      <4>4. cloud[g].place \notin {"fresh", "gone"}
        BY <3>1, <4>1, <4>3 DEF DownInv, RecordsFine, RecordFine, Fresh
      <4>5. cloud[g].place # "temp"
        BY <1>3 DEF DownInv, NodesFine
      <4>6. cloud[g].place = "root"
        BY <4>4, <4>5 DEF DownInv, Typed, Nodes
      <4>7. QED BY <4>1, <4>2, <4>3, <4>6
    <3>3. CASE h = f
      BY <2>1, <2>3, <3>2, <3>3 DEF Same, Present
    <3>4. CASE h # f
      <4>1. cloud[h].place = "gone"
        BY <2>1, <3>1, <3>4
      <4>2. PICK o \in Present : cloud[o].path = cloud[h].path
        BY <3>1, <4>1 DEF DownInv, DropKeepsOriginal
      <4>3. o \in Fid /\ cloud[o].place = "root"
        BY DEF Present
      <4>4. o # f
        <5>1. SUFFICES ASSUME o = f PROVE FALSE
          OBVIOUS
        <5>2. h \in Kept /\ f \in Kept /\ g \in Kept
          BY <1>3, <3>2, <4>1 DEF Kept
        <5>3. Same(h, f) /\ Same(f, g)
          BY <3>2, <4>2, <5>1 DEF Same
        <5>4. QED BY <1>3, <3>2, <3>4, <4>1, <5>2, <5>3 DEF DownInv, FewNamesakes
      <4>5. QED BY <2>1, <2>3, <4>2, <4>3, <4>4 DEF Present
    <3>5. QED BY <3>3, <3>4
  <2>15. QED
    BY <1>1, <2>4, <2>5, <2>6, <2>7, <2>8, <2>9, <2>10, <2>11, <2>12, <2>13, <2>14, LocalStays DEF DownInv
<1>6. QED BY <1>2, <1>4, <1>5

LEMMA ClearTreeKeepsInv ==
    ASSUME DownInv, ClearTree
    PROVE  DownInv'
<1>1. /\ job.at = "clear" /\ job \in Jobs
      /\ UNCHANGED <<mode, cloud, local, ready, settled, handled, excused, deleted, built>>
  BY DEF ClearTree, history, DownInv, Typed
<1>2. PICK f \in Fid : f = job.fid /\ cloud[f].place = "gone"
  BY <1>1 DEF DownInv, JobFine
<1>3. PICK p \in Path : p = SavePath(f)
  BY <1>2, NodeIs DEF DownInv
<1>4. /\ index' \in [Path -> Fid \cup {nobody}]
      /\ \A q \in Path : index'[q] = IF q = p THEN nobody ELSE index[q]
  BY <1>2, <1>3 DEF ClearTree, DownInv, Typed
<1>5. /\ job' \in Jobs' /\ job'.at = "apply" /\ job'.items = job.items
      /\ job'.drops = job.drops \ {f} /\ job'.gets = job.gets /\ job'.tops = job.tops
      /\ job'.dirs = job.dirs /\ job'.failed = job.failed /\ job'.calm = job.calm
  BY <1>1, <1>2 DEF ClearTree, Jobs
<1>6. /\ Present' = Present /\ Fresh' = Fresh /\ ToDrop = job.drops \ {f} /\ ToDrop' = ToDrop
      /\ \A g \in Fid : IsDir(g)' = IsDir(g) /\ SavePath(g)' = SavePath(g)
      /\ \A q \in Path : Has(q)' => q # p /\ Has(q) /\ index'[q] = index[q]
      /\ \A q \in Path : Has(q) /\ q # p => Has(q)'
  BY <1>1, <1>2, <1>4, <1>5 DEF Present, Fresh, IsDir, SavePath, Has, ToDrop
<1>7. \A g, h : Same(g, h)' <=> Same(g, h)
  BY <1>1 DEF Same
<1>8. Typed'
  BY <1>1, <1>4, <1>5 DEF DownInv, Typed
<1>9. SecondIsRecorded'
  <2>1. SUFFICES ASSUME NEW g \in Present, NEW h \in Present, Same(g, h), g # h
                 PROVE  ~IsDir(g) /\ (OwnKey(cloud[g].path) => Has(SavePath(g))')
    BY <1>1 DEF SecondIsRecorded, Present, Same, IsDir
  <2>2. ~IsDir(g) /\ (OwnKey(cloud[g].path) => Has(SavePath(g)))
    BY <2>1 DEF DownInv, SecondIsRecorded
  <2>3. g \in Fid /\ h \in Fid /\ cloud[g].place = "root" /\ cloud[h].place = "root"
    BY <2>1 DEF Present
  <2>4. ASSUME OwnKey(cloud[g].path), SavePath(g) = p PROVE FALSE
    <3>1. cloud[f].path \in Path \ StrmPath
      BY <1>2, NodeIs DEF DownInv
    <3>2. Same(f, g)
      BY <1>3, <2>4, <3>1 DEF OwnKey, SavePath, Same
    <3>3. f \in Kept /\ g \in Kept /\ h \in Kept
      BY <1>2, <2>3 DEF Kept
    <3>4. QED BY <1>2, <2>1, <2>3, <3>2, <3>3 DEF DownInv, FewNamesakes
  <2>5. SavePath(g) \in Path /\ SavePath(g)' = SavePath(g)
    BY <1>6, <2>3, NodeIs DEF DownInv
  <2>6. QED BY <1>6, <2>2, <2>4, <2>5
<1>10. JobFine'
  <2>1. job.gets \cup job.drops \subseteq Fid
    BY <1>1 DEF Jobs
  <2>2. \A g \in job'.gets \cup job'.drops : ~IsDir(g)'
    BY <1>5, <1>6, <2>1 DEF DownInv, JobFine
  <2>3. QED
    BY <1>1, <1>5, <1>6, <2>2 DEF DownInv, JobFine, Applying
<1>11. GetsUnrecorded'
  <2>1. \A g \in job.gets : g \in Fid /\ SavePath(g) \in Path /\ cloud'[g].path = cloud[g].path
    <3>1. \A g \in job.gets : g \in Fid /\ cloud[g].place = "root"
      BY DEF DownInv, JobFine, Present
    <3>2. QED BY <1>1, <3>1, NodeIs DEF DownInv
  <2>2. QED BY <1>5, <1>6, <2>1 DEF DownInv, GetsUnrecorded
<1>12. Landing' /\ SurveyFine' /\ Handling'
  BY <1>1, <1>5 DEF DownInv, Landing, SurveyFine, Handling, Applying, Files, IsDir
<1>13. DropsFine'
  <2>1. SUFFICES ASSUME StrmsDiffer, NEW g \in ToDrop
                 PROVE  Has(SavePath(g))' /\ \A q \in Path : index'[q] # g
    BY <1>6 DEF DropsFine
  <2>2. g \in Fid /\ cloud[g].place = "root" /\ Has(SavePath(g)) /\ \A q \in Path : index[q] # g
    BY <2>1 DEF DownInv, JobFine, DropsFine, Present
  <2>3. SavePath(g) \in Path /\ SavePath(g)' = SavePath(g) /\ g # nobody
    BY <1>6, <2>2, NodeIs, MirrorDownAssumption DEF DownInv
  <2>4. ASSUME SavePath(g) = p PROVE FALSE
    <3>1. OwnKey(cloud[g].path) /\ cloud[f].path \in Path \ StrmPath
      BY <1>2, <2>1, <2>2, NodeIs DEF DownInv
    <3>2. Same(f, g)
      BY <1>3, <2>4, <3>1 DEF OwnKey, SavePath, Same
    <3>3. PICK h \in Fid : h = index[SavePath(g)] /\ Same(h, g)
      BY <2>1, <2>2, RecordIs DEF DownInv
    <3>4. cloud[h].place \notin {"fresh", "gone"}
      BY <2>1, <2>2, <2>3, <3>3 DEF DownInv, RecordsFine, RecordFine, Fresh
    <3>5. cloud[h].place # "temp"
      BY <1>2 DEF DownInv, NodesFine
    <3>6. cloud[h].place = "root"
      BY <3>4, <3>5 DEF DownInv, Typed, Nodes
    <3>7. h # g /\ h # f /\ f # g
      BY <1>2, <2>2, <2>3, <3>3, <3>6
    <3>8. f \in Kept /\ g \in Kept /\ h \in Kept
      BY <1>2, <2>2, <3>6 DEF Kept
    <3>9. QED BY <3>2, <3>3, <3>7, <3>8 DEF DownInv, FewNamesakes, Same
  <2>5. QED BY <1>4, <1>6, <2>2, <2>3, <2>4
<1>14. RecordsFine' /\ OneRecord'
  <2>1. ASSUME NEW q \in Path, Has(q)' PROVE RecordFine(q)'
    BY <1>1, <1>6, <2>1 DEF DownInv, RecordsFine, RecordFine
  <2>2. OneRecord'
    BY <1>1, <1>6, <1>7 DEF DownInv, OneRecord
  <2>3. QED BY <2>1, <2>2 DEF RecordsFine
<1>15. RecordMeansLanded' /\ RecordedIsWhole'
  BY <1>1, <1>6 DEF DownInv, RecordMeansLanded, RecordedIsWhole, There
<1>16. QED
  BY <1>1, <1>8, <1>9, <1>10, <1>11, <1>12, <1>13, <1>14, <1>15, TreeStays DEF DownInv

LEMMA GetIs ==
    ASSUME DownInv, NEW f \in job.gets
    PROVE  /\ f \in Fid /\ f # nobody /\ cloud[f].place = "root" /\ ~IsDir(f)
           /\ cloud[f].path \in Path \ StrmPath /\ SavePath(f) \in Path
           /\ SavePath(f) = cloud[f].path => ~Has(SavePath(f))
<1>1. f \in Fid /\ cloud[f].place = "root" /\ ~IsDir(f)
  BY DEF DownInv, JobFine, Present
<1>2. QED BY <1>1, NodeIs, MirrorDownAssumption DEF DownInv, GetsUnrecorded

LEMMA WithDirsIs ==
    ASSUME Typed, NEW p \in Path
    PROVE  /\ WithDirs(p) \in [Path -> Things]
           /\ \A q \in Path : WithDirs(p)[q] \in {Directory, local[q]}
BY DEF WithDirs, Directory, Typed, Things

LEMMA ThingsAre ==
    ASSUME NEW f \in Fid
    PROVE  /\ Strm(f) \in Things /\ Strm(f).k = "strm" /\ Part(f) \in Things /\ Part(f).k = "part"
           /\ File(f) \in Things /\ File(f).k = "file" /\ Nothing \in Things /\ Nothing.k = "none"
BY DEF Strm, Part, File, Nothing, Things

LEMMA DownloadKeepsInv ==
    ASSUME DownInv, Download
    PROVE  DownInv'
<1>1. /\ job.at = "apply" /\ job.drops = {} /\ job \in Jobs
      /\ UNCHANGED <<mode, cloud, index, ready, settled, handled, excused, built>>
  BY DEF Download, DownInv, Typed
<1>2. PICK f \in job.gets :
        \/ /\ Failed(f) /\ local' = WithDirs(SavePath(f)) /\ UNCHANGED deleted
        \/ /\ local' = [WithDirs(SavePath(f)) EXCEPT ![SavePath(f)] =
                            IF SavePath(f) # cloud[f].path THEN Strm(f) ELSE Part(f)]
           /\ job' = [job EXCEPT !.at = IF SavePath(f) # cloud[f].path THEN "put" ELSE "copy",
                                 !.fid = f]
           /\ deleted' = deleted \ {SavePath(f)}
  BY DEF Download, First
<1>3. PICK p \in Path : p = SavePath(f)
  BY GetIs
<1>4. f \in Fid /\ f # nobody /\ (p = cloud[f].path => ~Has(p))
  BY <1>3, GetIs
<1>5. /\ WithDirs(p) \in [Path -> Things]
      /\ \A q \in Path : WithDirs(p)[q] \in {Directory, local[q]}
  BY WithDirsIs DEF DownInv
<1>6. CASE Failed(f) /\ local' = WithDirs(SavePath(f)) /\ UNCHANGED deleted
  <2>1. /\ job' \in Jobs' /\ JobFine' /\ GetsUnrecorded' /\ Landing' /\ Handling'
        /\ SurveyFine' /\ DropsFine'
    BY <1>1, <1>4, <1>6, FailedKeepsJob DEF Applying
  <2>2. Typed'
    BY <1>1, <1>3, <1>5, <1>6, <2>1 DEF DownInv, Typed
  <2>3. RecordMeansLanded' /\ RecordedIsWhole'
    BY <1>1, <1>3, <1>5, <1>6
    DEF DownInv, RecordMeansLanded, RecordedIsWhole, Has, There, Directory
  <2>4. QED BY <1>1, <2>1, <2>2, <2>3, TreeStays, RecordsStay DEF DownInv
<1>7. CASE /\ local' = [WithDirs(p) EXCEPT ![p] = IF p # cloud[f].path THEN Strm(f) ELSE Part(f)]
           /\ job' = [job EXCEPT !.at = IF p # cloud[f].path THEN "put" ELSE "copy", !.fid = f]
           /\ deleted' = deleted \ {p}
  <2>1. PICK at \in {"put", "copy"} :
            at = (IF p # cloud[f].path THEN "put" ELSE "copy") /\ job' = [job EXCEPT !.at = at, !.fid = f]
    BY <1>7
  <2>2. /\ job' \in Jobs' /\ job'.at = at /\ job'.fid = f /\ job'.items = job.items
        /\ job'.drops = {} /\ job'.gets = job.gets /\ job'.tops = job.tops
        /\ job'.dirs = job.dirs /\ job'.failed = job.failed
    BY <1>1, <1>4, <2>1 DEF Jobs
  <2>3. PICK e \in Things : /\ e = (IF p # cloud[f].path THEN Strm(f) ELSE Part(f))
                            /\ e.k = (IF p # cloud[f].path THEN "strm" ELSE "part")
    BY <1>4, ThingsAre
  <2>4. /\ local' \in [Path -> Things] /\ local'[p] = e
        /\ \A q \in Path : q # p => local'[q] \in {Directory, local[q]}
    BY <1>5, <1>7, <2>3
  <2>5. Typed'
    BY <1>1, <1>7, <2>2, <2>4 DEF DownInv, Typed
  <2>6. JobFine'
    BY <1>1, <1>3, <2>1, <2>2 DEF DownInv, JobFine, Applying, ToDrop, Present, Fresh, Has, IsDir, SavePath
  <2>7. GetsUnrecorded' /\ Handling' /\ SurveyFine' /\ DropsFine'
    BY <1>1, <2>2 DEF DownInv, GetsUnrecorded, Handling, SurveyFine, DropsFine, ToDrop, Applying,
         Files, IsDir, SavePath, Has
  <2>8. Landing'
    <3>1. SavePath(job.fid)' = p
      BY <1>1, <1>3, <2>2 DEF SavePath
    <3>2. QED BY <2>1, <2>2, <2>3, <2>4, <3>1 DEF Landing, There
  <2>9. RecordMeansLanded'
    BY <1>1, <1>7, <2>3, <2>4 DEF DownInv, RecordMeansLanded, Has, There, Directory
  <2>10. RecordedIsWhole'
    BY <1>1, <1>4, <2>3, <2>4 DEF DownInv, RecordedIsWhole, Has, Directory
  <2>11. QED BY <1>1, <2>5, <2>6, <2>7, <2>8, <2>9, <2>10, TreeStays, RecordsStay DEF DownInv
<1>8. QED BY <1>2, <1>3, <1>6, <1>7

LEMMA CopyKeepsInv ==
    ASSUME DownInv, Copy
    PROVE  DownInv'
<1>1. /\ job.at = "copy" /\ job.drops = {} /\ job \in Jobs
      /\ UNCHANGED <<mode, cloud, index, ready, settled, handled, excused, deleted, built>>
  BY DEF Copy, history, DownInv, Typed, JobFine
<1>2. PICK f \in job.gets : f = job.fid
  BY <1>1 DEF DownInv, JobFine
<1>3. PICK p \in Path : p = cloud[f].path /\ p = SavePath(f) /\ ~Has(p) /\ f \in Fid
  BY <1>1, <1>2, GetIs DEF DownInv, JobFine
<1>4. CASE Failed(f) /\ local' = [local EXCEPT ![p] = Nothing]
  <2>1. /\ job' \in Jobs' /\ JobFine' /\ GetsUnrecorded' /\ Landing' /\ Handling'
        /\ SurveyFine' /\ DropsFine'
    BY <1>1, <1>3, <1>4, FailedKeepsJob DEF Applying
  <2>2. local' \in [Path -> Things] /\ \A q \in Path : q # p => local'[q] = local[q]
    BY <1>4 DEF DownInv, Typed, Things, Nothing
  <2>3. Typed'
    BY <1>1, <2>1, <2>2 DEF DownInv, Typed
  <2>4. RecordMeansLanded' /\ RecordedIsWhole'
    BY <1>1, <1>3, <2>2 DEF DownInv, RecordMeansLanded, RecordedIsWhole, Has, There
  <2>5. QED BY <1>1, <2>1, <2>3, <2>4, TreeStays, RecordsStay DEF DownInv
<1>5. CASE /\ local' = [local EXCEPT ![p] = IF There(p) THEN File(f) ELSE Nothing]
           /\ job' = [job EXCEPT !.at = "put"]
  <2>1. /\ job' \in Jobs' /\ job'.at = "put" /\ job'.fid = f /\ job'.items = job.items
        /\ job'.drops = {} /\ job'.gets = job.gets /\ job'.tops = job.tops
        /\ job'.dirs = job.dirs /\ job'.failed = job.failed
    BY <1>1, <1>2, <1>5 DEF Jobs
  <2>2. PICK e \in Things : /\ e = (IF There(p) THEN File(f) ELSE Nothing)
                            /\ e.k = (IF There(p) THEN "file" ELSE "none")
    BY <1>3, ThingsAre
  <2>3. /\ local' \in [Path -> Things] /\ local'[p] = e
        /\ \A q \in Path : q # p => local'[q] = local[q]
    BY <1>5, <2>2 DEF DownInv, Typed
  <2>4. Typed'
    BY <1>1, <2>1, <2>3 DEF DownInv, Typed
  <2>5. JobFine'
    BY <1>1, <1>2, <1>3, <2>1 DEF DownInv, JobFine, Applying, ToDrop, Present, Fresh, Has, IsDir, SavePath
  <2>6. GetsUnrecorded' /\ Handling' /\ SurveyFine' /\ DropsFine'
    BY <1>1, <2>1 DEF DownInv, GetsUnrecorded, Handling, SurveyFine, DropsFine, ToDrop, Applying,
         Files, IsDir, SavePath, Has
  <2>7. Landing'
    <3>1. SavePath(job.fid)' = p
      BY <1>1, <1>3, <2>1 DEF SavePath
    <3>2. There(p) \/ p \in deleted
      BY <1>1, <1>2, <1>3 DEF DownInv, Landing
    <3>3. QED BY <1>1, <2>1, <2>2, <2>3, <3>1, <3>2 DEF Landing, There
  <2>8. RecordMeansLanded' /\ RecordedIsWhole'
    BY <1>1, <1>3, <2>2, <2>3 DEF DownInv, RecordMeansLanded, RecordedIsWhole, Has, There
  <2>9. QED BY <1>1, <2>4, <2>5, <2>6, <2>7, <2>8, TreeStays, RecordsStay DEF DownInv
<1>6. QED BY <1>2, <1>3, <1>4, <1>5 DEF Copy

LEMMA PutRecordKeepsInv ==
    ASSUME DownInv, PutRecord
    PROVE  DownInv'
<1>1. /\ job.at = "put" /\ job.drops = {} /\ job \in Jobs
      /\ UNCHANGED <<mode, cloud, local, ready, settled, excused, deleted, built>>
  BY DEF PutRecord, DownInv, Typed, JobFine
<1>2. PICK f \in job.gets : f = job.fid
  BY <1>1 DEF DownInv, JobFine
<1>3. PICK p \in Path : p = SavePath(f)
  BY GetIs
<1>4. f \in Fid /\ f # nobody /\ cloud[f].place = "root" /\ cloud[f].path \in Path \ StrmPath
  BY GetIs
<1>5. /\ index' \in [Path -> Fid \cup {nobody}]
      /\ \A q \in Path : index'[q] = IF q = p THEN f ELSE index[q]
      /\ \A q \in Path : Has(q)' <=> q = p \/ Has(q)
      /\ handled' = handled \cup {f}
  BY <1>2, <1>3, <1>4 DEF PutRecord, DownInv, Typed, Has
<1>6. /\ job' \in Jobs' /\ job'.at = "apply" /\ job'.items = job.items
      /\ job'.drops = {} /\ job'.gets = job.gets \ {f} /\ job'.tops = job.tops
      /\ job'.dirs = job.dirs /\ job'.failed = job.failed /\ job'.calm = job.calm
  BY <1>1, <1>2 DEF PutRecord, Jobs
<1>7. Typed'
  BY <1>1, <1>4, <1>5, <1>6 DEF DownInv, Typed
<1>8. SecondIsRecorded'
  <2>1. SUFFICES ASSUME NEW g \in Present, NEW h \in Present, Same(g, h), g # h
                 PROVE  ~IsDir(g) /\ (OwnKey(cloud[g].path) => Has(SavePath(g))')
    BY <1>1 DEF SecondIsRecorded, Present, Same, IsDir
  <2>2. ~IsDir(g) /\ (OwnKey(cloud[g].path) => Has(SavePath(g)))
    BY <2>1 DEF DownInv, SecondIsRecorded
  <2>3. SavePath(g) \in Path /\ SavePath(g)' = SavePath(g)
    BY <1>1, NodeIs DEF DownInv, Present, SavePath
  <2>4. QED BY <1>5, <2>2, <2>3
<1>9. JobFine' /\ Landing' /\ SurveyFine' /\ DropsFine'
  BY <1>1, <1>6 DEF DownInv, JobFine, Landing, SurveyFine, DropsFine, ToDrop, Applying, Present, Fresh, IsDir
<1>10. GetsUnrecorded'
  <2>1. SUFFICES ASSUME NEW g \in job.gets, g # f, OwnKey(cloud[g].path)
                 PROVE  ~Has(SavePath(g))'
    BY <1>1, <1>6 DEF GetsUnrecorded
  <2>2. ~Has(SavePath(g)) /\ SavePath(g) \in Path /\ SavePath(g)' = SavePath(g)
    BY <1>1, <2>1, GetIs DEF DownInv, GetsUnrecorded, SavePath
  <2>3. ASSUME SavePath(g) = p PROVE FALSE
    <3>1. Same(g, f)
      BY <1>3, <1>4, <2>1, <2>3 DEF OwnKey, SavePath, Same
    <3>2. g \in Present /\ f \in Present
      BY DEF DownInv, JobFine
    <3>3. QED BY <2>1, <2>2, <3>1, <3>2 DEF DownInv, SecondIsRecorded
  <2>4. QED BY <1>5, <2>2, <2>3
<1>11. Handling'
  BY <1>1, <1>5, <1>6 DEF DownInv, Handling, Applying, Files, IsDir
<1>12. RecordsFine'
  <2>1. cloud[f].path = p \/ (cloud[f].path \in VideoPath /\ StrmOf[cloud[f].path] = p)
    BY <1>3, <1>4, KeyIs DEF SavePath
  <2>2. QED BY <1>1, <1>4, <1>5, <2>1 DEF DownInv, RecordsFine, RecordFine, Fresh
<1>13. OneRecord'
  <2>1. SUFFICES ASSUME StrmsDiffer, mode = "twoWay" PROVE OneRecord'
    BY <1>1 DEF OneRecord
  <2>2. ASSUME NEW q \in Path, Has(q), Same(index[q], f), index[q] # f PROVE FALSE
    <3>1. PICK h \in Fid : h = index[q]
      BY <2>2 DEF DownInv, Typed, Has
    <3>2. cloud[h].place \notin {"fresh", "gone"}
      BY <2>1, <2>2, <3>1 DEF DownInv, RecordsFine, RecordFine, Fresh
    <3>3. cloud[h].place # "temp"
      BY <2>1 DEF DownInv, NodesFine
    <3>4. cloud[h].place = "root"
      BY <3>2, <3>3 DEF DownInv, Typed, Nodes
    <3>5. f \in Present /\ h \in Present /\ Same(f, h) /\ f # h
      BY <1>4, <2>2, <3>1, <3>4 DEF Present, Same
    <3>6. OwnKey(cloud[f].path)
      BY <1>4, <2>1, KeysAreOwn
    <3>7. Has(SavePath(f)) /\ ~Has(SavePath(f))
      BY <3>5, <3>6 DEF DownInv, SecondIsRecorded, GetsUnrecorded
    <3>8. QED BY <3>7
  <2>3. \A g, h : Same(g, h)' <=> Same(g, h)
    BY <1>1 DEF Same
  <2>4. \A g, h : Same(g, h) <=> Same(h, g)
    BY DEF Same
  <2>5. QED BY <1>1, <1>5, <2>1, <2>2, <2>3, <2>4 DEF DownInv, OneRecord
<1>14. RecordMeansLanded' /\ RecordedIsWhole'
  BY <1>1, <1>2, <1>3, <1>5 DEF DownInv, RecordMeansLanded, RecordedIsWhole, Landing, There
<1>15. QED
  BY <1>1, <1>5, <1>7, <1>8, <1>9, <1>10, <1>11, <1>12, <1>13, <1>14, TreeStays DEF DownInv

(* The archive step: what it moves has been seen and dealt with, or is     *)
(* excused.                                                                *)
LEMMA ArchiveIs ==
    ASSUME DownInv, ArchiveAll, ~UNCHANGED <<cloud, excused, settled>>
    PROVE  /\ cloud' \in [Fid -> Nodes] /\ settled' = job.calm
           /\ \E moved \in SUBSET Present :
                 /\ moved = {f \in Present : \E t \in job.tops : IsPrefix(cloud[t].path, cloud[f].path)}
                 /\ excused' = excused \cup (Files(moved) \ job.items) \cup (moved \cap job.failed)
                 /\ \A f \in Fid : /\ cloud'[f].path = cloud[f].path
                                   /\ cloud'[f].place = IF f \in moved THEN "temp" ELSE cloud[f].place
<1>1. PICK moved \in SUBSET Present :
         moved = {f \in Present : \E t \in job.tops : IsPrefix(cloud[t].path, cloud[f].path)}
  OBVIOUS
<1>2. /\ cloud' = [f \in Fid |-> IF f \in moved THEN [cloud[f] EXCEPT !.place = "temp"] ELSE cloud[f]]
      /\ excused' = excused \cup (Files(moved) \ job.items) \cup (moved \cap job.failed)
      /\ settled' = job.calm
  BY <1>1 DEF ArchiveAll
<1>3. cloud \in [Fid -> Nodes]
  BY DEF DownInv, Typed
<1>4. /\ cloud' \in [Fid -> Nodes]
      /\ \A f \in Fid : /\ cloud'[f].path = cloud[f].path
                        /\ cloud'[f].place = IF f \in moved THEN "temp" ELSE cloud[f].place
  BY <1>2, <1>3 DEF Nodes
<1>5. QED BY <1>1, <1>2, <1>4

LEMMA ArchiveAllKeepsInv ==
    ASSUME DownInv, ArchiveAll
    PROVE  DownInv'
<1>1. /\ job.at = "apply" /\ job.gets = {} /\ job.tops # {} /\ mode = "archive" /\ job' = Idle
      /\ UNCHANGED <<mode, local, index, ready, handled, deleted, built>> /\ job \in Jobs
  BY DEF ArchiveAll, Done, DownInv, JobFine, Typed
<1>2. CASE UNCHANGED <<cloud, excused, settled>>
  BY <1>1, <1>2, EndKeepsInv DEF history, DownInv, Typed
<1>3. CASE ~UNCHANGED <<cloud, excused, settled>>
  <2>1. PICK moved \in SUBSET Present :
          /\ excused' = excused \cup (Files(moved) \ job.items) \cup (moved \cap job.failed)
          /\ \A f \in Fid : /\ cloud'[f].path = cloud[f].path
                            /\ cloud'[f].place = IF f \in moved THEN "temp" ELSE cloud[f].place
    BY <1>3, ArchiveIs
  <2>2. cloud' \in [Fid -> Nodes] /\ settled' \in BOOLEAN
    BY <1>1, <1>3, ArchiveIs DEF Jobs
  <2>3. /\ Present' = Present \ moved /\ Fresh' = Fresh /\ Kept' = Kept \ moved
        /\ \A f \in Fid : IsDir(f)' = IsDir(f) /\ SavePath(f)' = SavePath(f)
        /\ \A f, g \in Fid : Same(f, g)' = Same(f, g)
        /\ \A p \in Path : Has(p)' = Has(p)
    BY <1>1, <2>1 DEF Present, Fresh, Kept, IsDir, SavePath, Same, Has
  <2>4. excused' \subseteq Fid
    BY <2>1 DEF DownInv, Typed, Present, Files
  <2>5. Typed'
    BY <1>1, <2>2, <2>4, IdleIs DEF DownInv, Typed
  <2>6. NodesFine'
    BY <1>1, <2>1, <2>3 DEF DownInv, NodesFine, Present
  <2>7. FewNamesakes' /\ SecondIsRecorded'
    <3>1. FewNamesakes'
      BY <2>3 DEF DownInv, FewNamesakes, Kept
    <3>2. ASSUME NEW g \in Present', NEW h \in Present', Same(g, h)', g # h
          PROVE  ~IsDir(g)' /\ (OwnKey(cloud'[g].path) => Has(SavePath(g))')
      <4>1. g \in Present /\ h \in Present /\ g \in Fid /\ h \in Fid
        BY <2>3, <3>2 DEF Present
      <4>2. ~IsDir(g) /\ (OwnKey(cloud[g].path) => Has(SavePath(g)))
        BY <2>3, <3>2, <4>1 DEF DownInv, SecondIsRecorded
      <4>3. QED BY <1>1, <2>1, <2>3, <4>1, <4>2 DEF Has
    <3>3. QED BY <3>1, <3>2 DEF SecondIsRecorded
  <2>8. RecordsFine'
    <3>1. ASSUME NEW p \in Path, Has(p) PROVE RecordFine(p)'
      <4>1. index[p] \in Fid /\ RecordFine(p)
        BY <3>1 DEF DownInv, Typed, Has, RecordsFine
      <4>2. QED BY <1>1, <2>1, <2>3, <4>1 DEF RecordFine
    <3>2. QED BY <2>3, <3>1 DEF RecordsFine
  <2>9. OneRecord'
    BY <1>1 DEF OneRecord
  <2>10. ArchivedIsHandled'
    <3>1. SUFFICES ASSUME NEW f \in Fid, ~IsDir(f), cloud'[f].place = "temp"
                   PROVE  f \in handled \cup excused'
      BY <1>1, <2>3 DEF ArchivedIsHandled, Files
    <3>2. CASE f \in moved
      BY <1>1, <2>1, <3>1, <3>2 DEF DownInv, Handling, Applying, Files, Present
    <3>3. CASE f \notin moved
      BY <2>1, <3>1, <3>3 DEF DownInv, ArchivedIsHandled, Files
    <3>4. QED BY <3>2, <3>3
  <2>11. DropKeepsOriginal'
    BY <1>1, <2>1 DEF DropKeepsOriginal, DownInv, NodesFine
  <2>12. QED
    BY <1>1, <2>5, <2>6, <2>7, <2>8, <2>9, <2>10, <2>11, IdleIs, LocalStays DEF DownInv
<1>4. QED BY <1>2, <1>3

-----------------------------------------------------------------------------
(* The cloud, and the user.                                                *)
LEMMA AddIs ==
    ASSUME DownInv, NEW p \in Path, AddInCloud(p)
    PROVE  /\ UNCHANGED <<mode, local, index, ready, history>> /\ settled' = FALSE
           /\ job' \in Jobs' /\ job'.calm = FALSE /\ job'.at = job.at /\ job'.dirs = job.dirs
           /\ job'.items = job.items /\ job'.drops = job.drops /\ job'.gets = job.gets
           /\ job'.tops = job.tops /\ job'.fid = job.fid /\ job'.failed = job.failed
           /\ p \in Path \ StrmPath
           /\ \/ Up(p) = Root
              \/ \E g \in Present : cloud[g].path = Up(p)
           /\ cloud' \in [Fid -> Nodes]
           /\ \E f \in Fresh :
                 /\ cloud'[f].path = p /\ cloud'[f].place = "root"
                 /\ \A g \in Fid : g # f => cloud'[g] = cloud[g]
           /\ LET namesakes == {f \in Fid : cloud[f].path = p /\ cloud[f].place # "temp"} IN
                 \/ namesakes = {}
                 \/ p \notin DirPath /\ Has(KeyOf(p, ToStrmDl)) /\ \E g \in Fid : namesakes = {g}
<1>1. job' \in Jobs' /\ job'.calm = FALSE /\ job'.at = job.at /\ job'.dirs = job.dirs
      /\ job'.items = job.items /\ job'.drops = job.drops /\ job'.gets = job.gets
      /\ job'.tops = job.tops /\ job'.fid = job.fid /\ job'.failed = job.failed
  BY DEF AddInCloud, DownInv, Typed, Jobs
<1>2. PICK f \in Fresh : cloud' = [cloud EXCEPT ![f] = [path |-> p, place |-> "root"]]
  BY DEF AddInCloud
<1>3. PICK n \in Nodes : n = [path |-> p, place |-> "root"] /\ n.path = p /\ n.place = "root"
  <2>1. [path |-> p, place |-> "root"] \in Nodes
    BY DEF Nodes
  <2>2. QED BY <2>1
<1>4. /\ cloud' \in [Fid -> Nodes] /\ cloud'[f] = n
      /\ \A g \in Fid : g # f => cloud'[g] = cloud[g]
  BY <1>2, <1>3 DEF DownInv, Typed, Fresh
<1>5. QED BY <1>1, <1>3, <1>4 DEF AddInCloud

LEMMA AddKeepsInv ==
    ASSUME DownInv, NEW p \in Path, AddInCloud(p)
    PROVE  DownInv'
<1>1. /\ UNCHANGED <<mode, local, index, ready, handled, excused, deleted, built>> /\ settled' = FALSE
      /\ job' \in Jobs' /\ job'.at = job.at /\ job'.dirs = job.dirs
      /\ job'.items = job.items /\ job'.drops = job.drops /\ job'.gets = job.gets
      /\ job'.tops = job.tops /\ job'.fid = job.fid /\ job'.failed = job.failed
      /\ p \in Path \ StrmPath /\ cloud' \in [Fid -> Nodes] /\ job \in Jobs
  BY AddIs DEF history, DownInv, Typed
<1>2. PICK f \in Fresh :
        /\ cloud'[f].path = p /\ cloud'[f].place = "root"
        /\ \A g \in Fid : g # f => cloud'[g] = cloud[g]
  BY AddIs
<1>3. f \in Fid /\ cloud[f].place = "fresh"
  BY DEF Fresh
<1>4. /\ Present' = Present \cup {f} /\ Fresh' = Fresh \ {f} /\ Kept' = Kept \cup {f}
      /\ f \notin Present /\ f \notin Kept /\ ToDrop' = ToDrop
      /\ \A g \in Fid \ {f} : IsDir(g)' = IsDir(g) /\ SavePath(g)' = SavePath(g)
      /\ \A q \in Path : Has(q)' = Has(q) /\ There(q)' = There(q)
  BY <1>1, <1>2, <1>3 DEF Present, Fresh, Kept, IsDir, SavePath, Has, There, ToDrop
<1>5. Typed'
  BY <1>1 DEF DownInv, Typed
<1>6. NodesFine'
  BY <1>1, <1>2, <1>3 DEF DownInv, NodesFine, IsDir
<1>7. \A g, h \in Kept : cloud[g].path = p /\ cloud[h].path = p =>
          g = h /\ p \notin DirPath /\ Has(KeyOf(p, ToStrmDl))
  <2>1. \A g \in Kept : g \in Fid /\ cloud[g].place # "temp"
    BY DEF Kept
  <2>2. PICK S : S = {g \in Fid : cloud[g].path = p /\ cloud[g].place # "temp"}
    OBVIOUS
  <2>3. S = {} \/ (p \notin DirPath /\ Has(KeyOf(p, ToStrmDl)) /\ \E g \in Fid : S = {g})
    BY <2>2, AddIs
  <2>4. QED BY <2>1, <2>2, <2>3
<1>8. FewNamesakes'
  <2>1. SUFFICES ASSUME NEW a \in Kept', NEW b \in Kept', NEW c \in Kept',
                        cloud'[a].path = cloud'[b].path, cloud'[b].path = cloud'[c].path,
                        a # b, b # c, a # c
                 PROVE  FALSE
    BY DEF FewNamesakes, Same
  <2>2. \A g \in Kept : g \in Fid
    BY DEF Kept
  <2>3. CASE a \in Kept /\ b \in Kept /\ c \in Kept
    BY <1>2, <1>4, <2>1, <2>2, <2>3 DEF DownInv, FewNamesakes, Same
  <2>4. CASE a = f \/ b = f \/ c = f
    BY <1>2, <1>4, <1>7, <2>1, <2>2, <2>4
  <2>5. QED BY <1>4, <2>3, <2>4
<1>9. SecondIsRecorded'
  <2>1. SUFFICES ASSUME NEW g \in Present', NEW h \in Present',
                        cloud'[g].path = cloud'[h].path, g # h
                 PROVE  ~IsDir(g)' /\ (OwnKey(cloud'[g].path) => Has(SavePath(g))')
    BY DEF SecondIsRecorded, Same
  <2>2. \A o \in Present : o \in Fid /\ o \in Kept /\ o # f
    BY <1>4 DEF Present, Kept
  <2>3. CASE g \in Present /\ h \in Present
    <3>1. cloud'[g] = cloud[g] /\ cloud'[h] = cloud[h]
      BY <1>2, <2>2, <2>3
    <3>2. ~IsDir(g) /\ (OwnKey(cloud[g].path) => Has(SavePath(g)))
      BY <2>1, <2>3, <3>1 DEF DownInv, SecondIsRecorded, Same
    <3>3. QED BY <1>1, <3>1, <3>2 DEF IsDir, SavePath, Has
  <2>4. CASE g = f \/ h = f
    <3>1. cloud'[g].path = p /\ \E o \in Kept : cloud[o].path = p
      BY <1>2, <1>4, <2>1, <2>2, <2>4
    <3>2. p \notin DirPath /\ Has(KeyOf(p, ToStrmDl))
      BY <1>7, <3>1
    <3>3. QED BY <1>1, <3>1, <3>2 DEF IsDir, SavePath, Has
  <2>5. QED BY <1>4, <2>3, <2>4
<1>10. \A g \in job.gets \cup job.drops \cup job.items \cup ToDrop : g \in Fid \ {f}
  BY <1>3, <1>4 DEF DownInv, JobFine, Fresh, ToDrop, Jobs, Typed
<1>11. JobFine'
  <2>1. \A g \in job'.gets \cup job'.drops : ~IsDir(g)'
    BY <1>1, <1>4, <1>10 DEF DownInv, JobFine
  <2>2. job'.at = "clear" => job'.fid \in Fid /\ cloud'[job'.fid].place = "gone"
    BY <1>1, <1>2, <1>3 DEF DownInv, JobFine
  <2>3. job'.at = "copy" => SavePath(job.fid)' = cloud'[job'.fid].path
    BY <1>1, <1>2, <1>4, <1>10 DEF DownInv, JobFine
  <2>4. QED BY <1>1, <1>4, <2>1, <2>2, <2>3 DEF DownInv, JobFine, Applying
<1>12. GetsUnrecorded'
  BY <1>1, <1>2, <1>4, <1>10 DEF DownInv, GetsUnrecorded, Has
<1>13. Landing'
  BY <1>1, <1>4, <1>10 DEF DownInv, Landing, JobFine, There
<1>14. Handling'
  BY <1>1, <1>4, <1>10 DEF DownInv, Handling, Applying, Files
<1>15. \A q \in Path : Has(q) => index[q] \in Fid \ {f}
  BY <1>3 DEF DownInv, Typed, Has, RecordsFine, RecordFine, Fresh
<1>16. RecordsFine'
  <2>1. ASSUME NEW q \in Path, Has(q) PROVE RecordFine(q)'
    <3>1. cloud'[index[q]] = cloud[index[q]]
      BY <1>2, <1>15, <2>1
    <3>2. QED BY <1>1, <1>4, <2>1, <3>1 DEF DownInv, RecordsFine, RecordFine
  <2>2. QED BY <1>4, <2>1 DEF RecordsFine
<1>17. OneRecord'
  BY <1>1, <1>2, <1>4, <1>15 DEF DownInv, OneRecord, Same
<1>18. SurveyFine'
  <2>1. SUFFICES ASSUME StrmsDiffer, job.at = "survey",
                        NEW g \in job.items \cup {index[q] : q \in {r \in Path : Has(r)}},
                        NEW h \in job.items \cup {index[q] : q \in {r \in Path : Has(r)}},
                        cloud'[g].path = cloud'[h].path
                 PROVE  g = h
    BY <1>1 DEF SurveyFine, Same, Has
  <2>2. cloud'[g] = cloud[g] /\ cloud'[h] = cloud[h]
    BY <1>2, <1>10, <1>15
  <2>3. QED BY <2>1, <2>2 DEF DownInv, SurveyFine, Same
<1>19. DropsFine'
  BY <1>1, <1>4, <1>10 DEF DownInv, DropsFine, Has
<1>20. ArchivedIsHandled'
  BY <1>1, <1>2, <1>4 DEF DownInv, ArchivedIsHandled, Files
<1>21. (StrmsDiffer => DropKeepsOriginal)'
  <2>1. SUFFICES ASSUME StrmsDiffer, NEW h \in Fid, cloud'[h].place = "gone"
                 PROVE  \E g \in Present' : cloud'[g].path = cloud'[h].path
    BY DEF DropKeepsOriginal
  <2>2. h # f /\ cloud'[h] = cloud[h]
    BY <1>2, <2>1
  <2>3. PICK g \in Present : cloud[g].path = cloud[h].path
    BY <2>1, <2>2 DEF DownInv, DropKeepsOriginal
  <2>4. g \in Fid /\ g # f
    BY <1>4 DEF Present
  <2>5. QED BY <1>2, <1>4, <2>2, <2>3, <2>4
<1>22. QED
  BY <1>1, <1>5, <1>6, <1>8, <1>9, <1>11, <1>12, <1>13, <1>14, <1>16, <1>17, <1>18, <1>19, <1>20,
     <1>21, LocalStays DEF DownInv

(* What the user deletes is noted as deleted; nothing becomes a part.      *)
LEMMA EditIs ==
    ASSUME DownInv, NEW p \in Path, Delete(p) \/ Write(p)
    PROVE  /\ UNCHANGED <<mode, cloud, index, ready, blind, handled, excused, built>> /\ settled' = FALSE
           /\ job' \in Jobs' /\ job'.calm = FALSE /\ job'.at = job.at /\ job'.dirs = job.dirs
           /\ job'.items = job.items /\ job'.drops = job.drops /\ job'.gets = job.gets
           /\ job'.tops = job.tops /\ job'.fid = job.fid /\ job'.failed = job.failed
           /\ local' \in [Path -> Things] /\ deleted \subseteq deleted' /\ deleted' \subseteq Path
           /\ \A q \in Path : There(q) => There(q)' \/ q \in deleted'
           /\ \A q \in Path : local'[q].k = "part" => local[q].k = "part"
<1>1. PICK L, G : Edited(L, G)
  BY DEF Delete, Write
<1>2. /\ UNCHANGED <<mode, cloud, index, ready, blind, handled, excused, built>> /\ settled' = FALSE
      /\ deleted' = deleted \cup G /\ local' = L /\ job' = [job EXCEPT !.calm = FALSE]
  BY <1>1 DEF Edited
<1>3. job' \in Jobs' /\ job'.calm = FALSE /\ job'.at = job.at /\ job'.dirs = job.dirs
      /\ job'.items = job.items /\ job'.drops = job.drops /\ job'.gets = job.gets
      /\ job'.tops = job.tops /\ job'.fid = job.fid /\ job'.failed = job.failed
  BY <1>2 DEF DownInv, Typed, Jobs
<1>4. CASE Delete(p)
  <2>1. PICK S \in SUBSET Path :
          /\ local' = [q \in Path |-> IF q \in S THEN Nothing ELSE local[q]]
          /\ deleted' = deleted \cup {q \in S : There(q)}
    <3>1. {p} \cup Under(p) \in SUBSET Path
      BY DEF Under
    <3>2. QED BY <1>4, <3>1 DEF Delete, Edited
  <2>2. Nothing \in Things /\ Nothing.k = "none"
    BY DEF Nothing, Things
  <2>3. /\ local' \in [Path -> Things]
        /\ \A q \in Path : local'[q] = IF q \in S THEN Nothing ELSE local[q]
    BY <2>1, <2>2 DEF DownInv, Typed
  <2>4. QED BY <1>2, <1>3, <2>1, <2>2, <2>3 DEF There, DownInv, Typed
<1>5. CASE Write(p)
  <2>1. local' = [local EXCEPT ![p] = File(nobody)] /\ deleted' = deleted
    BY <1>5 DEF Write, Edited
  <2>2. File(nobody) \in Things /\ File(nobody).k = "file"
    BY DEF File, Things
  <2>3. /\ local' \in [Path -> Things]
        /\ \A q \in Path : local'[q] = IF q = p THEN File(nobody) ELSE local[q]
    BY <2>1, <2>2 DEF DownInv, Typed
  <2>4. QED BY <1>2, <1>3, <2>1, <2>2, <2>3 DEF There, DownInv, Typed
<1>6. QED BY <1>4, <1>5

LEMMA EditKeepsInv ==
    ASSUME DownInv, NEW p \in Path, Delete(p) \/ Write(p)
    PROVE  DownInv'
<1>1. /\ UNCHANGED <<mode, cloud, index, ready, handled, excused, built>> /\ settled' = FALSE
      /\ job' \in Jobs' /\ job'.at = job.at /\ job'.dirs = job.dirs
      /\ job'.items = job.items /\ job'.drops = job.drops /\ job'.gets = job.gets
      /\ job'.tops = job.tops /\ job'.fid = job.fid /\ job'.failed = job.failed
      /\ local' \in [Path -> Things] /\ deleted \subseteq deleted' /\ deleted' \subseteq Path
      /\ \A q \in Path : There(q) => There(q)' \/ q \in deleted'
      /\ \A q \in Path : local'[q].k = "part" => local[q].k = "part"
  BY EditIs
<1>2. Typed'
  BY <1>1 DEF DownInv, Typed
<1>3. JobFine'
  BY <1>1 DEF DownInv, JobFine, Applying, ToDrop, Present, Fresh, Has, IsDir, SavePath
<1>4. GetsUnrecorded' /\ Handling' /\ SurveyFine' /\ DropsFine'
  BY <1>1 DEF DownInv, GetsUnrecorded, Handling, SurveyFine, DropsFine, ToDrop, Applying,
       Files, IsDir, SavePath, Has, Same
<1>5. Landing'
  <2>1. SUFFICES ASSUME job.at \in {"copy", "put"} PROVE Landing'
    BY <1>1 DEF Landing
  <2>2. PICK q \in Path : q = SavePath(job.fid)
    BY <2>1, GetIs DEF DownInv, JobFine
  <2>3. SavePath(job.fid)' = q
    BY <1>1, <2>2 DEF SavePath
  <2>4. QED BY <1>1, <2>2, <2>3 DEF DownInv, Landing
<1>6. RecordMeansLanded' /\ RecordedIsWhole'
  BY <1>1 DEF DownInv, RecordMeansLanded, RecordedIsWhole, Has
<1>7. QED BY <1>1, <1>2, <1>3, <1>4, <1>5, <1>6, TreeStays, RecordsStay DEF DownInv

-----------------------------------------------------------------------------
LEMMA NextKeepsInv == DownInv /\ [Next]_vars => DownInv'
<1>1. SUFFICES ASSUME DownInv, [Next]_vars PROVE DownInv'
  OBVIOUS
<1>2. CASE InitTask \/ BeginDownload
  BY <1>1, <1>2, InitTaskKeepsInv, BeginDownloadKeepsInv
<1>3. CASE BuildRecord
  BY <1>1, <1>3, BuildRecordKeepsInv
<1>4. CASE BuildDone \/ Finish \/ GiveUp
  BY <1>1, <1>4, EndsKeepInv
<1>5. CASE \E d \in {Root} \cup DirPath : Walk(d)
  BY <1>1, <1>5, WalkKeepsInv
<1>6. CASE Plan
  BY <1>1, <1>6, PlanKeepsInv
<1>7. CASE DropStale \/ ClearTree
  BY <1>1, <1>7, DropStaleKeepsInv, ClearTreeKeepsInv
<1>8. CASE Download \/ Copy \/ PutRecord
  BY <1>1, <1>8, DownloadKeepsInv, CopyKeepsInv, PutRecordKeepsInv
<1>9. CASE ArchiveAll
  BY <1>1, <1>9, ArchiveAllKeepsInv
<1>10. CASE \E p \in Path : AddInCloud(p) \/ Delete(p) \/ Write(p)
  BY <1>1, <1>10, AddKeepsInv, EditKeepsInv
<1>11. CASE UNCHANGED vars
  <2>1. /\ UNCHANGED <<mode, cloud, local, index, ready, job, settled>>
        /\ UNCHANGED <<handled, excused, deleted, built>>
    BY <1>11 DEF vars, history
  <2>2. Typed'
    BY <1>1, <2>1 DEF DownInv, Typed, Jobs
  <2>3. JobFine' /\ GetsUnrecorded' /\ Landing' /\ Handling' /\ DropsFine' /\ SurveyFine'
    BY <1>1, <2>1 DEF DownInv, JobFine, GetsUnrecorded, Landing, Handling, DropsFine, SurveyFine,
       ToDrop, Applying, Has, SavePath, Present, Fresh, Same, IsDir, Files, There
  <2>4. QED BY <1>1, <2>1, <2>2, <2>3, TreeStays, RecordsStay, LocalStays DEF DownInv
<1>12. QED
  BY <1>1, <1>2, <1>3, <1>4, <1>5, <1>6, <1>7, <1>8, <1>9, <1>10, <1>11 DEF Next, JobSteps

LEMMA DownInvHolds == Spec => []DownInv
BY InitIsInv, NextKeepsInv, PTL DEF Spec

(* A stale duplicate is deleted in the cloud only when a file of the same  *)
(* name stays there (plan.go: "redundant copy of the same name"), provided *)
(* that no two videos of a directory share a stem: for those the plan      *)
(* takes one for the duplicate of the other.                               *)
THEOREM DropKeepsOriginalHolds ==
    ASSUME StrmsDiffer
    PROVE  Spec => []DropKeepsOriginal
<1>1. DownInv => DropKeepsOriginal
  BY DEF DownInv
<1>2. QED BY <1>1, DownInvHolds, PTL

(* A record without its local file means that the user has deleted it, or  *)
(* that BuildIndex made it: whatever is downloaded in whatever order, and  *)
(* wherever the program dies, the file was landed before it was recorded   *)
(* (apply.go: download).                                                   *)
THEOREM RecordMeansLandedHolds == Spec => []RecordMeansLanded
<1>1. DownInv => RecordMeansLanded
  BY DEF DownInv
<1>2. QED BY <1>1, DownInvHolds, PTL

(* A file whose copy was cut off is never recorded, so that it is never    *)
(* taken for synced (apply.go: download).                                  *)
THEOREM RecordedIsWholeHolds == Spec => []RecordedIsWhole
<1>1. DownInv => RecordedIsWhole
  BY DEF DownInv
<1>2. QED BY <1>1, DownInvHolds, PTL

(* What is moved to the recycle directory was fetched, or needed no        *)
(* fetching, unless its fetch failed or the walk had not seen it           *)
(* (apply.go: archiveAll).                                                 *)
THEOREM ArchivedIsHandledHolds == Spec => []ArchivedIsHandled
<1>1. DownInv => ArchivedIsHandled
  BY DEF DownInv
<1>2. QED BY <1>1, DownInvHolds, PTL

-----------------------------------------------------------------------------
(* Paths as sequences.                                                     *)
Names == UNION {Range(p) : p \in Path}

LEMMA PathIs ==
    ASSUME NEW p \in Path \cup {Root}
    PROVE  /\ p \in Seq(Names) /\ Len(p) \in Nat /\ SubSeq(p, 1, Len(p)) = p
           /\ p # Root => Len(p) > 0 /\ p \in Path
<1>1. p \in Seq(Names)
  <2>1. CASE p = Root
    BY <2>1, EmptySeq DEF Root
  <2>2. CASE p \in Path
    BY <2>2, MirrorDownAssumption DEF Names
  <2>3. QED BY <2>1, <2>2
<1>2. Len(p) \in Nat /\ SubSeq(p, 1, Len(p)) = p
  BY <1>1, LenProperties, SubSeqFull
<1>3. p # Root => Len(p) # 0
  BY <1>1, EmptySeq DEF Root
<1>4. QED BY <1>1, <1>2, <1>3

LEMMA StartIs ==
    ASSUME NEW s \in Seq(Names), NEW n \in 0 .. Len(s)
    PROVE  /\ SubSeq(s, 1, n) \in Seq(Names) /\ Len(SubSeq(s, 1, n)) = n
           /\ \A i \in 1 .. n : SubSeq(s, 1, n)[i] = s[i]
<1>1. Len(s) \in Nat
  BY LenProperties
<1>2. \A i \in 1 .. n : s[i] \in Names
  BY <1>1, ElementOfSeq
<1>3. /\ SubSeq(s, 1, n) \in Seq(Names)
      /\ Len(SubSeq(s, 1, n)) = IF 1 <= n THEN n - 1 + 1 ELSE 0
      /\ \A i \in 1 .. n - 1 + 1 : SubSeq(s, 1, n)[i] = s[1 + i - 1]
  BY <1>1, <1>2, SubSeqProperties
<1>4. QED BY <1>1, <1>3

LEMMA StartOfStart ==
    ASSUME NEW s \in Seq(Names), NEW n \in 0 .. Len(s), NEW m \in 0 .. n
    PROVE  SubSeq(SubSeq(s, 1, n), 1, m) = SubSeq(s, 1, m)
<1>1. Len(s) \in Nat
  BY LenProperties
<1>2. PICK t \in Seq(Names) : t = SubSeq(s, 1, n) /\ Len(t) = n /\ \A i \in 1 .. n : t[i] = s[i]
  BY StartIs
<1>3. PICK u \in Seq(Names) : u = SubSeq(t, 1, m) /\ Len(u) = m /\ \A i \in 1 .. m : u[i] = t[i]
  BY <1>2, StartIs
<1>4. m \in 0 .. Len(s)
  BY <1>1
<1>5. PICK v \in Seq(Names) : v = SubSeq(s, 1, m) /\ Len(v) = m /\ \A i \in 1 .. m : v[i] = s[i]
  BY <1>4, StartIs
<1>6. u = v
  BY <1>1, <1>2, <1>3, <1>5, SeqEqual
<1>7. QED BY <1>2, <1>3, <1>5, <1>6

LEMMA EverythingIsBelowRoot == \A p \in Path : IsStrictPrefix(Root, p)
<1>1. SUFFICES ASSUME NEW p \in Path PROVE IsStrictPrefix(Root, p)
  OBVIOUS
<1>2. Len(p) \in Nat /\ p # Root /\ Len(Root) = 0 /\ p \in Seq(Names)
  BY PathIs, RootIsNoPath, EmptySeq DEF Root
<1>3. SubSeq(Root, 1, 0) = << >> /\ SubSeq(p, 1, 0) = << >>
  BY SubSeqEmpty
<1>4. QED BY <1>2, <1>3 DEF IsPrefix, IsStrictPrefix

(* The directory through which a walk comes from one above to a file.      *)
LEMMA WayDown ==
    ASSUME DownInv, TreeFine, NEW f \in Present, NEW d \in {Root} \cup DirPath,
           IsStrictPrefix(d, cloud[f].path), Up(cloud[f].path) # d
    PROVE  \E g \in Listing(d) : IsDir(g) /\ IsStrictPrefix(cloud[g].path, cloud[f].path)
<1>1. PICK p \in Path : p = cloud[f].path
  BY DEF DownInv, NodesFine, Present
<1>2. /\ p \in Seq(Names) /\ Len(p) \in Nat /\ SubSeq(p, 1, Len(p)) = p
      /\ Len(d) \in Nat /\ SubSeq(d, 1, Len(d)) = d
  BY PathIs, MirrorDownAssumption
<1>3. Len(d) <= Len(p) /\ d = SubSeq(p, 1, Len(d)) /\ d # p
  BY <1>1, <1>2 DEF IsStrictPrefix, IsPrefix
<1>4. Len(d) # Len(p) /\ Len(d) # Len(p) - 1
  BY <1>1, <1>2, <1>3 DEF Up, Front
<1>5. PICK n \in Nat : n = Len(d) /\ n + 1 \in 1 .. Len(p) - 1 /\ n + 1 \in 0 .. Len(p) /\ n \in 0 .. n + 1
  <2>1. PICK n, l \in Nat : n = Len(d) /\ l = Len(p)
    BY <1>2
  <2>2. n <= l /\ n # l /\ n # l - 1
    BY <1>3, <1>4, <2>1
  <2>3. n + 1 \in 1 .. l - 1 /\ n + 1 \in 0 .. l /\ n \in 0 .. n + 1
    BY <2>2
  <2>4. QED BY <2>1, <2>3
<1>6. PICK g \in Present : IsDir(g) /\ cloud[g].path = SubSeq(p, 1, n + 1)
  BY <1>1, <1>5 DEF TreeFine
<1>7. PICK q \in Seq(Names) : q = SubSeq(p, 1, n + 1) /\ Len(q) = n + 1
  BY <1>2, <1>5, StartIs
<1>8. SubSeq(q, 1, n) = SubSeq(p, 1, n) /\ SubSeq(q, 1, n + 1) = SubSeq(p, 1, n + 1)
  <2>1. n + 1 \in 0 .. n + 1
    BY <1>5
  <2>2. QED BY <1>2, <1>5, <1>7, <2>1, StartOfStart
<1>9. Up(q) = d
  <2>1. Len(q) - 1 = n
    BY <1>5, <1>7
  <2>2. QED BY <1>3, <1>5, <1>8, <2>1 DEF Up, Front
<1>10. IsStrictPrefix(q, p)
  <2>1. Len(q) <= Len(p) /\ Len(q) # Len(p)
    <3>1. PICK l \in Nat : l = Len(p)
      BY <1>2
    <3>2. n + 1 <= l /\ n + 1 # l
      BY <1>5, <3>1
    <3>3. QED BY <1>7, <3>1, <3>2
  <2>2. SubSeq(q, 1, Len(q)) = SubSeq(p, 1, Len(q))
    BY <1>7, <1>8
  <2>3. q # p
    BY <2>1
  <2>4. QED BY <2>1, <2>2, <2>3 DEF IsStrictPrefix, IsPrefix
<1>11. QED BY <1>1, <1>6, <1>7, <1>9, <1>10 DEF Listing

-----------------------------------------------------------------------------
(* The directories above what is in the cloud are there, too.              *)
LEMMA AboveStays == TreeFine /\ UNCHANGED cloud => TreeFine'
BY DEF TreeFine, Present, IsDir

LEMMA DropKeepsAbove ==
    ASSUME DownInv, TreeFine, NEW f \in Fid, ~IsDir(f), cloud' = [cloud EXCEPT ![f].place = "gone"]
    PROVE  TreeFine'
<1>1. PICK w \in {"root", "temp", "gone"} : w = "gone"
  OBVIOUS
<1>2. \A g \in Fid : /\ cloud'[g].path = cloud[g].path
                     /\ cloud'[g].place = IF g = f THEN "gone" ELSE cloud[g].place
  BY <1>1, PlaceIsSet DEF DownInv
<1>3. Present' = Present \ {f} /\ \A g \in Fid : IsDir(g)' = IsDir(g)
  BY <1>2 DEF Present, IsDir
<1>4. SUFFICES ASSUME NEW g \in Present, NEW n \in 1 .. Len(cloud[g].path) - 1
               PROVE  \E h \in Present \ {f} : IsDir(h) /\ cloud[h].path = SubSeq(cloud[g].path, 1, n)
  BY <1>2, <1>3 DEF TreeFine, Present
<1>5. PICK h \in Present : IsDir(h) /\ cloud[h].path = SubSeq(cloud[g].path, 1, n)
  BY DEF TreeFine
<1>6. h # f
  BY <1>5
<1>7. QED BY <1>5, <1>6

LEMMA ArchiveKeepsAbove ==
    ASSUME DownInv, TreeFine, ArchiveAll
    PROVE  TreeFine'
<1>1. CASE UNCHANGED cloud
  BY <1>1, AboveStays
<1>2. CASE ~UNCHANGED cloud
  <2>1. PICK moved \in SUBSET Present :
          /\ moved = {f \in Present : \E t \in job.tops : IsPrefix(cloud[t].path, cloud[f].path)}
          /\ \A f \in Fid : /\ cloud'[f].path = cloud[f].path
                            /\ cloud'[f].place = IF f \in moved THEN "temp" ELSE cloud[f].place
    BY <1>2, ArchiveIs
  <2>2. /\ Present' = Present \ moved
        /\ \A g \in Present : cloud'[g].path = cloud[g].path /\ IsDir(g)' = IsDir(g)
    BY <2>1 DEF Present, IsDir
  <2>3. ASSUME NEW f \in Present \ moved, NEW n \in 1 .. Len(cloud[f].path) - 1
        PROVE  \E g \in Present \ moved : IsDir(g) /\ cloud[g].path = SubSeq(cloud[f].path, 1, n)
    <3>1. PICK g \in Present : IsDir(g) /\ cloud[g].path = SubSeq(cloud[f].path, 1, n)
      BY DEF TreeFine
    <3>2. ASSUME g \in moved PROVE FALSE
      <4>1. PICK t \in job.tops : IsPrefix(cloud[t].path, cloud[g].path)
        BY <2>1, <3>2
      <4>2. PICK p \in Path : p = cloud[f].path
        BY DEF DownInv, NodesFine, Present
      <4>3. PICK r \in Path \cup {Root} : r = cloud[t].path
        BY DEF DownInv, Typed, Jobs, Nodes
      <4>4. PICK q \in Path : q = cloud[g].path
        BY DEF DownInv, NodesFine, Present
      <4>5. p \in Seq(Names) /\ Len(p) \in Nat /\ Len(r) \in Nat /\ Len(q) \in Nat
        BY PathIs
      <4>6. n \in 0 .. Len(p) /\ n \in Nat
        BY <4>2, <4>5
      <4>7. Len(q) = n /\ q = SubSeq(p, 1, n)
        BY <3>1, <4>2, <4>4, <4>5, <4>6, StartIs
      <4>8. Len(r) <= Len(q) /\ SubSeq(r, 1, Len(r)) = SubSeq(q, 1, Len(r))
        BY <4>1, <4>3, <4>4 DEF IsPrefix
      <4>9. Len(r) \in 0 .. n /\ Len(r) <= Len(p)
        BY <4>5, <4>6, <4>7, <4>8
      <4>10. SubSeq(q, 1, Len(r)) = SubSeq(p, 1, Len(r))
        BY <4>5, <4>6, <4>7, <4>9, StartOfStart
      <4>11. IsPrefix(r, p)
        BY <4>8, <4>9, <4>10 DEF IsPrefix
      <4>12. QED BY <2>1, <4>2, <4>3, <4>11
    <3>3. QED BY <3>1, <3>2
  <2>4. SUFFICES ASSUME NEW f \in Present', NEW n \in 1 .. Len(cloud'[f].path) - 1
                 PROVE  \E g \in Present' : IsDir(g)' /\ cloud'[g].path = SubSeq(cloud'[f].path, 1, n)
    BY DEF TreeFine
  <2>5. f \in Present \ moved /\ cloud'[f].path = cloud[f].path
    BY <2>2
  <2>6. PICK g \in Present \ moved : IsDir(g) /\ cloud[g].path = SubSeq(cloud[f].path, 1, n)
    BY <2>3, <2>5
  <2>7. QED BY <2>2, <2>5, <2>6
<1>3. QED BY <1>1, <1>2

LEMMA AddKeepsAbove ==
    ASSUME DownInv, TreeFine, NEW p \in Path, AddInCloud(p)
    PROVE  TreeFine'
<1>1. PICK f \in Fresh :
        /\ cloud'[f].path = p /\ cloud'[f].place = "root"
        /\ \A g \in Fid : g # f => cloud'[g] = cloud[g]
  BY AddIs
<1>2. f \in Fid /\ f \notin Present
  BY DEF Fresh, Present
<1>3. /\ Present' = Present \cup {f}
      /\ \A g \in Present : cloud'[g] = cloud[g] /\ IsDir(g)' = IsDir(g)
  BY <1>1, <1>2 DEF Present, IsDir
<1>4. ASSUME NEW g \in Present, NEW n \in 1 .. Len(cloud[g].path) - 1
      PROVE  \E h \in Present' : IsDir(h)' /\ cloud'[h].path = SubSeq(cloud[g].path, 1, n)
  <2>1. PICK h \in Present : IsDir(h) /\ cloud[h].path = SubSeq(cloud[g].path, 1, n)
    BY <1>4 DEF TreeFine
  <2>2. QED BY <1>3, <2>1
<1>5. ASSUME NEW n \in 1 .. Len(p) - 1
      PROVE  \E h \in Present' : IsDir(h)' /\ cloud'[h].path = SubSeq(p, 1, n)
  <2>1. /\ p \in Seq(Names) /\ Len(p) \in Nat /\ Up(p) \in {Root} \cup DirPath
        /\ Up(p) = SubSeq(p, 1, Len(p) - 1)
    BY PathIs, MirrorDownAssumption DEF Up, Front
  <2>2. PICK l \in Nat : l = Len(p) - 1 /\ l \in 0 .. Len(p) /\ n \in 1 .. l /\ n \in 0 .. l /\ l # 0
    <3>1. PICK k \in Nat : k = Len(p)
      BY <2>1
    <3>2. k - 1 \in Nat /\ k - 1 \in 0 .. k /\ n \in 1 .. k - 1 /\ n \in 0 .. k - 1 /\ k - 1 # 0
      BY <1>5, <3>1
    <3>3. QED BY <3>1, <3>2
  <2>3. PICK q \in {Root} \cup DirPath : q = Up(p) /\ Len(q) = l
    BY <2>1, <2>2, StartIs
  <2>4. q # Root /\ q \in DirPath
    BY <2>2, <2>3, EmptySeq DEF Root
  <2>5. PICK g \in Present : cloud[g].path = q
    BY <2>3, <2>4, AddIs
  <2>6. SubSeq(q, 1, n) = SubSeq(p, 1, n)
    BY <2>1, <2>2, <2>3, StartOfStart
  <2>7. CASE n = l
    <3>1. SubSeq(q, 1, n) = q
      BY <2>3, <2>4, <2>7, PathIs, MirrorDownAssumption
    <3>2. QED BY <1>3, <2>4, <2>5, <2>6, <3>1 DEF IsDir
  <2>8. CASE n # l
    <3>1. n \in 1 .. Len(cloud[g].path) - 1
      BY <2>2, <2>3, <2>5, <2>8
    <3>2. QED BY <1>4, <2>5, <2>6, <3>1
  <2>9. QED BY <2>7, <2>8
<1>6. QED BY <1>1, <1>3, <1>4, <1>5 DEF TreeFine

-----------------------------------------------------------------------------
(* A step that is not part of an undisturbed download.                     *)
LEMMA Disturbed ==
    ASSUME TreeFine', settled' = FALSE,
           \/ job'.at \in {"idle", "survey"}
           \/ job'.calm = FALSE /\ ready'
           \/ job'.calm = FALSE /\ job'.at \notin {"scan", "apply", "clear", "copy", "put"}
    PROVE  QuietInv'
BY DEF QuietInv, WalkFine, PlanFine, QuietRunSettles, Applying

(* No download has been complete while a job is at work.                   *)
LEMMA BusyIs ==
    ASSUME DownInv, QuietInv, job.at # "idle"
    PROVE  /\ settled = FALSE
           /\ job.at # "survey" => ready = TRUE
BY DEF DownInv, Typed, Jobs, QuietInv, Applying

LEMMA FileIs ==
    ASSUME DownInv, NEW f \in Files(Present)
    PROVE  /\ f \in Fid /\ f # nobody /\ cloud[f].place = "root" /\ ~IsDir(f) /\ f \in Present
           /\ cloud[f].path \in Path \ StrmPath /\ SavePath(f) \in Path \ DirPath
<1>1. f \in Fid /\ f # nobody /\ cloud[f].place = "root" /\ ~IsDir(f) /\ f \in Present
  BY MirrorDownAssumption DEF Files, Present
<1>2. cloud[f].path \in Path \ StrmPath
  BY <1>1 DEF DownInv, NodesFine
<1>3. SavePath(f) \in Path \ DirPath
  BY <1>1, <1>2, KeyIs, MirrorDownAssumption DEF SavePath, IsDir
<1>4. QED BY <1>1, <1>2, <1>3

LEMMA EndsStayQuiet ==
    ASSUME DownInv, QuietInv, InitTask \/ BuildRecord \/ BuildDone \/ GiveUp
    PROVE  QuietInv'
<1>1. cloud' = cloud /\ TreeFine'
  BY AboveStays DEF InitTask, BuildRecord, BuildDone, GiveUp, QuietInv
<1>2. CASE InitTask
  <2>1. ~ready /\ settled' = FALSE
    BY <1>2 DEF InitTask, QuietInv, DownInv, Typed
  <2>2. job'.at \in {"idle", "survey"}
    BY <1>2 DEF InitTask, Idle
  <2>3. QED BY <1>1, <2>1, <2>2, Disturbed
<1>3. CASE BuildRecord
  <2>1. job.at = "survey" /\ settled' = settled
    BY <1>3 DEF BuildRecord
  <2>2. job'.at = "survey"
    BY <1>3 DEF BuildRecord, DownInv, Typed, Jobs
  <2>3. QED BY <1>1, <2>1, <2>2, BusyIs, Disturbed
<1>4. CASE BuildDone \/ GiveUp
  <2>1. job.at # "idle" /\ settled' = settled /\ job' = Idle
    BY <1>4 DEF BuildDone, GiveUp
  <2>2. job'.at = "idle"
    BY <2>1 DEF Idle
  <2>3. QED BY <1>1, <2>1, <2>2, BusyIs, Disturbed
<1>5. QED BY <1>2, <1>3, <1>4

(* The walk begins at the root, below which there is everything.           *)
LEMMA BeginDownloadStaysQuiet ==
    ASSUME DownInv, QuietInv, BeginDownload
    PROVE  QuietInv'
<1>1. /\ job' = [Idle EXCEPT !.at = "scan", !.count = LocalTreeCount, !.dirs = {Root}, !.calm = TRUE]
      /\ ready' /\ settled' = FALSE /\ cloud' = cloud
  BY DEF BeginDownload
<1>2. job'.at = "scan" /\ job'.dirs = {Root}
  BY <1>1 DEF Idle
<1>3. \A f \in Files(Present) : IsStrictPrefix(Root, cloud[f].path)
  BY FileIs, EverythingIsBelowRoot
<1>4. Files(Present)' = Files(Present)
  BY <1>1 DEF Files, Present, IsDir
<1>5. WalkFine'
  BY <1>1, <1>2, <1>3, <1>4 DEF WalkFine
<1>6. QED BY <1>1, <1>2, <1>5, AboveStays DEF QuietInv, PlanFine, QuietRunSettles, Applying

(* A directory that is skipped is synced, but for what is remembered; one  *)
(* that is listed leads on to everything below it.                         *)
LEMMA WalkStaysQuiet ==
    ASSUME DownInv, QuietInv, NEW d \in {Root} \cup DirPath, Walk(d)
    PROVE  QuietInv'
<1>1. /\ job.at \in {"survey", "scan"} /\ job'.at = job.at /\ job'.calm = job.calm
      /\ UNCHANGED <<mode, cloud, local, index, ready, settled>>
      /\ \/ /\ Agrees(d) /\ job'.dirs = job.dirs \ {d} /\ job'.items = job.items
            /\ blind' = blind \cup {f \in Files(Below(d)) : ~There(SavePath(f)) \/ Stale(f)}
         \/ /\ blind' = blind
            /\ job'.items = job.items \cup Listing(d)
            /\ job'.dirs = (job.dirs \ {d}) \cup
                           {cloud[f].path : f \in {g \in Listing(d) : IsDir(g)}}
  BY WalkIs
<1>2. settled' = FALSE /\ TreeFine'
  BY <1>1, BusyIs, AboveStays DEF QuietInv
<1>3. CASE job.at = "survey" \/ job.calm = FALSE
  <2>1. job.at = "survey" \/ ready
    BY <1>1, BusyIs
  <2>2. QED BY <1>1, <1>2, <1>3, <2>1, Disturbed
<1>4. CASE job.at = "scan" /\ job.calm
  <2>1. /\ Files(Present)' = Files(Present)
        /\ \A f \in Fid : SavePath(f)' = SavePath(f) /\ (Synced(f)' <=> Synced(f))
    BY <1>1 DEF Files, Present, IsDir, SavePath, Synced, There, Has, Stale
  <2>2. ASSUME NEW f \in Files(Present)
        PROVE  \/ f \in job'.items \cup blind' \/ Synced(f)
               \/ \E e \in job'.dirs : IsStrictPrefix(e, cloud[f].path)
    <3>1. f \in Present /\ ~IsDir(f)
      BY FileIs
    <3>2. CASE f \in job.items \cup blind \/ Synced(f)
      BY <1>1, <3>2
    <3>3. CASE \E e \in job.dirs : e # d /\ IsStrictPrefix(e, cloud[f].path)
      BY <1>1, <3>3
    <3>4. CASE IsStrictPrefix(d, cloud[f].path)
      <4>1. CASE blind' = blind \cup {g \in Files(Below(d)) : ~There(SavePath(g)) \/ Stale(g)}
        BY <3>1, <3>4, <4>1 DEF Files, Below, Synced
      <4>2. CASE /\ job'.items = job.items \cup Listing(d)
                 /\ job'.dirs = (job.dirs \ {d}) \cup
                                {cloud[g].path : g \in {h \in Listing(d) : IsDir(h)}}
        <5>1. CASE Up(cloud[f].path) = d
          BY <3>1, <4>2, <5>1 DEF Listing
        <5>2. CASE Up(cloud[f].path) # d
          BY <3>1, <3>4, <4>2, <5>2, WayDown DEF QuietInv
        <5>3. QED BY <5>1, <5>2
      <4>3. QED BY <1>1, <4>1, <4>2
    <3>5. QED BY <1>4, <3>2, <3>3, <3>4 DEF QuietInv, WalkFine
  <2>3. WalkFine'
    <3>1. \A f \in Files(Present) : f \in Fid
      BY FileIs
    <3>2. QED BY <1>1, <2>1, <2>2, <3>1 DEF WalkFine
  <2>4. QED BY <1>1, <1>2, <1>4, <2>3, BusyIs DEF QuietInv, PlanFine, QuietRunSettles, Applying
<1>5. QED BY <1>1, <1>3, <1>4 DEF DownInv, Typed, Jobs

(* What the plan has, and what an operation leaves of it.                  *)
LEMMA PlanStaysQuiet ==
    ASSUME DownInv, QuietInv, Plan
    PROVE  QuietInv'
<1>1. /\ job.at = "scan" /\ job.dirs = {}
      /\ UNCHANGED <<mode, cloud, local, index, ready, blind, settled>>
      /\ job'.at = "apply" /\ job'.calm = job.calm
      /\ job'.gets = {f \in Files(job.items) : Missing(f)}
      /\ job'.drops = {f \in Files(job.items) : DropsStale /\ Stale(f)}
  BY PlanIs
<1>2. /\ Files(Present)' = Files(Present) /\ DropsStale' = DropsStale
      /\ \A f \in Fid : /\ SavePath(f)' = SavePath(f)
                        /\ There(SavePath(f))' <=> There(SavePath(f))
                        /\ NothingToDo(f)' <=> NothingToDo(f)
  BY <1>1 DEF Files, Present, IsDir, SavePath, DropsStale, There, NothingToDo, Missing, Stale, Has
<1>3. job.items \subseteq Fid
  BY <1>1 DEF DownInv, JobFine
<1>4. PlanFine'
  <2>1. SUFFICES ASSUME job.calm PROVE PlanFine'
    BY <1>1 DEF PlanFine
  <2>2. ASSUME NEW f \in Files(Present)
        PROVE  f \in blind \cup job'.gets \cup job'.drops \/ NothingToDo(f)
    <3>1. f \in job.items \cup blind \/ Synced(f)
      BY <1>1, <2>1 DEF QuietInv, WalkFine
    <3>2. CASE f \in blind
      BY <3>2
    <3>3. CASE f \in job.items
      BY <1>1, <2>2, <3>3 DEF Files, NothingToDo
    <3>4. CASE Synced(f)
      BY <3>4 DEF Synced, NothingToDo, Missing
    <3>5. QED BY <3>1, <3>2, <3>3, <3>4
  <2>3. \A f \in job'.drops : f \in Fid /\ There(SavePath(f))
    BY <1>1, <1>3 DEF Files, Stale
  <2>4. \A f \in Files(Present) : f \in Fid
    BY FileIs
  <2>5. QED BY <1>1, <1>2, <2>2, <2>3, <2>4 DEF PlanFine
<1>5. settled' = FALSE /\ ready'
  BY <1>1, BusyIs
<1>6. QED
  BY <1>1, <1>4, <1>5, AboveStays DEF QuietInv, WalkFine, QuietRunSettles

LEMMA FailureIsNotQuiet ==
    ASSUME DownInv, QuietInv, NEW f \in Fid, Failed(f), job.at # "survey", job.at # "idle", TreeFine',
           UNCHANGED <<ready, settled>>
    PROVE  QuietInv'
<1>1. job'.calm = FALSE
  BY FailedIs DEF DownInv
<1>2. QED BY <1>1, BusyIs, Disturbed

LEMMA DropStaleStaysQuiet ==
    ASSUME DownInv, QuietInv, DropStale
    PROVE  QuietInv'
<1>1. /\ job.at = "apply" /\ job \in Jobs
      /\ UNCHANGED <<mode, local, index, ready, blind, settled>>
  BY DEF DropStale, DownInv, Typed
<1>2. PICK f \in job.drops :
        \/ Failed(f) /\ UNCHANGED cloud
        \/ /\ cloud' = [cloud EXCEPT ![f].place = "gone"]
           /\ job' = [job EXCEPT !.at = "clear", !.fid = f]
  BY DEF DropStale, First
<1>3. f \in Fid /\ ~IsDir(f) /\ job.drops \subseteq Fid
  BY <1>1, <1>2 DEF DownInv, JobFine, Jobs
<1>4. CASE Failed(f) /\ UNCHANGED cloud
  BY <1>1, <1>3, <1>4, AboveStays, FailureIsNotQuiet DEF QuietInv
<1>5. CASE /\ cloud' = [cloud EXCEPT ![f].place = "gone"]
           /\ job' = [job EXCEPT !.at = "clear", !.fid = f]
  <2>1. PICK w \in {"root", "temp", "gone"} : w = "gone"
    OBVIOUS
  <2>2. \A g \in Fid : /\ cloud'[g].path = cloud[g].path
                       /\ cloud'[g].place = IF g = f THEN "gone" ELSE cloud[g].place
    BY <1>3, <1>5, <2>1, PlaceIsSet DEF DownInv
  <2>3. /\ Files(Present)' \subseteq Files(Present) /\ DropsStale' = DropsStale
        /\ \A g \in Fid : /\ SavePath(g)' = SavePath(g)
                          /\ There(SavePath(g))' <=> There(SavePath(g))
                          /\ NothingToDo(g)' <=> NothingToDo(g)
    BY <1>1, <2>2 DEF Files, Present, IsDir, SavePath, DropsStale, There, NothingToDo, Missing, Stale, Has
  <2>4. /\ job'.at = "clear" /\ job'.drops = job.drops /\ job'.gets = job.gets
        /\ job'.calm = job.calm /\ job'.fid = f
    BY <1>1, <1>3, <1>5 DEF Jobs
  <2>5. \A g \in Files(Present) : g \in Fid
    BY FileIs
  <2>6. PlanFine'
    BY <1>1, <1>3, <2>3, <2>4, <2>5 DEF QuietInv, PlanFine, Applying
  <2>7. settled' = FALSE /\ ready' /\ TreeFine'
    BY <1>1, <1>3, <1>5, BusyIs, DropKeepsAbove DEF QuietInv
  <2>8. QED BY <2>4, <2>6, <2>7 DEF QuietInv, WalkFine, QuietRunSettles
<1>6. QED BY <1>2, <1>4, <1>5

LEMMA ClearTreeStaysQuiet ==
    ASSUME DownInv, QuietInv, ClearTree
    PROVE  QuietInv'
<1>1. /\ job.at = "clear" /\ job \in Jobs
      /\ UNCHANGED <<mode, cloud, local, ready, blind, settled>>
  BY DEF ClearTree, DownInv, Typed
<1>2. PICK f \in Fid : f = job.fid /\ cloud[f].place = "gone"
  BY <1>1 DEF DownInv, JobFine
<1>3. PICK p \in Path : p = SavePath(f)
  BY <1>2, NodeIs DEF DownInv
<1>4. \A q \in Path : index'[q] = IF q = p THEN nobody ELSE index[q]
  BY <1>2, <1>3 DEF ClearTree, DownInv, Typed
<1>5. /\ job'.at = "apply" /\ job'.drops = job.drops \ {f} /\ job'.gets = job.gets
      /\ job'.calm = job.calm
  BY <1>1, <1>2 DEF ClearTree, Jobs
<1>6. settled' = FALSE /\ ready' /\ TreeFine'
  BY <1>1, BusyIs, AboveStays DEF QuietInv
<1>7. PlanFine'
  <2>1. SUFFICES ASSUME job.calm PROVE PlanFine'
    BY <1>5 DEF PlanFine
  <2>2. /\ Files(Present)' = Files(Present) /\ DropsStale' = DropsStale
        /\ \A g \in Fid : SavePath(g)' = SavePath(g)
        /\ \A q : There(q)' <=> There(q)
    BY <1>1 DEF Files, Present, IsDir, SavePath, DropsStale, There
  <2>3. ASSUME NEW g \in Files(Present)
        PROVE  g \in blind \cup job'.gets \cup job'.drops \/ NothingToDo(g)'
    <3>1. /\ g \in Fid /\ g # f /\ SavePath(g) \in Path
      BY <1>2, FileIs
    <3>2. CASE g \in blind \cup job.gets \cup job.drops
      BY <1>5, <3>1, <3>2
    <3>3. CASE NothingToDo(g) /\ SavePath(g) # p
      BY <1>1, <1>4, <2>2, <3>1, <3>3 DEF NothingToDo, Missing, Stale, Has
    <3>4. CASE SavePath(g) = p
      <4>1. There(p)
        BY <1>1, <1>2, <1>3, <2>1 DEF QuietInv, PlanFine, Applying
      <4>2. QED BY <1>4, <2>2, <3>1, <3>4, <4>1 DEF NothingToDo, Missing, Stale, Has
    <3>5. QED BY <1>1, <2>1, <3>2, <3>3, <3>4 DEF QuietInv, PlanFine, Applying
  <2>4. \A g \in job'.drops : g \in Fid /\ There(SavePath(g))
    BY <1>1, <1>5, <2>1 DEF QuietInv, PlanFine, Applying, Jobs
  <2>5. \A g \in Files(Present) : g \in Fid
    BY FileIs
  <2>6. QED BY <1>1, <1>5, <2>2, <2>3, <2>4, <2>5 DEF PlanFine
<1>8. QED BY <1>5, <1>6, <1>7 DEF QuietInv, WalkFine, QuietRunSettles

(* Where another file of the cloud lands, nothing is put: there is no      *)
(* record there, and two files of a name are not both without one.         *)
LEMMA GetIsAlone ==
    ASSUME StrmsDiffer, DownInv, NEW f \in job.gets
    PROVE  /\ ~Has(SavePath(f))
           /\ \A g \in Files(Present) : g # f => SavePath(g) # SavePath(f)
<1>1. f \in Fid /\ f \in Present /\ cloud[f].path \in Path \ StrmPath /\ OwnKey(cloud[f].path)
  BY GetIs, KeysAreOwn DEF Present
<1>2. ~Has(SavePath(f))
  BY <1>1 DEF DownInv, GetsUnrecorded
<1>3. ASSUME NEW g \in Files(Present), g # f, SavePath(g) = SavePath(f) PROVE FALSE
  <2>1. g \in Present /\ cloud[g].path \in Path \ StrmPath
    BY FileIs
  <2>2. Same(f, g)
    BY <1>1, <1>3, <2>1 DEF OwnKey, SavePath, Same
  <2>3. QED BY <1>1, <1>2, <1>3, <2>1, <2>2 DEF DownInv, SecondIsRecorded
<1>4. QED BY <1>2, <1>3

LEMMA DownloadStaysQuiet ==
    ASSUME StrmsDiffer, DownInv, QuietInv, Download
    PROVE  QuietInv'
<1>1. /\ job.at = "apply" /\ job.drops = {} /\ job \in Jobs
      /\ UNCHANGED <<mode, cloud, index, ready, blind, settled>>
  BY DEF Download, DownInv, Typed
<1>2. PICK f \in job.gets :
        \/ Failed(f)
        \/ /\ local' = [WithDirs(SavePath(f)) EXCEPT ![SavePath(f)] =
                            IF SavePath(f) # cloud[f].path THEN Strm(f) ELSE Part(f)]
           /\ job' = [job EXCEPT !.at = IF SavePath(f) # cloud[f].path THEN "put" ELSE "copy",
                                 !.fid = f]
  BY DEF Download, First
<1>3. PICK p \in Path : p = SavePath(f)
  BY GetIs
<1>4. f \in Fid /\ ~Has(p) /\ \A g \in Files(Present) : g # f => SavePath(g) # p
  BY <1>3, GetIs, GetIsAlone
<1>5. CASE Failed(f)
  BY <1>1, <1>4, <1>5, AboveStays, FailureIsNotQuiet DEF QuietInv
<1>6. CASE /\ local' = [WithDirs(p) EXCEPT ![p] = IF p # cloud[f].path THEN Strm(f) ELSE Part(f)]
           /\ job' = [job EXCEPT !.at = IF p # cloud[f].path THEN "put" ELSE "copy", !.fid = f]
  <2>1. PICK at \in {"put", "copy"} :
            at = (IF p # cloud[f].path THEN "put" ELSE "copy") /\ job' = [job EXCEPT !.at = at, !.fid = f]
    BY <1>6
  <2>2. /\ job'.at = at /\ job'.fid = f /\ job'.drops = {} /\ job'.gets = job.gets
        /\ job'.calm = job.calm
    BY <1>1, <1>4, <2>1 DEF Jobs
  <2>3. PICK e \in Things : /\ e = (IF p # cloud[f].path THEN Strm(f) ELSE Part(f))
                            /\ e.k = (IF p # cloud[f].path THEN "strm" ELSE "part")
    BY <1>4, ThingsAre
  <2>4. local'[p] = e /\ \A q \in Path \ DirPath : q # p => local'[q] = local[q]
    BY <1>6, <2>3 DEF WithDirs
  <2>5. There(p)' /\ \A q \in Path \ DirPath : q # p => (There(q)' <=> There(q))
    BY <2>3, <2>4 DEF There
  <2>6. /\ Files(Present)' = Files(Present) /\ DropsStale' = DropsStale
        /\ \A g \in Fid : SavePath(g)' = SavePath(g)
        /\ \A q : (Has(q)' <=> Has(q)) /\ index'[q] = index[q]
    BY <1>1 DEF Files, Present, IsDir, SavePath, DropsStale, Has
  <2>7. ASSUME NEW g \in Files(Present), g \in blind \cup job.gets \/ NothingToDo(g)
        PROVE  g \in blind \cup job'.gets \/ NothingToDo(g)'
    <3>1. PICK q \in Path \ DirPath : g \in Fid /\ q = SavePath(g)
      BY FileIs
    <3>2. CASE g \in blind \cup job.gets
      BY <2>2, <3>2
    <3>3. CASE NothingToDo(g) /\ g # f
      <4>1. There(q)' <=> There(q)
        BY <1>4, <2>5, <3>1, <3>3
      <4>2. QED BY <2>6, <3>1, <3>3, <4>1 DEF NothingToDo, Missing, Stale
    <3>4. QED BY <2>2, <2>7, <3>2, <3>3
  <2>8. There(SavePath(job.fid))'
    BY <1>1, <1>3, <1>4, <2>2, <2>5, <2>6
  <2>9. \A g \in Files(Present) : g \in Fid
    BY FileIs
  <2>10. PlanFine'
    BY <1>1, <2>2, <2>6, <2>7, <2>8, <2>9 DEF QuietInv, PlanFine, Applying
  <2>11. settled' = FALSE /\ ready' /\ TreeFine'
    BY <1>1, BusyIs, AboveStays DEF QuietInv
  <2>12. QED BY <2>1, <2>2, <2>10, <2>11 DEF QuietInv, WalkFine, QuietRunSettles
<1>7. QED BY <1>2, <1>3, <1>5, <1>6

LEMMA CopyStaysQuiet ==
    ASSUME DownInv, QuietInv, Copy
    PROVE  QuietInv'
<1>1. /\ job.at = "copy" /\ job.drops = {} /\ job \in Jobs
      /\ UNCHANGED <<mode, cloud, index, ready, blind, settled>>
  BY DEF Copy, DownInv, Typed, JobFine
<1>2. PICK f \in job.gets : f = job.fid
  BY <1>1 DEF DownInv, JobFine
<1>3. PICK p \in Path : p = cloud[f].path /\ p = SavePath(f) /\ f \in Fid
  BY <1>1, <1>2, GetIs DEF DownInv, JobFine
<1>4. CASE Failed(f)
  BY <1>1, <1>3, <1>4, AboveStays, FailureIsNotQuiet DEF QuietInv
<1>5. CASE /\ local' = [local EXCEPT ![p] = IF There(p) THEN File(f) ELSE Nothing]
           /\ job' = [job EXCEPT !.at = "put"]
  <2>1. /\ job'.at = "put" /\ job'.fid = f /\ job'.drops = {} /\ job'.gets = job.gets
        /\ job'.calm = job.calm
    BY <1>1, <1>2, <1>5 DEF Jobs
  <2>2. PICK e \in Things : /\ e = (IF There(p) THEN File(f) ELSE Nothing)
                            /\ e.k = (IF There(p) THEN "file" ELSE "none")
    BY <1>3, ThingsAre
  <2>3. \A q \in Path : There(q)' <=> There(q)
    BY <1>5, <2>2 DEF DownInv, Typed, There
  <2>4. /\ Files(Present)' = Files(Present) /\ DropsStale' = DropsStale
        /\ \A g \in Fid : SavePath(g)' = SavePath(g)
        /\ \A q : (Has(q)' <=> Has(q)) /\ index'[q] = index[q]
    BY <1>1 DEF Files, Present, IsDir, SavePath, DropsStale, Has
  <2>5. ASSUME NEW g \in Files(Present), NothingToDo(g) PROVE NothingToDo(g)'
    <3>1. g \in Fid /\ SavePath(g) \in Path
      BY FileIs
    <3>2. QED BY <2>3, <2>4, <2>5, <3>1 DEF NothingToDo, Missing, Stale
  <2>6. There(SavePath(job.fid))' <=> There(SavePath(job.fid))
    BY <1>2, <1>3, <2>1, <2>3, <2>4
  <2>7. \A g \in Files(Present) : g \in Fid
    BY FileIs
  <2>8. PlanFine'
    BY <1>1, <2>1, <2>4, <2>5, <2>6, <2>7 DEF QuietInv, PlanFine, Applying
  <2>9. settled' = FALSE /\ ready' /\ TreeFine'
    BY <1>1, BusyIs, AboveStays DEF QuietInv
  <2>10. QED BY <2>1, <2>8, <2>9 DEF QuietInv, WalkFine, QuietRunSettles
<1>6. QED BY <1>2, <1>3, <1>4, <1>5 DEF Copy

LEMMA PutRecordStaysQuiet ==
    ASSUME StrmsDiffer, DownInv, QuietInv, PutRecord
    PROVE  QuietInv'
<1>1. /\ job.at = "put" /\ job.drops = {} /\ job \in Jobs
      /\ UNCHANGED <<mode, cloud, local, ready, blind, settled>>
  BY DEF PutRecord, DownInv, Typed, JobFine
<1>2. PICK f \in job.gets : f = job.fid
  BY <1>1 DEF DownInv, JobFine
<1>3. PICK p \in Path : p = SavePath(f)
  BY GetIs
<1>4. f \in Fid /\ \A g \in Files(Present) : g # f => SavePath(g) # p
  BY <1>3, GetIs, GetIsAlone
<1>5. \A q \in Path : index'[q] = IF q = p THEN f ELSE index[q]
  BY <1>2, <1>3 DEF PutRecord, DownInv, Typed
<1>6. /\ job'.at = "apply" /\ job'.drops = {} /\ job'.gets = job.gets \ {f}
      /\ job'.calm = job.calm
  BY <1>1, <1>2 DEF PutRecord, Jobs
<1>7. PlanFine'
  <2>1. SUFFICES ASSUME job.calm PROVE PlanFine'
    BY <1>6 DEF PlanFine
  <2>2. /\ Files(Present)' = Files(Present) /\ DropsStale' = DropsStale
        /\ \A g \in Fid : SavePath(g)' = SavePath(g)
        /\ \A q : There(q)' <=> There(q)
    BY <1>1 DEF Files, Present, IsDir, SavePath, DropsStale, There
  <2>3. There(p)
    BY <1>1, <1>2, <1>3, <2>1 DEF QuietInv, PlanFine, Applying
  <2>4. ASSUME NEW g \in Files(Present)
        PROVE  g \in blind \cup job'.gets \/ NothingToDo(g)'
    <3>1. g \in Fid /\ SavePath(g) \in Path
      BY FileIs
    <3>2. CASE g = f
      BY <1>3, <1>5, <2>2, <2>3, <3>1, <3>2 DEF NothingToDo, Missing, Stale
    <3>3. CASE g # f /\ NothingToDo(g)
      BY <1>4, <1>5, <2>2, <3>1, <3>3 DEF NothingToDo, Missing, Stale, Has
    <3>4. CASE g # f /\ g \in blind \cup job.gets
      BY <1>6, <3>4
    <3>5. QED BY <1>1, <2>1, <3>2, <3>3, <3>4 DEF QuietInv, PlanFine, Applying
  <2>5. \A g \in Files(Present) : g \in Fid
    BY FileIs
  <2>6. QED BY <1>1, <1>6, <2>2, <2>4, <2>5 DEF PlanFine
<1>8. settled' = FALSE /\ ready' /\ TreeFine'
  BY <1>1, BusyIs, AboveStays DEF QuietInv
<1>9. QED BY <1>6, <1>7, <1>8 DEF QuietInv, WalkFine, QuietRunSettles

(* The download is complete: all that was planned has been done.           *)
LEMMA FinishSettles ==
    ASSUME DownInv, QuietInv, Finish \/ ArchiveAll
    PROVE  QuietInv'
<1>1. /\ job.at = "apply" /\ job.drops = {} /\ job.gets = {} /\ job' = Idle /\ ready
      /\ UNCHANGED <<mode, local, index, ready, blind>>
      /\ settled' \in {job.calm, FALSE}
  <2>1. job.at = "apply" /\ job.drops = {} /\ job.gets = {}
    BY DEF Finish, ArchiveAll, Done
  <2>2. ready /\ settled = FALSE
    BY <2>1, BusyIs
  <2>3. QED BY <2>1, <2>2 DEF Finish, ArchiveAll
<1>2. /\ TreeFine' /\ Files(Present)' \subseteq Files(Present)
      /\ \A f \in Fid : cloud'[f].path = cloud[f].path
  <2>1. CASE UNCHANGED cloud
    BY <2>1, AboveStays DEF QuietInv, Files, Present, IsDir
  <2>2. CASE ~UNCHANGED cloud
    <3>1. ArchiveAll
      BY <2>2 DEF Finish
    <3>2. PICK moved \in SUBSET Present :
            \A f \in Fid : /\ cloud'[f].path = cloud[f].path
                           /\ cloud'[f].place = IF f \in moved THEN "temp" ELSE cloud[f].place
      BY <2>2, <3>1, ArchiveIs
    <3>3. TreeFine'
      BY <3>1, ArchiveKeepsAbove DEF QuietInv
    <3>4. QED BY <3>2, <3>3 DEF Files, Present, IsDir
  <2>3. QED BY <2>1, <2>2
<1>3. QuietRunSettles'
  <2>1. SUFFICES ASSUME job.calm, NEW f \in Files(Present), f \notin blind
                 PROVE  NothingToDo(f)'
    BY <1>1, <1>2 DEF QuietRunSettles, NothingToDo
  <2>2. f \in Fid /\ NothingToDo(f)
    BY <1>1, <2>1, FileIs DEF QuietInv, PlanFine, Applying
  <2>3. SavePath(f)' = SavePath(f)
    BY <1>2, <2>2 DEF SavePath
  <2>4. QED BY <1>1, <2>2, <2>3 DEF NothingToDo, Missing, Stale, DropsStale, There, Has
<1>4. job'.at = "idle"
  BY <1>1 DEF Idle
<1>5. QED BY <1>1, <1>2, <1>3, <1>4 DEF QuietInv, WalkFine, PlanFine, Applying

(* Whoever else changes something, a download is not undisturbed then.     *)
LEMMA OthersStayQuiet ==
    ASSUME DownInv, QuietInv, NEW p \in Path, AddInCloud(p) \/ Delete(p) \/ Write(p)
    PROVE  QuietInv'
<1>1. settled' = FALSE /\ job'.calm = FALSE /\ job'.at = job.at /\ ready' = ready
  BY AddIs, EditIs
<1>2. TreeFine'
  <2>1. CASE AddInCloud(p)
    BY <2>1, AddKeepsAbove DEF QuietInv
  <2>2. CASE Delete(p) \/ Write(p)
    BY <2>2, EditIs, AboveStays DEF QuietInv
  <2>3. QED BY <2>1, <2>2
<1>3. job.at \in {"idle", "survey"} \/ ready
  BY BusyIs
<1>4. QED BY <1>1, <1>2, <1>3, Disturbed

LEMMA InitIsQuiet == Init => QuietInv
BY DEF Init, QuietInv, TreeFine, Present, WalkFine, PlanFine, QuietRunSettles, Applying, Idle

LEMMA NextStaysQuiet ==
    ASSUME StrmsDiffer
    PROVE  DownInv /\ QuietInv /\ [Next]_vars => QuietInv'
<1>1. SUFFICES ASSUME DownInv, QuietInv, [Next]_vars PROVE QuietInv'
  OBVIOUS
<1>2. CASE InitTask \/ BuildRecord \/ BuildDone \/ GiveUp
  BY <1>1, <1>2, EndsStayQuiet
<1>3. CASE BeginDownload
  BY <1>1, <1>3, BeginDownloadStaysQuiet
<1>4. CASE \E d \in {Root} \cup DirPath : Walk(d)
  BY <1>1, <1>4, WalkStaysQuiet
<1>5. CASE Plan
  BY <1>1, <1>5, PlanStaysQuiet
<1>6. CASE DropStale \/ ClearTree
  BY <1>1, <1>6, DropStaleStaysQuiet, ClearTreeStaysQuiet
<1>7. CASE Download \/ Copy \/ PutRecord
  BY <1>1, <1>7, DownloadStaysQuiet, CopyStaysQuiet, PutRecordStaysQuiet
<1>8. CASE ArchiveAll \/ Finish
  BY <1>1, <1>8, FinishSettles
<1>9. CASE \E p \in Path : AddInCloud(p) \/ Delete(p) \/ Write(p)
  BY <1>1, <1>9, OthersStayQuiet
<1>10. CASE UNCHANGED vars
  <2>1. UNCHANGED <<mode, cloud, local, index, ready, job, blind, settled>>
    BY <1>10 DEF vars
  <2>2. QED
    BY <1>1, <2>1, AboveStays
    DEF QuietInv, WalkFine, PlanFine, QuietRunSettles, Applying, Files, Present, IsDir, Synced,
        NothingToDo, Missing, Stale, SavePath, There, Has, DropsStale
<1>11. QED
  BY <1>1, <1>2, <1>3, <1>4, <1>5, <1>6, <1>7, <1>8, <1>9, <1>10 DEF Next, JobSteps

(* After a complete, undisturbed download nothing is left to do outside    *)
(* the directories it skipped: every file of the cloud is there or has a   *)
(* record, and the next plan would neither fetch nor delete (plan.go:      *)
(* PlanCloud). Provided, again, that no two videos of a directory share a  *)
(* stem.                                                                   *)
THEOREM QuietRunSettlesHolds ==
    ASSUME StrmsDiffer
    PROVE  Spec => []QuietRunSettles
<1>1. Init => DownInv /\ QuietInv
  BY InitIsInv, InitIsQuiet
<1>2. DownInv /\ QuietInv /\ [Next]_vars => (DownInv /\ QuietInv)'
  BY NextKeepsInv, NextStaysQuiet
<1>3. QuietInv => QuietRunSettles
  BY DEF QuietInv
<1>4. QED BY <1>1, <1>2, <1>3, PTL DEF Spec

-----------------------------------------------------------------------------
(***************************************************************************)
(* Why a directory may be skipped when the counts agree: as long as only   *)
(* the program fills the local tree, everything in it stands for a node    *)
(* that is there, so that as many entries as nodes leave no node without.  *)
(***************************************************************************)
Undisturbed == edits = 0 /\ ~Archives

SkipInv ==
    /\ edits \in Nat
    /\ SkipIsSound
    /\ Undisturbed => \A p \in Path : There(p) => \E f \in Present : SavePath(f) = p
    /\ Undisturbed /\ job.at = "scan" =>
         \A d \in {Root} \cup DirPath : job.count[d] = Cardinality({p \in Under(d) : There(p)})

(* A path and its .strm are below the same directories.                    *)
LEMMA AboveIs ==
    ASSUME NEW p \in Path, NEW q \in Path \cup {Root}
    PROVE  IsStrictPrefix(q, p) <=> IsPrefix(q, Up(p))
<1>1. /\ p \in Seq(Names) /\ Len(p) \in Nat /\ Len(p) > 0 /\ SubSeq(p, 1, Len(p)) = p
      /\ q \in Seq(Names) /\ Len(q) \in Nat /\ SubSeq(q, 1, Len(q)) = q
  BY PathIs, RootIsNoPath
<1>2. PICK l, m \in Nat : l = Len(p) - 1 /\ m = Len(q) /\ Len(p) = l + 1 /\ l \in 0 .. Len(p)
  <2>1. PICK k, m \in Nat : k = Len(p) /\ m = Len(q)
    BY <1>1
  <2>2. k - 1 \in Nat /\ k = k - 1 + 1 /\ k - 1 \in 0 .. k
    BY <1>1, <2>1
  <2>3. QED BY <2>1, <2>2
<1>3. PICK u \in Seq(Names) : u = SubSeq(p, 1, l) /\ u = Up(p) /\ Len(u) = l
  BY <1>1, <1>2, StartIs DEF Up, Front
<1>4. m <= l => SubSeq(u, 1, m) = SubSeq(p, 1, m)
  <2>1. m <= l => m \in 0 .. l
    BY <1>2
  <2>2. QED BY <1>1, <1>2, <1>3, <2>1, StartOfStart
<1>5. IsPrefix(q, Up(p)) <=> m <= l /\ q = SubSeq(u, 1, m)
  BY <1>1, <1>2, <1>3 DEF IsPrefix
<1>6. IsStrictPrefix(q, p) <=> m <= l + 1 /\ q = SubSeq(p, 1, m) /\ q # p
  BY <1>1, <1>2 DEF IsStrictPrefix, IsPrefix
<1>7. CASE m <= l
  <2>1. q # p /\ m <= l + 1
    BY <1>2, <1>7
  <2>2. QED BY <1>4, <1>5, <1>6, <1>7, <2>1, Zenon
<1>8. CASE m = l + 1
  <2>1. ~(m <= l)
    BY <1>8
  <2>2. SubSeq(p, 1, m) = p
    BY <1>1, <1>2, <1>8
  <2>3. QED BY <1>5, <1>6, <2>1, <2>2, Zenon
<1>9. CASE m > l + 1
  <2>1. ~(m <= l) /\ ~(m <= l + 1)
    BY <1>9
  <2>2. QED BY <1>5, <1>6, <2>1, Zenon
<1>10. m <= l \/ m = l + 1 \/ m > l + 1
  OBVIOUS
<1>11. QED BY <1>7, <1>8, <1>9, <1>10

LEMMA SaveIsBeside ==
    ASSUME DownInv, NEW f \in Present, NEW d \in {Root} \cup DirPath
    PROVE  /\ f \in Fid /\ cloud[f].path \in Path \ StrmPath /\ SavePath(f) \in Path
           /\ IsDir(f) => SavePath(f) = cloud[f].path
           /\ IsStrictPrefix(d, SavePath(f)) <=> IsStrictPrefix(d, cloud[f].path)
<1>1. f \in Fid /\ cloud[f].path \in Path \ StrmPath
  BY DEF DownInv, NodesFine, Present
<1>2. PICK p \in Path, q \in Path : p = cloud[f].path /\ q = SavePath(f)
  BY <1>1, KeyIs DEF SavePath
<1>3. q = p \/ (p \in VideoPath /\ q = StrmOf[p])
  BY <1>1, <1>2, KeyIs DEF SavePath
<1>4. Up(q) = Up(p)
  BY <1>3, MirrorDownAssumption
<1>5. IsStrictPrefix(d, q) <=> IsStrictPrefix(d, p)
  BY <1>4, AboveIs, MirrorDownAssumption
<1>6. p \in DirPath => q = p
  BY <1>3, MirrorDownAssumption
<1>7. QED BY <1>1, <1>2, <1>5, <1>6 DEF IsDir

(* The directories above where a node lands are there in the cloud.        *)
LEMMA AboveIsThere ==
    ASSUME DownInv, TreeFine, NEW f \in Present, NEW d \in DirPath, IsStrictPrefix(d, SavePath(f))
    PROVE  \E g \in Present : SavePath(g) = d
<1>1. PICK p \in Path : p = cloud[f].path /\ IsStrictPrefix(d, p)
  BY SaveIsBeside
<1>2. /\ Len(d) \in Nat /\ Len(d) > 0 /\ SubSeq(d, 1, Len(d)) = d /\ Len(p) \in Nat
      /\ SubSeq(p, 1, Len(p)) = p /\ d \in Path
  BY PathIs, RootIsNoPath, MirrorDownAssumption
<1>3. Len(d) <= Len(p) /\ d = SubSeq(p, 1, Len(d)) /\ Len(d) # Len(p)
  BY <1>1, <1>2 DEF IsStrictPrefix, IsPrefix
<1>4. Len(d) \in 1 .. Len(p) - 1
  <2>1. PICK l, m \in Nat : l = Len(p) /\ m = Len(d)
    BY <1>2
  <2>2. m > 0 /\ m <= l /\ m # l
    BY <1>2, <1>3, <2>1
  <2>3. m \in 1 .. l - 1
    BY <2>2
  <2>4. QED BY <2>1, <2>3
<1>5. PICK g \in Present : IsDir(g) /\ cloud[g].path = d
  BY <1>1, <1>3, <1>4 DEF TreeFine
<1>6. QED BY <1>5, SaveIsBeside

(* As many entries as nodes below a directory: no node is without one, and *)
(* no two share one.                                                       *)
LEMMA CountsAgree ==
    ASSUME DownInv, SkipInv, Undisturbed, NEW d \in {Root} \cup DirPath, Agrees(d)
    PROVE  \A f \in Below(d) : /\ There(SavePath(f))
                              /\ \A g \in Below(d) : SavePath(g) = SavePath(f) => g = f
<1>1. PICK T : T = {p \in Under(d) : There(p)}
  OBVIOUS
<1>2. PICK B : B = Below(d)
  OBVIOUS
<1>3. IsFiniteSet(B)
  <2>1. B \in SUBSET Fid
    BY <1>2 DEF Below, Present
  <2>2. IsFiniteSet(Fid)
    BY MirrorDownAssumption
  <2>3. QED BY <2>1, <2>2, FS_Subset
<1>4. Cardinality(T) = Cardinality(B)
  BY <1>1, <1>2 DEF Agrees, SkipInv
<1>5. PICK r : r = [p \in T |-> CHOOSE f \in B : SavePath(f) = p]
  OBVIOUS
<1>6. ASSUME NEW p \in T PROVE r[p] \in B /\ SavePath(r[p]) = p
  <2>1. p \in Path /\ There(p) /\ IsStrictPrefix(d, p)
    BY <1>1, <1>6 DEF Under
  <2>2. PICK f \in Present : SavePath(f) = p
    BY <2>1 DEF SkipInv
  <2>3. f \in B
    BY <1>2, <2>1, <2>2, SaveIsBeside DEF Below
  <2>4. QED BY <1>5, <1>6, <2>2, <2>3
<1>7. r \in Injection(T, B)
  <2>1. r \in [T -> B]
    BY <1>5, <1>6
  <2>2. \A p, q \in T : r[p] = r[q] => p = q
    BY <1>6
  <2>3. QED BY <2>1, <2>2 DEF Injection, IsInjective
<1>8. r \in Surjection(T, B)
  BY <1>3, <1>4, <1>7, FS_Injection
<1>9. \A f \in B : \E p \in T : r[p] = f
  BY <1>8 DEF Surjection
<1>10. \A f \in B : SavePath(f) \in T /\ r[SavePath(f)] = f
  BY <1>6, <1>9
<1>11. QED BY <1>1, <1>2, <1>10

(* A directory that is skipped holds nothing that is missing or stale.     *)
LEMMA SkipIsBlindToNothing ==
    ASSUME StrmsDiffer, DownInv, SkipInv, Undisturbed, NEW d \in {Root} \cup DirPath, Agrees(d)
    PROVE  {f \in Files(Below(d)) : ~There(SavePath(f)) \/ Stale(f)} = {}
<1>1. SUFFICES ASSUME NEW f \in Below(d), Stale(f) PROVE FALSE
  BY CountsAgree DEF Files
<1>2. f \in Present /\ IsStrictPrefix(d, cloud[f].path)
  BY DEF Below
<1>3. /\ f \in Fid /\ cloud[f].place # "fresh" /\ SavePath(f) \in Path
      /\ Has(SavePath(f)) /\ index[SavePath(f)] # f
  <2>1. f \in Fid /\ SavePath(f) \in Path
    BY <1>2, SaveIsBeside
  <2>2. cloud[f].place # "fresh"
    BY <1>2 DEF Present
  <2>3. QED BY <1>1, <2>1, <2>2 DEF Stale
<1>4. PICK g \in Fid : g = index[SavePath(f)] /\ cloud[g].path = cloud[f].path
  BY <1>3, RecordIs DEF DownInv, Same
<1>5. cloud[g].place \notin {"fresh", "gone"}
  BY <1>3, <1>4 DEF DownInv, RecordsFine, RecordFine, Fresh
<1>6. cloud[g].place # "temp"
  BY DEF DownInv, NodesFine, Undisturbed, Archives
<1>7. g \in Below(d)
  BY <1>2, <1>4, <1>5, <1>6 DEF DownInv, Typed, Nodes, Present, Below
<1>8. SavePath(g) = SavePath(f)
  BY <1>4 DEF SavePath
<1>9. QED BY <1>3, <1>4, <1>7, <1>8, CountsAgree

(* A step that puts nothing into the local tree and takes nothing out of   *)
(* the cloud.                                                              *)
LEMMA NothingNew ==
    ASSUME SkipInv, UNCHANGED <<mode, edits, local>>, Undisturbed => blind' \subseteq blind,
           \A f \in Present : f \in Present' /\ cloud'[f].path = cloud[f].path,
           \/ job'.at # "scan"
           \/ job.at = "scan" /\ job'.count = job.count
    PROVE  SkipInv'
<1>1. /\ Undisturbed' <=> Undisturbed
      /\ \A p : There(p)' <=> There(p)
      /\ \A f \in Present : f \in Present' /\ SavePath(f)' = SavePath(f)
  BY DEF Undisturbed, Archives, There, SavePath
<1>2. edits' \in Nat /\ SkipIsSound'
  BY DEF SkipInv, SkipIsSound, Undisturbed, Archives
<1>3. Undisturbed => \A p \in Path : There(p)' => \E f \in Present' : SavePath(f)' = p
  <2>1. SUFFICES ASSUME Undisturbed, NEW p \in Path, There(p)
                 PROVE  \E f \in Present' : SavePath(f)' = p
    BY <1>1
  <2>2. PICK f \in Present : SavePath(f) = p
    BY <2>1 DEF SkipInv
  <2>3. QED BY <1>1, <2>2
<1>4. \A d : {p \in Under(d) : There(p)'} = {p \in Under(d) : There(p)}
  BY <1>1
<1>5. QED BY <1>1, <1>2, <1>3, <1>4 DEF SkipInv

(* The local tree gets nothing but what stands for a node.                 *)
LEMMA OnlyNodesLand ==
    ASSUME DownInv, SkipInv, UNCHANGED <<mode, edits, blind, cloud>>, job'.at # "scan",
           Undisturbed => \A p \in Path : There(p)' => There(p) \/ \E f \in Present : SavePath(f) = p
    PROVE  SkipInv'
<1>1. /\ Undisturbed' <=> Undisturbed /\ Present' = Present
      /\ \A f : SavePath(f)' = SavePath(f)
  BY DEF Undisturbed, Archives, SavePath, Present
<1>2. edits' \in Nat /\ SkipIsSound'
  BY DEF SkipInv, SkipIsSound, Undisturbed, Archives
<1>3. Undisturbed => \A p \in Path : There(p)' => \E f \in Present : SavePath(f) = p
  BY DEF SkipInv
<1>4. QED BY <1>1, <1>2, <1>3 DEF SkipInv

LEMMA PlainStepsSkipSoundly ==
    ASSUME DownInv, SkipInv,
           \/ InitTask \/ BuildRecord \/ BuildDone \/ Plan \/ ClearTree \/ PutRecord \/ Finish
           \/ GiveUp
    PROVE  SkipInv'
<1>1. UNCHANGED <<mode, edits, local, cloud, blind>>
  BY DEF InitTask, BuildRecord, BuildDone, Plan, ClearTree, PutRecord, Finish, GiveUp
<1>2. job'.at # "scan"
  <2>1. CASE InitTask
    BY <2>1 DEF InitTask, Idle
  <2>2. CASE BuildRecord
    BY <2>2 DEF BuildRecord, DownInv, Typed, Jobs
  <2>3. CASE BuildDone \/ Finish \/ GiveUp
    <3>1. job' = Idle
      BY <2>3 DEF BuildDone, Finish, GiveUp
    <3>2. QED BY <3>1 DEF Idle
  <2>4. CASE Plan
    BY <2>4, PlanIs
  <2>5. CASE ClearTree
    BY <2>5 DEF ClearTree, DownInv, Typed, Jobs
  <2>6. CASE PutRecord
    BY <2>6 DEF PutRecord, DownInv, Typed, Jobs
  <2>7. QED BY <2>1, <2>2, <2>3, <2>4, <2>5, <2>6
<1>3. \A f \in Present : f \in Present' /\ cloud'[f].path = cloud[f].path
  BY <1>1 DEF Present
<1>4. QED BY <1>1, <1>2, <1>3, NothingNew

LEMMA BeginDownloadSkipsSoundly ==
    ASSUME DownInv, SkipInv, BeginDownload
    PROVE  SkipInv'
<1>1. /\ UNCHANGED <<mode, edits, local, cloud>> /\ blind' = {}
      /\ job' = [Idle EXCEPT !.at = "scan", !.count = LocalTreeCount, !.dirs = {Root}, !.calm = TRUE]
  BY DEF BeginDownload
<1>2. job'.count = LocalTreeCount
  BY <1>1 DEF Idle
<1>3. /\ Undisturbed' <=> Undisturbed /\ Present' = Present
      /\ \A f : SavePath(f)' = SavePath(f)
      /\ \A p : There(p)' <=> There(p)
  BY <1>1 DEF Undisturbed, Archives, SavePath, Present, There
<1>4. \A d : {p \in Under(d) : There(p)'} = {p \in Under(d) : There(p)}
  BY <1>3
<1>5. \A d \in {Root} \cup DirPath : job'.count[d] = Cardinality({p \in Under(d) : There(p)'})
  BY <1>2, <1>4 DEF LocalTreeCount
<1>6. edits' \in Nat /\ SkipIsSound'
  BY <1>1 DEF SkipInv, SkipIsSound
<1>7. QED BY <1>3, <1>5, <1>6 DEF SkipInv

LEMMA WalkSkipsSoundly ==
    ASSUME StrmsDiffer, DownInv, SkipInv, NEW d \in {Root} \cup DirPath, Walk(d)
    PROVE  SkipInv'
<1>1. UNCHANGED <<mode, edits, local, cloud>> /\ job'.at = job.at
  BY WalkIs DEF Walk
<1>2. job'.count = job.count
  BY DEF Walk, Skip, List, DownInv, Typed, Jobs
<1>3. Undisturbed => blind' \subseteq blind
  BY WalkIs, SkipIsBlindToNothing
<1>4. \A f \in Present : f \in Present' /\ cloud'[f].path = cloud[f].path
  BY <1>1 DEF Present
<1>5. QED BY <1>1, <1>2, <1>3, <1>4, NothingNew

(* The file that stays stands for what the dropped one stood for.          *)
LEMMA DropStaleSkipsSoundly ==
    ASSUME StrmsDiffer, DownInv, DownInv', SkipInv, DropStale
    PROVE  SkipInv'
<1>1. /\ job.at = "apply" /\ job \in Jobs /\ UNCHANGED <<mode, local, blind, edits>>
  BY DEF DropStale, DownInv, Typed
<1>2. PICK f \in job.drops :
        \/ Failed(f) /\ UNCHANGED cloud
        \/ /\ cloud' = [cloud EXCEPT ![f].place = "gone"]
           /\ job' = [job EXCEPT !.at = "clear", !.fid = f]
  BY DEF DropStale, First
<1>3. f \in Fid
  BY <1>1 DEF Jobs
<1>4. CASE Failed(f) /\ UNCHANGED cloud
  <2>1. job'.at # "scan"
    BY <1>3, <1>4, FailedIs DEF DownInv
  <2>2. \A g \in Present : g \in Present' /\ cloud'[g].path = cloud[g].path
    BY <1>4 DEF Present
  <2>3. QED BY <1>1, <2>1, <2>2, NothingNew
<1>5. CASE /\ cloud' = [cloud EXCEPT ![f].place = "gone"]
           /\ job' = [job EXCEPT !.at = "clear", !.fid = f]
  <2>1. PICK w \in {"root", "temp", "gone"} : w = "gone"
    OBVIOUS
  <2>2. \A g \in Fid : /\ cloud'[g].path = cloud[g].path
                       /\ cloud'[g].place = IF g = f THEN "gone" ELSE cloud[g].place
    BY <1>3, <1>5, <2>1, PlaceIsSet DEF DownInv
  <2>3. /\ Present' = Present \ {f} /\ (Undisturbed' <=> Undisturbed)
        /\ \A g \in Fid : SavePath(g)' = SavePath(g)
        /\ \A p : There(p)' <=> There(p)
    BY <1>1, <2>2 DEF Present, Undisturbed, Archives, SavePath, There
  <2>4. job'.at # "scan"
    BY <1>1, <1>5 DEF Jobs
  <2>5. PICK h \in Present' : cloud'[h].path = cloud'[f].path
    BY <1>3, <2>2 DEF DownInv, DropKeepsOriginal
  <2>6. h \in Present \ {f} /\ h \in Fid /\ SavePath(h) = SavePath(f)
    BY <1>3, <2>2, <2>3, <2>5 DEF Present, SavePath
  <2>7. ASSUME Undisturbed, NEW p \in Path, There(p) PROVE \E g \in Present' : SavePath(g)' = p
    <3>1. PICK g \in Present : SavePath(g) = p
      BY <2>7 DEF SkipInv
    <3>2. g \in Fid
      BY DEF Present
    <3>3. CASE g = f
      BY <2>3, <2>6, <3>1, <3>3
    <3>4. CASE g # f
      BY <2>3, <3>1, <3>2, <3>4
    <3>5. QED BY <3>3, <3>4
  <2>8. edits' \in Nat /\ SkipIsSound'
    BY <1>1 DEF SkipInv, SkipIsSound, Archives
  <2>9. QED BY <2>3, <2>4, <2>7, <2>8 DEF SkipInv
<1>6. QED BY <1>2, <1>4, <1>5

LEMMA LandingSkipsSoundly ==
    ASSUME DownInv, QuietInv, SkipInv, Download \/ Copy
    PROVE  SkipInv'
<1>1. UNCHANGED <<mode, edits, blind, cloud>> /\ job \in Jobs
  BY DEF Download, Copy, DownInv, Typed
<1>2. CASE Download
  <2>1. PICK f \in job.gets :
          \/ Failed(f) /\ local' = WithDirs(SavePath(f))
          \/ /\ local' = [WithDirs(SavePath(f)) EXCEPT ![SavePath(f)] =
                              IF SavePath(f) # cloud[f].path THEN Strm(f) ELSE Part(f)]
             /\ job' = [job EXCEPT !.at = IF SavePath(f) # cloud[f].path THEN "put" ELSE "copy",
                                   !.fid = f]
    BY <1>2 DEF Download, First
  <2>2. f \in Present /\ f \in Fid
    BY GetIs DEF Present
  <2>3. PICK p \in Path : p = SavePath(f)
    BY GetIs
  <2>4. job'.at # "scan"
    BY <1>1, <2>1, <2>2, FailedIs DEF DownInv, Jobs
  <2>5. ASSUME NEW q \in Path, q # p, There(q)' PROVE There(q) \/ \E g \in Present : SavePath(g) = q
    <3>1. local'[q] = WithDirs(p)[q]
      BY <2>1, <2>3, <2>5 DEF WithDirs
    <3>2. There(q) \/ (q \in DirPath /\ p \in Under(q))
      BY <2>5, <3>1 DEF WithDirs, There
    <3>3. CASE q \in DirPath /\ p \in Under(q)
      <4>1. IsStrictPrefix(q, SavePath(f))
        BY <2>3, <3>3 DEF Under
      <4>2. QED BY <2>2, <3>3, <4>1, AboveIsThere DEF QuietInv
    <3>4. QED BY <3>2, <3>3
  <2>6. QED BY <1>1, <2>2, <2>3, <2>4, <2>5, OnlyNodesLand
<1>3. CASE Copy
  <2>1. job.at = "copy" /\ job.fid \in Fid
    BY <1>1, <1>3 DEF Copy, DownInv, JobFine, Jobs
  <2>2. job'.at # "scan"
    BY <1>1, <1>3, <2>1, FailedIs DEF Copy, DownInv, Jobs
  <2>3. \A p \in Path : There(p)' => There(p)
    BY <1>3 DEF Copy, There, Nothing, DownInv, Typed
  <2>4. QED BY <1>1, <2>2, <2>3, OnlyNodesLand
<1>4. QED BY <1>2, <1>3

LEMMA OthersSkipSoundly ==
    ASSUME DownInv, SkipInv, ArchiveAll \/ \E p \in Path : AddInCloud(p) \/ Delete(p) \/ Write(p)
    PROVE  SkipInv'
<1>1. CASE ArchiveAll
  <2>1. UNCHANGED <<mode, edits>> /\ mode = "archive"
    BY <1>1 DEF ArchiveAll, DownInv, JobFine
  <2>2. QED BY <2>1 DEF SkipInv, SkipIsSound, Undisturbed, Archives
<1>2. CASE \E p \in Path : AddInCloud(p)
  <2>1. PICK p \in Path : AddInCloud(p)
    BY <1>2
  <2>2. UNCHANGED <<mode, edits, local, blind>> /\ job' = [job EXCEPT !.calm = FALSE]
    BY <2>1 DEF AddInCloud
  <2>3. job'.at = job.at /\ job'.count = job.count
    BY <2>2 DEF DownInv, Typed, Jobs
  <2>4. PICK f \in Fresh :
          /\ cloud'[f].path = p /\ cloud'[f].place = "root"
          /\ \A g \in Fid : g # f => cloud'[g] = cloud[g]
    BY <2>1, AddIs
  <2>5. \A g \in Present : g \in Present' /\ cloud'[g].path = cloud[g].path
    BY <2>4 DEF Present, Fresh
  <2>6. QED BY <2>2, <2>3, <2>5, NothingNew
<1>3. CASE \E p \in Path : Delete(p) \/ Write(p)
  <2>1. edits' = edits + 1
    BY <1>3 DEF Delete, Write, Edited
  <2>2. edits' \in Nat /\ edits' # 0
    BY <2>1 DEF SkipInv
  <2>3. QED BY <2>2 DEF SkipInv, SkipIsSound, Undisturbed
<1>4. QED BY <1>1, <1>2, <1>3

LEMMA NextSkipsSoundly ==
    ASSUME StrmsDiffer
    PROVE  DownInv /\ DownInv' /\ QuietInv /\ SkipInv /\ [Next]_vars => SkipInv'
<1>1. SUFFICES ASSUME DownInv, DownInv', QuietInv, SkipInv, [Next]_vars PROVE SkipInv'
  OBVIOUS
<1>2. CASE \/ InitTask \/ BuildRecord \/ BuildDone \/ Plan \/ ClearTree \/ PutRecord \/ Finish
           \/ GiveUp
  BY <1>1, <1>2, PlainStepsSkipSoundly
<1>3. CASE BeginDownload
  BY <1>1, <1>3, BeginDownloadSkipsSoundly
<1>4. CASE \E d \in {Root} \cup DirPath : Walk(d)
  BY <1>1, <1>4, WalkSkipsSoundly
<1>5. CASE DropStale
  BY <1>1, <1>5, DropStaleSkipsSoundly
<1>6. CASE Download \/ Copy
  BY <1>1, <1>6, LandingSkipsSoundly
<1>7. CASE ArchiveAll \/ \E p \in Path : AddInCloud(p) \/ Delete(p) \/ Write(p)
  BY <1>1, <1>7, OthersSkipSoundly
<1>8. CASE UNCHANGED vars
  <2>1. UNCHANGED <<mode, edits, local, cloud, blind, job>>
    BY <1>8 DEF vars
  <2>2. \A f \in Present : f \in Present' /\ cloud'[f].path = cloud[f].path
    BY <2>1 DEF Present
  <2>3. QED BY <1>1, <2>1, <2>2, NothingNew
<1>9. QED BY <1>1, <1>2, <1>3, <1>4, <1>5, <1>6, <1>7, <1>8 DEF Next, JobSteps

(* The shortcut of the walk is sound: as long as nobody but the program    *)
(* has touched the local tree and nothing is archived, a directory whose   *)
(* numbers of entries agree has nothing missing and nothing stale in it    *)
(* (scan.go: ScanCloud), provided that no two videos of a directory share  *)
(* a stem.                                                                 *)
THEOREM SkipIsSoundHolds ==
    ASSUME StrmsDiffer
    PROVE  Spec => []SkipIsSound
<1>1. Init => DownInv /\ QuietInv /\ SkipInv
  <2>1. Init => SkipInv
    BY DEF Init, SkipInv, SkipIsSound, There, Nothing, Idle
  <2>2. QED BY <2>1, InitIsInv, InitIsQuiet
<1>2. DownInv /\ QuietInv /\ SkipInv /\ [Next]_vars => (DownInv /\ QuietInv /\ SkipInv)'
  BY NextKeepsInv, NextStaysQuiet, NextSkipsSoundly
<1>3. SkipInv => SkipIsSound
  BY DEF SkipInv
<1>4. QED BY <1>1, <1>2, <1>3, PTL DEF Spec

=============================================================================
