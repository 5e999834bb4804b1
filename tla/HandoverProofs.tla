--------------------------- MODULE HandoverProofs ---------------------------
(***************************************************************************)
(* What the program takes away the service has, and the cache serves what  *)
(* the service has, for any files, cache directories, pickcodes, changes   *)
(* by the user and deaths of the program.                                  *)
(***************************************************************************)
EXTENDS Handover, SequenceTheorems, TLAPS

Stored == BoundedSeq(Block, MaxBlocks)

(***************************************************************************)
(* The inductive invariant. The file is the one that was read as long as   *)
(* no change has come too late; the node of the pickcode is what was read  *)
(* if no rewriting came in between; so what is moved or removed is the     *)
(* node, and a finished copy is, too.                                      *)
(***************************************************************************)
Transfers ==
    [at : {"idle", "reading", "storing", "done", "failed"}, read : Stored,
     pickCode : PickCode \cup {none}]

Moves ==
    [at : {"idle", "rename", "copy", "removeSource", "moved", "failed"},
     dir : Dir \cup {Absent}, pickCode : PickCode \cup {Absent}, copied : Stored]

Sweeps ==
    [at : {"idle", "look", "remove"}, dir : Dir \cup {Absent}, todo : SUBSET CacheCode,
     pickCode : CacheCode \cup {Absent}]

Caches == [Dir -> [CacheCode -> Entry]]

Typed ==
    /\ OriginalTypeOK
    /\ transfer \in Transfers
    /\ node \in [PickCode -> Stored \cup {none}]
    /\ cacheDir \in Dir
    /\ cache \in Caches
    /\ move \in Moves
    /\ sweep \in Sweeps
    /\ gone \subseteq [data : Content, pickCode : PickCode]

JobCourse ==
    /\ job \in {"idle", "upload", "cache", "remove"}
    /\ job = "idle" => transfer.at = "idle"
    /\ job \in {"cache", "remove"} => transfer.at = "done"
    /\ job # "cache" => move.at = "idle"
    /\ transfer.at = "done" => transfer.pickCode \in PickCode

MoveCourse ==
    /\ move.at \in {"rename", "copy", "removeSource"}
          => move.dir \in Dir /\ move.pickCode = transfer.pickCode
    /\ move.at = "rename" => move.copied = << >>
    /\ held # Closed <=> move.at = "copy"
    /\ held = AtPath => file # Absent

SweepCourse ==
    /\ sweep.at # "idle" => sweep.dir \in Dir
    /\ sweep.at = "remove" => sweep.pickCode \in CacheCode

ReadIsFile ==
    /\ transfer.at = "reading" /\ ~rewritten => file # Absent
    /\ transfer.at \in {"storing", "done"} /\ move.at # "moved" /\ ~Changed
          => file = transfer.read

NodeIsRead ==
    transfer.at = "done" /\ ~rewritten => node[transfer.pickCode] = transfer.read

CopyIsFile ==
    move.at = "copy" =>
        /\ Target.data \in {Absent, move.copied}
        /\ ~Changed => /\ held = AtPath
                       /\ Len(move.copied) <= Len(file)
                       /\ \A i \in 1 .. Len(move.copied) : move.copied[i] = file[i]

Fine(d, p) ==
    \/ cache[d][p].data \in {Absent, node[p]}
    \/ move.at = "copy" /\ Place = <<d, p>>
    \/ <<d, p>> \in torn \cup odd

EntriesFine == \A d \in Dir, p \in CacheCode : Fine(d, p)

HandInv ==
    /\ Typed /\ JobCourse /\ MoveCourse /\ SweepCourse
    /\ ReadIsFile /\ NodeIsRead /\ CopyIsFile
    /\ GoneIsInTheCloud /\ EntriesFine

-----------------------------------------------------------------------------
LEMMA StoredIs ==
    \A s : s \in Stored <=> s \in Seq(Block) /\ Len(s) \in 0..MaxBlocks
<1>1. MaxBlocks \in Nat
  BY OriginalAssumption
<1>2. ASSUME NEW s \in Stored
      PROVE  s \in Seq(Block) /\ Len(s) \in 0..MaxBlocks
  <2>1. PICK m \in 0 .. MaxBlocks : s \in [1 .. m -> Block]
    BY DEF Stored, BoundedSeq, SeqOf
  <2>2. s \in Seq(Block)
    BY <1>1, <2>1, SeqDef
  <2>3. Len(s) = m
    BY <1>1, <2>1, <2>2, LenProperties
  <2>4. QED BY <2>2, <2>3
<1>3. ASSUME NEW s \in Seq(Block), Len(s) \in 0..MaxBlocks
      PROVE  s \in Stored
  <2>1. s \in [1 .. Len(s) -> Block]
    BY LenProperties
  <2>2. QED BY <1>3, <2>1 DEF Stored, BoundedSeq, SeqOf
<1>4. QED BY <1>2, <1>3

LEMMA ContentIs ==
    ASSUME NEW c \in Content
    PROVE  /\ c \in Stored /\ c \in Seq(Block) /\ Len(c) \in Nat /\ Len(c) <= MaxBlocks
           /\ c # Absent /\ c # Closed /\ c # AtPath
<1>1. c \in Stored
  BY OriginalAssumption DEF Stored
<1>2. c \in Seq(Block) /\ Len(c) \in 0..MaxBlocks /\ MaxBlocks \in Nat
  BY <1>1, StoredIs, OriginalAssumption
<1>3. c # Absent /\ c # Closed /\ c # AtPath
  BY <1>2, OriginalAssumption
<1>4. QED BY <1>1, <1>2, <1>3

LEMMA StoredIsSomething ==
    \A s \in Stored : s # none /\ s # Absent /\ s # Closed /\ s # AtPath
BY StoredIs, HandoverAssumption, OriginalAssumption

LEMMA EmptyIsStored ==
    << >> \in Stored /\ << >> \in Seq(Block) /\ Len(<< >>) = 0
<1>1. << >> \in Seq(Block) /\ Len(<< >>) = 0
  BY EmptySeq
<1>2. 0 \in 0..MaxBlocks
  BY OriginalAssumption
<1>3. QED BY <1>1, <1>2, StoredIs

LEMMA NothingIs ==
    /\ NoTransfer \in Transfers /\ NoTransfer.at = "idle"
    /\ NoMove \in Moves /\ NoMove.at = "idle"
    /\ NoSweep \in Sweeps /\ NoSweep.at = "idle"
    /\ NoEntry \in Entry /\ NoEntry.data = Absent
BY EmptyIsStored DEF NoTransfer, Transfers, NoMove, Moves, NoSweep, Sweeps, NoEntry, Entry

LEMMA InitIsInv == Init => HandInv
<1>1. SUFFICES ASSUME Init PROVE HandInv
  OBVIOUS
<1>2. /\ transfer = NoTransfer /\ move = NoMove /\ sweep = NoSweep /\ job = "idle"
      /\ held = Closed /\ file \in Content /\ gone = {}
  BY <1>1 DEF Init, OriginalInit, TransferInit, CacheInit
<1>3. OriginalTypeOK
  <2>1. 0 \in 0..MaxEdits
    BY OriginalAssumption
  <2>2. QED BY <1>1, <2>1 DEF Init, OriginalInit, OriginalTypeOK
<1>4. /\ node \in [PickCode -> Stored \cup {none}] /\ cacheDir \in Dir
      /\ cache \in Caches
  BY <1>1, NothingIs, CacheAssumption DEF Init, TransferInit, CacheInit, Caches
<1>5. Typed
  BY <1>2, <1>3, <1>4, NothingIs DEF Typed
<1>6. JobCourse /\ MoveCourse /\ SweepCourse
  BY <1>2, NothingIs, OriginalAssumption DEF JobCourse, MoveCourse, SweepCourse
<1>7. ReadIsFile /\ NodeIsRead /\ CopyIsFile /\ GoneIsInTheCloud
  BY <1>2, NothingIs DEF ReadIsFile, NodeIsRead, CopyIsFile, GoneIsInTheCloud
<1>8. EntriesFine
  BY <1>1, NothingIs DEF Init, CacheInit, EntriesFine, Fine
<1>9. QED BY <1>5, <1>6, <1>7, <1>8 DEF HandInv

-----------------------------------------------------------------------------
(* What stays as it was.                                                   *)
NodeGrows == \A p \in PickCode : node[p] # none => node'[p] = node[p]

LEMMA GoneStays ==
    ASSUME HandInv, NodeGrows, gone' = gone
    PROVE  GoneIsInTheCloud'
<1>1. ASSUME NEW g \in gone PROVE node'[g.pickCode] = g.data
  <2>1. g.data \in Content /\ g.pickCode \in PickCode /\ node[g.pickCode] = g.data
    BY <1>1 DEF HandInv, Typed, GoneIsInTheCloud
  <2>2. g.data # none
    BY <2>1, ContentIs, StoredIsSomething
  <2>3. QED BY <2>1, <2>2 DEF NodeGrows
<1>2. QED BY <1>1 DEF GoneIsInTheCloud

LEMMA FineStays ==
    ASSUME HandInv, NodeGrows, NEW d \in Dir, NEW p \in CacheCode,
           cache'[d][p].data \in {Absent, cache[d][p].data},
           <<d, p>> \in torn \cup odd => <<d, p>> \in torn' \cup odd',
           move.at = "copy" /\ Place = <<d, p>> => move'.at = "copy" /\ Place' = <<d, p>>
    PROVE  Fine(d, p)'
<1>1. Fine(d, p)
  BY DEF HandInv, EntriesFine
<1>2. cache[d][p].data \in Stored \cup {Absent} /\ p \in PickCode
  BY HandoverAssumption DEF HandInv, Typed, Caches, Entry, Stored
<1>3. cache[d][p].data # Absent => cache[d][p].data # none
  BY <1>2, StoredIsSomething
<1>4. cache[d][p].data = node[p] /\ cache[d][p].data # Absent => node'[p] = cache[d][p].data
  BY <1>2, <1>3 DEF NodeGrows
<1>5. QED BY <1>1, <1>4 DEF Fine

LEMMA AllFineStays ==
    ASSUME HandInv, NodeGrows, cache' = cache, torn' = torn, odd' = odd,
           move.at = "copy" => move' = move
    PROVE  EntriesFine'
<1>1. SUFFICES ASSUME NEW d \in Dir, NEW p \in CacheCode PROVE Fine(d, p)'
  BY DEF EntriesFine
<1>2. move.at = "copy" /\ Place = <<d, p>> => move'.at = "copy" /\ Place' = <<d, p>>
  BY DEF Place
<1>3. QED BY <1>2, FineStays

LEMMA SameNodesGrow == node' = node => NodeGrows
BY DEF NodeGrows

-----------------------------------------------------------------------------
(* The upload.                                                             *)
LEMMA BeginKeepsInv ==
    ASSUME HandInv, Begin
    PROVE  HandInv'
<1>1. /\ job = "idle" /\ job' = "upload" /\ transfer.at = "idle" /\ file # Absent
      /\ transfer' = [NoTransfer EXCEPT !.at = "reading"] /\ rewritten' = FALSE
      /\ UNCHANGED <<node, file, held, late, edits, cacheVars>> /\ move.at = "idle"
  BY DEF Begin, Start, HandInv, JobCourse
<1>2. transfer' \in Transfers /\ transfer'.at = "reading"
  BY <1>1, NothingIs DEF Transfers
<1>3. Typed'
  BY <1>1, <1>2 DEF HandInv, Typed, OriginalTypeOK, cacheVars
<1>4. JobCourse' /\ MoveCourse' /\ SweepCourse'
  BY <1>1, <1>2 DEF HandInv, JobCourse, MoveCourse, SweepCourse, cacheVars
<1>5. ReadIsFile' /\ NodeIsRead' /\ CopyIsFile'
  BY <1>1, <1>2 DEF ReadIsFile, NodeIsRead, CopyIsFile, cacheVars
<1>6. NodeGrows /\ gone' = gone /\ cache' = cache /\ torn' = torn /\ odd' = odd /\ move' = move
  BY <1>1, SameNodesGrow DEF cacheVars
<1>7. QED BY <1>3, <1>4, <1>5, <1>6, GoneStays, AllFineStays DEF HandInv

LEMMA ReadKeepsInv ==
    ASSUME HandInv, job = "upload", Read, UNCHANGED <<cacheVars, job>>
    PROVE  HandInv'
<1>1. PICK c \in IF rewritten THEN AnyContent ELSE {file} :
         transfer' = [transfer EXCEPT !.at = "storing", !.read = c]
  BY DEF Read
<1>2. /\ transfer.at = "reading" /\ late' = FALSE /\ move.at = "idle" /\ transfer \in Transfers
      /\ UNCHANGED <<node, file, held, rewritten, edits, cacheVars, job>>
  BY DEF Read, HandInv, Typed, JobCourse
<1>3. c \in Stored
  <2>1. ~rewritten => file \in Content
    BY <1>2 DEF HandInv, Typed, OriginalTypeOK, ReadIsFile
  <2>2. QED BY <1>1, <2>1, ContentIs DEF AnyContent, Stored
<1>4. transfer' \in Transfers /\ transfer'.at = "storing" /\ transfer'.read = c
  BY <1>1, <1>2, <1>3 DEF Transfers
<1>5. Typed'
  BY <1>2, <1>4 DEF HandInv, Typed, OriginalTypeOK, cacheVars
<1>6. JobCourse' /\ MoveCourse' /\ SweepCourse'
  BY <1>2, <1>4 DEF HandInv, JobCourse, MoveCourse, SweepCourse, cacheVars
<1>7. ReadIsFile' /\ NodeIsRead' /\ CopyIsFile'
  BY <1>1, <1>2, <1>4 DEF ReadIsFile, NodeIsRead, CopyIsFile, cacheVars, Changed
<1>8. NodeGrows /\ gone' = gone /\ cache' = cache /\ torn' = torn /\ odd' = odd /\ move' = move
  BY <1>2, SameNodesGrow DEF cacheVars
<1>9. QED BY <1>5, <1>6, <1>7, <1>8, GoneStays, AllFineStays DEF HandInv

LEMMA StoreKeepsInv ==
    ASSUME HandInv, job = "upload", Store, UNCHANGED <<cacheVars, job>>
    PROVE  HandInv'
<1>1. PICK p \in PickCode, c \in IF rewritten THEN AnyContent ELSE {transfer.read} :
        /\ node[p] \in {none, c}
        /\ node' = [node EXCEPT ![p] = c]
        /\ transfer' \in {[transfer EXCEPT !.at = "done", !.pickCode = p],
                          [NoTransfer EXCEPT !.at = "failed"]}
  BY DEF Store
<1>2. /\ transfer.at = "storing" /\ move.at = "idle" /\ transfer \in Transfers
      /\ node \in [PickCode -> Stored \cup {none}]
      /\ UNCHANGED <<originalVars, cacheVars, job>>
  BY DEF Store, HandInv, Typed, JobCourse
<1>3. c \in Stored
  BY <1>1, <1>2 DEF AnyContent, Stored, Transfers
<1>4. /\ node' \in [PickCode -> Stored \cup {none}] /\ node'[p] = c /\ NodeGrows
  BY <1>1, <1>2, <1>3 DEF NodeGrows
<1>5. /\ transfer' \in Transfers /\ transfer'.at \in {"done", "failed"}
      /\ transfer'.at = "done" => transfer'.pickCode = p /\ transfer'.read = transfer.read
  <2>1. CASE transfer' = [transfer EXCEPT !.at = "done", !.pickCode = p]
    BY <1>2, <2>1 DEF Transfers
  <2>2. CASE transfer' = [NoTransfer EXCEPT !.at = "failed"]
    BY <2>2, NothingIs DEF Transfers
  <2>3. QED BY <1>1, <2>1, <2>2
<1>6. Typed'
  BY <1>2, <1>4, <1>5 DEF HandInv, Typed, OriginalTypeOK, cacheVars, originalVars
<1>7. JobCourse' /\ MoveCourse' /\ SweepCourse'
  BY <1>2, <1>5 DEF HandInv, JobCourse, MoveCourse, SweepCourse, cacheVars, originalVars
<1>8. ReadIsFile' /\ CopyIsFile'
  BY <1>2, <1>5 DEF HandInv, ReadIsFile, CopyIsFile, cacheVars, originalVars, Changed
<1>9. NodeIsRead'
  BY <1>1, <1>2, <1>4, <1>5 DEF NodeIsRead, originalVars
<1>10. gone' = gone /\ cache' = cache /\ torn' = torn /\ odd' = odd /\ move' = move
  BY <1>2 DEF cacheVars
<1>11. QED BY <1>4, <1>6, <1>7, <1>8, <1>9, <1>10, GoneStays, AllFineStays DEF HandInv

LEMMA FailKeepsInv ==
    ASSUME HandInv, job = "upload", Fail, UNCHANGED <<cacheVars, job>>
    PROVE  HandInv'
<1>1. /\ transfer' = [NoTransfer EXCEPT !.at = "failed"]
      /\ UNCHANGED <<node, originalVars, cacheVars, job>> /\ move.at = "idle"
  BY DEF Fail, HandInv, JobCourse
<1>2. transfer' \in Transfers /\ transfer'.at = "failed"
  BY <1>1, NothingIs DEF Transfers
<1>3. Typed'
  BY <1>1, <1>2 DEF HandInv, Typed, OriginalTypeOK, cacheVars, originalVars
<1>4. JobCourse' /\ MoveCourse' /\ SweepCourse'
  BY <1>1, <1>2 DEF HandInv, JobCourse, MoveCourse, SweepCourse, cacheVars, originalVars
<1>5. ReadIsFile' /\ NodeIsRead' /\ CopyIsFile'
  BY <1>1, <1>2 DEF ReadIsFile, NodeIsRead, CopyIsFile, cacheVars
<1>6. NodeGrows /\ gone' = gone /\ cache' = cache /\ torn' = torn /\ odd' = odd /\ move' = move
  BY <1>1, SameNodesGrow DEF cacheVars
<1>7. QED BY <1>3, <1>4, <1>5, <1>6, GoneStays, AllFineStays DEF HandInv

LEMMA WriteStrmKeepsInv ==
    ASSUME HandInv, WriteStrm
    PROVE  HandInv'
<1>1. /\ job = "upload" /\ transfer.at = "done" /\ job' \in {"cache", "remove"}
      /\ UNCHANGED <<originalVars, transferVars, cacheVars>> /\ move.at = "idle"
  BY DEF WriteStrm, HandInv, JobCourse
<1>2. Typed' /\ JobCourse' /\ MoveCourse' /\ SweepCourse'
  BY <1>1 DEF HandInv, Typed, OriginalTypeOK, JobCourse, MoveCourse, SweepCourse,
              cacheVars, originalVars, transferVars
<1>3. ReadIsFile' /\ NodeIsRead' /\ CopyIsFile'
  BY <1>1 DEF HandInv, ReadIsFile, NodeIsRead, CopyIsFile, Changed, cacheVars, originalVars,
              transferVars
<1>4. NodeGrows /\ gone' = gone /\ cache' = cache /\ torn' = torn /\ odd' = odd /\ move' = move
  BY <1>1, SameNodesGrow DEF cacheVars, transferVars
<1>5. QED BY <1>2, <1>3, <1>4, GoneStays, AllFineStays DEF HandInv

-----------------------------------------------------------------------------
(* What is taken away unchanged is the node.                               *)
LEMMA TakenIsNode ==
    ASSUME HandInv, transfer.at = "done", move.at # "moved", file # Absent, node' = node,
           gone' = Gone(transfer.pickCode)
    PROVE  GoneIsInTheCloud' /\ gone' \subseteq [data : Content, pickCode : PickCode]
<1>1. CASE Changed
  <2>1. gone' = gone
    BY <1>1 DEF Gone
  <2>2. QED BY <2>1, GoneStays, SameNodesGrow DEF HandInv, Typed
<1>2. CASE ~Changed
  <2> DEFINE g == [data |-> file, pickCode |-> transfer.pickCode]
  <2>1. file = transfer.read /\ node[transfer.pickCode] = transfer.read
        /\ transfer.pickCode \in PickCode /\ file \in Content
    BY <1>2 DEF HandInv, ReadIsFile, NodeIsRead, Changed, JobCourse, Typed, OriginalTypeOK
  <2>2. g \in [data : Content, pickCode : PickCode] /\ node'[g.pickCode] = g.data
    BY <2>1
  <2>3. gone' = gone \cup {g}
    BY <1>2 DEF Gone
  <2> HIDE DEF g
  <2>4. \A h \in gone : node'[h.pickCode] = h.data
    BY DEF HandInv, GoneIsInTheCloud
  <2>5. QED BY <2>2, <2>3, <2>4 DEF GoneIsInTheCloud, HandInv, Typed
<1>3. QED BY <1>1, <1>2

(* The end of a job, one way or the other.                                 *)
LEMMA OverKeepsInv ==
    ASSUME HandInv, Over, held' = Closed, file' \in {file, Absent},
           sweep' \in {sweep, NoSweep}, UNCHANGED <<node, edits, cacheDir, cache>>,
           gone' \subseteq [data : Content, pickCode : PickCode],
           GoneIsInTheCloud', EntriesFine'
    PROVE  HandInv'
<1>1. /\ transfer' \in Transfers /\ transfer'.at = "idle" /\ move' \in Moves
      /\ move'.at = "idle" /\ job' = "idle" /\ rewritten' = FALSE /\ late' = FALSE
      /\ sweep' \in Sweeps /\ (sweep'.at = "idle" \/ sweep' = sweep)
  BY NothingIs DEF Over, HandInv, Typed
<1>2. OriginalTypeOK'
  BY <1>1 DEF HandInv, Typed, OriginalTypeOK
<1>3. Typed'
  BY <1>1, <1>2 DEF HandInv, Typed
<1>4. JobCourse' /\ MoveCourse' /\ SweepCourse'
  BY <1>1, OriginalAssumption DEF HandInv, JobCourse, MoveCourse, SweepCourse
<1>5. ReadIsFile' /\ NodeIsRead' /\ CopyIsFile'
  BY <1>1 DEF ReadIsFile, NodeIsRead, CopyIsFile
<1>6. QED BY <1>3, <1>4, <1>5 DEF HandInv

LEMMA FinishKeepsInv ==
    ASSUME HandInv, UploadFailed \/ WriteStrmFails \/ Moved
    PROVE  HandInv'
<1>1. Finish /\ move.at # "copy"
  BY DEF UploadFailed, WriteStrmFails, Moved, HandInv, JobCourse
<1>2. held' = Closed
  BY <1>1 DEF Finish, HandInv, MoveCourse
<1>3. GoneIsInTheCloud' /\ EntriesFine'
  BY <1>1, SameNodesGrow, GoneStays, AllFineStays DEF Finish
<1>4. QED BY <1>1, <1>2, <1>3, OverKeepsInv DEF Finish, HandInv, Typed

LEMMA RemoveOriginalKeepsInv ==
    ASSUME HandInv, RemoveOriginal
    PROVE  HandInv'
<1>1. /\ Over /\ UNCHANGED <<held, edits, node, cacheDir, cache, sweep, torn, odd>>
      /\ job \in {"cache", "remove"} /\ move.at \notin {"copy", "moved"}
      /\ \/ UNCHANGED <<file, gone>>
         \/ file # Absent /\ gone' = Gone(transfer.pickCode) /\ file' = Absent
  BY DEF RemoveOriginal, HandInv, JobCourse
<1>2. held' = Closed /\ transfer.at = "done"
  BY <1>1 DEF HandInv, MoveCourse, JobCourse
<1>3. NodeGrows /\ EntriesFine'
  BY <1>1, SameNodesGrow, AllFineStays
<1>4. GoneIsInTheCloud' /\ gone' \subseteq [data : Content, pickCode : PickCode]
  BY <1>1, <1>2, <1>3, TakenIsNode, GoneStays DEF HandInv, Typed
<1>5. QED BY <1>1, <1>2, <1>3, <1>4, OverKeepsInv

LEMMA CrashKeepsInv ==
    ASSUME HandInv, Crash
    PROVE  HandInv'
<1>1. NodeGrows /\ GoneIsInTheCloud'
  BY SameNodesGrow, GoneStays DEF Crash
<1>2. EntriesFine'
  <2>1. SUFFICES ASSUME NEW d \in Dir, NEW p \in CacheCode PROVE Fine(d, p)'
    BY DEF EntriesFine
  <2>2. cache' = cache /\ odd' = odd /\ torn \subseteq torn'
    BY DEF Crash
  <2>3. CASE move.at = "copy" /\ Place = <<d, p>>
    <3>1. move.dir = d /\ move.pickCode = p
      BY <2>3 DEF Place
    <3>2. Target.data # Absent => <<d, p>> \in torn'
      BY <2>3 DEF Crash
    <3>3. cache'[d][p].data = Absent \/ <<d, p>> \in torn'
      BY <2>2, <3>1, <3>2 DEF Target
    <3>4. QED BY <3>3 DEF Fine
  <2>4. CASE ~(move.at = "copy" /\ Place = <<d, p>>)
    BY <1>1, <2>2, <2>4, FineStays
  <2>5. QED BY <2>3, <2>4
<1>3. QED BY <1>1, <1>2, OverKeepsInv DEF Crash, HandInv, Typed

-----------------------------------------------------------------------------
(* The user.                                                               *)
LEMMA UserKeepsInv ==
    ASSUME HandInv, UserEdits
    PROVE  HandInv'
<1>1. /\ User /\ UNCHANGED <<transfer, node, job, cacheDir, cache, move, sweep, torn, odd, gone>>
  BY DEF UserEdits, cacheVars, Rest, transferVars
<1>2. OriginalTypeOK
  BY DEF HandInv, Typed
<1>3. /\ edits' \in 0..MaxEdits /\ late' = TRUE /\ rewritten' \in BOOLEAN
      /\ rewritten => rewritten'
  <2>1. MaxEdits \in Nat /\ edits \in 0..MaxEdits /\ rewritten \in BOOLEAN
    BY <1>2, OriginalAssumption DEF OriginalTypeOK
  <2>2. \E grown \in BOOLEAN : Edited(grown)
    BY <1>1 DEF User, Write, Replace, Unlink, IsPrefix
  <2>3. QED BY <2>1, <2>2 DEF Edited
<1>4. /\ file' \in Content \cup {Absent}
      /\ held' \in Content \cup {Closed, AtPath} /\ (held' # Closed <=> held # Closed)
      /\ held' = AtPath => file' # Absent
      /\ ~rewritten' => file' # Absent
  <2>1. held = AtPath => file \in Content
    BY <1>2 DEF HandInv, MoveCourse, OriginalTypeOK
  <2>2. held = AtPath => file # Closed /\ file # AtPath
    BY <2>1, ContentIs
  <2>3. held \in Content \cup {Closed, AtPath} /\ AtPath # Closed
    BY <1>2, OriginalAssumption DEF OriginalTypeOK
  <2>4. CASE \E c \in Content : Write(c)
    BY <2>3, <2>4, ContentIs DEF Write
  <2>5. CASE Unlink \/ \E c \in Content : Replace(c)
    <3>1. held' = Detached /\ file' \in Content \cup {Absent} /\ rewritten'
      BY <2>5 DEF Unlink, Replace, Edited
    <3>2. QED BY <2>1, <2>2, <2>3, <3>1 DEF Detached
  <2>6. QED BY <1>1, <2>4, <2>5 DEF User
<1>5. OriginalTypeOK'
  BY <1>3, <1>4 DEF OriginalTypeOK
<1>6. Typed' /\ JobCourse' /\ MoveCourse' /\ SweepCourse'
  BY <1>1, <1>4, <1>5 DEF HandInv, Typed, JobCourse, MoveCourse, SweepCourse
<1>7. ReadIsFile' /\ NodeIsRead' /\ CopyIsFile'
  BY <1>1, <1>3, <1>4 DEF HandInv, ReadIsFile, NodeIsRead, CopyIsFile, Changed, Target
<1>8. NodeGrows /\ GoneIsInTheCloud' /\ EntriesFine'
  BY <1>1, SameNodesGrow, GoneStays, AllFineStays
<1>9. QED BY <1>6, <1>7, <1>8 DEF HandInv

-----------------------------------------------------------------------------
(* One entry of the cache changes.                                         *)
OnlyEntry(d, p) ==
    /\ cache' \in Caches
    /\ \A d2 \in Dir, p2 \in CacheCode :
          <<d2, p2>> # <<d, p>> => cache'[d2][p2] = cache[d2][p2]

LEMMA EntryIsSet ==
    ASSUME cache \in Caches, NEW d \in Dir, NEW p \in CacheCode, NEW e \in Entry,
           cache' = [cache EXCEPT ![d][p] = e]
    PROVE  OnlyEntry(d, p) /\ cache'[d][p] = e
BY DEF Caches, OnlyEntry

LEMMA DirIsMade ==
    ASSUME cache \in Caches, NEW d \in Dir, NEW p \in CacheCode,
           cache' = [cache EXCEPT ![d][p].there = TRUE]
    PROVE  OnlyEntry(d, p) /\ cache'[d][p].data = cache[d][p].data
<1> DEFINE B == BOOLEAN
           yes == TRUE
           C == Stored \cup {Absent}
<1>1. cache \in [Dir -> [CacheCode -> [there : B, data : C, old : B]]] /\ yes \in B
  BY DEF Caches, Entry, Stored
<1>2. cache' = [cache EXCEPT ![d][p].there = yes]
  OBVIOUS
<1> HIDE DEF B, yes, C
<1>3. cache' \in [Dir -> [CacheCode -> [there : B, data : C, old : B]]]
  <2>1. PICK R : R = [there : B, data : C, old : B]
    OBVIOUS
  <2>2. cache \in [Dir -> [CacheCode -> R]] /\ cache[d][p] \in R
    BY <1>1, <2>1
  <2>3. PICK e \in R : e = [cache[d][p] EXCEPT !.there = yes]
    BY <1>1, <2>1, <2>2
  <2>4. cache' = [cache EXCEPT ![d][p] = e]
    BY <1>2, <2>3
  <2>5. cache' \in [Dir -> [CacheCode -> R]]
    <3>1. cache[d] \in [CacheCode -> R]
      BY <2>2
    <3>2. PICK f \in [CacheCode -> R] : f = [cache[d] EXCEPT ![p] = e]
      BY <3>1
    <3>3. cache' = [cache EXCEPT ![d] = f]
      BY <2>4, <3>2
    <3>4. QED BY <2>2, <3>3
  <2>6. QED BY <2>1, <2>5
<1>4. \A d2 \in Dir, p2 \in CacheCode : <<d2, p2>> # <<d, p>> => cache'[d2][p2] = cache[d2][p2]
  BY <1>1, <1>2
<1>5. cache'[d][p].data = cache[d][p].data
  BY <1>1, <1>2
<1>6. QED BY <1>3, <1>4, <1>5 DEF B, C, Caches, Entry, Stored, OnlyEntry

LEMMA DataIsSet ==
    ASSUME cache \in Caches, NEW d \in Dir, NEW p \in CacheCode, NEW c \in Stored \cup {Absent},
           cache' = [cache EXCEPT ![d][p].data = c]
    PROVE  OnlyEntry(d, p) /\ cache'[d][p].data = c
BY DEF Caches, OnlyEntry, Entry, Stored

(* The other entries stay what they are.                                   *)
LEMMA OthersStay ==
    ASSUME HandInv, node' = node, NEW d \in Dir, NEW p \in CacheCode, OnlyEntry(d, p),
           torn \ {<<d, p>>} \subseteq torn', odd \ {<<d, p>>} \subseteq odd',
           \/ move.at # "copy" \/ Place = <<d, p>>
           \/ move'.at = "copy" /\ Place' = Place,
           Fine(d, p)'
    PROVE  EntriesFine'
<1>1. ASSUME NEW d2 \in Dir, NEW p2 \in CacheCode, <<d2, p2>> # <<d, p>>
      PROVE  Fine(d2, p2)'
  <2>1. cache'[d2][p2].data \in {Absent, cache[d2][p2].data}
    BY <1>1 DEF OnlyEntry
  <2>2. QED BY <1>1, <2>1, FineStays, SameNodesGrow
<1>2. ASSUME NEW d2 \in Dir, NEW p2 \in CacheCode PROVE Fine(d2, p2)'
  <2>1. CASE <<d2, p2>> = <<d, p>>
    <3>1. d2 = d /\ p2 = p
      BY <2>1
    <3>2. QED BY <3>1
  <2>2. QED BY <1>1, <2>1
<1>3. QED BY <1>2 DEF EntriesFine

-----------------------------------------------------------------------------
(* The move into the cache.                                                *)
LEMMA MoveStands ==
    ASSUME HandInv, job = "cache"
    PROVE  /\ transfer.at = "done" /\ transfer.pickCode \in PickCode
           /\ transfer.pickCode \in CacheCode
           /\ move \in Moves /\ cache \in Caches /\ cacheDir \in Dir
           /\ move.at \in {"rename", "copy", "removeSource"}
                 => move.dir \in Dir /\ move.pickCode = transfer.pickCode
BY HandoverAssumption DEF HandInv, JobCourse, MoveCourse, Typed

LEMMA MkdirKeepsInv ==
    ASSUME HandInv, job = "cache", MkdirAll(transfer.pickCode), UNCHANGED <<transferVars, job>>
    PROVE  HandInv'
<1>1. PICK d \in Dir, p \in CacheCode : d = cacheDir /\ p = transfer.pickCode /\ p \in PickCode
  BY MoveStands
<1>2. /\ move.at = "idle" /\ cache' = [cache EXCEPT ![d][p].there = TRUE]
      /\ move' = [NoMove EXCEPT !.at = "rename", !.dir = d, !.pickCode = p]
      /\ UNCHANGED <<cacheDir, sweep, torn, odd, gone, originalVars, transfer, node, job>>
  BY <1>1 DEF MkdirAll, transferVars
<1>3. /\ move' \in Moves /\ move'.at = "rename" /\ move'.dir = d
      /\ move'.pickCode = p /\ move'.copied = << >>
  <2>1. NoMove \in Moves /\ NoMove.copied = << >>
    BY NothingIs DEF NoMove
  <2>2. QED BY <1>1, <1>2, <2>1 DEF Moves
<1>4. OnlyEntry(d, p) /\ cache'[d][p].data = cache[d][p].data
  BY <1>2, MoveStands, DirIsMade
<1>5. Typed'
  BY <1>2, <1>3, <1>4 DEF HandInv, Typed, OriginalTypeOK, originalVars, OnlyEntry
<1>6. JobCourse' /\ SweepCourse'
  BY <1>2, MoveStands DEF HandInv, JobCourse, SweepCourse
<1>7. MoveCourse'
  BY <1>1, <1>2, <1>3 DEF HandInv, MoveCourse, originalVars
<1>8. ReadIsFile' /\ NodeIsRead' /\ CopyIsFile'
  BY <1>2, <1>3 DEF HandInv, ReadIsFile, NodeIsRead, CopyIsFile, Changed, originalVars
<1>9. GoneIsInTheCloud'
  BY <1>2, SameNodesGrow, GoneStays
<1>10. Fine(d, p)'
  <2>1. Fine(d, p)
    BY DEF HandInv, EntriesFine
  <2>2. QED BY <1>2, <1>4, <2>1 DEF Fine
<1>11. EntriesFine'
  BY <1>2, <1>4, <1>10, OthersStay
<1>12. QED BY <1>5, <1>6, <1>7, <1>8, <1>9, <1>11 DEF HandInv

LEMMA MoveFailsKeepsInv ==
    ASSUME HandInv, job = "cache", MkdirFails \/ MoveFails, UNCHANGED <<transferVars, job>>
    PROVE  HandInv'
<1>1. /\ move.at \in {"idle", "rename"} /\ move' = [NoMove EXCEPT !.at = "failed"]
      /\ UNCHANGED <<cacheDir, cache, sweep, torn, odd, gone, originalVars, transfer, node, job>>
  BY DEF MkdirFails, MoveFails, transferVars
<1>2. move' \in Moves /\ move'.at = "failed"
  BY <1>1, NothingIs DEF Moves
<1>3. Typed' /\ JobCourse' /\ MoveCourse' /\ SweepCourse'
  BY <1>1, <1>2 DEF HandInv, Typed, OriginalTypeOK, JobCourse, MoveCourse, SweepCourse, originalVars
<1>4. ReadIsFile' /\ NodeIsRead' /\ CopyIsFile'
  BY <1>1, <1>2 DEF HandInv, ReadIsFile, NodeIsRead, CopyIsFile, Changed, originalVars
<1>5. GoneIsInTheCloud' /\ EntriesFine'
  BY <1>1, SameNodesGrow, GoneStays, AllFineStays
<1>6. QED BY <1>3, <1>4, <1>5 DEF HandInv

LEMMA RenameKeepsInv ==
    ASSUME HandInv, job = "cache", Rename, UNCHANGED <<transferVars, job>>
    PROVE  HandInv'
<1>1. /\ move.at = "rename" /\ file # Absent /\ file' = Absent /\ held' = Detached
      /\ gone' = Gone(move.pickCode) /\ odd' = MarkOdd /\ torn' = torn \ {Place}
      /\ UNCHANGED <<cacheDir, sweep, rewritten, late, edits, transfer, node, job>>
  BY DEF Rename, transferVars
<1>2. PICK d \in Dir, p \in CacheCode :
         d = move.dir /\ p = move.pickCode /\ p = transfer.pickCode /\ p \in PickCode
  BY <1>1, MoveStands
<1>3. file \in Content /\ transfer.at = "done" /\ cache \in Caches /\ Place = <<d, p>>
  BY <1>1, <1>2, MoveStands DEF HandInv, Typed, OriginalTypeOK, Place
<1>4. PICK e \in Entry : cache' = [cache EXCEPT ![d][p] = e] /\ e.data = file
  <2>1. [there |-> TRUE, data |-> file, old |-> FALSE] \in Entry
    BY <1>3, ContentIs DEF Entry, Stored
  <2>2. QED BY <1>2, <2>1 DEF Rename
<1>5. OnlyEntry(d, p) /\ cache'[d][p] = e
  BY <1>3, <1>4, EntryIsSet
<1>6. move' \in Moves /\ move'.at = "moved"
  BY NothingIs DEF Rename, Moves
<1>7. GoneIsInTheCloud' /\ gone' \subseteq [data : Content, pickCode : PickCode]
  BY <1>1, <1>2, <1>3, TakenIsNode
<1>8. held' = Closed
  BY <1>1, OriginalAssumption DEF HandInv, MoveCourse, Detached
<1>9. OriginalTypeOK'
  BY <1>1, <1>8 DEF HandInv, Typed, OriginalTypeOK
<1>10. Typed'
  BY <1>1, <1>5, <1>6, <1>7, <1>9 DEF HandInv, Typed, OnlyEntry
<1>11. JobCourse' /\ MoveCourse' /\ SweepCourse'
  BY <1>1, <1>6, <1>8, OriginalAssumption DEF HandInv, JobCourse, MoveCourse, SweepCourse
<1>12. ReadIsFile' /\ NodeIsRead' /\ CopyIsFile'
  BY <1>1, <1>3, <1>6 DEF HandInv, ReadIsFile, NodeIsRead, CopyIsFile
<1>13. Fine(d, p)'
  <2>1. CASE Changed
    BY <1>1, <1>3, <2>1 DEF MarkOdd, Fine
  <2>2. CASE ~Changed
    <3>1. file = node[p]
      BY <1>1, <1>2, <1>3, <2>2 DEF HandInv, ReadIsFile, NodeIsRead, Changed
    <3>2. QED BY <1>1, <1>4, <1>5, <3>1 DEF Fine
  <2>3. QED BY <2>1, <2>2
<1>14. EntriesFine'
  <2>1. odd \ {<<d, p>>} \subseteq odd' /\ torn \ {<<d, p>>} \subseteq torn'
    BY <1>1, <1>3 DEF MarkOdd
  <2>2. QED BY <1>1, <1>5, <1>13, <2>1, OthersStay
<1>15. QED BY <1>7, <1>10, <1>11, <1>12, <1>14 DEF HandInv

LEMMA CreateCopyKeepsInv ==
    ASSUME HandInv, job = "cache", CreateCopy, UNCHANGED <<transferVars, job>>
    PROVE  HandInv'
<1>1. /\ move.at = "rename" /\ file # Absent /\ held' = AtPath
      /\ move' = [move EXCEPT !.at = "copy"] /\ torn' = torn \ {Place}
      /\ UNCHANGED <<cacheDir, sweep, odd, gone, file, rewritten, late, edits, transfer, node, job>>
  BY DEF CreateCopy, transferVars
<1>2. PICK d \in Dir, p \in CacheCode : d = move.dir /\ p = move.pickCode
  BY <1>1, MoveStands
<1>3. /\ file \in Content /\ cache \in Caches /\ Place = <<d, p>> /\ move \in Moves
      /\ move.copied = << >>
  BY <1>1, <1>2, MoveStands DEF HandInv, Typed, OriginalTypeOK, Place, MoveCourse
<1>4. PICK e \in Entry : cache' = [cache EXCEPT ![d][p] = e] /\ e.data = << >>
  <2>1. PICK was \in BOOLEAN : was = (Target.old /\ Target.data # Absent)
    OBVIOUS
  <2>2. [there |-> TRUE, data |-> << >>, old |-> was] \in Entry
    BY EmptyIsStored DEF Entry, Stored
  <2>3. QED BY <1>2, <2>1, <2>2 DEF CreateCopy
<1>5. OnlyEntry(d, p) /\ cache'[d][p] = e
  BY <1>3, <1>4, EntryIsSet
<1>6. /\ move' \in Moves /\ move'.at = "copy" /\ move'.dir = d /\ move'.pickCode = p
      /\ move'.copied = << >>
  BY <1>1, <1>2, <1>3 DEF Moves
<1>7. Typed'
  BY <1>1, <1>5, <1>6 DEF HandInv, Typed, OriginalTypeOK, OnlyEntry
<1>8. JobCourse' /\ SweepCourse'
  BY <1>1, MoveStands DEF HandInv, JobCourse, SweepCourse
<1>9. MoveCourse'
  BY <1>1, <1>2, <1>6, OriginalAssumption DEF HandInv, MoveCourse
<1>10. ReadIsFile' /\ NodeIsRead'
  BY <1>1, <1>6 DEF HandInv, ReadIsFile, NodeIsRead, Changed
<1>11. CopyIsFile'
  <2>1. Target'.data = << >>
    BY <1>4, <1>5, <1>6 DEF Target
  <2>2. Len(file) \in Nat
    BY <1>3, ContentIs
  <2>3. Len(move'.copied) <= Len(file') /\ \A i \in 1 .. Len(move'.copied) : FALSE
    BY <1>1, <1>6, <2>2, EmptyIsStored
  <2>4. QED BY <1>1, <1>6, <2>1, <2>3 DEF CopyIsFile
<1>12. GoneIsInTheCloud'
  BY <1>1, SameNodesGrow, GoneStays
<1>13. Fine(d, p)'
  BY <1>6 DEF Fine, Place
<1>14. EntriesFine'
  BY <1>1, <1>3, <1>5, <1>13, OthersStay
<1>15. QED BY <1>7, <1>8, <1>9, <1>10, <1>11, <1>12, <1>14 DEF HandInv

(* What the copy reads, and how it grows.                                  *)
LEMMA SeenIsContent ==
    ASSUME HandInv, move.at = "copy"
    PROVE  Seen \in Content
<1>1. held \in Content \cup {AtPath} /\ (held = AtPath => file \in Content)
  BY DEF HandInv, MoveCourse, Typed, OriginalTypeOK
<1>2. QED BY <1>1 DEF Seen

LEMMA CopyGrows ==
    ASSUME NEW s \in Stored, NEW t \in Stored, Len(s) < Len(t)
    PROVE  /\ Append(s, t[Len(s) + 1]) \in Stored
           /\ Len(Append(s, t[Len(s) + 1])) = Len(s) + 1
           /\ \A i \in 1 .. Len(s) : Append(s, t[Len(s) + 1])[i] = s[i]
           /\ Append(s, t[Len(s) + 1])[Len(s) + 1] = t[Len(s) + 1]
<1>1. /\ s \in Seq(Block) /\ t \in Seq(Block) /\ MaxBlocks \in Nat
      /\ Len(s) \in 0..MaxBlocks /\ Len(t) \in 0..MaxBlocks
  BY StoredIs, OriginalAssumption
<1>2. Len(s) + 1 \in 1 .. Len(t)
  BY <1>1
<1>3. t[Len(s) + 1] \in Block
  BY <1>1, <1>2, ElementOfSeq
<1>4. PICK b \in Block : b = t[Len(s) + 1]
  BY <1>3
<1>5. /\ Append(s, b) \in Seq(Block) /\ Len(Append(s, b)) = Len(s) + 1
      /\ \A i \in 1 .. Len(s) : Append(s, b)[i] = s[i]
      /\ Append(s, b)[Len(s) + 1] = b
  BY <1>1, AppendProperties
<1>6. Len(Append(s, b)) \in 0..MaxBlocks
  BY <1>1, <1>2, <1>5
<1>7. QED BY <1>4, <1>5, <1>6, StoredIs

LEMMA CopyBlockKeepsInv ==
    ASSUME HandInv, job = "cache", CopyBlock, UNCHANGED <<transferVars, job>>
    PROVE  HandInv'
<1>1. /\ move.at = "copy" /\ Len(move.copied) < Len(Seen)
      /\ UNCHANGED <<cacheDir, sweep, torn, odd, gone, originalVars, transfer, node, job>>
  BY DEF CopyBlock, transferVars
<1>2. PICK d \in Dir, p \in CacheCode : d = move.dir /\ p = move.pickCode
  BY <1>1, MoveStands
<1>3. /\ move.copied \in Stored /\ Seen \in Stored /\ cache \in Caches /\ move \in Moves
      /\ Target = cache[d][p]
  BY <1>1, <1>2, SeenIsContent, ContentIs, MoveStands DEF Moves, Target
<1>4. PICK c \in Stored :
        /\ c = Append(move.copied, Seen[Len(move.copied) + 1])
        /\ Len(c) = Len(move.copied) + 1
        /\ \A i \in 1 .. Len(move.copied) : c[i] = move.copied[i]
        /\ c[Len(move.copied) + 1] = Seen[Len(move.copied) + 1]
  BY <1>1, <1>3, CopyGrows
<1>5. /\ move' = [move EXCEPT !.copied = c]
      /\ cache' = IF cache[d][p].data = Absent THEN cache
                  ELSE [cache EXCEPT ![d][p].data = c]
  BY <1>2, <1>3, <1>4 DEF CopyBlock
<1>6. /\ move' \in Moves /\ move'.at = "copy" /\ move'.dir = d /\ move'.pickCode = p
      /\ move'.copied = c
  BY <1>1, <1>2, <1>3, <1>4, <1>5 DEF Moves
<1>7. OnlyEntry(d, p) /\ cache'[d][p].data \in {Absent, c}
  <2>1. CASE cache[d][p].data = Absent
    BY <1>3, <1>5, <2>1 DEF OnlyEntry
  <2>2. CASE cache[d][p].data # Absent
    <3>1. cache' = [cache EXCEPT ![d][p].data = c]
      BY <1>5, <2>2
    <3>2. c \in Stored \cup {Absent}
      OBVIOUS
    <3>3. OnlyEntry(d, p) /\ cache'[d][p].data = c
      BY <1>3, <3>1, <3>2, DataIsSet
    <3>4. QED BY <3>3
  <2>3. QED BY <2>1, <2>2
<1>8. Typed'
  BY <1>1, <1>6, <1>7 DEF HandInv, Typed, OriginalTypeOK, originalVars, OnlyEntry
<1>9. JobCourse' /\ SweepCourse'
  BY <1>1, MoveStands DEF HandInv, JobCourse, SweepCourse
<1>10. MoveCourse'
  BY <1>1, <1>2, <1>6 DEF HandInv, MoveCourse, originalVars
<1>11. ReadIsFile' /\ NodeIsRead'
  BY <1>1, <1>6 DEF HandInv, ReadIsFile, NodeIsRead, Changed, originalVars
<1>12. CopyIsFile'
  <2>1. Target' = cache'[d][p]
    BY <1>6 DEF Target
  <2>2. ASSUME ~Changed
        PROVE  /\ held = AtPath /\ Len(c) <= Len(file)
               /\ \A i \in 1 .. Len(c) : c[i] = file[i]
    <3>1. held = AtPath /\ \A i \in 1 .. Len(move.copied) : move.copied[i] = file[i]
      BY <1>1, <2>2 DEF HandInv, CopyIsFile
    <3>2. Seen = file
      BY <3>1 DEF Seen
    <3>3. Len(move.copied) \in Nat /\ Len(file) \in Nat
      BY <1>3, <3>2, StoredIs, OriginalAssumption
    <3>4. QED BY <1>1, <1>4, <3>1, <3>2, <3>3
  <2>3. Changed' = Changed /\ held' = held /\ file' = file
    BY <1>1 DEF Changed, originalVars
  <2>4. QED BY <1>6, <1>7, <2>1, <2>2, <2>3 DEF CopyIsFile
<1>13. GoneIsInTheCloud'
  BY <1>1, SameNodesGrow, GoneStays
<1>14. Fine(d, p)'
  BY <1>6 DEF Fine, Place
<1>15. EntriesFine'
  BY <1>1, <1>2, <1>7, <1>14, OthersStay DEF Place
<1>16. QED BY <1>8, <1>9, <1>10, <1>11, <1>12, <1>13, <1>15 DEF HandInv

LEMMA CopyEndsKeepsInv ==
    ASSUME HandInv, job = "cache", CopyEnds, UNCHANGED <<transferVars, job>>
    PROVE  HandInv'
<1>1. /\ move.at = "copy" /\ ~(Len(move.copied) < Len(Seen)) /\ held' = Closed
      /\ move' = [move EXCEPT !.at = "removeSource"] /\ odd' = MarkOdd
      /\ UNCHANGED <<cacheDir, cache, sweep, torn, gone, file, rewritten, late, edits,
                     transfer, node, job>>
  <2>1. Len(move.copied) >= Len(Seen) => ~(Len(move.copied) < Len(Seen))
    <3>1. (Seen \in Stored /\ move.copied \in Stored) \/ move.at # "copy"
      BY SeenIsContent, ContentIs, MoveStands DEF Moves
    <3>2. CASE move.at = "copy"
      BY <3>1, <3>2, StoredIs, OriginalAssumption
    <3>3. QED BY <3>2 DEF CopyEnds
  <2>2. QED BY <2>1 DEF CopyEnds, transferVars
<1>2. PICK d \in Dir, p \in CacheCode : d = move.dir /\ p = move.pickCode /\ p = transfer.pickCode
  BY <1>1, MoveStands
<1>3. /\ move.copied \in Stored /\ Seen \in Stored /\ cache \in Caches /\ move \in Moves
      /\ Target = cache[d][p] /\ Place = <<d, p>> /\ transfer.at = "done"
  BY <1>1, <1>2, SeenIsContent, ContentIs, MoveStands DEF Moves, Target, Place
<1>4. move' \in Moves /\ move'.at = "removeSource" /\ move'.dir = d /\ move'.pickCode = p
  BY <1>1, <1>2, <1>3 DEF Moves
<1>5. Typed'
  BY <1>1, <1>4 DEF HandInv, Typed, OriginalTypeOK
<1>6. JobCourse' /\ SweepCourse'
  BY <1>1, MoveStands DEF HandInv, JobCourse, SweepCourse
<1>7. MoveCourse'
  BY <1>1, <1>2, <1>4, OriginalAssumption DEF HandInv, MoveCourse
<1>8. ReadIsFile' /\ NodeIsRead' /\ CopyIsFile'
  BY <1>1, <1>4 DEF HandInv, ReadIsFile, NodeIsRead, CopyIsFile, Changed
<1>9. GoneIsInTheCloud'
  BY <1>1, SameNodesGrow, GoneStays
<1>10. Fine(d, p)'
  <2>1. CASE Changed
    BY <1>1, <1>3, <2>1 DEF MarkOdd, Fine
  <2>2. CASE ~Changed
    <3>1. /\ held = AtPath /\ Len(move.copied) <= Len(file)
          /\ \A i \in 1 .. Len(move.copied) : move.copied[i] = file[i]
      BY <1>1, <2>2 DEF HandInv, CopyIsFile
    <3>2. Seen = file /\ file \in Seq(Block) /\ move.copied \in Seq(Block)
      BY <1>3, <3>1, StoredIs DEF Seen
    <3>3. Len(move.copied) = Len(file)
      BY <1>1, <3>1, <3>2, LenProperties
    <3>4. move.copied = file
      BY <3>1, <3>2, <3>3, SeqEqual
    <3>5. file = node[p]
      BY <1>1, <1>2, <1>3, <2>2 DEF HandInv, ReadIsFile, NodeIsRead, Changed
    <3>6. cache[d][p].data \in {Absent, node[p]}
      BY <1>1, <1>3, <3>4, <3>5 DEF HandInv, CopyIsFile
    <3>7. QED BY <1>1, <3>6 DEF Fine
  <2>3. QED BY <2>1, <2>2
<1>11. EntriesFine'
  <2>1. OnlyEntry(d, p)
    BY <1>1, <1>3 DEF OnlyEntry
  <2>2. odd \ {<<d, p>>} \subseteq odd'
    BY <1>1, <1>3 DEF MarkOdd
  <2>3. QED BY <1>1, <1>3, <1>10, <2>1, <2>2, OthersStay
<1>12. QED BY <1>5, <1>6, <1>7, <1>8, <1>9, <1>11 DEF HandInv

LEMMA CopyFailsKeepsInv ==
    ASSUME HandInv, job = "cache", CopyFails, UNCHANGED <<transferVars, job>>
    PROVE  HandInv'
<1>1. /\ move.at = "copy" /\ held' = Closed /\ move' = [NoMove EXCEPT !.at = "failed"]
      /\ UNCHANGED <<cacheDir, sweep, odd, gone, file, rewritten, late, edits,
                     transfer, node, job>>
  BY DEF CopyFails, transferVars
<1>2. PICK d \in Dir, p \in CacheCode : d = move.dir /\ p = move.pickCode
  BY <1>1, MoveStands
<1>3. cache \in Caches /\ Place = <<d, p>> /\ Target = cache[d][p]
  BY <1>2, MoveStands DEF Place, Target
<1>4. move' \in Moves /\ move'.at = "failed"
  BY <1>1, NothingIs DEF Moves
<1>5. OnlyEntry(d, p) /\ torn \subseteq torn' /\ Fine(d, p)'
  <2>1. CASE cache' = [cache EXCEPT ![d][p].data = Absent] /\ torn' = torn
    <3>1. PICK c \in Stored \cup {Absent} : c = Absent
      OBVIOUS
    <3>2. OnlyEntry(d, p) /\ cache'[d][p].data = Absent
      BY <1>3, <2>1, <3>1, DataIsSet
    <3>3. QED BY <2>1, <3>2 DEF Fine
  <2>2. CASE torn' = torn \cup {<<d, p>>} /\ cache' = cache
    BY <1>3, <2>2 DEF OnlyEntry, Fine
  <2>3. QED BY <1>2, <1>3, <2>1, <2>2 DEF CopyFails
<1>6. Typed'
  BY <1>1, <1>4, <1>5 DEF HandInv, Typed, OriginalTypeOK, OnlyEntry
<1>7. JobCourse' /\ MoveCourse' /\ SweepCourse'
  BY <1>1, <1>4, OriginalAssumption DEF HandInv, JobCourse, MoveCourse, SweepCourse
<1>8. ReadIsFile' /\ NodeIsRead' /\ CopyIsFile'
  BY <1>1, <1>4 DEF HandInv, ReadIsFile, NodeIsRead, CopyIsFile, Changed
<1>9. GoneIsInTheCloud'
  BY <1>1, SameNodesGrow, GoneStays
<1>10. EntriesFine'
  BY <1>1, <1>3, <1>5, OthersStay
<1>11. QED BY <1>6, <1>7, <1>8, <1>9, <1>10 DEF HandInv

LEMMA RemoveSourceKeepsInv ==
    ASSUME HandInv, job = "cache", RemoveSource, UNCHANGED <<transferVars, job>>
    PROVE  HandInv'
<1>1. /\ move.at = "removeSource" /\ move' = [NoMove EXCEPT !.at = "moved"]
      /\ \/ UNCHANGED <<file, gone>>
         \/ file # Absent /\ gone' = Gone(transfer.pickCode) /\ file' = Absent
      /\ UNCHANGED <<cacheDir, cache, sweep, torn, odd, held, rewritten, late, edits,
                     transfer, node, job>>
  BY MoveStands DEF RemoveSource, transferVars
<1>2. move' \in Moves /\ move'.at = "moved" /\ held = Closed /\ transfer.at = "done"
  BY <1>1, NothingIs, MoveStands DEF Moves, HandInv, MoveCourse
<1>3. GoneIsInTheCloud' /\ gone' \subseteq [data : Content, pickCode : PickCode]
  BY <1>1, <1>2, TakenIsNode, GoneStays, SameNodesGrow DEF HandInv, Typed
<1>4. Typed'
  BY <1>1, <1>2, <1>3 DEF HandInv, Typed, OriginalTypeOK
<1>5. JobCourse' /\ MoveCourse' /\ SweepCourse'
  BY <1>1, <1>2, OriginalAssumption DEF HandInv, JobCourse, MoveCourse, SweepCourse
<1>6. ReadIsFile' /\ NodeIsRead' /\ CopyIsFile'
  BY <1>1, <1>2 DEF HandInv, ReadIsFile, NodeIsRead, CopyIsFile
<1>7. EntriesFine'
  BY <1>1, SameNodesGrow, AllFineStays
<1>8. QED BY <1>3, <1>4, <1>5, <1>6, <1>7 DEF HandInv

LEMMA CachingKeepsInv ==
    ASSUME HandInv, Caching
    PROVE  HandInv'
<1>1. job = "cache" /\ UNCHANGED <<transferVars, job>>
  BY DEF Caching
<1>2. CASE MkdirAll(transfer.pickCode)
  BY <1>1, <1>2, MkdirKeepsInv
<1>3. CASE MkdirFails \/ MoveFails
  BY <1>1, <1>3, MoveFailsKeepsInv
<1>4. CASE Rename
  BY <1>1, <1>4, RenameKeepsInv
<1>5. CASE CreateCopy
  BY <1>1, <1>5, CreateCopyKeepsInv
<1>6. CASE CopyBlock
  BY <1>1, <1>6, CopyBlockKeepsInv
<1>7. CASE CopyEnds
  BY <1>1, <1>7, CopyEndsKeepsInv
<1>8. CASE CopyFails
  BY <1>1, <1>8, CopyFailsKeepsInv
<1>9. CASE RemoveSource
  BY <1>1, <1>9, RemoveSourceKeepsInv
<1>10. QED BY <1>2, <1>3, <1>4, <1>5, <1>6, <1>7, <1>8, <1>9 DEF Caching, MoveStep

-----------------------------------------------------------------------------
(* The cleaner and the user change the cache's entries, and nothing else.  *)
LEMMA CacheChangeKeepsInv ==
    ASSUME HandInv, cache' \in Caches, cacheDir' \in Dir, sweep' \in Sweeps, SweepCourse',
           UNCHANGED <<originalVars, transfer, node, job, move, gone>>,
           \A d \in Dir, p \in CacheCode :
              /\ cache'[d][p].data \in {Absent, cache[d][p].data}
              /\ <<d, p>> \in torn \cup odd
                    => <<d, p>> \in torn' \cup odd' \/ cache'[d][p].data = Absent
    PROVE  HandInv'
<1>1. Typed'
  BY DEF HandInv, Typed, OriginalTypeOK, originalVars
<1>2. JobCourse' /\ MoveCourse' /\ ReadIsFile' /\ NodeIsRead'
  BY DEF HandInv, JobCourse, MoveCourse, ReadIsFile, NodeIsRead, originalVars, Changed
<1>3. CopyIsFile'
  <2>1. SUFFICES ASSUME move.at = "copy" PROVE CopyIsFile'
    BY DEF CopyIsFile
  <2>2. PICK d \in Dir, p \in CacheCode : d = move.dir /\ p = move.pickCode
    BY <2>1, HandoverAssumption DEF HandInv, MoveCourse, JobCourse
  <2>3. Target = cache[d][p] /\ Target' = cache'[d][p]
    BY <2>2 DEF Target
  <2>4. cache'[d][p].data \in {Absent, cache[d][p].data}
    OBVIOUS
  <2>5. QED BY <2>1, <2>3, <2>4 DEF HandInv, CopyIsFile, originalVars, Changed
<1>4. GoneIsInTheCloud'
  BY SameNodesGrow, GoneStays
<1>5. ASSUME NEW d \in Dir, NEW p \in CacheCode PROVE Fine(d, p)'
  <2>1. CASE cache'[d][p].data = Absent
    BY <2>1 DEF Fine
  <2>2. CASE cache'[d][p].data # Absent
    BY <2>2, FineStays, SameNodesGrow DEF Place
  <2>3. QED BY <2>1, <2>2
<1>6. QED BY <1>1, <1>2, <1>3, <1>4, <1>5 DEF HandInv, EntriesFine

LEMMA RemoveAllIs ==
    ASSUME cache \in Caches, NEW d \in Dir, NEW p \in CacheCode, RemoveAll(d, p)
    PROVE  /\ cache' \in Caches
           /\ \A d2 \in Dir, p2 \in CacheCode :
                 /\ cache'[d2][p2].data \in {Absent, cache[d2][p2].data}
                 /\ <<d2, p2>> \in torn \cup odd
                       => <<d2, p2>> \in torn' \cup odd' \/ cache'[d2][p2].data = Absent
<1>1. OnlyEntry(d, p) /\ cache'[d][p] = NoEntry /\ NoEntry.data = Absent
  BY NothingIs, EntryIsSet DEF RemoveAll
<1>2. torn' = torn \ {<<d, p>>} /\ odd' = odd \ {<<d, p>>}
  BY DEF RemoveAll
<1>3. ASSUME NEW d2 \in Dir, NEW p2 \in CacheCode
      PROVE  /\ cache'[d2][p2].data \in {Absent, cache[d2][p2].data}
             /\ <<d2, p2>> \in torn \cup odd
                   => <<d2, p2>> \in torn' \cup odd' \/ cache'[d2][p2].data = Absent
  <2>1. CASE <<d2, p2>> = <<d, p>>
    <3>1. d2 = d /\ p2 = p
      BY <2>1
    <3>2. QED BY <1>1, <3>1
  <2>2. CASE <<d2, p2>> # <<d, p>>
    BY <1>1, <1>2, <2>2 DEF OnlyEntry
  <2>3. QED BY <2>1, <2>2
<1>4. QED BY <1>1, <1>3 DEF OnlyEntry

LEMMA CleanerKeepsInv ==
    ASSUME HandInv, Cleaner
    PROVE  HandInv'
<1>1. /\ UNCHANGED <<cacheDir, originalVars, transfer, node, job, move, gone>>
      /\ sweep \in Sweeps /\ cache \in Caches /\ cacheDir \in Dir
  BY DEF Cleaner, Rest, SweepStep, SweepBegins, SweepLooks, SweepRemoves, SweepEnds,
         transferVars, HandInv, Typed
<1>2. sweep' \in Sweeps /\ SweepCourse'
  <2>1. CASE SweepBegins
    <3>1. Listed(cacheDir) \subseteq CacheCode
      BY DEF Listed
    <3>2. PICK s \in SUBSET CacheCode : s = Listed(cacheDir)
      BY <3>1
    <3>3. sweep' = [NoSweep EXCEPT !.at = "look", !.dir = cacheDir, !.todo = s]
      BY <2>1, <3>2 DEF SweepBegins
    <3>4. QED BY <1>1, <3>3, NothingIs DEF Sweeps, SweepCourse
  <2>2. CASE SweepLooks
    <3>1. sweep.at = "look" /\ sweep.dir \in Dir
      BY <2>2 DEF SweepLooks, HandInv, SweepCourse
    <3>2. PICK p \in CacheCode, at \in {"look", "remove"}, s \in SUBSET CacheCode :
             sweep' = [sweep EXCEPT !.todo = s, !.pickCode = p, !.at = at]
      <4>1. PICK p \in sweep.todo :
               sweep' = [sweep EXCEPT !.todo = @ \ {p}, !.pickCode = p,
                             !.at = IF cache[sweep.dir][p].old THEN "remove" ELSE "look"]
        BY <2>2 DEF SweepLooks
      <4>2. PICK at \in {"look", "remove"} :
               at = IF cache[sweep.dir][p].old THEN "remove" ELSE "look"
        OBVIOUS
      <4>3. p \in CacheCode /\ sweep.todo \ {p} \in SUBSET CacheCode
        BY <1>1 DEF Sweeps
      <4>4. PICK s \in SUBSET CacheCode : s = sweep.todo \ {p}
        BY <4>3
      <4>5. sweep' = [sweep EXCEPT !.todo = s, !.pickCode = p, !.at = at]
        BY <1>1, <4>1, <4>2, <4>4 DEF Sweeps
      <4>6. QED BY <4>3, <4>5
    <3>3. QED BY <1>1, <3>1, <3>2 DEF Sweeps, SweepCourse
  <2>3. CASE SweepRemoves
    BY <1>1, <2>3 DEF SweepRemoves, Sweeps, HandInv, SweepCourse
  <2>4. CASE SweepEnds
    BY <2>4, NothingIs DEF SweepEnds, SweepCourse
  <2>5. QED BY <2>1, <2>2, <2>3, <2>4 DEF Cleaner, SweepStep
<1>3. CASE SweepRemoves
  <2>1. PICK d \in Dir, p \in CacheCode : d = sweep.dir /\ p = sweep.pickCode
    BY <1>3 DEF SweepRemoves, HandInv, SweepCourse
  <2>2. RemoveAll(d, p)
    BY <1>3, <2>1 DEF SweepRemoves
  <2>3. QED BY <1>1, <1>2, <2>2, RemoveAllIs, CacheChangeKeepsInv
<1>4. CASE SweepBegins \/ SweepLooks \/ SweepEnds
  <2>1. cache' = cache /\ torn' = torn /\ odd' = odd
    BY <1>4 DEF SweepBegins, SweepLooks, SweepEnds
  <2>2. QED BY <1>1, <1>2, <2>1, CacheChangeKeepsInv
<1>5. QED BY <1>3, <1>4 DEF Cleaner, SweepStep

LEMMA AgeIsSet ==
    ASSUME cache \in Caches, NEW d \in Dir, NEW p \in CacheCode, NEW age \in BOOLEAN
    PROVE  LET e == [cache[d][p] EXCEPT !.old = age]
           IN  e \in Entry /\ e.data = cache[d][p].data
<1> DEFINE B == BOOLEAN
           C == Stored \cup {Absent}
           e == [cache[d][p] EXCEPT !.old = age]
<1>1. cache[d][p] \in [there : B, data : C, old : B] /\ age \in B
  BY DEF Caches, Entry, Stored
<1> HIDE DEF B, C
<1>2. e \in [there : B, data : C, old : B] /\ e.data = cache[d][p].data
  BY <1>1
<1>3. QED BY <1>2 DEF B, C, Entry, Stored

LEMMA CacheChangesKeepInv ==
    ASSUME HandInv, CacheChanges
    PROVE  HandInv'
<1>1. /\ UNCHANGED <<originalVars, transfer, node, job, move, gone, sweep>>
      /\ cache \in Caches /\ cacheDir \in Dir /\ sweep' \in Sweeps /\ SweepCourse'
  BY DEF CacheChanges, Rest, Expire, Prolong, Delete, SetDir, transferVars, HandInv, Typed,
         SweepCourse
<1>2. CASE Expire
  <2>1. /\ UNCHANGED <<cacheDir, torn, odd>>
        /\ \E d \in Dir : \E p \in Listed(d) : cache' = [cache EXCEPT ![d][p].old = TRUE]
    BY <1>2 DEF Expire
  <2>2. PICK d \in Dir, p \in CacheCode : cache' = [cache EXCEPT ![d][p].old = TRUE]
    BY <2>1 DEF Listed
  <2>3. PICK e \in Entry : e = [cache[d][p] EXCEPT !.old = TRUE] /\ e.data = cache[d][p].data
    BY <1>1, AgeIsSet
  <2>4. cache' = [cache EXCEPT ![d][p] = e]
    BY <1>1, <2>2, <2>3 DEF Caches
  <2>5. OnlyEntry(d, p) /\ cache'[d][p] = e
    BY <1>1, <2>4, EntryIsSet
  <2>6. ASSUME NEW d2 \in Dir, NEW p2 \in CacheCode
        PROVE  cache'[d2][p2].data = cache[d2][p2].data
    <3>1. CASE <<d2, p2>> = <<d, p>>
      <4>1. d2 = d /\ p2 = p
        BY <3>1
      <4>2. QED BY <2>3, <2>5, <4>1
    <3>2. CASE <<d2, p2>> # <<d, p>>
      BY <2>5, <3>2 DEF OnlyEntry
    <3>3. QED BY <3>1, <3>2
  <2>7. QED BY <1>1, <2>1, <2>5, <2>6, CacheChangeKeepsInv DEF OnlyEntry
<1>3. CASE Prolong
  <2>1. /\ UNCHANGED <<cacheDir, torn, odd>>
        /\ cache' = [d \in Dir |-> [p \in CacheCode |-> [cache[d][p] EXCEPT !.old = FALSE]]]
    BY <1>3 DEF Prolong
  <2>2. ASSUME NEW d \in Dir, NEW p \in CacheCode
        PROVE  [cache[d][p] EXCEPT !.old = FALSE] \in Entry
               /\ [cache[d][p] EXCEPT !.old = FALSE].data = cache[d][p].data
    BY <1>1, AgeIsSet
  <2>3. cache' \in Caches
    BY <2>1, <2>2 DEF Caches
  <2>4. \A d \in Dir, p \in CacheCode : cache'[d][p].data = cache[d][p].data
    BY <2>1, <2>2
  <2>5. QED BY <1>1, <2>1, <2>3, <2>4, CacheChangeKeepsInv
<1>4. CASE Delete
  <2>1. /\ UNCHANGED cacheDir
        /\ \E p \in Listed(cacheDir) : RemoveAll(cacheDir, p)
    BY <1>4 DEF Delete
  <2>2. PICK p \in CacheCode : RemoveAll(cacheDir, p)
    BY <2>1 DEF Listed
  <2>3. PICK d \in Dir : d = cacheDir
    BY <1>1
  <2>4. RemoveAll(d, p)
    BY <2>2, <2>3
  <2>5. QED BY <1>1, <2>1, <2>4, RemoveAllIs, CacheChangeKeepsInv
<1>5. CASE SetDir
  <2>1. cacheDir' \in Dir /\ UNCHANGED <<cache, torn, odd>>
    BY <1>5 DEF SetDir
  <2>2. QED BY <1>1, <2>1, CacheChangeKeepsInv
<1>6. QED BY <1>2, <1>3, <1>4, <1>5 DEF CacheChanges

-----------------------------------------------------------------------------
LEMMA NextKeepsInv == HandInv /\ [Next]_vars => HandInv'
<1>1. SUFFICES ASSUME HandInv, [Next]_vars PROVE HandInv'
  OBVIOUS
<1>2. CASE Begin
  BY <1>1, <1>2, BeginKeepsInv
<1>3. CASE Uploading
  <2>1. job = "upload" /\ UNCHANGED <<cacheVars, job>>
    BY <1>3 DEF Uploading
  <2>2. QED BY <1>1, <1>3, <2>1, ReadKeepsInv, StoreKeepsInv, FailKeepsInv
        DEF Uploading, TransferStep
<1>4. CASE UploadFailed \/ WriteStrmFails \/ Moved
  BY <1>1, <1>4, FinishKeepsInv
<1>5. CASE WriteStrm
  BY <1>1, <1>5, WriteStrmKeepsInv
<1>6. CASE Caching
  BY <1>1, <1>6, CachingKeepsInv
<1>7. CASE RemoveOriginal
  BY <1>1, <1>7, RemoveOriginalKeepsInv
<1>8. CASE UserEdits
  BY <1>1, <1>8, UserKeepsInv
<1>9. CASE Cleaner
  BY <1>1, <1>9, CleanerKeepsInv
<1>10. CASE CacheChanges
  BY <1>1, <1>10, CacheChangesKeepInv
<1>11. CASE Crash
  BY <1>1, <1>11, CrashKeepsInv
<1>12. CASE UNCHANGED vars
  <2>1. UNCHANGED <<originalVars, cacheVars, transfer, node, job>>
    BY <1>12 DEF vars, transferVars
  <2>2. Typed' /\ JobCourse' /\ MoveCourse' /\ SweepCourse'
    BY <1>1, <2>1 DEF HandInv, Typed, OriginalTypeOK, JobCourse, MoveCourse, SweepCourse,
                      originalVars, cacheVars
  <2>3. ReadIsFile' /\ NodeIsRead' /\ CopyIsFile'
    BY <1>1, <2>1 DEF HandInv, ReadIsFile, NodeIsRead, CopyIsFile, Changed, Target,
                      originalVars, cacheVars
  <2>4. NodeGrows /\ gone' = gone /\ cache' = cache /\ torn' = torn /\ odd' = odd /\ move' = move
    BY <2>1, SameNodesGrow DEF cacheVars
  <2>5. QED BY <1>1, <2>2, <2>3, <2>4, GoneStays, AllFineStays DEF HandInv
<1>13. QED
  BY <1>1, <1>2, <1>3, <1>4, <1>5, <1>6, <1>7, <1>8, <1>9, <1>10, <1>11, <1>12 DEF Next, JobStep

(* What the program takes away from the task's directory, by moving it     *)
(* into the cache, copying it there, or removing it, the service has under *)
(* the pickcode the .strm is given, unless it was changed after it had     *)
(* been hashed (apply.go: replaceWithStrm and removeOriginal).             *)
THEOREM GoneIsInTheCloudHolds == Spec => []GoneIsInTheCloud
<1>1. HandInv => GoneIsInTheCloud
  BY DEF HandInv
<1>2. QED BY InitIsInv, NextKeepsInv, <1>1, PTL DEF Spec

(* The cache serves what the service would have sent; only a copy that is  *)
(* under way or was cut off, or an original that was changed after it had  *)
(* been hashed, can be something else (cache.go: Move, LocalPath, sweep).  *)
THEOREM ServedIsTheNodeHolds == Spec => []ServedIsTheNode
<1>1. HandInv => ServedIsTheNode
  BY DEF HandInv, Typed, EntriesFine, Fine, ServedIsTheNode, Served, BeingCopied
<1>2. QED BY InitIsInv, NextKeepsInv, <1>1, PTL DEF Spec

=============================================================================
