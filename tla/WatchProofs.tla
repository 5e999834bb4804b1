---------------------------- MODULE WatchProofs ----------------------------
(***************************************************************************)
(* No local change is lost between the watcher and the worker, for any     *)
(* files and directories and any number of changes, reloads and faults.    *)
(***************************************************************************)
EXTENDS Watch, SequenceTheorems, FiniteSetTheorems, TLAPS

(***************************************************************************)
(* The inductive invariant. A change is in one hand after the other; what  *)
(* has to be known is that a hand is empty before it is filled or dropped: *)
(* the batch before the next is taken, the operations before the next plan,*)
(* and everything a trigger loop holds when there is none.                 *)
(***************************************************************************)
Typed == line \in Seq(Job) /\ dirty \subseteq File

HandsEmpty ==
    /\ batch # "give" => taken = {}
    /\ running = {} => seen = {}
    /\ ~planned => seen = {}
    /\ ~On => events = {} /\ pending = {} /\ taken = {}

WatchInv == Typed /\ HandsEmpty /\ NoChangeIsLost

-----------------------------------------------------------------------------
LEMMA CoveredByUnion ==
    \A A, B : CoveredBy(A \cup B) = CoveredBy(A) \cup CoveredBy(B)
BY DEF CoveredBy

(* A job for its directory, or for itself, looks at a file.                *)
LEMMA CoversItsOwn ==
    ASSUME NEW f \in File
    PROVE  f \in Covered(f) /\ f \in Covered(DirOf[f])
BY DEF Covered

LEMMA RequestedWaits ==
    ASSUME line \in Seq(Job), NEW k \in Key, NEW tr \in Trigger, Request(k, tr)
    PROVE  line' \in Seq(Job) /\ Waiting' = Waiting \cup {k}
<1>1. Len(line) \in Nat /\ DOMAIN line = 1 .. Len(line) /\ \A i \in DOMAIN line : line[i] \in Job
  BY LenProperties, ElementOfSeq
<1>2. CASE PositionsOf(k) = {}
  <2> DEFINE j == [key |-> k, trigger |-> tr]
  <2>1. j \in Job /\ j.key = k /\ line' = Append(line, j)
    BY <1>2 DEF Request, Job
  <2> HIDE DEF j
  <2>2. /\ line' \in Seq(Job) /\ Len(line') = Len(line) + 1
        /\ \A i \in 1 .. Len(line) : line'[i] = line[i]
        /\ line'[Len(line) + 1] = j
    BY <2>1, AppendProperties
  <2>3. DOMAIN line' = 1 .. Len(line) + 1
    BY <2>2, LenProperties
  <2>4. QED BY <1>1, <2>1, <2>2, <2>3 DEF Waiting
<1>3. CASE PositionsOf(k) # {}
  <2>1. /\ DOMAIN line' = DOMAIN line
        /\ \A i \in DOMAIN line :
              line'[i] = IF line[i].key = k
                         THEN [line[i] EXCEPT !.trigger = Higher(@, tr)] ELSE line[i]
    BY <1>3 DEF Request
  <2>2. \A i \in DOMAIN line : Higher(line[i].trigger, tr) \in Trigger
    BY <1>1 DEF Higher, Job
  <2>3. \A i \in DOMAIN line : line'[i] \in Job /\ line'[i].key = line[i].key
    BY <1>1, <2>1, <2>2 DEF Job
  <2>4. line' \in Seq(Job)
    <3>1. line' = [i \in 1 .. Len(line) |-> line'[i]]
      BY <1>1, <1>3, <2>1 DEF Request
    <3>2. line' \in [1 .. Len(line) -> Job]
      BY <1>1, <2>3, <3>1
    <3>3. QED BY <1>1, <3>2, SeqDef
  <2>5. k \in Waiting
    BY <1>3 DEF PositionsOf, Waiting
  <2>6. Waiting' = Waiting
    BY <2>1, <2>3 DEF Waiting
  <2>7. QED BY <2>4, <2>5, <2>6
<1>4. QED BY <1>2, <1>3

(* A request keeps what was carried and carries what it covers.            *)
LEMMA RequestCarries ==
    ASSUME line \in Seq(Job), NEW k \in Key, NEW tr \in Trigger, Request(k, tr)
    PROVE  /\ line' \in Seq(Job) /\ running' = running
           /\ \A L : CoveredBy(L \cup Waiting') = CoveredBy(L \cup Waiting) \cup Covered(k)
<1>1. line' \in Seq(Job) /\ Waiting' = Waiting \cup {k} /\ running' = running
  BY RequestedWaits DEF Request
<1>2. QED BY <1>1 DEF CoveredBy

LEMMA InitIsInv == Init => WatchInv
<1>1. << >> \in Seq(Job)
  BY EmptySeq
<1>2. QED BY <1>1 DEF Init, LineInit, WatchInv, Typed, HandsEmpty, NoChangeIsLost

-----------------------------------------------------------------------------
(* Changes, and events that are lost.                                      *)
LEMMA ChangeKeepsInv ==
    ASSUME WatchInv, NEW f \in File, Change(f) \/ LoseEvent(f)
    PROVE  WatchInv'
<1>1. UNCHANGED <<line, running, batch, taken, late, loops, pending, timer, kick, planned>>
  BY DEF Change, LoseEvent, lineVars, workVars
<1>2. Typed' /\ HandsEmpty'
  BY <1>1 DEF WatchInv, Typed, HandsEmpty, On, Change, LoseEvent, workVars
<1>3. ASSUME NEW g \in dirty', g \notin missed'
      PROVE  Carried(g)'
  <2>1. CASE g = f
    <3>1. Change(f) /\ g \in events'
      BY <1>3, <2>1 DEF Change, LoseEvent
    <3>2. QED BY <3>1 DEF Carried
  <2>2. CASE g # f
    <3>1. g \in dirty /\ g \notin missed
      BY <1>3, <2>2 DEF Change, LoseEvent, workVars
    <3>2. Carried(g)
      BY <3>1 DEF WatchInv, NoChangeIsLost
    <3>3. (g \in events => g \in events') /\ (g \in seen => g \in seen')
      BY <2>2 DEF Change, LoseEvent, workVars, WatchInv, HandsEmpty
    <3>4. QED BY <1>1, <3>2, <3>3
              DEF Carried, WillBeTaken, CoveredBy, Covered, Waiting, Working
  <2>3. QED BY <2>1, <2>2
<1>4. QED BY <1>2, <1>3 DEF WatchInv, NoChangeIsLost

-----------------------------------------------------------------------------
(* The trigger loops: from the event to the line.                          *)
LEMMA DispatchKeepsInv ==
    ASSUME WatchInv, NEW f \in File, DispatchInstant(f) \/ Arm(f)
    PROVE  WatchInv'
<1>1. /\ UNCHANGED <<dirty, missed, running, batch, taken, late, loops, kick, planned, seen>>
      /\ On /\ f \in events /\ events' = events \ {f}
  BY DEF DispatchInstant, Arm, workVars, lineVars, Request
<1>2. \/ Arm(f) /\ UNCHANGED line
      \/ f \in Key /\ Request(f, "watch") /\ UNCHANGED <<pending, timer>>
  BY WatchAssumption DEF DispatchInstant, Arm, lineVars
<1>3. Typed'
  BY <1>1, <1>2, RequestCarries DEF WatchInv, Typed, Trigger
<1>4. HandsEmpty'
  BY <1>1 DEF WatchInv, HandsEmpty, On
<1>5. ASSUME NEW g \in dirty', g \notin missed'
      PROVE  Carried(g)'
  <2>1. Carried(g) /\ g \in File
    BY <1>1, <1>5 DEF WatchInv, NoChangeIsLost, Typed
  <2>2. CASE Arm(f)
    <3>1. line' = line /\ pending' = pending \cup {DirOf[f]} /\ timer' = TRUE
      BY <2>2 DEF Arm, lineVars
    <3>2. QED BY <1>1, <2>1, <3>1 DEF Carried, WillBeTaken, CoveredBy, Covered, Waiting, Working
  <2>3. CASE f \in Key /\ Request(f, "watch") /\ UNCHANGED <<pending, timer>>
    <3>1. CoveredBy(late \cup Waiting') = CoveredBy(late \cup Waiting) \cup Covered(f)
      BY <2>3, RequestCarries DEF WatchInv, Typed, Trigger
    <3>2. (g \in events => g \in events' \/ g = f) /\ f \in Covered(f)
      BY <1>1, CoversItsOwn
    <3>3. late' = late /\ Working' = Working
      BY <1>1 DEF Working
    <3>4. QED BY <1>1, <2>1, <2>3, <3>1, <3>2, <3>3 DEF Carried, WillBeTaken
  <2>4. QED BY <1>2, <2>2, <2>3
<1>6. QED BY <1>3, <1>4, <1>5 DEF WatchInv, NoChangeIsLost

LEMMA BatchKeepsInv ==
    ASSUME WatchInv, Notify \/ ReceiveKick \/ TakeBatch \/ BatchGiven
    PROVE  WatchInv'
<1>1. UNCHANGED <<dirty, missed, line, running, events, late, loops, planned, seen>>
  BY DEF Notify, ReceiveKick, TakeBatch, BatchGiven, workVars, lineVars
<1>2. Typed' /\ HandsEmpty'
  BY <1>1 DEF Notify, ReceiveKick, TakeBatch, BatchGiven, WatchInv, Typed, HandsEmpty, On
<1>3. ASSUME NEW g \in dirty', g \notin missed'
      PROVE  Carried(g)'
  <2>1. Carried(g)
    BY <1>1, <1>3 DEF WatchInv, NoChangeIsLost
  <2>2. CASE DirOf[g] \in pending /\ WillBeTaken
    BY <2>2 DEF Notify, ReceiveKick, TakeBatch, BatchGiven, Carried, WillBeTaken
  <2>3. CASE DirOf[g] \in taken
    BY <2>3 DEF Notify, ReceiveKick, TakeBatch, BatchGiven, Carried, WatchInv, HandsEmpty
  <2>4. CASE ~(DirOf[g] \in pending /\ WillBeTaken) /\ DirOf[g] \notin taken
    BY <1>1, <2>1, <2>4 DEF Carried, CoveredBy, Covered, Waiting, Working
  <2>5. QED BY <2>2, <2>3, <2>4
<1>4. QED BY <1>2, <1>3 DEF WatchInv, NoChangeIsLost

(* A job is enqueued: of the batch, by the timer, by a cancelled loop.     *)
LEMMA JobIsEnqueued ==
    ASSUME WatchInv, NEW k \in Key, GiveJob(k) \/ LateJob(k) \/ (k = root /\ Tick)
    PROVE  WatchInv'
<1>1. /\ UNCHANGED <<dirty, missed, running, events, loops, planned, seen, pending, timer,
                     kick, batch>>
      /\ taken \ {k} \subseteq taken' /\ taken' \subseteq taken /\ late \ {k} \subseteq late'
  BY DEF GiveJob, LateJob, Tick, workVars, lineVars, loopVars, Request
<1>2. /\ line' \in Seq(Job) /\ running' = running
      /\ \A L : CoveredBy(L \cup Waiting') = CoveredBy(L \cup Waiting) \cup Covered(k)
  BY RequestCarries DEF GiveJob, LateJob, Tick, Trigger, WatchInv, Typed
<1>3. Typed' /\ HandsEmpty'
  BY <1>1, <1>2 DEF WatchInv, Typed, HandsEmpty, On
<1>4. ASSUME NEW g \in dirty', g \notin missed'
      PROVE  Carried(g)'
  <2>1. Carried(g) /\ g \in File
    BY <1>1, <1>4 DEF WatchInv, NoChangeIsLost, Typed
  <2>2. CoveredBy(late) \subseteq CoveredBy(late') \cup Covered(k)
    BY <1>1 DEF CoveredBy
  <2>3. /\ CoveredBy(late' \cup Waiting') = CoveredBy(late') \cup CoveredBy(Waiting')
        /\ CoveredBy(late \cup Waiting) = CoveredBy(late) \cup CoveredBy(Waiting)
    BY CoveredByUnion
  <2>4. CoveredBy(Waiting') = CoveredBy(Waiting) \cup Covered(k)
    <3>1. CoveredBy({} \cup Waiting') = CoveredBy({} \cup Waiting) \cup Covered(k)
      BY <1>2
    <3>2. {} \cup Waiting' = Waiting' /\ {} \cup Waiting = Waiting
      OBVIOUS
    <3>3. QED BY <3>1, <3>2
  <2>5. DirOf[g] = k => g \in Covered(k)
    BY <2>1, CoversItsOwn
  <2>6. CoveredBy(late \cup Waiting) \subseteq CoveredBy(late' \cup Waiting')
    BY <2>2, <2>3, <2>4
  <2>7. Covered(k) \subseteq CoveredBy(late' \cup Waiting')
    BY <2>3, <2>4
  <2>8. DirOf[g] \in taken => DirOf[g] \in taken' \/ DirOf[g] = k
    BY <1>1
  <2>9. Working' = Working
    BY <1>1 DEF Working
  <2>10. QED BY <1>1, <2>1, <2>5, <2>6, <2>7, <2>8, <2>9 DEF Carried, WillBeTaken
<1>5. QED BY <1>3, <1>4 DEF WatchInv, NoChangeIsLost

-----------------------------------------------------------------------------
(* The worker.                                                             *)
LEMMA TakeJobKeepsInv ==
    ASSUME WatchInv, TakeJob
    PROVE  WatchInv'
<1>1. /\ UNCHANGED <<dirty, missed, events, loops, seen, pending, timer, kick, batch, taken, late>>
      /\ planned' = FALSE /\ running = {} /\ line # << >>
      /\ running' = {Head(line)} /\ line' = Tail(line) /\ line \in Seq(Job) /\ seen = {}
  BY DEF TakeJob, Serve, loopVars, WatchInv, Typed, HandsEmpty
<1>2. Len(line) \in Nat /\ Len(line) >= 1 /\ DOMAIN line = 1 .. Len(line)
  BY <1>1, EmptySeq, LenProperties
<1>3. /\ line' \in Seq(Job) /\ Len(line') = Len(line) - 1
      /\ \A i \in 1 .. Len(line') : line'[i] = line[i + 1]
      /\ Head(line) = line[1]
  BY <1>1, HeadTailProperties
<1>4. Waiting \subseteq Waiting' \cup Working'
  <2>1. SUFFICES ASSUME NEW i \in DOMAIN line
                 PROVE  line[i].key \in Waiting' \cup Working'
    BY DEF Waiting
  <2>2. CASE i = 1
    BY <1>1, <1>3, <2>2 DEF Working
  <2>3. CASE i # 1
    <3>1. i - 1 \in 1 .. Len(line') /\ line'[i - 1] = line[i]
      BY <1>2, <1>3, <2>3
    <3>2. DOMAIN line' = 1 .. Len(line')
      BY <1>3, LenProperties
    <3>3. QED BY <3>1, <3>2 DEF Waiting
  <2>4. QED BY <2>2, <2>3
<1>5. Typed' /\ HandsEmpty'
  BY <1>1, <1>3 DEF WatchInv, Typed, HandsEmpty, On
<1>6. ASSUME NEW g \in dirty', g \notin missed'
      PROVE  Carried(g)'
  <2>1. Carried(g)
    BY <1>1, <1>6 DEF WatchInv, NoChangeIsLost
  <2>2. g \notin CoveredBy(Working)
    BY <1>1 DEF CoveredBy, Working
  <2>3. CoveredBy(late \cup Waiting) \subseteq CoveredBy(late' \cup Waiting') \cup CoveredBy(Working')
    BY <1>1, <1>4 DEF CoveredBy
  <2>4. QED BY <1>1, <2>1, <2>2, <2>3 DEF Carried, WillBeTaken
<1>7. QED BY <1>5, <1>6 DEF WatchInv, NoChangeIsLost

LEMMA PlanKeepsInv ==
    ASSUME WatchInv, Plan
    PROVE  WatchInv'
<1>1. /\ UNCHANGED <<dirty, events, loops, pending, timer, kick, batch, taken, late, running, line>>
      /\ running # {} /\ ~planned /\ planned' = TRUE /\ seen = {}
      /\ seen' = dirty \cap CoveredBy(Working) /\ missed' = missed \ CoveredBy(Working)
  BY DEF Plan, loopVars, lineVars, WatchInv, HandsEmpty
<1>2. Typed' /\ HandsEmpty'
  BY <1>1 DEF WatchInv, Typed, HandsEmpty, On
<1>3. ASSUME NEW g \in dirty', g \notin missed'
      PROVE  Carried(g)'
  <2>1. CASE g \in CoveredBy(Working)
    BY <1>1, <1>3, <2>1 DEF Carried
  <2>2. CASE g \notin CoveredBy(Working)
    <3>1. Carried(g)
      BY <1>1, <1>3, <2>2 DEF WatchInv, NoChangeIsLost
    <3>2. QED BY <1>1, <2>2, <3>1 DEF Carried, WillBeTaken, Waiting, CoveredBy, Covered
  <2>3. QED BY <2>1, <2>2
<1>4. QED BY <1>2, <1>3 DEF WatchInv, NoChangeIsLost

LEMMA OperationKeepsInv ==
    ASSUME WatchInv, NEW f \in File, Sync(f) \/ OpFails(f)
    PROVE  WatchInv'
<1>1. /\ UNCHANGED <<events, loops, pending, timer, kick, batch, taken, late, running, line, planned>>
      /\ seen' = seen \ {f} /\ dirty' \subseteq dirty /\ missed \subseteq missed'
      /\ f \notin dirty' \ missed'
  BY DEF Sync, OpFails, loopVars, lineVars
<1>2. Typed' /\ HandsEmpty'
  BY <1>1 DEF WatchInv, Typed, HandsEmpty, On
<1>3. ASSUME NEW g \in dirty', g \notin missed'
      PROVE  Carried(g)'
  <2>1. Carried(g) /\ g # f
    BY <1>1, <1>3 DEF WatchInv, NoChangeIsLost
  <2>2. QED BY <1>1, <2>1 DEF Carried, WillBeTaken, Waiting, Working, CoveredBy, Covered
<1>4. QED BY <1>2, <1>3 DEF WatchInv, NoChangeIsLost

LEMMA JobEndsKeepsInv ==
    ASSUME WatchInv, JobEnds
    PROVE  WatchInv'
<1>1. /\ UNCHANGED <<events, loops, pending, timer, kick, batch, taken, late, line, planned, dirty,
                     missed, seen>>
      /\ planned /\ running' = {} /\ seen = {}
  BY DEF JobEnds, Finish, loopVars, workVars
<1>2. Typed' /\ HandsEmpty'
  BY <1>1 DEF WatchInv, Typed, HandsEmpty, On
<1>3. ASSUME NEW g \in dirty', g \notin missed'
      PROVE  Carried(g)'
  <2>1. Carried(g)
    BY <1>1, <1>3 DEF WatchInv, NoChangeIsLost
  <2>2. QED BY <1>1, <2>1 DEF Carried, WillBeTaken, Waiting, CoveredBy, Covered
<1>4. QED BY <1>2, <1>3 DEF WatchInv, NoChangeIsLost

(* A job that is cut short leaves what it was to look at.                  *)
LEMMA CutShortKeepsInv ==
    ASSUME WatchInv, CutShort,
           UNCHANGED <<events, loops, pending, timer, kick, batch, taken, late, line, dirty>>
    PROVE  WatchInv'
<1>1. Typed' /\ HandsEmpty'
  BY DEF WatchInv, Typed, HandsEmpty, On, CutShort
<1>2. ASSUME NEW g \in dirty', g \notin missed'
      PROVE  Carried(g)'
  <2>1. Carried(g)
    BY <1>2 DEF WatchInv, NoChangeIsLost, CutShort
  <2>2. ~(g \in CoveredBy(Working) /\ ~planned) /\ g \notin seen
    BY <1>2 DEF CutShort, WatchInv, HandsEmpty
  <2>3. QED BY <2>1, <2>2 DEF Carried, WillBeTaken, Waiting, CoveredBy, Covered
<1>3. QED BY <1>1, <1>2 DEF WatchInv, NoChangeIsLost

-----------------------------------------------------------------------------
(* Reloads, stops and deaths.                                              *)
LEMMA BeginKeepsInv ==
    ASSUME WatchInv, NEW how, Begin(how)
    PROVE  WatchInv'
<1>1. /\ UNCHANGED <<events, loops, pending, timer, kick, batch, taken, late, running, planned,
                     dirty, seen>>
      /\ line' = SelectAt(line, {i \in DOMAIN line : TaskOf[line[i].key] # theTask})
      /\ missed' = missed \cup (dirty \cap CoveredBy(Waiting))
  BY DEF Begin, Withdraw, loopVars, workVars
<1>2. line' = << >> /\ << >> \in Seq(Job)
  <2>1. Len(line) \in Nat /\ DOMAIN line = 1 .. Len(line) /\ \A i \in DOMAIN line : line[i] \in Job
    BY LenProperties, ElementOfSeq DEF WatchInv, Typed
  <2>2. \A i \in DOMAIN line : TaskOf[line[i].key] = theTask
    BY <2>1, WatchAssumption DEF Job
  <2>3. {i \in DOMAIN line : TaskOf[line[i].key] # theTask} = {}
    BY <2>2
  <2>4. Cardinality({}) = 0
    BY FS_EmptySet
  <2>5. line' \in [1 .. 0 -> Job] /\ 0 \in Nat
    <3> DEFINE n0 == Cardinality({})
    <3>1. line' = SelectAt(line, {})
      BY <1>1, <2>3
    <3>2. SelectAt(line, {}) = [n \in 1 .. n0 |-> line[NthOf({}, n)]] /\ n0 = 0
      BY <2>4 DEF SelectAt
    <3> HIDE DEF n0
    <3>3. \A n \in 1 .. n0 : FALSE
      BY <3>2
    <3>4. QED BY <3>1, <3>2, <3>3
  <2>6. line' \in Seq(Job) /\ Len(line') = 0
    BY <2>5, SeqDef, LenProperties
  <2>7. QED BY <2>6, EmptySeq
<1>3. Typed' /\ HandsEmpty'
  BY <1>1, <1>2 DEF WatchInv, Typed, HandsEmpty, On
<1>4. ASSUME NEW g \in dirty', g \notin missed'
      PROVE  Carried(g)'
  <2>1. Carried(g) /\ g \notin CoveredBy(Waiting)
    BY <1>1, <1>4 DEF WatchInv, NoChangeIsLost
  <2>2. /\ CoveredBy(late' \cup Waiting') = CoveredBy(late') \cup CoveredBy(Waiting')
        /\ CoveredBy(late \cup Waiting) = CoveredBy(late) \cup CoveredBy(Waiting)
    BY CoveredByUnion
  <2>3. late' = late /\ Working' = Working
    BY <1>1 DEF Working
  <2>4. QED BY <1>1, <2>1, <2>2, <2>3 DEF Carried, WillBeTaken
<1>5. QED BY <1>3, <1>4 DEF WatchInv, NoChangeIsLost

LEMMA StopLoopsKeepsInv ==
    ASSUME WatchInv, StopLoops
    PROVE  WatchInv'
<1>1. /\ UNCHANGED <<running, line, planned, dirty, seen>>
      /\ events' = {} /\ pending' = {} /\ taken' = {}
      /\ late \subseteq late' /\ missed \subseteq missed'
      /\ On => missed' = missed \cup events \cup {f \in File : DirOf[f] \in pending \cup taken}
  BY DEF StopLoops, lineVars, workVars
<1>2. Typed' /\ HandsEmpty'
  BY <1>1 DEF WatchInv, Typed, HandsEmpty
<1>3. ASSUME NEW g \in dirty', g \notin missed'
      PROVE  Carried(g)'
  <2>1. Carried(g) /\ g \in File
    BY <1>1, <1>3 DEF WatchInv, NoChangeIsLost, Typed
  <2>2. g \notin events /\ DirOf[g] \notin pending /\ DirOf[g] \notin taken
    BY <1>1, <1>3, <2>1 DEF WatchInv, HandsEmpty
  <2>3. CoveredBy(late \cup Waiting) \subseteq CoveredBy(late' \cup Waiting')
    BY <1>1 DEF CoveredBy, Waiting
  <2>4. Working' = Working
    BY <1>1 DEF Working
  <2>5. QED BY <1>1, <2>1, <2>2, <2>3, <2>4 DEF Carried
<1>4. QED BY <1>2, <1>3 DEF WatchInv, NoChangeIsLost

LEMMA CarriedStays ==
    ASSUME UNCHANGED <<events, pending, timer, kick, batch, taken, late, running, line, planned,
                       dirty, missed, seen>>
    PROVE  NoChangeIsLost => NoChangeIsLost'
<1>1. WillBeTaken' = WillBeTaken /\ Waiting' = Waiting /\ Working' = Working
  BY DEF WillBeTaken, Waiting, Working
<1>2. \A f : Carried(f) => Carried(f)'
  BY <1>1 DEF Carried
<1>3. QED BY <1>2 DEF NoChangeIsLost

LEMMA StartOrNotKeepsInv ==
    ASSUME WatchInv, StartLoops \/ InitFails
    PROVE  WatchInv'
<1>1. /\ UNCHANGED <<events, pending, timer, kick, batch, taken, late, running, line, planned, dirty,
                     missed, seen>>
      /\ loops' = "on" \/ loops' = loops
  BY DEF StartLoops, InitFails, lineVars, loopVars, workVars
<1>2. Typed' /\ HandsEmpty'
  BY <1>1 DEF WatchInv, Typed, HandsEmpty, On
<1>3. QED BY <1>1, <1>2, CarriedStays DEF WatchInv

LEMMA RestartKeepsInv ==
    ASSUME WatchInv, Restart
    PROVE  WatchInv'
<1>1. << >> \in Seq(Job)
  BY EmptySeq
<1>2. QED BY <1>1 DEF Restart, WatchInv, Typed, HandsEmpty, NoChangeIsLost

LEMMA NextKeepsInv ==
    ASSUME WatchInv, [Next]_vars
    PROVE  WatchInv'
<1>1. CASE UNCHANGED vars
  <2>1. Typed' /\ HandsEmpty'
    BY <1>1 DEF vars, lineVars, loopVars, workVars, WatchInv, Typed, HandsEmpty, On
  <2>2. QED BY <1>1, <2>1, CarriedStays DEF vars, lineVars, loopVars, workVars, WatchInv
<1>2. CASE \E f \in File : Change(f) \/ LoseEvent(f) \/ OpFails(f)
  BY <1>2, ChangeKeepsInv, OperationKeepsInv
<1>3. CASE WatchLoop \/ Notify \/ BatchLoop \/ Tick \/ LateLoop
  <2>1. root \in Key /\ Dirs \subseteq Key
    BY WatchAssumption DEF Dirs
  <2>2. QED BY <1>3, <2>1, DispatchKeepsInv, BatchKeepsInv, JobIsEnqueued
            DEF WatchLoop, BatchLoop, LateLoop
<1>4. CASE Worker
  BY <1>4, TakeJobKeepsInv, PlanKeepsInv, OperationKeepsInv, JobEndsKeepsInv DEF Worker
<1>5. CASE PlanFails
  BY <1>5, CutShortKeepsInv DEF PlanFails, loopVars
<1>6. CASE ReloadTask \/ StopTask
  BY <1>6, BeginKeepsInv DEF ReloadTask, StopTask
<1>7. CASE CallStep
  <2>1. CASE CancelActive
    <3>1. CASE running # {}
      BY <2>1, <3>1, CutShortKeepsInv DEF CancelActive, loopVars
    <3>2. CASE running = {}
      <4>1. Typed' /\ HandsEmpty'
        BY <2>1, <3>2 DEF CancelActive, loopVars, WatchInv, Typed, HandsEmpty, On
      <4>2. QED BY <2>1, <3>2, <4>1, CarriedStays DEF CancelActive, loopVars, WatchInv
    <3>3. QED BY <3>1, <3>2
  <2>2. QED BY <1>7, <2>1, StopLoopsKeepsInv, StartOrNotKeepsInv DEF CallStep
<1>8. CASE Restart
  BY <1>8, RestartKeepsInv
<1>9. QED BY <1>1, <1>2, <1>3, <1>4, <1>5, <1>6, <1>7, <1>8 DEF Next

(* No change gets lost between watcher, debouncer, queue and worker,       *)
(* however their steps interleave, for any files and directories and any   *)
(* number of changes, reloads and faults (runner.go; queue.go; engine.go). *)
THEOREM NoChangeIsLostHolds == Spec => []NoChangeIsLost
<1>1. WatchInv => NoChangeIsLost
  BY DEF WatchInv
<1>2. QED BY <1>1, InitIsInv, NextKeepsInv, PTL DEF Spec

=============================================================================
