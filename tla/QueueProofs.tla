---------------------------- MODULE QueueProofs ----------------------------
(***************************************************************************)
(* Proofs about what waits in line. The work queue (WorkQueue), for any    *)
(* keys, tasks and producers: what withdrawing jobs leaves, its            *)
(* invariants, and that its safety part implements the abstract line of    *)
(* jobs of JobLine. The feed of log entries and its event streams          *)
(* (LogFeed), for every capacity, set of clients and number of entries.    *)
(* The relay of videos (Relay), for any number of requests, permits and    *)
(* links. The three share no constant and no variable.                     *)
(***************************************************************************)
EXTENDS WorkQueue, LogFeed, Relay, Functions, FiniteSetTheorems, SequenceTheorems, TLAPS

-----------------------------------------------------------------------------
(* What SelectAt returns: a sequence whose entries are those at the chosen *)
(* positions, each exactly once.                                           *)

(* The rank of a position of a finite set of positions lies between 1 and  *)
(* the size of the set.                                                    *)
LEMMA RankType ==
    ASSUME NEW I \in SUBSET Nat, IsFiniteSet(I), NEW i \in I
    PROVE  RankIn(I, i) \in 1 .. Cardinality(I)
<1> DEFINE B == {j \in I : j <= i}
<1>1. IsFiniteSet(B) /\ Cardinality(B) <= Cardinality(I)
  BY FS_Subset
<1>2. Cardinality(B) \in Nat /\ Cardinality(I) \in Nat
  BY <1>1, FS_CardinalityType
<1>3. i \in B
  OBVIOUS
<1>4. Cardinality(B) # 0
  BY <1>1, <1>3, FS_EmptySet
<1> QED
  BY <1>1, <1>2, <1>4 DEF RankIn

(* Ranks grow with positions.                                              *)
LEMMA RankMonotonic ==
    ASSUME NEW I \in SUBSET Nat, IsFiniteSet(I), NEW i \in I, NEW j \in I, i < j
    PROVE  RankIn(I, i) < RankIn(I, j)
<1> DEFINE A == {x \in I : x <= i}
           B == {x \in I : x <= j}
<1>1. IsFiniteSet(B)
  BY FS_Subset
<1>2. A \in SUBSET B
  <2> SUFFICES ASSUME NEW x \in A PROVE x \in B
    OBVIOUS
  <2>1. x \in Nat /\ i \in Nat /\ j \in Nat /\ x <= i
    OBVIOUS
  <2> QED
    BY <2>1
<1>3. IsFiniteSet(A) /\ Cardinality(A) <= Cardinality(B)
      /\ (Cardinality(B) = Cardinality(A) => B = A)
  BY <1>1, <1>2, FS_Subset
<1>4. j \in B /\ j \notin A
  OBVIOUS
<1>5. Cardinality(A) \in Nat /\ Cardinality(B) \in Nat
  BY <1>1, <1>3, FS_CardinalityType
<1> QED
  BY <1>3, <1>4, <1>5 DEF RankIn

(* Every rank is taken by some position.                                   *)
LEMMA RankOnto ==
    ASSUME NEW I \in SUBSET Nat, IsFiniteSet(I), NEW m \in 1 .. Cardinality(I)
    PROVE  \E i \in I : RankIn(I, i) = m
<1> DEFINE N == 1 .. Cardinality(I)
           f == [i \in I |-> RankIn(I, i)]
<1>1. Cardinality(I) \in Nat
  BY FS_CardinalityType
<1>2. IsFiniteSet(N) /\ Cardinality(N) = Cardinality(I)
  BY <1>1, FS_Interval
<1>3. f \in [I -> N]
  BY RankType
<1>4. ASSUME NEW i \in I, NEW j \in I, f[i] = f[j]
      PROVE  i = j
  <2>1. RankIn(I, i) = RankIn(I, j)
    BY <1>4
  <2>2. RankIn(I, i) \in Nat /\ RankIn(I, j) \in Nat
    BY <1>1, RankType
  <2>3. ~(i < j) /\ ~(j < i)
    BY <2>1, <2>2, RankMonotonic
  <2> QED
    BY <2>3
<1>5. f \in Injection(I, N)
  BY <1>3, <1>4 DEF Injection, IsInjective
<1>6. f \in Surjection(I, N)
  BY <1>2, <1>5, FS_Injection
<1> QED
  BY <1>6 DEF Surjection

(* NthOf picks the position of a given rank.                               *)
LEMMA NthOfRank ==
    ASSUME NEW I \in SUBSET Nat, IsFiniteSet(I), NEW m \in 1 .. Cardinality(I)
    PROVE  NthOf(I, m) \in I /\ RankIn(I, NthOf(I, m)) = m
  BY RankOnto DEF NthOf

(* The position that NthOf picks for the rank of i is i itself.            *)
LEMMA NthOfRankIn ==
    ASSUME NEW I \in SUBSET Nat, IsFiniteSet(I), NEW i \in I
    PROVE  NthOf(I, RankIn(I, i)) = i
<1> DEFINE m == RankIn(I, i)
           j == NthOf(I, m)
<1>1. m \in 1 .. Cardinality(I)
  BY RankType
<1>2. j \in I /\ RankIn(I, j) = m
  BY <1>1, NthOfRank
<1>3. m \in Nat
  BY <1>1, FS_CardinalityType
<1>4. ~(i < j) /\ ~(j < i)
  <2>1. i < j => m < RankIn(I, j)
    BY <1>2, RankMonotonic
  <2>2. j < i => RankIn(I, j) < m
    BY <1>2, RankMonotonic
  <2> QED
    BY <1>2, <1>3, <2>1, <2>2
<1>5. i \in Nat /\ j \in Nat
  BY <1>2
<1>6. i = j
  BY <1>4, <1>5
<1> QED
  BY <1>6

(* SelectAt(s, I), for positions I of s, is a sequence over the same set;  *)
(* its entries are exactly those of s at I; and it repeats no entry if s   *)
(* repeats none.                                                           *)
THEOREM SelectAtProperties ==
    ASSUME NEW S, NEW s \in Seq(S), NEW I \in SUBSET (DOMAIN s)
    PROVE  /\ SelectAt(s, I) \in Seq(S)
           /\ DOMAIN SelectAt(s, I) = 1 .. Cardinality(I)
           /\ {SelectAt(s, I)[m] : m \in DOMAIN SelectAt(s, I)} = {s[i] : i \in I}
           /\ (\A i, j \in DOMAIN s : s[i] = s[j] => i = j)
                => \A l, m \in DOMAIN SelectAt(s, I) :
                        SelectAt(s, I)[l] = SelectAt(s, I)[m] => l = m
<1> DEFINE t == SelectAt(s, I)
<1>1. DOMAIN s = 1 .. Len(s) /\ Len(s) \in Nat
  OBVIOUS
<1>2. I \in SUBSET Nat /\ IsFiniteSet(I)
  <2>1. IsFiniteSet(1 .. Len(s))
    BY <1>1, FS_Interval
  <2> QED
    BY <1>1, <2>1, FS_Subset
<1>3. Cardinality(I) \in Nat
  BY <1>2, FS_CardinalityType
<1>4. DOMAIN t = 1 .. Cardinality(I)
  BY DEF SelectAt
<1>5. \A m \in 1 .. Cardinality(I) : /\ t[m] = s[NthOf(I, m)]
                                     /\ NthOf(I, m) \in I
                                     /\ RankIn(I, NthOf(I, m)) = m
  BY <1>2, NthOfRank DEF SelectAt
<1>6. t \in Seq(S)
  <2>1. \A m \in 1 .. Cardinality(I) : s[NthOf(I, m)] \in S
    BY <1>1, <1>5
  <2> QED
    BY <1>3, <2>1 DEF SelectAt
<1>7. {t[m] : m \in DOMAIN t} = {s[i] : i \in I}
  <2>1. ASSUME NEW m \in DOMAIN t
        PROVE  t[m] \in {s[i] : i \in I}
    BY <1>4, <1>5
  <2>2. ASSUME NEW i \in I
        PROVE  s[i] \in {t[m] : m \in DOMAIN t}
    <3>1. RankIn(I, i) \in DOMAIN t
      BY <1>2, <1>4, RankType
    <3>2. t[RankIn(I, i)] = s[i]
      BY <1>2, <1>4, <1>5, <3>1, NthOfRankIn
    <3> QED
      BY <3>1, <3>2
  <2> QED
    BY <2>1, <2>2
<1>8. ASSUME \A i, j \in DOMAIN s : s[i] = s[j] => i = j,
             NEW l \in DOMAIN t, NEW m \in DOMAIN t, t[l] = t[m]
      PROVE  l = m
  <2>1. NthOf(I, l) = NthOf(I, m)
    BY <1>4, <1>5, <1>8
  <2> QED
    BY <1>4, <1>5, <2>1
<1> QED
  BY <1>4, <1>6, <1>7, <1>8

-----------------------------------------------------------------------------
(***************************************************************************)
(* The inductive invariant. The parts of the run's invariants support each *)
(* other: the types and QueueConsistent make Head(order) a key of the map, *)
(* and RunsOneJob ties the worker's place to the job it holds.             *)
(***************************************************************************)
RunsOneJob == worker = "run" <=> running # {}

QueueInv ==
    /\ QueueTypeOK
    /\ QueueConsistent
    /\ NoLostWakeup
    /\ HighestTriggerKept
    /\ RunsOneJob

(* Higher returns one of its arguments, and one that neither outranks.     *)
LEMMA HigherProperties ==
    ASSUME NEW a \in Line!Trigger, NEW b \in Line!Trigger
    PROVE  /\ Line!Higher(a, b) \in {a, b}
           /\ Line!triggerRank[a] \in Nat
           /\ Line!triggerRank[a] <= Line!triggerRank[Line!Higher(a, b)]
           /\ Line!triggerRank[b] <= Line!triggerRank[Line!Higher(a, b)]
  BY DEF Line!Trigger, Line!Higher, Line!triggerRank

(* What DropTask leaves in the slice: the keys of the other tasks, once.   *)
LEMMA DropTaskOrder ==
    ASSUME QueueTypeOK, QueueConsistent, NEW t \in Task, DropTask(t)
    PROVE  /\ order' \in Seq(Key)
           /\ {order'[i] : i \in DOMAIN order'}
                = DOMAIN pending \ {k \in DOMAIN pending : TaskOf[k] = t}
           /\ \A i, j \in DOMAIN order' : order'[i] = order'[j] => i = j
           /\ order' # << >> => order # << >>
<1> DEFINE I == {i \in DOMAIN order : TaskOf[order[i]] # t}
<1>1. order' = SelectAt(order, I)
  BY DEF DropTask
<1>2. order \in Seq(Key)
  BY DEF QueueTypeOK
<1>3. I \in SUBSET (DOMAIN order)
  OBVIOUS
<1>4. order' \in Seq(Key)
  BY <1>1, <1>2, <1>3, SelectAtProperties
<1>5. {order'[i] : i \in DOMAIN order'} = {order[i] : i \in I}
  <2> DEFINE s == SelectAt(order, I)
  <2>1. {s[i] : i \in DOMAIN s} = {order[i] : i \in I}
    BY <1>2, <1>3, SelectAtProperties
  <2> HIDE DEF s
  <2>2. order' = s
    BY <1>1 DEF s
  <2> QED
    BY <2>1, <2>2
<1>6. {order[i] : i \in I} = DOMAIN pending \ {k \in DOMAIN pending : TaskOf[k] = t}
  <2>1. {order[i] : i \in DOMAIN order} = DOMAIN pending
    BY DEF QueueConsistent
  <2>2. ASSUME NEW i \in I
        PROVE  order[i] \in DOMAIN pending /\ TaskOf[order[i]] # t
    BY <2>1
  <2>3. ASSUME NEW k \in DOMAIN pending, TaskOf[k] # t
        PROVE  k \in {order[i] : i \in I}
    <3>1. PICK i \in DOMAIN order : order[i] = k
      BY <2>1
    <3> QED
      BY <2>3, <3>1
  <2> QED
    BY <2>2, <2>3
<1>7. \A i, j \in DOMAIN order' : order'[i] = order'[j] => i = j
  <2>1. \A i, j \in DOMAIN order : order[i] = order[j] => i = j
    BY DEF QueueConsistent
  <2> QED
    BY <1>1, <1>2, <1>3, <2>1, SelectAtProperties
<1>8. ASSUME order = << >>, order' # << >>
      PROVE  FALSE
  <2>1. Len(order') \in Nat \ {0} /\ DOMAIN order' = 1 .. Len(order')
    BY <1>4, <1>8, EmptySeq
  <2>2. order'[1] \in {order'[i] : i \in DOMAIN order'}
    BY <2>1
  <2> QED
    BY <1>5, <1>8, <2>2
<1> QED
  BY <1>4, <1>5, <1>6, <1>7, <1>8

-----------------------------------------------------------------------------
LEMMA InitQueueInv == QueueInit => QueueInv
<1> SUFFICES ASSUME QueueInit PROVE QueueInv
  OBVIOUS
<1>1. order \in Seq(Key) /\ DOMAIN order = {} /\ DOMAIN pending = {} /\ DOMAIN asked = {}
  BY DEF QueueInit
<1>2. QueueTypeOK
  BY <1>1 DEF QueueInit, QueueTypeOK
<1>3. QueueConsistent
  BY <1>1 DEF QueueConsistent
<1>4. NoLostWakeup /\ HighestTriggerKept /\ RunsOneJob
  BY <1>1 DEF QueueInit, NoLostWakeup, HighestTriggerKept, RunsOneJob
<1> QED
  BY <1>2, <1>3, <1>4 DEF QueueInv

LEMMA NewPreserves ==
    ASSUME QueueInv, NEW p \in Producer, NEW k \in Key, NEW tr \in UsedTrigger,
           EnqueueNew(p, k, tr)
    PROVE  QueueInv'
<1> USE DEF QueueInv, EnqueueNew
<1>0. tr \in Line!Trigger
  BY WorkQueueAssumption
<1>1. order \in Seq(Key) /\ order' = Append(order, k)
  BY DEF QueueTypeOK
<1>2. /\ order' \in Seq(Key)
      /\ DOMAIN order' = 1 .. Len(order) + 1
      /\ DOMAIN order = 1 .. Len(order)
      /\ Len(order) \in Nat
      /\ \A i \in DOMAIN order : order'[i] = order[i]
      /\ order'[Len(order) + 1] = k
  BY <1>1
<1>3. DOMAIN pending' = DOMAIN pending \cup {k} /\ DOMAIN asked' = DOMAIN asked \cup {k}
  OBVIOUS
<1>4. QueueTypeOK'
  BY <1>0, <1>2, <1>3 DEF QueueTypeOK
<1>5. QueueConsistent'
  <2>1. {order'[i] : i \in DOMAIN order'} = {order[i] : i \in DOMAIN order} \cup {k}
    <3>1. DOMAIN order' = DOMAIN order \cup {Len(order) + 1}
      BY <1>2
    <3> QED
      BY <1>2, <3>1
  <2>2. \A i \in DOMAIN order : order[i] # k
    BY DEF QueueConsistent
  <2>3. ASSUME NEW i \in DOMAIN order', NEW j \in DOMAIN order', order'[i] = order'[j]
        PROVE  i = j
    <3>1. CASE i \in DOMAIN order /\ j \in DOMAIN order
      BY <1>2, <2>3, <3>1 DEF QueueConsistent
    <3>2. CASE i \notin DOMAIN order
      BY <1>2, <2>2, <2>3, <3>2
    <3>3. CASE j \notin DOMAIN order
      BY <1>2, <2>2, <2>3, <3>3
    <3> QED
      BY <3>1, <3>2, <3>3
  <2> QED
    BY <1>3, <2>1, <2>3 DEF QueueConsistent
<1>6. NoLostWakeup'
  BY DEF NoLostWakeup
<1>7. HighestTriggerKept'
  <2> SUFFICES ASSUME NEW x \in DOMAIN pending'
               PROVE  /\ pending'[x] \in asked'[x]
                      /\ \A y \in asked'[x] : Line!triggerRank[y] <= Line!triggerRank[pending'[x]]
    BY DEF HighestTriggerKept
  <2>1. CASE x = k
    <3>1. pending'[x] = tr /\ asked'[x] = {tr}
      BY <2>1
    <3> QED
      BY <1>0, <3>1, HigherProperties
  <2>2. CASE x # k
    <3>1. x \in DOMAIN pending /\ x \in DOMAIN asked
      BY <1>3, <2>2 DEF QueueTypeOK
    <3>2. pending'[x] = pending[x] /\ asked'[x] = asked[x]
      BY <2>2, <3>1
    <3> QED
      BY <3>1, <3>2 DEF HighestTriggerKept
  <2> QED
    BY <2>1, <2>2
<1>8. RunsOneJob'
  BY DEF RunsOneJob
<1> QED
  BY <1>4, <1>5, <1>6, <1>7, <1>8

LEMMA MergePreserves ==
    ASSUME QueueInv, NEW p \in Producer, NEW k \in Key, NEW tr \in UsedTrigger,
           EnqueueMerge(p, k, tr)
    PROVE  QueueInv'
<1> USE DEF QueueInv, EnqueueMerge
<1>0. tr \in Line!Trigger /\ pending[k] \in Line!Trigger
  BY WorkQueueAssumption DEF QueueTypeOK
<1>1. /\ DOMAIN pending' = DOMAIN pending
      /\ DOMAIN asked' = DOMAIN asked
      /\ pending'[k] = Line!Higher(pending[k], tr)
      /\ asked'[k] = asked[k] \cup {tr}
      /\ \A x \in DOMAIN pending : x # k => pending'[x] = pending[x] /\ asked'[x] = asked[x]
  BY DEF QueueTypeOK
<1>2. pending'[k] \in {pending[k], tr}
  BY <1>0, <1>1, HigherProperties
<1>3. QueueTypeOK'
  <2>1. \A x \in DOMAIN pending' : pending'[x] \in Line!Trigger
    BY <1>0, <1>1, <1>2 DEF QueueTypeOK
  <2>2. \A x \in DOMAIN asked' : asked'[x] \subseteq Line!Trigger
    BY <1>0, <1>1 DEF QueueTypeOK
  <2> QED
    BY <1>1, <2>1, <2>2 DEF QueueTypeOK
<1>4. QueueConsistent'
  BY <1>1 DEF QueueConsistent
<1>5. NoLostWakeup'
  BY DEF NoLostWakeup
<1>6. HighestTriggerKept'
  <2> SUFFICES ASSUME NEW x \in DOMAIN pending'
               PROVE  /\ pending'[x] \in asked'[x]
                      /\ \A y \in asked'[x] : Line!triggerRank[y] <= Line!triggerRank[pending'[x]]
    BY DEF HighestTriggerKept
  <2>1. CASE x = k
    <3>1. pending[k] \in asked[k]
          /\ \A y \in asked[k] : Line!triggerRank[y] <= Line!triggerRank[pending[k]]
      BY DEF HighestTriggerKept
    <3>2. pending'[k] \in asked'[k]
      BY <1>1, <1>2, <3>1
    <3>3. ASSUME NEW y \in asked'[k]
          PROVE  Line!triggerRank[y] <= Line!triggerRank[pending'[k]]
      <4>1. y \in Line!Trigger
        BY <1>0, <1>1 DEF QueueTypeOK
      <4>2. Line!triggerRank[y] \in Nat /\ Line!triggerRank[pending[k]] \in Nat
            /\ Line!triggerRank[pending'[k]] \in Nat
        BY <1>0, <1>2, <4>1, HigherProperties
      <4>3. CASE y = tr
        BY <1>0, <1>1, <4>3, HigherProperties
      <4>4. CASE y \in asked[k]
        <5>1. Line!triggerRank[pending[k]] <= Line!triggerRank[pending'[k]]
          BY <1>0, <1>1, HigherProperties
        <5>2. Line!triggerRank[y] <= Line!triggerRank[pending[k]]
          BY <3>1, <4>4
        <5> QED
          BY <4>2, <5>1, <5>2
      <4> QED
        BY <1>1, <4>3, <4>4
    <3> QED
      BY <2>1, <3>2, <3>3
  <2>2. CASE x # k
    BY <1>1, <2>2 DEF HighestTriggerKept
  <2> QED
    BY <2>1, <2>2
<1>7. RunsOneJob'
  BY DEF RunsOneJob
<1> QED
  BY <1>3, <1>4, <1>5, <1>6, <1>7

LEMMA DropPreserves ==
    ASSUME QueueInv, NEW t \in Task, DropTask(t)
    PROVE  QueueInv'
<1> DEFINE mine == {k \in DOMAIN pending : TaskOf[k] = t}
<1> USE DEF QueueInv
<1>1. /\ order' \in Seq(Key)
      /\ {order'[i] : i \in DOMAIN order'} = DOMAIN pending \ mine
      /\ \A i, j \in DOMAIN order' : order'[i] = order'[j] => i = j
      /\ order' # << >> => order # << >>
  BY DropTaskOrder
<1>2. /\ DOMAIN pending' = DOMAIN pending \ mine
      /\ DOMAIN asked' = DOMAIN asked \ mine
      /\ \A k \in DOMAIN pending' : pending'[k] = pending[k]
      /\ \A k \in DOMAIN asked' : asked'[k] = asked[k]
  BY DEF DropTask, Without
<1>3. UNCHANGED <<kick, closed, ctxDone, sending, worker, running>>
  BY DEF DropTask
<1>4. QueueTypeOK'
  BY <1>1, <1>2, <1>3 DEF QueueTypeOK
<1>5. QueueConsistent'
  BY <1>1, <1>2 DEF QueueConsistent
<1>6. NoLostWakeup'
  BY <1>1, <1>3 DEF NoLostWakeup
<1>7. HighestTriggerKept'
  BY <1>2 DEF HighestTriggerKept, QueueTypeOK
<1>8. RunsOneJob'
  BY <1>3 DEF RunsOneJob
<1> QED
  BY <1>4, <1>5, <1>6, <1>7, <1>8

LEMMA TakePreserves ==
    ASSUME QueueInv, TakeJob
    PROVE  QueueInv'
<1> DEFINE k == Head(order)
<1> USE DEF QueueInv
<1>1. order \in Seq(Key) /\ order # << >>
  BY DEF QueueTypeOK, TakeJob
<1>2. /\ order' \in Seq(Key)
      /\ Len(order) \in Nat \ {0}
      /\ DOMAIN order = 1 .. Len(order)
      /\ DOMAIN order' = 1 .. Len(order) - 1
      /\ \A i \in DOMAIN order' : order'[i] = order[i + 1]
      /\ k = order[1]
  BY <1>1, EmptySeq, HeadTailProperties DEF TakeJob
<1>3. k \in DOMAIN pending /\ k \in Key /\ pending[k] \in Line!Trigger
  BY <1>2 DEF QueueConsistent, QueueTypeOK
<1>4. /\ DOMAIN pending' = DOMAIN pending \ {k}
      /\ DOMAIN asked' = DOMAIN asked \ {k}
      /\ \A x \in DOMAIN pending' : pending'[x] = pending[x]
      /\ \A x \in DOMAIN asked' : asked'[x] = asked[x]
  BY DEF TakeJob, Without
<1>5. UNCHANGED <<kick, closed, ctxDone, sending>> /\ worker' = "run"
      /\ running' = {[key |-> k, trigger |-> pending[k]]}
  BY DEF TakeJob
<1>6. QueueTypeOK'
  <2>1. running' \in SUBSET Line!Job
    BY <1>3, <1>5 DEF Line!Job
  <2> QED
    BY <1>2, <1>4, <1>5, <2>1 DEF QueueTypeOK
<1>7. QueueConsistent'
  <2>1. \A i, j \in DOMAIN order : order[i] = order[j] => i = j
    BY DEF QueueConsistent
  <2>2. \A i \in DOMAIN order' : i + 1 \in DOMAIN order /\ i + 1 # 1
    BY <1>2
  <2>3. \A i, j \in DOMAIN order' : order'[i] = order'[j] => i = j
    <3> SUFFICES ASSUME NEW i \in DOMAIN order', NEW j \in DOMAIN order', order'[i] = order'[j]
                 PROVE  i = j
      OBVIOUS
    <3>1. i + 1 = j + 1
      BY <1>2, <2>1, <2>2
    <3> QED
      BY <1>2, <3>1
  <2>4. ASSUME NEW i \in DOMAIN order'
        PROVE  order'[i] \in DOMAIN pending \ {k}
    <3>1. order[i + 1] \in DOMAIN pending
      BY <2>2 DEF QueueConsistent
    <3>2. 1 \in DOMAIN order
      BY <1>2
    <3>3. order[i + 1] # order[1]
      BY <2>1, <2>2, <3>2
    <3> QED
      BY <1>2, <3>1, <3>3
  <2>5. ASSUME NEW x \in DOMAIN pending \ {k}
        PROVE  \E i \in DOMAIN order' : order'[i] = x
    <3>1. PICK i \in DOMAIN order : order[i] = x
      BY DEF QueueConsistent
    <3>2. i # 1
      BY <1>2, <3>1
    <3>3. i - 1 \in DOMAIN order' /\ (i - 1) + 1 = i
      BY <1>2, <3>2
    <3> QED
      BY <1>2, <3>1, <3>3
  <2>6. {order'[i] : i \in DOMAIN order'} = DOMAIN pending'
    BY <1>4, <2>4, <2>5
  <2> QED
    BY <2>3, <2>6 DEF QueueConsistent
<1>8. NoLostWakeup'
  BY <1>5 DEF NoLostWakeup
<1>9. HighestTriggerKept'
  BY <1>4 DEF HighestTriggerKept, QueueTypeOK
<1>10. RunsOneJob'
  BY <1>5 DEF RunsOneJob
<1> QED
  BY <1>6, <1>7, <1>8, <1>9, <1>10

(* The other steps leave the slice, the map and the history alone.         *)
LEMMA OtherStepsPreserve ==
    ASSUME QueueInv,
           \/ \E p \in Producer : SendKick(p)
           \/ Close \/ CancelCtx \/ TakeNothing \/ WakeUp \/ GiveUp \/ FinishJob
           \/ UNCHANGED queueVars
    PROVE  QueueInv'
<1> USE DEF QueueInv, SendKick, Close, CancelCtx, TakeNothing, WakeUp, GiveUp, FinishJob, queueVars
<1>1. UNCHANGED <<order, pending, asked>>
  OBVIOUS
<1>2. QueueConsistent' /\ HighestTriggerKept'
  BY <1>1 DEF QueueConsistent, HighestTriggerKept
<1>3. QueueTypeOK'
  BY <1>1 DEF QueueTypeOK
<1>4. NoLostWakeup'
  BY DEF NoLostWakeup, QueueTypeOK
<1>5. RunsOneJob'
  BY DEF RunsOneJob
<1> QED
  BY <1>2, <1>3, <1>4, <1>5

LEMMA StepQueueInv == QueueInv /\ [QueueNext]_queueVars => QueueInv'
<1> SUFFICES ASSUME QueueInv, [QueueNext]_queueVars PROVE QueueInv'
  OBVIOUS
<1>1. ASSUME NEW p \in Producer, NEW k \in Key, NEW tr \in UsedTrigger, EnqueueNew(p, k, tr)
      PROVE  QueueInv'
  BY <1>1, NewPreserves
<1>2. ASSUME NEW p \in Producer, NEW k \in Key, NEW tr \in UsedTrigger, EnqueueMerge(p, k, tr)
      PROVE  QueueInv'
  BY <1>2, MergePreserves
<1>3. ASSUME NEW t \in Task, DropTask(t)
      PROVE  QueueInv'
  BY <1>3, DropPreserves
<1>4. CASE TakeJob
  BY <1>4, TakePreserves
<1> QED
  BY <1>1, <1>2, <1>3, <1>4, OtherStepsPreserve DEF QueueNext, Worker

(* The queue's invariants hold in every reachable state.                   *)
THEOREM QueueInvariant == SafeQueueSpec => []QueueInv
  BY InitQueueInv, StepQueueInv, PTL DEF SafeQueueSpec

(* The slice and the map of the queue always hold the same keys, each key  *)
(* once in the slice.                                                      *)
THEOREM QueueIsConsistent == QueueSpec => []QueueConsistent
<1>1. QueueInv => QueueConsistent
  BY DEF QueueInv
<1> QED
  BY <1>1, QueueInvariant, PTL DEF QueueSpec

(* No wake-up is ever lost: a worker that waits with work before it has a  *)
(* token in the channel or a producer about to send one.                   *)
THEOREM WakeupIsNeverLost == QueueSpec => []NoLostWakeup
<1>1. QueueInv => NoLostWakeup
  BY DEF QueueInv
<1> QED
  BY <1>1, QueueInvariant, PTL DEF QueueSpec

(* A waiting job carries the highest trigger asked for since it joined.    *)
THEOREM HighestTriggerIsKept == QueueSpec => []HighestTriggerKept
<1>1. QueueInv => HighestTriggerKept
  BY DEF QueueInv
<1> QED
  BY <1>1, QueueInvariant, PTL DEF QueueSpec

-----------------------------------------------------------------------------
(* The refinement: every initial state maps to an initial state of JobLine *)
(* and every step to a step of JobLine or a stutter.                       *)

(* The abstract line that a state of the queue stands for.                 *)
LineNow == [i \in DOMAIN order |-> [key |-> order[i], trigger |-> pending[order[i]]]]

LineNowOK ==
    /\ LineNow \in Seq(Line!Job)
    /\ DOMAIN LineNow = DOMAIN order
    /\ DOMAIN order = 1 .. Len(order)
    /\ Len(LineNow) = Len(order)
    /\ \A i \in DOMAIN order : order[i] \in DOMAIN pending

(* In a state of the invariant it is a sequence of jobs as long as order.  *)
LEMMA LineNowType == QueueInv => LineNowOK
<1> SUFFICES ASSUME QueueInv PROVE LineNowOK
  OBVIOUS
<1>1. order \in Seq(Key) /\ DOMAIN order = 1 .. Len(order) /\ Len(order) \in Nat
  BY DEF QueueInv, QueueTypeOK
<1>2. \A i \in DOMAIN order : order[i] \in DOMAIN pending /\ order[i] \in Key
  BY <1>1 DEF QueueInv, QueueConsistent
<1>3. \A i \in 1 .. Len(order) :
            [key |-> order[i], trigger |-> pending[order[i]]] \in Line!Job
  BY <1>1, <1>2 DEF QueueInv, QueueTypeOK, Line!Job
<1>4. LineNow \in Seq(Line!Job)
  BY <1>1, <1>3 DEF LineNow
<1>5. DOMAIN LineNow = 1 .. Len(order)
  BY <1>1 DEF LineNow
<1>6. Len(LineNow) = Len(order)
  BY <1>1, <1>4, <1>5, LenProperties
<1> QED
  BY <1>1, <1>2, <1>4, <1>5, <1>6 DEF LineNowOK

LEMMA LineNowTypeNext == QueueInv' => LineNowOK'
  BY LineNowType, PTL

LEMMA NewIsRequest ==
    ASSUME QueueInv, QueueInv', NEW p \in Producer, NEW k \in Key, NEW tr \in UsedTrigger,
           EnqueueNew(p, k, tr)
    PROVE  Line!Request(k, tr)
<1> DEFINE job == [key |-> k, trigger |-> tr]
<1>0. job \in Line!Job
  BY WorkQueueAssumption DEF Line!Job
<1>1. /\ order \in Seq(Key) /\ Len(order) \in Nat
      /\ order' = Append(order, k)
      /\ k \notin DOMAIN pending
      /\ DOMAIN pending' = DOMAIN pending \cup {k}
      /\ pending'[k] = tr
      /\ \A x \in DOMAIN pending : pending'[x] = pending[x]
  BY DEF QueueInv, QueueTypeOK, EnqueueNew
<1>2. /\ LineNow \in Seq(Line!Job) /\ LineNow' \in Seq(Line!Job)
      /\ Len(LineNow) = Len(order) /\ Len(LineNow') = Len(order')
      /\ DOMAIN order = 1 .. Len(order)
      /\ DOMAIN order' = 1 .. Len(order')
      /\ \A i \in DOMAIN order : order[i] \in DOMAIN pending
  BY LineNowType, LineNowTypeNext DEF LineNowOK
<1>3. Len(order') = Len(order) + 1
  BY <1>1
<1>4. /\ Append(LineNow, job) \in Seq(Line!Job)
      /\ Len(Append(LineNow, job)) = Len(order) + 1
      /\ \A i \in 1 .. Len(order) : Append(LineNow, job)[i] = LineNow[i]
      /\ Append(LineNow, job)[Len(order) + 1] = job
  BY <1>0, <1>2, AppendProperties
<1>5. \A i \in 1 .. Len(order) : LineNow'[i] = LineNow[i]
  <2> SUFFICES ASSUME NEW i \in 1 .. Len(order)
               PROVE  LineNow'[i] = LineNow[i]
    OBVIOUS
  <2>1. order'[i] = order[i] /\ order[i] \in DOMAIN pending /\ i \in DOMAIN order'
        /\ i \in DOMAIN order
    BY <1>1, <1>2, <1>3
  <2> QED
    BY <1>1, <2>1 DEF LineNow
<1>6. LineNow'[Len(order) + 1] = job
  <2>1. order'[Len(order) + 1] = k /\ Len(order) + 1 \in DOMAIN order'
    BY <1>1, <1>2, <1>3
  <2> QED
    BY <1>1, <2>1 DEF LineNow
<1>7. LineNow' = Append(LineNow, job)
  <2>1. \A i \in 1 .. Len(LineNow') : LineNow'[i] = Append(LineNow, job)[i]
    BY <1>1, <1>2, <1>3, <1>4, <1>5, <1>6
  <2> QED
    BY <1>2, <1>3, <1>4, <2>1, SeqEqual
<1>8. {i \in DOMAIN LineNow : LineNow[i].key = k} = {}
  BY <1>1, <1>2 DEF LineNow
<1> QED
  BY <1>7, <1>8 DEF Line!Request, Line!PositionsOf, LineNow, EnqueueNew

LEMMA MergeIsRequest ==
    ASSUME QueueInv, NEW p \in Producer, NEW k \in Key, NEW tr \in UsedTrigger,
           EnqueueMerge(p, k, tr)
    PROVE  Line!Request(k, tr)
<1>1. /\ order' = order
      /\ pending'[k] = Line!Higher(pending[k], tr)
      /\ \A x \in DOMAIN pending : x # k => pending'[x] = pending[x]
      /\ k \in DOMAIN pending
  BY DEF EnqueueMerge
<1>2. PICK j \in DOMAIN order : order[j] = k
  BY <1>1 DEF QueueInv, QueueConsistent
<1>3. {i \in DOMAIN LineNow : LineNow[i].key = k} # {}
  BY <1>2 DEF LineNow
<1>4. LineNow' = [i \in DOMAIN LineNow |->
                    IF LineNow[i].key = k
                    THEN [LineNow[i] EXCEPT !.trigger = Line!Higher(@, tr)]
                    ELSE LineNow[i]]
  <2>1. \A i \in DOMAIN order : order[i] \in DOMAIN pending
    BY LineNowType DEF LineNowOK
  <2>2. \A i \in DOMAIN order :
            [key |-> order[i], trigger |-> pending'[order[i]]] =
                IF order[i] = k
                THEN [key |-> order[i], trigger |-> Line!Higher(pending[order[i]], tr)]
                ELSE [key |-> order[i], trigger |-> pending[order[i]]]
    BY <1>1, <2>1
  <2> QED
    BY <1>1, <2>2 DEF LineNow
<1> QED
  BY <1>3, <1>4 DEF Line!Request, Line!PositionsOf, LineNow, EnqueueMerge

(* The line's copy of SelectAt is the queue's.                             *)
LEMMA SameSelection ==
    ASSUME NEW s, NEW I
    PROVE  Line!SelectAt(s, I) = SelectAt(s, I)
<1>1. ASSUME NEW S
      PROVE  Line!Cardinality(S) = Cardinality(S)
  BY Zenon DEF Line!Cardinality, Cardinality
<1>2. ASSUME NEW i
      PROVE  Line!RankIn(I, i) = RankIn(I, i)
  BY <1>1, Zenon DEF Line!RankIn, RankIn
<1>3. ASSUME NEW m
      PROVE  Line!NthOf(I, m) = NthOf(I, m)
  BY <1>2 DEF Line!NthOf, NthOf
<1> QED
  BY <1>1, <1>3 DEF Line!SelectAt, SelectAt

LEMMA DropIsWithdraw ==
    ASSUME QueueInv, QueueInv', NEW t \in Task, DropTask(t)
    PROVE  Line!Withdraw(t)
<1> DEFINE I == {i \in DOMAIN order : TaskOf[order[i]] # t}
           J == {i \in DOMAIN LineNow : TaskOf[LineNow[i].key] # t}
<1>1. I = J
  BY DEF LineNow
<1>2. order' = SelectAt(order, I)
  BY DEF DropTask
<1>3. order \in Seq(Key) /\ DOMAIN order = 1 .. Len(order) /\ Len(order) \in Nat
  BY DEF QueueInv, QueueTypeOK
<1>4. I \in SUBSET Nat /\ IsFiniteSet(I)
  <2>1. IsFiniteSet(1 .. Len(order))
    BY <1>3, FS_Interval
  <2> QED
    BY <1>3, <2>1, FS_Subset
<1>5. DOMAIN order' = 1 .. Cardinality(I)
  BY <1>2 DEF SelectAt
<1>6. \A m \in 1 .. Cardinality(I) : order'[m] = order[NthOf(I, m)] /\ NthOf(I, m) \in I
  BY <1>2, <1>4, NthOfRank DEF SelectAt
<1>7. \A m \in 1 .. Cardinality(I) : pending'[order'[m]] = pending[order'[m]]
  <2>1. \A k \in DOMAIN pending' : pending'[k] = pending[k]
    BY DEF DropTask, Without
  <2>2. \A m \in DOMAIN order' : order'[m] \in DOMAIN pending'
    BY LineNowTypeNext DEF LineNowOK
  <2> QED
    BY <1>5, <2>1, <2>2
<1>8. \A m \in 1 .. Cardinality(I) :
            [key |-> order'[m], trigger |-> pending'[order'[m]]] = LineNow[NthOf(I, m)]
  BY <1>6, <1>7 DEF LineNow
<1>9. LineNow' = [m \in 1 .. Cardinality(I) |-> LineNow[NthOf(I, m)]]
  BY <1>5, <1>8 DEF LineNow
<1>10. LineNow' = Line!SelectAt(LineNow, J)
  BY <1>1, <1>9, SameSelection DEF SelectAt
<1> QED
  BY <1>10 DEF Line!Withdraw, LineNow, DropTask

LEMMA TakeIsServe ==
    ASSUME QueueInv, QueueInv', TakeJob
    PROVE  Line!Serve
<1>1. /\ order \in Seq(Key) /\ order # << >> /\ Len(order) \in Nat \ {0}
      /\ order' = Tail(order)
      /\ \A k \in DOMAIN pending' : pending'[k] = pending[k]
  BY EmptySeq DEF QueueInv, QueueTypeOK, TakeJob, Without
<1>2. /\ LineNow \in Seq(Line!Job) /\ LineNow' \in Seq(Line!Job)
      /\ Len(LineNow) = Len(order) /\ Len(LineNow') = Len(order')
      /\ DOMAIN order = 1 .. Len(order)
      /\ DOMAIN order' = 1 .. Len(order')
      /\ \A i \in DOMAIN order' : order'[i] \in DOMAIN pending'
  BY LineNowType, LineNowTypeNext DEF LineNowOK
<1>3. /\ Len(order') = Len(order) - 1
      /\ \A i \in 1 .. Len(order') : order'[i] = order[i + 1]
      /\ Head(order) = order[1]
  BY <1>1, HeadTailProperties
<1>4. LineNow # << >>
  BY <1>1, <1>2, EmptySeq
<1>5. /\ Tail(LineNow) \in Seq(Line!Job)
      /\ Len(Tail(LineNow)) = Len(LineNow) - 1
      /\ \A i \in 1 .. Len(Tail(LineNow)) : Tail(LineNow)[i] = LineNow[i + 1]
      /\ Head(LineNow) = LineNow[1]
  BY <1>2, <1>4, HeadTailProperties
<1>6. \A i \in 1 .. Len(LineNow') : LineNow'[i] = Tail(LineNow)[i]
  <2> SUFFICES ASSUME NEW i \in 1 .. Len(LineNow')
               PROVE  LineNow'[i] = Tail(LineNow)[i]
    OBVIOUS
  <2>1. i \in DOMAIN order' /\ i + 1 \in DOMAIN order /\ i \in 1 .. Len(Tail(LineNow))
    BY <1>1, <1>2, <1>3, <1>5
  <2>2. LineNow'[i] = [key |-> order[i + 1], trigger |-> pending[order[i + 1]]]
    BY <1>1, <1>2, <1>3, <2>1 DEF LineNow
  <2>3. Tail(LineNow)[i] = [key |-> order[i + 1], trigger |-> pending[order[i + 1]]]
    BY <1>5, <2>1 DEF LineNow
  <2> QED
    BY <2>2, <2>3
<1>7. LineNow' = Tail(LineNow)
  BY <1>1, <1>2, <1>3, <1>5, <1>6, SeqEqual
<1>8. running' = {Head(LineNow)}
  <2>1. 1 \in DOMAIN order
    BY <1>1, <1>2
  <2>2. Head(LineNow) = [key |-> Head(order), trigger |-> pending[Head(order)]]
    BY <1>3, <1>5, <2>1 DEF LineNow
  <2> QED
    BY <2>2 DEF TakeJob
<1>9. running = {} /\ ~(worker = "exit") /\ ~(worker' = "exit")
      /\ UNCHANGED <<closed, ctxDone>>
  BY DEF TakeJob, QueueInv, RunsOneJob
<1> QED
  BY <1>4, <1>7, <1>8, <1>9 DEF Line!Serve, LineNow

(* The remaining steps leave the line alone.                               *)
LEMMA OtherStepsImplement ==
    ASSUME QueueInv,
           \/ \E p \in Producer : SendKick(p)
           \/ Close \/ CancelCtx \/ TakeNothing \/ WakeUp \/ GiveUp \/ FinishJob
           \/ UNCHANGED queueVars
    PROVE  [Line!LineNext]_Line!lineVars
<1>1. UNCHANGED <<order, pending>>
  BY DEF SendKick, Close, CancelCtx, TakeNothing, WakeUp, GiveUp, FinishJob, queueVars
<1>2. LineNow' = LineNow
  BY <1>1 DEF LineNow
<1>3. LineNow = << >> <=> order = << >>
  BY LineNowType, EmptySeq DEF LineNowOK, QueueInv, QueueTypeOK
<1>4. CASE \/ \E p \in Producer : SendKick(p)
           \/ WakeUp
           \/ UNCHANGED queueVars
  BY <1>2, <1>4 DEF SendKick, WakeUp, queueVars, Line!lineVars, LineNow
<1>5. CASE Close
  <2>1. Line!CloseLine
    BY <1>2, <1>5 DEF Close, Line!CloseLine, LineNow
  <2> QED
    BY <2>1 DEF Line!LineNext
<1>6. CASE CancelCtx
  <2>1. Line!Cancel
    BY <1>2, <1>6 DEF CancelCtx, Line!Cancel, LineNow
  <2> QED
    BY <2>1 DEF Line!LineNext
<1>7. CASE TakeNothing /\ ~closed
  BY <1>2, <1>7 DEF TakeNothing, Line!lineVars, LineNow
<1>8. CASE (TakeNothing /\ closed) \/ GiveUp
  <2>1. Line!Leave
    <3>1. ctxDone \/ (closed /\ LineNow = << >>)
      BY <1>3, <1>8 DEF TakeNothing, GiveUp
    <3>2. running = {} /\ worker # "exit" /\ worker' = "exit"
          /\ UNCHANGED <<closed, ctxDone, running>>
      BY <1>8 DEF TakeNothing, GiveUp, QueueInv, RunsOneJob, QueueTypeOK
    <3> QED
      BY <1>2, <3>1, <3>2 DEF Line!Leave, LineNow
  <2> QED
    BY <2>1 DEF Line!LineNext
<1>9. CASE FinishJob
  <2>1. Line!Finish
    <3>1. running # {}
      BY <1>9 DEF FinishJob, QueueInv, RunsOneJob
    <3> QED
      BY <1>2, <1>9, <3>1 DEF FinishJob, Line!Finish, LineNow
  <2> QED
    BY <2>1 DEF Line!LineNext
<1> QED
  BY <1>4, <1>5, <1>6, <1>7, <1>8, <1>9

LEMMA StepImplements == QueueInv /\ QueueInv' /\ [QueueNext]_queueVars => [Line!LineNext]_Line!lineVars
<1> SUFFICES ASSUME QueueInv, QueueInv', [QueueNext]_queueVars PROVE [Line!LineNext]_Line!lineVars
  OBVIOUS
<1>1. ASSUME NEW p \in Producer, NEW k \in Key, NEW tr \in UsedTrigger,
             EnqueueNew(p, k, tr) \/ EnqueueMerge(p, k, tr)
      PROVE  Line!LineNext
  <2>1. Line!Request(k, tr)
    BY <1>1, NewIsRequest, MergeIsRequest
  <2> QED
    BY <2>1, WorkQueueAssumption DEF Line!LineNext
<1>2. ASSUME NEW t \in Task, DropTask(t)
      PROVE  Line!LineNext
  <2>1. Line!Withdraw(t)
    BY <1>2, DropIsWithdraw
  <2> QED
    BY <2>1 DEF Line!LineNext
<1>3. CASE TakeJob
  BY <1>3, TakeIsServe DEF Line!LineNext
<1> QED
  BY <1>1, <1>2, <1>3, OtherStepsImplement DEF QueueNext, Worker

LEMMA InitImplements == QueueInit => Line!LineInit
<1> SUFFICES ASSUME QueueInit PROVE Line!LineInit
  OBVIOUS
<1>1. order = << >> /\ DOMAIN order = {}
  BY DEF QueueInit
<1>2. LineNow = << >>
  BY <1>1 DEF LineNow
<1> QED
  BY <1>2 DEF QueueInit, Line!LineInit, LineNow

(* Whatever the interleaving of producers, task removals, shutdown and     *)
(* worker, the queue behaves as the abstract line: jobs leave it in the    *)
(* order in which they joined it, each request is merged or queued, and    *)
(* one job runs at a time. (That it keeps moving is model-checked.)        *)
THEOREM QueueImplementsLine == SafeQueueSpec => Line!LineSafeSpec
<1>1. SafeQueueSpec => [][Line!LineNext]_Line!lineVars
  BY QueueInvariant, StepImplements, PTL DEF SafeQueueSpec
<1> QED
  BY <1>1, InitImplements, PTL DEF SafeQueueSpec, Line!LineSafeSpec

-----------------------------------------------------------------------------

(* Two numbers closer than the capacity have different slots.              *)
LEMMA SlotsDiffer ==
    ASSUME NEW a \in Nat, NEW b \in Nat, a < b, b - a < Cap
    PROVE  a % Cap # b % Cap
<1> USE LogFeedAssumption
<1> DEFINE qa == a \div Cap
           qb == b \div Cap
<1>1. Cap \in Nat /\ Cap > 0
  OBVIOUS
<1>2. a = (Cap * qa) + (a % Cap) /\ qa \in Int /\ a % Cap \in Nat
  BY <1>1
<1>3. b = (Cap * qb) + (b % Cap) /\ qb \in Int /\ b % Cap \in Nat
  BY <1>1
<1> HIDE DEF qa, qb
<1>4. SUFFICES ASSUME a % Cap = b % Cap PROVE FALSE
  OBVIOUS
<1>5. b - a = Cap * (qb - qa)
  BY <1>1, <1>2, <1>3, <1>4
<1>6. CASE qb - qa <= 0
  BY <1>1, <1>2, <1>3, <1>5, <1>6
<1>7. CASE qb - qa >= 1
  BY <1>1, <1>2, <1>3, <1>5, <1>7
<1> QED
  BY <1>2, <1>3, <1>6, <1>7

(* Entries of a ring of at most Cap entries are closer than the capacity.  *)
LEMMA WindowIsShort ==
    ASSUME NEW s \in Nat, NEW lo \in Nat, NEW len \in Nat, NEW hi \in Nat, NEW cap \in Nat,
           lo <= s, hi + 1 = lo + len, len <= cap
    PROVE  hi - s < cap
  OBVIOUS

(* A slot's number is in the ring.                                         *)
LEMMA SlotInRing == \A s \in Nat : s % Cap \in Slot
  BY LogFeedAssumption DEF Slot

-----------------------------------------------------------------------------
(***************************************************************************)
(* What holds of one client's stream. What is in the ring and came before  *)
(* lastLogSeq has been sent or was cut off; a token is there unless the    *)
(* stream has read, or is about to compare with, the current number.       *)
(***************************************************************************)
StreamOK(c) ==
    /\ StreamAt(c, "off") <=> signal[c] = "none"
    /\ stream[c].last <= next
    /\ stream[c].seq <= next
    /\ stream[c].pc \in {"select", "seq", "since", "write"} =>
            \A s \in Buffered : s < stream[c].last => s \in got[c] \cup cuts[c]
    /\ StreamAt(c, "since") /\ signal[c] = "empty" => stream[c].seq = next
    /\ stream[c].pc \in {"select", "write"} /\ signal[c] = "empty" =>
            stream[c].last = next \/ Buffered \subseteq got[c]

FeedInv == FeedTypeOK /\ RingLayout /\ \A c \in Client : StreamOK(c)

(* The whole ring as it is sent to a new client.                           *)
LEMMA SnapshotIsBuffered ==
    ASSUME FeedTypeOK, RingLayout
    PROVE  /\ Entries(Snapshot) = Buffered
           /\ Snapshot # << >> => Head(Snapshot) \in Buffered
<1> USE LogFeedAssumption
<1>1. n \in Nat /\ start \in Nat /\ next \in Nat /\ next = start + n
  BY DEF FeedTypeOK, RingLayout
<1>2. \A i \in 1 .. n : start + n - i \in Buffered
  BY <1>1 DEF Buffered
<1>3. \A i \in 1 .. n : Snapshot[i] = start + n - i
  BY <1>2 DEF Snapshot, RingLayout
<1>4. DOMAIN Snapshot = 1 .. n
  BY DEF Snapshot
<1>5. \A s \in Buffered : next - s \in 1 .. n /\ start + n - (next - s) = s
  BY <1>1 DEF Buffered
<1>6. Entries(Snapshot) = Buffered
  BY <1>2, <1>3, <1>4, <1>5 DEF Entries
<1>7. ASSUME Snapshot # << >> PROVE Head(Snapshot) \in Buffered
  <2>1. n > 0
    BY <1>1, <1>7 DEF Snapshot
  <2>2. Snapshot \in Seq(Buffered)
    BY <1>1, <1>2, <1>3, <1>4 DEF Snapshot
  <2> QED
    BY <1>7, <2>2
<1> QED
  BY <1>6, <1>7

(* An increment: nothing that is not in the ring, all that came after seq. *)
LEMMA SinceIsBuffered ==
    ASSUME FeedTypeOK, RingLayout, NEW q \in Nat
    PROVE  /\ Entries(Since(q)) \subseteq Buffered
           /\ \A s \in Buffered : s > q => s \in Entries(Since(q))
<1> USE LogFeedAssumption
<1>1. n \in Nat /\ start \in Nat /\ next \in Nat /\ next = start + n
  BY DEF FeedTypeOK, RingLayout
<1>2. CASE n = 0 \/ q >= next
  <2>1. Since(q) = << >>
    BY <1>2 DEF Since
  <2>2. Entries(Since(q)) = {}
    BY <2>1 DEF Entries
  <2> QED
    BY <1>1, <1>2, <2>2 DEF Buffered
<1>3. CASE ~(n = 0 \/ q >= next)
  <2> DEFINE lo == IF q > start THEN q + 1 ELSE start
  <2>1. lo \in Nat /\ start <= lo /\ lo <= next /\ \A s \in Buffered : s > q => s >= lo
    BY <1>1, <1>3 DEF Buffered
  <2>2. Since(q) = [i \in 1 .. next - lo |-> buf[(next - i) % Cap]]
    BY <1>3 DEF Since
  <2> HIDE DEF lo
  <2>3. \A i \in 1 .. next - lo : next - i \in Buffered
    BY <1>1, <2>1 DEF Buffered
  <2>4. \A i \in 1 .. next - lo : Since(q)[i] = next - i
    BY <2>2, <2>3 DEF RingLayout
  <2>5. DOMAIN Since(q) = 1 .. next - lo
    BY <2>2
  <2>6. ASSUME NEW s \in Buffered, s > q PROVE s \in Entries(Since(q))
    <3>1. s >= lo
      BY <2>1, <2>6
    <3>2. next - s \in 1 .. next - lo /\ next - (next - s) = s
      BY <1>1, <2>1, <3>1 DEF Buffered
    <3> QED
      BY <2>4, <2>5, <3>2 DEF Entries
  <2> QED
    BY <2>3, <2>4, <2>5, <2>6 DEF Entries
<1> QED
  BY <1>2, <1>3

-----------------------------------------------------------------------------
LEMMA InitFeedInv == FeedInit => FeedInv
<1> SUFFICES ASSUME FeedInit PROVE FeedInv
  OBVIOUS
<1>1. FeedTypeOK
  BY LogFeedAssumption DEF FeedInit, FeedTypeOK, Slot, empty, Off
<1>2. RingLayout
  BY DEF FeedInit, RingLayout, Buffered
<1>3. \A c \in Client : StreamOK(c)
  BY DEF FeedInit, StreamOK, StreamAt, Off
<1> QED
  BY <1>1, <1>2, <1>3 DEF FeedInv

(* A new entry overwrites at most the oldest one, and everyone gets a      *)
(* token.                                                                  *)
LEMMA AddPreserves == ASSUME FeedInv, Add PROVE FeedInv'
<1> USE LogFeedAssumption
<1>1. /\ n \in 0 .. Cap /\ start \in Nat /\ next \in Nat /\ next < MaxSeq
      /\ next = start + n /\ buf \in [Slot -> 0 .. MaxSeq]
  BY DEF FeedInv, FeedTypeOK, RingLayout, Add
<1>2. next % Cap \in Slot
  BY <1>1, SlotInRing
<1>3. /\ next' = next + 1 /\ n' \in 0 .. Cap /\ start' \in {start, start + 1}
      /\ next' = start' + n'
  BY <1>1 DEF Add
<1>4. FeedTypeOK'
  <2>1. buf' \in [Slot -> 0 .. MaxSeq]
    BY <1>1, <1>2 DEF Add
  <2>2. start' \in 0 .. MaxSeq /\ next' \in 0 .. MaxSeq
    BY <1>1, <1>3
  <2>3. signal' \in [Client -> {"none", "empty", "full"}]
    BY DEF Add, Broadcast
  <2> QED
    BY <1>3, <2>1, <2>2, <2>3 DEF FeedInv, FeedTypeOK, Add, streamVars
<1>5. RingLayout'
  <2>1. ASSUME NEW s \in Buffered' PROVE buf'[s % Cap] = s
    <3>1. s \in Nat /\ s <= next /\ next - s < Cap
      <4>1. s \in start' .. next' - 1 /\ Cap \in Nat
        BY DEF Buffered
      <4>2. start' \in Nat /\ n' \in Nat /\ n' <= Cap
        BY <1>1, <1>3, <4>1
      <4>3. next \in Nat /\ next' = next + 1 /\ next' = start' + n'
        BY <1>1, <1>3
      <4>4. s \in Nat
        BY <4>1, <4>2, <4>3
      <4>5. s <= next
        BY <4>1, <4>2, <4>3
      <4>6. start' <= s
        BY <4>1, <4>2, <4>3
      <4>7. next - s < Cap
        BY <4>1, <4>2, <4>3, <4>4, <4>6, WindowIsShort
      <4> QED
        BY <4>4, <4>5, <4>7
    <3>2. CASE s = next
      BY <1>1, <1>2, <3>2 DEF Add
    <3>3. CASE s # next
      <4>1. s < next /\ next \in Nat
        BY <1>1, <3>1, <3>3
      <4>2. s % Cap # next % Cap
        BY <3>1, <4>1, SlotsDiffer
      <4>3. s % Cap \in Slot
        BY <3>1, SlotInRing
      <4>4. s \in Buffered
        BY <1>1, <1>3, <3>1, <3>3 DEF Buffered
      <4> QED
        BY <1>1, <4>2, <4>3, <4>4 DEF FeedInv, RingLayout, Add
    <3> QED
      BY <3>2, <3>3
  <2> QED
    BY <1>3, <2>1 DEF RingLayout
<1>6. ASSUME NEW c \in Client PROVE StreamOK(c)'
  <2>1. StreamOK(c) /\ stream' = stream /\ got' = got /\ cuts' = cuts
    BY DEF FeedInv, Add, streamVars
  <2>2. signal'[c] = IF signal[c] = "none" THEN "none" ELSE "full"
    BY DEF Add, Broadcast
  <2>3. stream[c].last \in Nat /\ stream[c].seq \in Nat
    BY DEF FeedInv, FeedTypeOK
  <2>4. \A s \in Buffered' : s < stream[c].last => s \in Buffered
    BY <1>1, <1>3, <2>1, <2>3 DEF Buffered, StreamOK
  <2> QED
    BY <1>1, <1>3, <2>1, <2>2, <2>3, <2>4 DEF StreamOK, StreamAt
<1> QED
  BY <1>4, <1>5, <1>6 DEF FeedInv

(* Clearing empties the ring for everyone.                                 *)
LEMMA ClearPreserves == ASSUME FeedInv, Clear PROVE FeedInv'
<1>1. FeedTypeOK'
  BY LogFeedAssumption DEF FeedInv, FeedTypeOK, Clear, streamVars
<1>2. Buffered' = {}
  BY LogFeedAssumption DEF FeedInv, FeedTypeOK, Clear, Buffered
<1>3. RingLayout'
  BY <1>2, LogFeedAssumption DEF FeedInv, FeedTypeOK, RingLayout, Clear
<1>4. \A c \in Client : StreamOK(c)'
  BY <1>2 DEF FeedInv, StreamOK, StreamAt, Clear, streamVars
<1> QED
  BY <1>1, <1>3, <1>4 DEF FeedInv

(* A stream's own steps leave the ring and the other streams alone.        *)
LEMMA StreamPreserves ==
    ASSUME FeedInv, NEW c \in Client, Subscribe(c) \/ Streaming(c) \/ Disconnect(c)
    PROVE  FeedInv'
<1> USE LogFeedAssumption
<1> DEFINE Ids == [pc : {"off", "replay", "select", "seq", "since", "write"},
                   last : 0 .. MaxSeq, seq : 0 .. MaxSeq]
<1>1. /\ stream \in [Client -> Ids] /\ next \in 0 .. MaxSeq
      /\ signal \in [Client -> {"none", "empty", "full"}]
      /\ got \in [Client -> SUBSET (0 .. MaxSeq)] /\ cuts \in [Client -> SUBSET (0 .. MaxSeq)]
  BY DEF FeedInv, FeedTypeOK
<1>2. UNCHANGED feedVars
  BY DEF Subscribe, Streaming, Replay, Receive, ReadSeq, SendIncrement, Written, Disconnect, StreamGoto
<1>3. Buffered' = Buffered /\ Buffered \subseteq 0 .. MaxSeq
  BY <1>1, <1>2 DEF FeedInv, FeedTypeOK, Buffered, feedVars
<1>4. RingLayout'
  BY <1>2, <1>3 DEF FeedInv, RingLayout, feedVars
<1>5. SUFFICES /\ stream' \in [Client -> Ids]
               /\ signal' \in [Client -> {"none", "empty", "full"}]
               /\ got' \in [Client -> SUBSET (0 .. MaxSeq)]
               /\ cuts' \in [Client -> SUBSET (0 .. MaxSeq)]
               /\ \A d \in Client : StreamOK(d)'
  BY <1>2, <1>4 DEF FeedInv, FeedTypeOK, feedVars
<1>6. StreamOK(c) /\ next' = next
  BY <1>2 DEF FeedInv, feedVars
<1>7. ASSUME NEW d \in Client, d # c,
             stream'[d] = stream[d], signal'[d] = signal[d],
             got'[d] = got[d], cuts'[d] = cuts[d]
      PROVE  StreamOK(d)'
  BY <1>3, <1>6, <1>7 DEF FeedInv, StreamOK, StreamAt
<1>8. CASE Subscribe(c)
  <2>1. /\ stream' = [stream EXCEPT ![c].pc = "replay"]
        /\ signal' = [signal EXCEPT ![c] = "empty"] /\ got' = got /\ cuts' = cuts
    BY <1>8 DEF Subscribe, StreamGoto
  <2>2. StreamOK(c)'
    BY <1>1, <1>6, <2>1 DEF StreamOK, StreamAt
  <2> QED
    BY <1>1, <1>7, <2>1, <2>2
<1>9. CASE Replay(c)
  <2> DEFINE l == IF Snapshot = << >> THEN 0 ELSE Head(Snapshot)
  <2>1. /\ stream' = [stream EXCEPT ![c].pc = "write", ![c].last = l]
        /\ got' = [got EXCEPT ![c] = Entries(Snapshot)]
        /\ signal' = signal /\ cuts' = cuts /\ StreamAt(c, "replay")
    BY <1>9 DEF Replay
  <2>2. Entries(Snapshot) = Buffered /\ l \in 0 .. MaxSeq /\ l <= next
    BY <1>1, <1>3, SnapshotIsBuffered DEF FeedInv, Buffered, FeedTypeOK
  <2> HIDE DEF l
  <2>3. StreamOK(c)'
    BY <1>1, <1>3, <1>6, <2>1, <2>2 DEF StreamOK, StreamAt
  <2> QED
    BY <1>1, <1>3, <1>7, <2>1, <2>2, <2>3
<1>10. CASE Receive(c)
  <2>1. /\ stream' = [stream EXCEPT ![c].pc = "seq"]
        /\ signal' = [signal EXCEPT ![c] = "empty"] /\ got' = got /\ cuts' = cuts
        /\ StreamAt(c, "select") /\ signal[c] = "full"
    BY <1>10 DEF Receive, StreamGoto
  <2>2. StreamOK(c)'
    BY <1>1, <1>3, <1>6, <2>1 DEF StreamOK, StreamAt
  <2> QED
    BY <1>1, <1>7, <2>1, <2>2
<1>11. CASE ReadSeq(c)
  <2>1. /\ stream' = [stream EXCEPT ![c].pc = "since", ![c].seq = next]
        /\ signal' = signal /\ got' = got /\ cuts' = cuts /\ StreamAt(c, "seq")
    BY <1>11 DEF ReadSeq
  <2>2. StreamOK(c)'
    BY <1>1, <1>3, <1>6, <2>1 DEF StreamOK, StreamAt
  <2> QED
    BY <1>1, <1>7, <2>1, <2>2
<1>12. CASE SendIncrement(c)
  <2> DEFINE new == Entries(Since(stream[c].last))
  <2>1. /\ stream' = [stream EXCEPT ![c].pc = "write", ![c].last = stream[c].seq]
        /\ got' = [got EXCEPT ![c] = @ \cup new]
        /\ cuts' = [cuts EXCEPT ![c] = @ \cup {stream[c].last}]
        /\ signal' = signal /\ StreamAt(c, "since")
    BY <1>12 DEF SendIncrement
  <2>2. stream[c].last \in 0 .. MaxSeq /\ stream[c].seq \in 0 .. MaxSeq
    BY <1>1
  <2>3. new \subseteq Buffered /\ \A s \in Buffered : s > stream[c].last => s \in new
    BY <2>2, SinceIsBuffered DEF FeedInv
  <2> HIDE DEF new
  <2>4. \A s \in Buffered : s \in got'[c] \cup cuts'[c]
    <3>1. \A s \in Buffered : s < stream[c].last => s \in got[c] \cup cuts[c]
      BY <1>6, <2>1 DEF StreamOK, StreamAt
    <3>2. \A s \in Buffered : s < stream[c].last \/ s = stream[c].last \/ s > stream[c].last
      BY <1>3, <2>2
    <3> QED
      BY <1>1, <2>1, <2>3, <3>1, <3>2
  <2>5. stream'[c].pc = "write" /\ stream'[c].last = stream[c].seq /\ stream'[c].seq = stream[c].seq
    BY <1>1, <2>1
  <2>6. StreamOK(c)'
    BY <1>1, <1>3, <1>6, <2>1, <2>4, <2>5 DEF StreamOK, StreamAt
  <2> QED
    BY <1>1, <1>3, <1>7, <2>1, <2>2, <2>3, <2>6
<1>13. CASE Written(c)
  <2>1. /\ stream' = [stream EXCEPT ![c].pc = "select"]
        /\ signal' = signal /\ got' = got /\ cuts' = cuts /\ StreamAt(c, "write")
    BY <1>13 DEF Written, StreamGoto
  <2>2. StreamOK(c)'
    BY <1>1, <1>3, <1>6, <2>1 DEF StreamOK, StreamAt
  <2> QED
    BY <1>1, <1>7, <2>1, <2>2
<1>14. CASE Disconnect(c)
  <2>1. /\ stream' = [stream EXCEPT ![c] = Off] /\ signal' = [signal EXCEPT ![c] = "none"]
        /\ got' = [got EXCEPT ![c] = {}] /\ cuts' = [cuts EXCEPT ![c] = {}]
    BY <1>14 DEF Disconnect
  <2>2. Off \in Ids /\ Off.pc = "off" /\ Off.last = 0 /\ Off.seq = 0
    BY DEF Off
  <2>3. StreamOK(c)'
    BY <1>1, <1>6, <2>1, <2>2 DEF StreamOK, StreamAt
  <2> QED
    BY <1>1, <1>7, <2>1, <2>2, <2>3
<1> QED
  BY <1>8, <1>9, <1>10, <1>11, <1>12, <1>13, <1>14 DEF Streaming

LEMMA StepFeedInv == FeedInv /\ [FeedNext]_allVars => FeedInv'
<1> SUFFICES ASSUME FeedInv, [FeedNext]_allVars PROVE FeedInv'
  OBVIOUS
<1>1. CASE Add
  BY <1>1, AddPreserves
<1>2. CASE Clear
  BY <1>2, ClearPreserves
<1>3. ASSUME NEW c \in Client, Subscribe(c) \/ Streaming(c) \/ Disconnect(c) PROVE FeedInv'
  BY <1>3, StreamPreserves
<1>4. CASE UNCHANGED allVars
  BY <1>4 DEF FeedInv, FeedTypeOK, RingLayout, Buffered, StreamOK, StreamAt, allVars, feedVars, streamVars
<1> QED
  BY <1>1, <1>2, <1>3, <1>4 DEF FeedNext

(* The inductive invariant of the feed and its streams.                    *)
THEOREM FeedInvariant == FeedSpec => []FeedInv
<1>1. FeedInit => FeedInv
  BY InitFeedInv
<1>2. FeedInv /\ [FeedNext]_allVars => FeedInv'
  BY StepFeedInv
<1> QED
  BY <1>1, <1>2, PTL DEF FeedSpec

(* The ring keeps its layout, however it wraps and is cleared.             *)
THEOREM RingKeepsItsLayout == FeedSpec => [](FeedTypeOK /\ RingLayout)
<1>1. FeedInv => FeedTypeOK /\ RingLayout
  BY DEF FeedInv
<1> QED
  BY <1>1, FeedInvariant, PTL

(* No signal is lost: a stream that waits has nothing to catch up with.    *)
THEOREM WaitingStreamIsUpToDate == FeedSpec => []WaitingIsUpToDate
<1>1. FeedInv => WaitingIsUpToDate
  <2> SUFFICES ASSUME FeedInv, NEW c \in Client, StreamAt(c, "select"), signal[c] = "empty", n > 0
               PROVE  stream[c].last = next \/ next - 1 \in got[c]
    BY DEF WaitingIsUpToDate
  <2>1. next - 1 \in Buffered
    BY LogFeedAssumption DEF FeedInv, FeedTypeOK, RingLayout, Buffered
  <2>2. StreamOK(c)
    BY DEF FeedInv
  <2> QED
    BY <2>1, <2>2 DEF StreamOK, StreamAt
<1> QED
  BY <1>1, FeedInvariant, PTL

(* A stream misses at most the entries whose numbers it compared with.     *)
THEOREM StreamMissesOnlyCuts == FeedSpec => []OnlyCutsAreMissed
<1>1. FeedInv => OnlyCutsAreMissed
  <2> SUFFICES ASSUME FeedInv, NEW c \in Client, StreamAt(c, "select"), signal[c] = "empty",
                      NEW s \in Buffered
               PROVE  s \in got[c] \/ s \in cuts[c]
    BY DEF OnlyCutsAreMissed
  <2>1. StreamOK(c)
    BY DEF FeedInv
  <2>2. s < next
    BY LogFeedAssumption DEF FeedInv, FeedTypeOK, Buffered
  <2> QED
    BY <2>1, <2>2 DEF StreamOK, StreamAt
<1> QED
  BY <1>1, FeedInvariant, PTL

-----------------------------------------------------------------------------
(***************************************************************************)
(* The relay. What its requests know of links and calls comes first; the   *)
(* semaphore does not matter to it: a permit may wake whom it likes.       *)
(***************************************************************************)

PC == Holding \union {"idle", "queued"}
Linked == {"ok", "origin"}      \* places of a request that has a link

RequestRecord == [pc : PC, proxied : BOOLEAN, attempt : 0 .. MaxRetries,
                  link : Nat, tried : SUBSET Nat]

FlightRecord == [owner : Request \union {NoOne}, waiters : SUBSET Request,
                 result : {"none", "pending", "ok", "error"}, link : Nat]

(* What holds of a request q while fl is the link of the call under way, c *)
(* the link in the cache, and top links have been issued: a link it has was*)
(* issued; those it has tried were too, and have left the cache for good;  *)
(* a link it uses again at its second try came from a call that is over;   *)
(* and if both tries used one link, there is nowhere left to get it from.  *)
Good(q, fl, c, top) ==
    /\ q.pc \in Linked => q.link # NoLink /\ q.link <= top
    /\ \A l \in q.tried : l # NoLink /\ l <= top /\ l # c
    /\ q.attempt > 0 => q.tried # {}
    /\ q.pc \in Linked /\ q.attempt = 1 /\ q.link \in q.tried => fl # q.link
    /\ \A l \in q.tried : q.attempt = 2 /\ q.tried \subseteq {l} =>
          /\ fl # l
          /\ q.pc \in Linked => q.link # l

RelayTypes ==
    /\ request \in [Request -> RequestRecord]
    /\ issued \in Nat
    /\ cached \in Nat
    /\ flight \in FlightRecord

CallOK ==
    /\ cached <= issued
    /\ flight.link <= issued
    /\ flight.result = "ok" => flight.link # NoLink

RequestsGood == \A r \in Request : Good(request[r], flight.link, cached, issued)

IInv ==
    /\ RelayTypes
    /\ CallOK
    /\ RequestsGood
    /\ WaitersHaveCall

-----------------------------------------------------------------------------
(* Good, and how the relay's steps change what it speaks of.               *)

LEMMA IdleIsGood ==
    ASSUME NEW fl \in Nat, NEW c \in Nat, NEW top \in Nat
    PROVE  Idle \in RequestRecord /\ Good(Idle, fl, c, top)
BY DEF Idle, Good, Linked, RequestRecord, PC, Holding, NoLink, MaxRetries

(* A request that has no link, wherever it goes.                           *)
LEMMA UnlinkedStaysGood ==
    ASSUME NEW q \in RequestRecord, NEW p \in PC \ Linked, NEW b \in BOOLEAN,
           NEW fl, NEW c, NEW top, Good(q, fl, c, top)
    PROVE  /\ [q EXCEPT !.pc = p] \in RequestRecord
           /\ Good([q EXCEPT !.pc = p], fl, c, top)
           /\ [q EXCEPT !.pc = p, !.proxied = b] \in RequestRecord
           /\ Good([q EXCEPT !.pc = p, !.proxied = b], fl, c, top)
BY DEF Good, RequestRecord

(* A link leaves the cache.                                                *)
LEMMA GoodWithoutCached ==
    ASSUME NEW q \in RequestRecord, NEW fl, NEW c, NEW top, Good(q, fl, c, top)
    PROVE  Good(q, fl, NoLink, top)
BY DEF Good

(* A call begins or is over.                                               *)
LEMMA GoodWithoutCall ==
    ASSUME NEW q \in RequestRecord, NEW fl, NEW c, NEW top, Good(q, fl, c, top)
    PROVE  Good(q, NoLink, c, top)
BY DEF Good

(* A link is issued.                                                       *)
LEMMA GoodWithNewLink ==
    ASSUME NEW q \in RequestRecord, NEW fl, NEW c, NEW top \in Nat, Good(q, fl, c, top)
    PROVE  Good(q, top + 1, top + 1, top + 1)
<1>1. \A l \in q.tried : l \in Nat /\ l # NoLink /\ l <= top + 1 /\ l # top + 1
  BY DEF Good, RequestRecord, NoLink
<1>2. q.pc \in Linked => q.link \in Nat /\ q.link # NoLink /\ q.link <= top + 1 /\ q.link # top + 1
  BY DEF Good, RequestRecord, NoLink
<1>3. QED BY <1>1, <1>2 DEF Good

(* A link comes out of the call that is over, or out of the cache.         *)
LEMMA GoodWithLink ==
    ASSUME NEW q \in RequestRecord, NEW p \in Linked, NEW l \in Nat, NEW c, NEW top \in Nat,
           NEW fl, NEW other, Good(q, fl, c, top), l # NoLink, l <= top,
           \/ l = fl /\ other = NoLink
           \/ l = c /\ other = fl
    PROVE  /\ [q EXCEPT !.pc = p, !.link = l] \in RequestRecord
           /\ Good([q EXCEPT !.pc = p, !.link = l], other, c, top)
<1> DEFINE new == [q EXCEPT !.pc = p, !.link = l]
<1>1. /\ new \in RequestRecord
      /\ new.pc = p /\ new.link = l /\ new.tried = q.tried /\ new.attempt = q.attempt
  BY DEF RequestRecord, Linked, PC, Holding
<1>2. new.link \in new.tried => other # new.link
  BY <1>1 DEF Good
<1>3. \A m \in q.tried : q.attempt = 2 /\ q.tried \subseteq {m} => other # m /\ l # m
  BY DEF Good
<1>4. Good(new, other, c, top)
  BY <1>1, <1>2, <1>3 DEF Good
<1>5. QED BY <1>1, <1>4

(* A try has failed: the link goes to those tried, and out of the cache.   *)
Tried(q) == [q EXCEPT !.pc = "load", !.attempt = @ + 1, !.link = NoLink,
                      !.tried = @ \union {q.link}]

LEMMA GoodOnceTried ==
    ASSUME NEW q \in RequestRecord, NEW fl, NEW c, NEW top \in Nat, Good(q, fl, c, top),
           q.pc = "origin", q.attempt < MaxRetries
    PROVE  Tried(q) \in RequestRecord /\ Good(Tried(q), fl, NoLink, top)
<1> DEFINE new == Tried(q)
<1>0. /\ q.attempt + 1 \in 0 .. MaxRetries
      /\ q.tried \union {q.link} \in SUBSET Nat
      /\ "load" \in PC /\ NoLink \in Nat
  BY DEF RequestRecord, PC, Holding, MaxRetries, NoLink
<1>1. /\ new.pc = "load" /\ new.attempt = q.attempt + 1 /\ new.link = NoLink
      /\ new.tried = q.tried \union {q.link}
      /\ new \in RequestRecord
  BY <1>0 DEF Tried, RequestRecord
<1>2. new.pc \notin Linked
  BY <1>1 DEF Linked
<1>3. \A l \in new.tried : l # NoLink /\ l <= top
  BY <1>1 DEF Good, Linked
<1>4. ASSUME NEW l \in new.tried, new.attempt = 2, new.tried \subseteq {l}
      PROVE  fl # l
  <2>1. q.attempt = 1 /\ q.tried # {}
    BY <1>1, <1>4 DEF Good, RequestRecord
  <2>2. q.link = l /\ q.link \in q.tried
    BY <1>1, <1>4, <2>1
  <2>3. QED BY <2>1, <2>2 DEF Good, Linked
<1>5. Good(new, fl, NoLink, top)
  BY <1>1, <1>2, <1>3, <1>4 DEF Good
<1>6. QED BY <1>1, <1>5
-----------------------------------------------------------------------------
(* Steps that only send requests on, without a link, or end them.          *)

(* What may become of a request in such a step. (The last disjunct is      *)
(* there because the queue is not followed: its head might be r itself.)   *)
Settled(q, new) ==
    \/ new = q
    \/ new = Idle
    \/ \E p \in PC \ Linked, b \in BOOLEAN : new = [q EXCEPT !.pc = p, !.proxied = b]
    \/ \E p \in PC \ Linked, b \in BOOLEAN : new = [Idle EXCEPT !.pc = p, !.proxied = b]

LEMMA SettledIsGood ==
    ASSUME NEW q \in RequestRecord, NEW new, Settled(q, new),
           NEW fl \in Nat, NEW c \in Nat, NEW top \in Nat, Good(q, fl, c, top)
    PROVE  new \in RequestRecord /\ Good(new, fl, c, top)
<1>1. CASE new = q
  BY <1>1
<1>2. CASE new = Idle
  BY <1>2, IdleIsGood
<1>3. CASE \E p \in PC \ Linked, b \in BOOLEAN : new = [q EXCEPT !.pc = p, !.proxied = b]
  <2>1. PICK p \in PC \ Linked, b \in BOOLEAN : new = [q EXCEPT !.pc = p, !.proxied = b]
    BY <1>3
  <2>2. QED BY <2>1, UnlinkedStaysGood
<1>4. CASE \E p \in PC \ Linked, b \in BOOLEAN : new = [Idle EXCEPT !.pc = p, !.proxied = b]
  <2>1. PICK p \in PC \ Linked, b \in BOOLEAN : new = [Idle EXCEPT !.pc = p, !.proxied = b]
    BY <1>4
  <2>2. Idle \in RequestRecord /\ Good(Idle, fl, c, top)
    BY IdleIsGood
  <2>3. QED BY <2>1, <2>2, UnlinkedStaysGood
<1>5. QED BY <1>1, <1>2, <1>3, <1>4 DEF Settled

(* A change of the requests that settles each of them and sends nobody to  *)
(* wait.                                                                   *)
AllSettled ==
    /\ request' = [q \in Request |-> request'[q]]
    /\ \A q \in Request : Settled(request[q], request'[q])
    /\ \A q \in Request : request'[q].pc = "wait" => request[q].pc = "wait"

(* A handler that returns becomes idle, and a permit may go to another.    *)
LEMMA ReturnSettles ==
    ASSUME NEW r \in Request, RelayTypes, Return(r)
    PROVE  AllSettled /\ request'[r].pc # "wait"
<1>1. CASE request' = [request EXCEPT ![r] = Idle]
  BY <1>1 DEF AllSettled, Settled, Idle, RelayTypes
<1>2. CASE /\ request[r].proxied
           /\ queue # << >>
           /\ request' = [request EXCEPT ![r] = Idle, ![Head(queue)].pc = "granted"]
  <2> DEFINE h == Head(queue)
  <2>1. "granted" \in PC \ Linked
    BY DEF PC, Holding, Linked
  <2>2. ASSUME NEW q \in Request, q # r, q = h
        PROVE  request'[q] = [request[q] EXCEPT !.pc = "granted", !.proxied = request[q].proxied]
    BY <1>2, <2>2 DEF RelayTypes, RequestRecord
  <2>3. ASSUME NEW q \in Request, q # r, q # h
        PROVE  request'[q] = request[q]
    BY <1>2, <2>3 DEF RelayTypes
  <2>4. CASE r = h
    <3>1. request'[r] = [Idle EXCEPT !.pc = "granted", !.proxied = FALSE]
      BY <1>2, <2>4 DEF RelayTypes, Idle
    <3>2. Settled(request[r], request'[r]) /\ request'[r].pc # "wait"
      BY <2>1, <3>1 DEF Settled, Idle
    <3>3. QED BY <1>2, <2>1, <2>2, <2>3, <2>4, <3>2 DEF AllSettled, Settled, RelayTypes
  <2>5. CASE r # h
    <3>1. request'[r] = Idle
      BY <1>2, <2>5 DEF RelayTypes
    <3>2. \A q \in Request : Settled(request[q], request'[q])
      BY <2>1, <2>2, <2>3, <3>1 DEF Settled, RelayTypes, RequestRecord
    <3>3. \A q \in Request : request'[q].pc = "wait" => request[q].pc = "wait" /\ q # r
      <4>1. Idle.pc # "wait"
        BY DEF Idle
      <4>2. \A q \in Request : q # r /\ q = h => request'[q].pc = "granted"
        BY <2>2 DEF RelayTypes, RequestRecord
      <4>3. QED BY <2>3, <3>1, <4>1, <4>2
    <3>4. QED BY <1>2, <3>2, <3>3 DEF AllSettled, RelayTypes
  <2>6. QED BY <2>4, <2>5
<1>3. QED BY <1>1, <1>2 DEF Return, Release

(* Such a step keeps the invariant if it leaves the links alone, and takes *)
(* nobody who waits out of the call.                                       *)
LEMMA SettledStep ==
    ASSUME IInv, AllSettled, UNCHANGED <<cached, issued>>,
           flight' \in FlightRecord, flight'.link = flight.link, flight'.result = flight.result,
           \A q \in flight.waiters : request'[q].pc = "wait" => q \in flight'.waiters
    PROVE  IInv'
<1>1. ASSUME NEW q \in Request
      PROVE  /\ request'[q] \in RequestRecord
             /\ Good(request'[q], flight.link, cached, issued)
  BY SettledIsGood DEF IInv, RelayTypes, FlightRecord, RequestsGood, AllSettled
<1>2. RelayTypes'
  BY <1>1 DEF IInv, RelayTypes, AllSettled
<1>3. CallOK' /\ RequestsGood'
  BY <1>1 DEF IInv, CallOK, RequestsGood
<1>4. WaitersHaveCall'
  BY DEF IInv, WaitersHaveCall, At, AllSettled
<1>5. QED BY <1>2, <1>3, <1>4 DEF IInv

(* A handler returns; the call may lose it as a waiter.                    *)
LEMMA ReturnStep ==
    ASSUME IInv, NEW r \in Request, Return(r), UNCHANGED <<cached, issued>>,
           flight' = flight \/ flight' = [flight EXCEPT !.waiters = @ \ {r}]
    PROVE  IInv'
<1>1. AllSettled /\ request'[r].pc # "wait"
  BY ReturnSettles DEF IInv
<1>2. /\ flight' \in FlightRecord /\ flight'.link = flight.link
      /\ flight'.result = flight.result /\ flight.waiters \ {r} \subseteq flight'.waiters
  BY DEF IInv, RelayTypes, FlightRecord
<1>3. QED BY <1>1, <1>2, SettledStep

(* A request goes on without a link.                                       *)
LEMMA GoOnStep ==
    ASSUME IInv, NEW r \in Request, NEW p \in PC \ Linked, p # "wait", NEW b \in BOOLEAN,
           request' = [request EXCEPT ![r].pc = p, ![r].proxied = b],
           UNCHANGED <<cached, flight, issued>>
    PROVE  IInv'
<1>1. /\ request'[r] = [request[r] EXCEPT !.pc = p, !.proxied = b]
      /\ \A q \in Request \ {r} : request'[q] = request[q]
      /\ request' = [q \in Request |-> request'[q]]
  BY DEF IInv, RelayTypes
<1>2. request'[r].pc = p
  BY <1>1 DEF IInv, RelayTypes, RequestRecord
<1>3. AllSettled
  BY <1>1, <1>2 DEF AllSettled, Settled
<1>4. flight \in FlightRecord
  BY DEF IInv, RelayTypes
<1>5. QED BY <1>3, <1>4, SettledStep

(* A request of one who holds a permit keeps its mode.                     *)
LEMMA SameMode ==
    ASSUME RelayTypes, NEW r \in Request, NEW p
    PROVE  /\ request[r].proxied \in BOOLEAN
           /\ [request EXCEPT ![r].pc = p] =
                  [request EXCEPT ![r].pc = p, ![r].proxied = request[r].proxied]
BY DEF RelayTypes, RequestRecord

LEMMA GoToStep ==
    ASSUME IInv, NEW r \in Request, NEW p \in PC \ Linked, p # "wait", GoTo(r, p),
           UNCHANGED <<cached, flight, issued>>
    PROVE  IInv'
<1>1. request[r].proxied \in BOOLEAN
  BY SameMode DEF IInv
<1>2. request' = [request EXCEPT ![r].pc = p, ![r].proxied = request[r].proxied]
  BY SameMode DEF IInv, GoTo
<1>3. QED BY <1>1, <1>2, GoOnStep

(* A request gets a link it may use.                                       *)
LEMMA LinkStep ==
    ASSUME IInv, NEW r \in Request, NEW l \in Nat, UNCHANGED <<cached, flight, issued>>,
           request' = [request EXCEPT ![r].pc = "origin", ![r].link = l],
           \/ l = cached /\ l # NoLink
           \/ request[r].pc = "ok" /\ l = request[r].link
    PROVE  IInv'
<1>1. /\ request[r] \in RequestRecord /\ Good(request[r], flight.link, cached, issued)
      /\ issued \in Nat /\ "origin" \in Linked
  BY DEF IInv, RelayTypes, RequestsGood, Linked
<1>2. /\ [request[r] EXCEPT !.pc = "origin", !.link = l] \in RequestRecord
      /\ Good([request[r] EXCEPT !.pc = "origin", !.link = l], flight.link, cached, issued)
  <2>1. CASE l = cached /\ l # NoLink
    BY <1>1, <2>1, GoodWithLink DEF IInv, CallOK
  <2>2. CASE request[r].pc = "ok" /\ l = request[r].link
    BY <1>1, <2>2 DEF Good, RequestRecord, Linked, PC, Holding
  <2>3. QED BY <2>1, <2>2
<1>3. /\ request'[r] = [request[r] EXCEPT !.pc = "origin", !.link = l]
      /\ \A q \in Request \ {r} : request'[q] = request[q]
      /\ request' \in [Request -> RequestRecord]
  BY <1>2 DEF IInv, RelayTypes
<1>4. request'[r].pc # "wait"
  BY <1>1, <1>3 DEF RequestRecord
<1>5. RelayTypes' /\ CallOK'
  BY <1>3 DEF IInv, RelayTypes, CallOK
<1>6. RequestsGood'
  BY <1>2, <1>3 DEF IInv, RequestsGood
<1>7. WaitersHaveCall'
  BY <1>3, <1>4 DEF IInv, WaitersHaveCall, At
<1>8. QED BY <1>5, <1>6, <1>7 DEF IInv

-----------------------------------------------------------------------------
(* The steps of a request.                                                 *)

LEMMA ArriveStep ==
    ASSUME IInv, NEW r \in Request, Arrive(r)
    PROVE  IInv'
<1>1. {"load", "queued"} \subseteq (PC \ Linked) \ {"wait"}
  BY DEF PC, Holding, Linked
<1>2. PICK p \in {"load", "queued"}, b \in BOOLEAN :
          request' = [request EXCEPT ![r].pc = p, ![r].proxied = b]
  BY SameMode DEF Arrive, GoTo, IInv
<1>3. UNCHANGED <<cached, flight, issued>>
  BY DEF Arrive, linkVars
<1>4. QED BY <1>1, <1>2, <1>3, GoOnStep

LEMMA ClientLeavesStep ==
    ASSUME IInv, NEW r \in Request, ClientLeaves(r)
    PROVE  IInv'
<1>1. AllSettled
  BY DEF ClientLeaves, AllSettled, Settled, IInv, RelayTypes
<1>2. /\ flight' \in FlightRecord /\ flight'.link = flight.link
      /\ flight'.result = flight.result /\ flight'.waiters = flight.waiters
  BY DEF ClientLeaves, IInv, RelayTypes, FlightRecord
<1>3. QED BY <1>1, <1>2, SettledStep DEF ClientLeaves

LEMMA LeaveQueueStep ==
    ASSUME IInv, NEW r \in Request, LeaveQueue(r)
    PROVE  IInv'
<1>1. AllSettled
  BY DEF LeaveQueue, AllSettled, Settled, IInv, RelayTypes, Idle
<1>2. flight' = flight /\ UNCHANGED <<cached, issued>> /\ flight \in FlightRecord
  BY DEF LeaveQueue, linkVars, IInv, RelayTypes
<1>3. QED BY <1>1, <1>2, SettledStep

LEMMA GrantedStep ==
    ASSUME IInv, NEW r \in Request, Granted(r)
    PROVE  IInv'
<1>1. UNCHANGED <<cached, flight, issued>>
  BY DEF Granted, linkVars
<1>2. CASE Return(r)
  BY <1>1, <1>2, ReturnStep
<1>3. CASE GoTo(r, "load")
  <2>1. "load" \in PC \ Linked
    BY DEF PC, Holding, Linked
  <2>2. QED BY <1>1, <1>3, <2>1, GoToStep
<1>4. QED BY <1>2, <1>3 DEF Granted

LEMMA LoadCachedStep ==
    ASSUME IInv, NEW r \in Request, LoadCached(r)
    PROVE  IInv'
<1>1. UNCHANGED <<cached, flight, issued>> /\ cached \in Nat
  BY DEF LoadCached, linkVars, IInv, RelayTypes
<1>2. CASE Return(r)
  BY <1>1, <1>2, ReturnStep
<1>3. CASE cached # NoLink /\ request' = [request EXCEPT ![r].pc = "origin", ![r].link = cached]
  BY <1>1, <1>3, LinkStep
<1>4. CASE GoTo(r, "join")
  <2>1. "join" \in PC \ Linked
    BY DEF PC, Holding, Linked
  <2>2. QED BY <1>1, <1>4, <2>1, GoToStep
<1>5. QED BY <1>2, <1>3, <1>4 DEF LoadCached, UseLink

LEMMA JoinStep ==
    ASSUME IInv, NEW r \in Request, Join(r)
    PROVE  IInv'
<1>1. /\ "wait" \in PC \ Linked
      /\ UNCHANGED <<cached, issued>>
      /\ request' = [request EXCEPT ![r].pc = "wait"]
  BY DEF PC, Holding, Linked, Join, GoTo
<1>2. /\ request'[r] = [request[r] EXCEPT !.pc = "wait"]
      /\ \A q \in Request \ {r} : request'[q] = request[q]
  BY <1>1 DEF IInv, RelayTypes
<1>3. /\ flight' \in FlightRecord
      /\ flight'.result # "none" /\ r \in flight'.waiters
      /\ flight.result # "none" => flight.waiters \subseteq flight'.waiters
      /\ \/ flight'.link = flight.link /\ flight'.result = flight.result
         \/ flight'.link = NoLink /\ flight'.result = "pending"
  BY DEF IInv, RelayTypes, FlightRecord, Join, NoLink
<1>4. ASSUME NEW q \in Request
      PROVE  request'[q] \in RequestRecord /\ Good(request'[q], flight'.link, cached, issued)
  <2>1. request'[q] \in RequestRecord /\ Good(request'[q], flight.link, cached, issued)
    BY <1>1, <1>2, UnlinkedStaysGood DEF IInv, RelayTypes, RequestsGood
  <2>2. QED BY <1>3, <2>1, GoodWithoutCall
<1>5. RelayTypes' /\ CallOK'
  BY <1>1, <1>3, <1>4 DEF IInv, RelayTypes, CallOK, NoLink
<1>6. RequestsGood'
  BY <1>1, <1>4 DEF RequestsGood
<1>7. WaitersHaveCall'
  BY <1>2, <1>3 DEF IInv, WaitersHaveCall, At
<1>8. QED BY <1>5, <1>6, <1>7 DEF IInv

LEMMA TakeResultStep ==
    ASSUME IInv, NEW r \in Request, TakeResult(r)
    PROVE  IInv'
<1>1. UNCHANGED <<cached, flight, issued>> /\ request[r].link \in Nat
  BY DEF TakeResult, linkVars, IInv, RelayTypes, RequestRecord
<1>2. CASE Return(r)
  BY <1>1, <1>2, ReturnStep
<1>3. CASE At(r, "ok") /\ request' = [request EXCEPT ![r].pc = "origin", ![r].link = request[r].link]
  BY <1>1, <1>3, LinkStep DEF At
<1>4. QED BY <1>2, <1>3 DEF TakeResult, UseLink

LEMMA StopWaitingStep ==
    ASSUME IInv, NEW r \in Request, StopWaiting(r)
    PROVE  IInv'
BY ReturnStep DEF StopWaiting

LEMMA RetryStep ==
    ASSUME IInv, NEW r \in Request, Retry(r)
    PROVE  IInv'
<1>1. /\ UNCHANGED <<flight, issued>> /\ cached' = NoLink
      /\ request[r].pc = "origin" /\ request[r].attempt < MaxRetries
      /\ issued \in Nat
  BY DEF Retry, TryAgain, At, IInv, RelayTypes
<1>2. request' = [request EXCEPT ![r] = Tried(request[r])]
  BY DEF Retry, TryAgain, Tried, IInv, RelayTypes, RequestRecord
<1>3. Tried(request[r]) \in RequestRecord /\ Good(Tried(request[r]), flight.link, NoLink, issued)
  BY <1>1, GoodOnceTried DEF IInv, RelayTypes, RequestsGood
<1>4. ASSUME NEW q \in Request
      PROVE  request'[q] \in RequestRecord /\ Good(request'[q], flight.link, NoLink, issued)
  BY <1>2, <1>3, GoodWithoutCached DEF IInv, RelayTypes, RequestsGood
<1>5. RelayTypes' /\ CallOK'
  BY <1>1, <1>2, <1>3 DEF IInv, RelayTypes, CallOK, NoLink
<1>6. RequestsGood'
  BY <1>1, <1>4 DEF RequestsGood
<1>7. Tried(request[r]).pc = "load"
  BY DEF Tried, IInv, RelayTypes, RequestRecord
<1>8. WaitersHaveCall'
  BY <1>1, <1>2, <1>7 DEF IInv, WaitersHaveCall, At, RelayTypes
<1>9. QED BY <1>5, <1>6, <1>8 DEF IInv

LEMMA ProxyEndsStep ==
    ASSUME IInv, NEW r \in Request, ProxyEnds(r)
    PROVE  IInv'
BY ReturnStep DEF ProxyEnds, linkVars

-----------------------------------------------------------------------------
(* The steps of the shared call, the timer and the program.                *)

LEMMA FetchLinkStep ==
    ASSUME IInv, FetchLink
    PROVE  IInv'
<1>1. /\ request' = request /\ issued' = issued + 1 /\ cached' = issued + 1
      /\ flight' = [flight EXCEPT !.result = "ok", !.link = issued + 1]
      /\ issued \in Nat
  BY DEF FetchLink, IInv, RelayTypes
<1>2. /\ flight' \in FlightRecord /\ flight'.link = issued + 1 /\ flight'.result = "ok"
      /\ flight'.waiters = flight.waiters
  <2>1. issued + 1 \in Nat
    BY <1>1
  <2>2. QED BY <1>1, <2>1 DEF IInv, RelayTypes, FlightRecord
<1>3. RelayTypes' /\ CallOK'
  BY <1>1, <1>2 DEF IInv, RelayTypes, CallOK, NoLink
<1>4. RequestsGood'
  BY <1>1, <1>2, GoodWithNewLink DEF IInv, RelayTypes, RequestsGood
<1>5. WaitersHaveCall'
  BY <1>1, <1>2 DEF IInv, WaitersHaveCall, At
<1>6. QED BY <1>3, <1>4, <1>5 DEF IInv

LEMMA FetchFailsStep ==
    ASSUME IInv, FetchFails
    PROVE  IInv'
<1>1. /\ UNCHANGED <<request, cached, issued>>
      /\ flight' \in FlightRecord /\ flight'.link = flight.link /\ flight'.result = "error"
      /\ flight'.waiters = flight.waiters
  BY DEF FetchFails, IInv, RelayTypes, FlightRecord
<1>2. RelayTypes' /\ CallOK' /\ RequestsGood' /\ WaitersHaveCall'
  BY <1>1 DEF IInv, RelayTypes, CallOK, RequestsGood, WaitersHaveCall, At
<1>3. QED BY <1>2 DEF IInv

LEMMA DeliverStep ==
    ASSUME IInv, Deliver
    PROVE  IInv'
<1>1. /\ UNCHANGED <<cached, issued>> /\ flight' = NoFlight
      /\ flight.result \in {"ok", "error"}
      /\ issued \in Nat /\ flight.link \in Nat
  BY DEF Deliver, IInv, RelayTypes, FlightRecord
<1>2. NoFlight \in FlightRecord /\ NoFlight.link = NoLink /\ NoFlight.result = "none"
  BY DEF NoFlight, FlightRecord, NoLink
<1>3. ASSUME NEW q \in Request
      PROVE  /\ request'[q] \in RequestRecord
             /\ Good(request'[q], NoLink, cached, issued)
             /\ request'[q].pc # "wait"
  <2>1. request[q] \in RequestRecord /\ Good(request[q], flight.link, cached, issued)
    BY DEF IInv, RelayTypes, RequestsGood
  <2>2. CASE q \notin flight.waiters
    <3>1. request'[q] = request[q]
      BY <2>2 DEF Deliver
    <3>2. QED BY <2>1, <2>2, <3>1, GoodWithoutCall DEF IInv, WaitersHaveCall, At
  <2>3. CASE q \in flight.waiters /\ flight.result = "ok"
    <3>1. request'[q] = [request[q] EXCEPT !.pc = "ok", !.link = flight.link]
      BY <2>3 DEF Deliver
    <3>2. flight.link # NoLink /\ flight.link <= issued /\ "ok" \in Linked
      BY <2>3 DEF IInv, CallOK, Linked
    <3>3. request'[q].pc = "ok"
      BY <2>1, <3>1 DEF RequestRecord
    <3>4. /\ [request[q] EXCEPT !.pc = "ok", !.link = flight.link] \in RequestRecord
          /\ Good([request[q] EXCEPT !.pc = "ok", !.link = flight.link], NoLink, cached, issued)
      BY <1>1, <2>1, <3>2, GoodWithLink
    <3>5. QED BY <3>1, <3>3, <3>4
  <2>4. CASE q \in flight.waiters /\ flight.result = "error"
    <3>1. request'[q] = [request[q] EXCEPT !.pc = "error", !.link = flight.link]
      BY <2>4 DEF Deliver
    <3>2. /\ request'[q] \in RequestRecord /\ request'[q].pc = "error"
          /\ request'[q].tried = request[q].tried /\ request'[q].attempt = request[q].attempt
      BY <1>1, <2>1, <3>1 DEF RequestRecord, PC, Holding
    <3>3. QED BY <2>1, <3>2 DEF Good, Linked
  <2>5. QED BY <1>1, <2>2, <2>3, <2>4
<1>4. request' = [q \in Request |-> request'[q]]
  BY DEF Deliver
<1>5. RelayTypes' /\ CallOK'
  BY <1>1, <1>2, <1>3, <1>4 DEF IInv, RelayTypes, CallOK, NoLink
<1>6. RequestsGood' /\ WaitersHaveCall'
  BY <1>1, <1>2, <1>3 DEF RequestsGood, WaitersHaveCall, At
<1>7. QED BY <1>5, <1>6 DEF IInv

LEMMA ExpireStep ==
    ASSUME IInv, Expire
    PROVE  IInv'
<1>1. UNCHANGED <<request, flight, issued>> /\ cached' = NoLink
  BY DEF Expire
<1>2. RelayTypes' /\ CallOK' /\ WaitersHaveCall'
  BY <1>1 DEF IInv, RelayTypes, CallOK, WaitersHaveCall, At, NoLink
<1>3. RequestsGood'
  BY <1>1, GoodWithoutCached DEF IInv, RelayTypes, RequestsGood
<1>4. QED BY <1>2, <1>3 DEF IInv

(* What Init and Restart set.                                              *)
LEMMA AtRest ==
    /\ \A r \in Request : Idle \in RequestRecord /\ Good(Idle, NoLink, NoLink, 0)
    /\ NoFlight \in FlightRecord /\ NoFlight.link = NoLink /\ NoFlight.result = "none"
    /\ Idle.pc # "wait"
    /\ NoLink \in Nat /\ NoLink <= 0
<1>1. \A r \in Request : Idle \in RequestRecord /\ Good(Idle, NoLink, NoLink, 0)
  BY IdleIsGood DEF NoLink
<1>2. NoFlight \in FlightRecord /\ NoFlight.link = NoLink /\ NoFlight.result = "none"
  BY DEF NoFlight, FlightRecord, NoLink
<1>3. QED BY <1>1, <1>2 DEF Idle, NoLink

LEMMA InitHolds == Init => IInv
BY AtRest DEF Init, IInv, RelayTypes, CallOK, RequestsGood, WaitersHaveCall, At

LEMMA RestartStep ==
    ASSUME Restart
    PROVE  IInv'
BY AtRest DEF Restart, IInv, RelayTypes, CallOK, RequestsGood, WaitersHaveCall, At

LEMMA NextStep == IInv /\ [Next]_vars => IInv'
<1> SUFFICES ASSUME IInv, [Next]_vars PROVE IInv'
  OBVIOUS
<1>1. ASSUME NEW r \in Request, Arrive(r) \/ ClientLeaves(r) \/ Proceed(r)
      PROVE  IInv'
  BY <1>1, ArriveStep, ClientLeavesStep, LeaveQueueStep, GrantedStep, LoadCachedStep, JoinStep,
     TakeResultStep, StopWaitingStep, RetryStep, ProxyEndsStep DEF Proceed
<1>2. CASE Call
  BY <1>2, FetchLinkStep, FetchFailsStep, DeliverStep DEF Call
<1>3. CASE UNCHANGED vars
  BY <1>3 DEF vars, linkVars, IInv, RelayTypes, CallOK, RequestsGood, WaitersHaveCall, At
<1>4. QED BY <1>1, <1>2, <1>3, ExpireStep, RestartStep DEF Next

-----------------------------------------------------------------------------
(* The inductive invariant: what requests, cache and call know of links.   *)
THEOREM RelayInvariant == Spec => []IInv
BY InitHolds, NextStep, PTL DEF Spec

(* No request of the relay waits for a call that has ended, or that does   *)
(* not know of it.                                                         *)
THEOREM WaitersAlwaysHaveCall == Spec => []WaitersHaveCall
<1>1. IInv => WaitersHaveCall
  BY DEF IInv
<1>2. QED BY <1>1, RelayInvariant, PTL

(* serveProxy does not give up on a single link: by its last try it has    *)
(* used two different ones, however many requests share cache and call.    *)
THEOREM RetriesAlwaysChangeLink == Spec => []RetriesChangeLink
<1>1. IInv => RetriesChangeLink
  <2> SUFFICES ASSUME IInv, NEW r \in Request, At(r, "origin"), request[r].attempt = MaxRetries,
                      \A l \in request[r].tried : l = request[r].link
               PROVE  FALSE
    BY DEF RetriesChangeLink
  <2> DEFINE q == request[r]
  <2>1. q.pc \in Linked /\ q.attempt = 2 /\ Good(q, flight.link, cached, issued)
    BY DEF At, Linked, MaxRetries, IInv, RequestsGood
  <2>2. PICK l \in q.tried : TRUE
    BY <2>1 DEF Good
  <2>3. l = q.link /\ q.tried \subseteq {l}
    BY <2>2
  <2>4. QED BY <2>1, <2>2, <2>3 DEF Good
<1>2. QED BY <1>1, RelayInvariant, PTL

-----------------------------------------------------------------------------
(* The semaphore, for any number of requests and permits.                  *)

(* The requests that have a permit.                                        *)
Holders == {r \in Request : request[r].proxied /\ request[r].pc \in Holding}

(* Who waits for a permit or has just got one is a proxied request; an     *)
(* idle one is none yet.                                                   *)
ModesOK ==
    \A r \in Request :
        /\ request[r].pc = "idle" => ~request[r].proxied
        /\ request[r].pc \in {"queued", "granted"} => request[r].proxied

(* PermitsAccounted, with the two inclusions one by one.                   *)
Seats ==
    /\ held = Cardinality(Holders)
    /\ \A i \in DOMAIN queue : queue[i] \in Request /\ At(queue[i], "queued")
    /\ \A r \in Request : At(r, "queued") => \E i \in DOMAIN queue : queue[i] = r
    /\ \A i, j \in DOMAIN queue : queue[i] = queue[j] => i = j
    /\ queue # << >> => held = Permits

SemInv ==
    /\ ModesOK
    /\ queue \in Seq(Request)
    /\ held \in 0 .. Permits
    /\ IsFiniteSet(Holders)
    /\ Seats

(* A request that keeps its seat: it has a permit, waits for one, or has   *)
(* nothing to do with the semaphore, after the step as before.             *)
KeepsSeat(q, new) ==
    /\ new.proxied = q.proxied
    /\ \/ new.pc = q.pc
       \/ ~q.proxied /\ new.pc \notin {"queued", "granted"}
       \/ q.pc \in Holding /\ new.pc \in Holding \ {"granted"}

LEMMA SeatsKept ==
    ASSUME SemInv, UNCHANGED semVars, \A q \in Request : KeepsSeat(request[q], request'[q])
    PROVE  SemInv'
<1>1. held' = held /\ queue' = queue
  BY DEF semVars
<1>2. ModesOK'
  BY DEF SemInv, ModesOK, KeepsSeat, Holding
<1>3. Holders' = Holders
  BY DEF SemInv, ModesOK, Holders, KeepsSeat, Holding
<1>4. \A r \in Request : At(r, "queued")' <=> At(r, "queued")
  BY DEF SemInv, ModesOK, At, KeepsSeat, Holding
<1>5. Seats'
  BY <1>1, <1>3, <1>4 DEF SemInv, Seats
<1>6. QED BY <1>1, <1>2, <1>3, <1>5 DEF SemInv

(* A permit is given back; the first request in the queue gets it.         *)
LEMMA ReturnSeats ==
    ASSUME RelayTypes, SemInv, NEW r \in Request, Return(r), request[r].pc \in Holding
    PROVE  SemInv'
<1> USE DEF RelayTypes
<1>1. CASE ~request[r].proxied
  <2>1. request' = [request EXCEPT ![r] = Idle] /\ UNCHANGED semVars
    BY <1>1 DEF Return
  <2>2. KeepsSeat(request[r], request'[r])
    BY <1>1, <2>1, SameMode DEF KeepsSeat, Idle
  <2>3. \A q \in Request \ {r} : KeepsSeat(request[q], request'[q])
    BY <2>1 DEF KeepsSeat
  <2>4. QED BY <2>1, <2>2, <2>3, SeatsKept
<1>2. CASE request[r].proxied /\ queue = << >>
  <2>1. held' = held - 1 /\ queue' = queue /\ request' = [request EXCEPT ![r] = Idle]
    BY <1>2 DEF Return, Release
  <2>2. r \in Holders /\ Holders' = Holders \ {r}
    BY <1>2, <2>1 DEF Holders, Holding, Idle
  <2>3. /\ IsFiniteSet(Holders') /\ Cardinality(Holders') = held - 1
        /\ Cardinality(Holders') \in Nat
    BY <2>2, FS_RemoveElement, FS_CardinalityType DEF SemInv, Seats
  <2>4. ModesOK'
    BY <2>1 DEF SemInv, ModesOK, Idle
  <2>5. \A q \in Request : At(q, "queued")' <=> At(q, "queued")
    BY <1>2, <2>1 DEF At, Idle, Holding
  <2>6. Seats'
    BY <1>2, <2>1, <2>3, <2>5 DEF SemInv, Seats
  <2>7. held' \in 0 .. Permits
    BY <2>1, <2>3, RelayAssumption DEF SemInv
  <2>8. QED BY <2>1, <2>3, <2>4, <2>6, <2>7 DEF SemInv
<1>3. CASE request[r].proxied /\ queue # << >>
  <2> DEFINE h == Head(queue)
  <2>1. /\ held' = held /\ queue' = Tail(queue)
        /\ request' = [request EXCEPT ![r] = Idle, ![h].pc = "granted"]
    BY <1>3 DEF Return, Release
  <2>2. /\ Len(queue) \in Nat \ {0} /\ DOMAIN queue = 1 .. Len(queue)
        /\ h = queue[1] /\ h \in Request
        /\ queue' \in Seq(Request) /\ Len(queue') = Len(queue) - 1
        /\ DOMAIN queue' = 1 .. Len(queue')
        /\ \A i \in 1 .. Len(queue') : queue'[i] = queue[i + 1]
    BY <1>3, <2>1, EmptySeq, LenProperties, HeadTailProperties DEF SemInv
  <2>3. At(h, "queued") /\ request[h].proxied /\ h # r
    BY <2>2 DEF SemInv, Seats, ModesOK, At, Holding
  <2>4. /\ request'[r] = Idle
        /\ request'[h].pc = "granted" /\ request'[h].proxied
        /\ \A q \in Request \ {r, h} : request'[q] = request[q]
    BY <2>1, <2>2, <2>3
  <2>5. ModesOK'
    BY <2>4 DEF SemInv, ModesOK, Idle
  <2>6. r \in Holders /\ h \notin Holders /\ Holders' = (Holders \ {r}) \cup {h}
    BY <1>3, <2>2, <2>3, <2>4 DEF Holders, Holding, Idle, At
  <2>7. IsFiniteSet(Holders') /\ Cardinality(Holders') = held
    <3>1. /\ IsFiniteSet(Holders \ {r}) /\ Cardinality(Holders \ {r}) = held - 1
          /\ h \notin Holders \ {r} /\ held \in Int
      BY <2>6, FS_RemoveElement DEF SemInv, Seats
    <3>2. /\ IsFiniteSet((Holders \ {r}) \cup {h})
          /\ Cardinality((Holders \ {r}) \cup {h}) = (held - 1) + 1
      BY <3>1, FS_AddElement
    <3>3. QED BY <2>6, <3>1, <3>2
  <2>8. \A q \in Request : At(q, "queued")' <=> At(q, "queued") /\ q # h
    BY <1>3, <2>4 DEF At, Idle, Holding
  <2>9. /\ \A i \in DOMAIN queue' : queue'[i] \in Request /\ request'[queue'[i]].pc = "queued"
        /\ \A q \in Request : At(q, "queued")' => \E i \in DOMAIN queue' : queue'[i] = q
    <3>1. ASSUME NEW i \in DOMAIN queue'
          PROVE  queue'[i] \in Request /\ request'[queue'[i]].pc = "queued"
      <4>1. i + 1 \in DOMAIN queue /\ queue'[i] = queue[i + 1] /\ i + 1 # 1
        BY <2>2
      <4>2. queue[i + 1] # h /\ queue[i + 1] \in Request /\ At(queue[i + 1], "queued")
        BY <2>2, <4>1 DEF SemInv, Seats
      <4>3. QED BY <2>8, <4>1, <4>2 DEF At
    <3>2. ASSUME NEW q \in Request, At(q, "queued")'
          PROVE  \E i \in DOMAIN queue' : queue'[i] = q
      <4>1. PICK j \in DOMAIN queue : queue[j] = q
        BY <2>8, <3>2 DEF SemInv, Seats
      <4>2. j # 1
        BY <2>2, <2>8, <3>2, <4>1
      <4>3. j - 1 \in DOMAIN queue' /\ queue'[j - 1] = queue[(j - 1) + 1] /\ (j - 1) + 1 = j
        BY <2>2, <4>2
      <4>4. QED BY <4>1, <4>3
    <3>3. QED BY <3>1, <3>2
  <2>10. \A i, j \in DOMAIN queue' : queue'[i] = queue'[j] => i = j
    <3> SUFFICES ASSUME NEW i \in DOMAIN queue', NEW j \in DOMAIN queue', queue'[i] = queue'[j]
                 PROVE  i = j
      OBVIOUS
    <3>1. i + 1 \in DOMAIN queue /\ j + 1 \in DOMAIN queue /\ queue[i + 1] = queue[j + 1]
      BY <2>2
    <3>2. i + 1 = j + 1
      BY <3>1 DEF SemInv, Seats
    <3>3. QED BY <2>2, <3>2
  <2>11. held = Permits
    BY <1>3 DEF SemInv, Seats
  <2>12. Seats'
    BY <2>1, <2>7, <2>9, <2>10, <2>11 DEF Seats, At
  <2>13. QED BY <2>1, <2>2, <2>5, <2>7, <2>12 DEF SemInv
<1>4. QED BY <1>1, <1>2, <1>3

(* A request arrives: a redirect, a proxied request that gets a permit, or *)
(* one that joins the queue.                                               *)
LEMMA ArriveSeats ==
    ASSUME RelayTypes, SemInv, NEW r \in Request, Arrive(r)
    PROVE  SemInv'
<1> USE DEF RelayTypes
<1>0. request[r].pc = "idle" /\ ~request[r].proxied
  BY DEF Arrive, At, SemInv, ModesOK
<1>1. CASE GoTo(r, "load") /\ UNCHANGED semVars
  <2>1. KeepsSeat(request[r], request'[r])
    BY <1>0, <1>1 DEF KeepsSeat, GoTo
  <2>2. \A q \in Request \ {r} : KeepsSeat(request[q], request'[q])
    BY <1>1 DEF KeepsSeat, GoTo
  <2>3. QED BY <1>1, <2>1, <2>2, SeatsKept
<1>2. CASE /\ held < Permits /\ queue = << >>
           /\ request' = [request EXCEPT ![r].pc = "load", ![r].proxied = TRUE]
           /\ held' = held + 1
           /\ queue' = queue
  <2>1. /\ request'[r].pc = "load" /\ request'[r].proxied
        /\ \A q \in Request \ {r} : request'[q] = request[q]
    BY <1>2
  <2>2. r \notin Holders /\ Holders' = Holders \cup {r}
    BY <1>0, <2>1 DEF Holders, Holding
  <2>3. IsFiniteSet(Holders') /\ Cardinality(Holders') = held + 1
    BY <2>2, FS_AddElement DEF SemInv, Seats
  <2>4. ModesOK'
    BY <2>1 DEF SemInv, ModesOK
  <2>5. \A q \in Request : At(q, "queued")' <=> At(q, "queued")
    BY <1>0, <2>1 DEF At
  <2>6. Seats'
    BY <1>2, <2>3, <2>5 DEF SemInv, Seats
  <2>7. held' \in 0 .. Permits
    BY <1>2, RelayAssumption DEF SemInv
  <2>8. QED BY <1>2, <2>3, <2>4, <2>6, <2>7 DEF SemInv
<1>3. CASE /\ ~ (held < Permits /\ queue = << >>)
           /\ request' = [request EXCEPT ![r].pc = "queued", ![r].proxied = TRUE]
           /\ queue' = Append(queue, r)
           /\ held' = held
  <2>1. /\ request'[r].pc = "queued" /\ request'[r].proxied
        /\ \A q \in Request \ {r} : request'[q] = request[q]
    BY <1>3
  <2>2. Holders' = Holders
    BY <1>0, <2>1 DEF Holders, Holding
  <2>3. ModesOK'
    BY <2>1 DEF SemInv, ModesOK
  <2>4. \A q \in Request : At(q, "queued")' <=> At(q, "queued") \/ q = r
    BY <2>1 DEF At
  <2>5. /\ Len(queue) \in Nat /\ DOMAIN queue = 1 .. Len(queue)
        /\ queue' \in Seq(Request) /\ DOMAIN queue' = 1 .. Len(queue) + 1
        /\ \A i \in DOMAIN queue : queue'[i] = queue[i]
        /\ queue'[Len(queue) + 1] = r
    BY <1>3, LenProperties, AppendProperties DEF SemInv
  <2>6. \A i \in DOMAIN queue : queue[i] \in Request /\ At(queue[i], "queued")
    BY DEF SemInv, Seats
  <2>7. \A i \in DOMAIN queue : queue[i] # r
    BY <1>0, <2>6 DEF At
  <2>8. /\ \A i \in DOMAIN queue' : queue'[i] \in Request /\ request'[queue'[i]].pc = "queued"
        /\ \A q \in Request : At(q, "queued")' => \E i \in DOMAIN queue' : queue'[i] = q
    <3>1. \A i \in DOMAIN queue' : queue'[i] \in Request /\ request'[queue'[i]].pc = "queued"
      BY <2>4, <2>5, <2>6 DEF At
    <3>2. ASSUME NEW q \in Request, At(q, "queued")'
          PROVE  \E i \in DOMAIN queue' : queue'[i] = q
      <4>1. CASE q = r
        BY <2>5, <4>1
      <4>2. CASE At(q, "queued")
        <5>1. PICK i \in DOMAIN queue : queue[i] = q
          BY <4>2 DEF SemInv, Seats
        <5>2. QED BY <2>5, <5>1
      <4>3. QED BY <2>4, <3>2, <4>1, <4>2
    <3>3. QED BY <3>1, <3>2
  <2>9. \A i, j \in DOMAIN queue' : queue'[i] = queue'[j] => i = j
    <3>1. \A i \in DOMAIN queue' : i \in DOMAIN queue \/ i = Len(queue) + 1
      BY <2>5
    <3>2. \A i, j \in DOMAIN queue : queue[i] = queue[j] => i = j
      BY DEF SemInv, Seats
    <3>3. QED BY <2>5, <2>7, <3>1, <3>2
  <2>10. held = Permits
    BY <1>3, RelayAssumption DEF SemInv, Seats
  <2>11. Seats'
    BY <1>3, <2>2, <2>8, <2>9, <2>10 DEF SemInv, Seats, At
  <2>12. QED BY <1>3, <2>2, <2>3, <2>5, <2>11 DEF SemInv
<1>4. QED BY <1>1, <1>2, <1>3 DEF Arrive

(* What RemoveAt returns.                                                  *)
LEMMA RemoveAtProperties ==
    ASSUME NEW S, NEW s \in Seq(S), NEW k \in DOMAIN s
    PROVE  /\ RemoveAt(s, k) \in Seq(S)
           /\ DOMAIN RemoveAt(s, k) = 1 .. Len(s) - 1
           /\ \A i \in 1 .. Len(s) - 1 :
                 RemoveAt(s, k)[i] = IF i < k THEN s[i] ELSE s[i + 1]
<1> DEFINE a == SubSeq(s, 1, k - 1)
           b == SubSeq(s, k + 1, Len(s))
<1>1. Len(s) \in Nat /\ k \in 1 .. Len(s) /\ \A i \in 1 .. Len(s) : s[i] \in S
  BY LenProperties, ElementOfSeq
<1>2. /\ a \in Seq(S) /\ Len(a) = k - 1
      /\ \A i \in 1 .. k - 1 : a[i] = s[i]
  <2>1. /\ a \in Seq(S) /\ Len(a) = IF 1 <= k - 1 THEN (k - 1) - 1 + 1 ELSE 0
        /\ \A i \in 1 .. (k - 1) - 1 + 1 : a[i] = s[1 + i - 1]
    BY <1>1, SubSeqProperties
  <2>2. QED BY <1>1, <2>1
<1>3. /\ b \in Seq(S) /\ Len(b) = Len(s) - k
      /\ \A i \in 1 .. Len(s) - k : b[i] = s[k + i]
  <2>1. /\ b \in Seq(S) /\ Len(b) = IF k + 1 <= Len(s) THEN Len(s) - (k + 1) + 1 ELSE 0
        /\ \A i \in 1 .. Len(s) - (k + 1) + 1 : b[i] = s[(k + 1) + i - 1]
    BY <1>1, SubSeqProperties
  <2>2. QED BY <1>1, <2>1
<1> HIDE DEF a, b
<1>4. /\ a \o b \in Seq(S) /\ Len(a \o b) = Len(a) + Len(b)
      /\ \A i \in 1 .. Len(a) + Len(b) :
            (a \o b)[i] = IF i <= Len(a) THEN a[i] ELSE b[i - Len(a)]
  BY <1>2, <1>3, ConcatProperties
<1>5. Len(a) + Len(b) = Len(s) - 1
  BY <1>1, <1>2, <1>3
<1>6. ASSUME NEW i \in 1 .. Len(s) - 1
      PROVE  (a \o b)[i] = IF i < k THEN s[i] ELSE s[i + 1]
  <2>1. CASE i < k
    BY <1>1, <1>2, <1>4, <1>5, <2>1
  <2>2. CASE ~(i < k)
    <3>1. (a \o b)[i] = b[i - (k - 1)] /\ i - (k - 1) \in 1 .. Len(s) - k
      <4>1. Len(a) = k - 1 /\ i \in 1 .. Len(a) + Len(b) /\ ~(i <= Len(a))
        BY <1>1, <1>2, <1>5, <2>2
      <4>2. (a \o b)[i] = b[i - Len(a)]
        BY <1>4, <4>1
      <4>3. i - (k - 1) \in 1 .. Len(s) - k
        BY <1>1, <2>2
      <4>4. QED BY <4>1, <4>2, <4>3
    <3>2. k + (i - (k - 1)) = i + 1
      BY <1>1
    <3>3. QED BY <1>1, <1>3, <2>2, <3>1, <3>2
  <2>3. QED BY <2>1, <2>2
<1>7. DOMAIN (a \o b) = 1 .. Len(s) - 1
  BY <1>4, <1>5, LenProperties
<1>8. QED BY <1>4, <1>6, <1>7 DEF RemoveAt, a, b

(* A waiting request gives up: its place is taken out of the queue.        *)
LEMMA LeaveQueueSeats ==
    ASSUME RelayTypes, SemInv, NEW r \in Request, LeaveQueue(r)
    PROVE  SemInv'
<1> USE DEF RelayTypes
<1>1. /\ request[r].pc = "queued" /\ held' = held
      /\ request'[r] = Idle
      /\ \A q \in Request \ {r} : request'[q] = request[q]
  BY DEF LeaveQueue, At
<1>2. PICK k \in DOMAIN queue : queue[k] = r /\ queue' = RemoveAt(queue, k)
  BY DEF LeaveQueue
<1> DEFINE top == Len(queue)
<1>3. /\ top \in Nat /\ DOMAIN queue = 1 .. top
      /\ queue' \in Seq(Request) /\ DOMAIN queue' = 1 .. top - 1
      /\ \A i \in 1 .. top - 1 : queue'[i] = IF i < k THEN queue[i] ELSE queue[i + 1]
  BY <1>2, LenProperties, RemoveAtProperties DEF SemInv
<1>4. Holders' = Holders
  BY <1>1 DEF Holders, Holding, Idle
<1>5. ModesOK'
  BY <1>1 DEF SemInv, ModesOK, Idle
<1>6. \A q \in Request : request'[q].pc = "queued" <=> request[q].pc = "queued" /\ q # r
  BY <1>1 DEF Idle
<1>7. ASSUME NEW i \in DOMAIN queue'
      PROVE  \E j \in DOMAIN queue : j # k /\ queue'[i] = queue[j]
                                     /\ j = IF i < k THEN i ELSE i + 1
  BY <1>3
<1>8. ASSUME NEW i \in DOMAIN queue'
      PROVE  queue'[i] \in Request /\ request'[queue'[i]].pc = "queued"
  <2>1. PICK j \in DOMAIN queue : j # k /\ queue'[i] = queue[j]
    BY <1>7
  <2>2. queue[j] # r /\ queue[j] \in Request /\ request[queue[j]].pc = "queued"
    BY <1>2, <2>1 DEF SemInv, Seats, At
  <2>3. QED BY <1>6, <2>1, <2>2
<1>9. ASSUME NEW q \in Request, request'[q].pc = "queued"
      PROVE  \E i \in DOMAIN queue' : queue'[i] = q
  <2>1. PICK j \in DOMAIN queue : queue[j] = q
    BY <1>6, <1>9 DEF SemInv, Seats, At
  <2>2. j # k
    BY <1>2, <1>6, <1>9, <2>1
  <2>3. CASE j < k
    BY <1>3, <2>1, <2>3
  <2>4. CASE j > k
    <3>1. j - 1 \in DOMAIN queue' /\ queue'[j - 1] = queue[(j - 1) + 1] /\ (j - 1) + 1 = j
      BY <1>3, <2>4
    <3>2. QED BY <2>1, <3>1
  <2>5. QED BY <1>3, <2>2, <2>3, <2>4
<1>10. ASSUME NEW i \in DOMAIN queue', NEW j \in DOMAIN queue', queue'[i] = queue'[j]
       PROVE  i = j
  <2> DEFINE place(l) == IF l < k THEN l ELSE l + 1
  <2>1. /\ place(i) \in DOMAIN queue /\ queue'[i] = queue[place(i)]
        /\ place(j) \in DOMAIN queue /\ queue'[j] = queue[place(j)]
    BY <1>3
  <2>2. place(i) = place(j)
    BY <1>10, <2>1 DEF SemInv, Seats
  <2>3. QED BY <1>3, <2>2
<1>11. queue # << >> /\ held' = Permits
  BY <1>1, <1>2 DEF SemInv, Seats
<1>12. Seats'
  BY <1>1, <1>4, <1>8, <1>9, <1>10, <1>11 DEF SemInv, Seats, At
<1>13. QED BY <1>1, <1>3, <1>4, <1>5, <1>12 DEF SemInv

(* The other steps leave the semaphore alone, or end in a Return.          *)
LEMMA ProceedSeats ==
    ASSUME RelayTypes, SemInv, NEW r \in Request, Proceed(r)
    PROVE  SemInv'
<1> USE DEF RelayTypes
<1>1. CASE LeaveQueue(r)
  BY <1>1, LeaveQueueSeats
<1>2. CASE Return(r) /\ request[r].pc \in Holding
  BY <1>2, ReturnSeats
<1>3. ASSUME request[r].pc \in Holding, UNCHANGED semVars,
             request'[r].pc \in Holding \ {"granted"}, request'[r].proxied = request[r].proxied,
             \A q \in Request \ {r} : request'[q] = request[q]
      PROVE  SemInv'
  BY <1>3, SeatsKept DEF KeepsSeat
<1>4. CASE Granted(r)
  BY <1>2, <1>3, <1>4 DEF Granted, At, GoTo, Holding, RequestRecord
<1>5. ASSUME NEW l, UseLink(r, l), request[r].pc \in Holding
      PROVE  SemInv'
  BY <1>2, <1>3, <1>5 DEF UseLink, Holding, RequestRecord
<1>6. CASE LoadCached(r)
  BY <1>3, <1>5, <1>6 DEF LoadCached, At, GoTo, Holding, RequestRecord
<1>7. CASE Join(r)
  BY <1>3, <1>7 DEF Join, At, GoTo, Holding, RequestRecord
<1>8. CASE TakeResult(r)
  BY <1>2, <1>5, <1>8 DEF TakeResult, At, Holding
<1>9. CASE StopWaiting(r)
  BY <1>2, <1>9 DEF StopWaiting, At, Holding
<1>10. CASE Retry(r)
  BY <1>3, <1>10 DEF Retry, TryAgain, At, Holding, RequestRecord
<1>11. CASE ProxyEnds(r)
  BY <1>2, <1>11 DEF ProxyEnds, At, Holding
<1>12. QED
  BY <1>1, <1>4, <1>6, <1>7, <1>8, <1>9, <1>10, <1>11 DEF Proceed

(* Those who get the result of the call are those who wait for it.         *)
WaitersWait == \A q \in flight.waiters : request[q].pc = "wait"

LEMMA CallSeats ==
    ASSUME RelayTypes, SemInv, WaitersWait, Call
    PROVE  SemInv'
<1> USE DEF RelayTypes
<1>1. CASE FetchLink \/ FetchFails
  BY <1>1, SeatsKept DEF FetchLink, FetchFails, KeepsSeat
<1>2. CASE Deliver
  <2>1. ASSUME NEW q \in Request
        PROVE  KeepsSeat(request[q], request'[q])
    <3>1. CASE q \in flight.waiters
      <4>1. request'[q] = [request[q] EXCEPT !.pc = flight.result, !.link = flight.link]
        BY <1>2, <3>1 DEF Deliver
      <4>2. request'[q].pc \in {"ok", "error"} /\ request'[q].proxied = request[q].proxied
        BY <1>2, <4>1 DEF Deliver, RequestRecord
      <4>3. QED BY <3>1, <4>2 DEF WaitersWait, KeepsSeat, Holding
    <3>2. CASE q \notin flight.waiters
      BY <1>2, <3>2 DEF Deliver, KeepsSeat
    <3>3. QED BY <3>1, <3>2
  <2>2. UNCHANGED semVars
    BY <1>2 DEF Deliver
  <2>3. QED BY <2>1, <2>2, SeatsKept
<1>3. QED BY <1>1, <1>2 DEF Call

(* What Init and Restart set.                                              *)
LEMMA EmptySeats ==
    ASSUME NEW S
    PROVE  /\ << >> \in Seq(S) /\ DOMAIN << >> = {}
           /\ IsFiniteSet({}) /\ Cardinality({}) = 0
<1>1. << >> \in Seq(S) /\ Len(<< >>) = 0
  BY EmptySeq
<1>2. DOMAIN << >> = 1 .. 0
  BY <1>1, LenProperties
<1>3. QED BY <1>1, <1>2, FS_EmptySet

LEMMA InitSeats == Init => SemInv /\ WaitersWait
<1> SUFFICES ASSUME Init PROVE SemInv /\ WaitersWait
  OBVIOUS
<1>1. \A r \in Request : request[r].pc = "idle" /\ ~request[r].proxied
  BY DEF Init, Idle
<1>2. Holders = {}
  BY <1>1 DEF Holders
<1>3. held = 0 /\ queue = << >> /\ flight.waiters = {}
  BY DEF Init, NoFlight
<1>4. queue \in Seq(Request) /\ DOMAIN queue = {} /\ IsFiniteSet(Holders) /\ Cardinality(Holders) = 0
  BY <1>2, <1>3, EmptySeats
<1>5. held \in 0 .. Permits
  BY <1>3, RelayAssumption
<1>6. QED BY <1>1, <1>3, <1>4, <1>5 DEF SemInv, Seats, ModesOK, WaitersWait, At

LEMMA RestartSeats == Restart => SemInv' /\ WaitersWait'
<1> SUFFICES ASSUME Restart PROVE SemInv' /\ WaitersWait'
  OBVIOUS
<1>1. \A r \in Request : request'[r].pc = "idle" /\ ~request'[r].proxied
  BY DEF Restart, Idle
<1>2. Holders' = {}
  BY <1>1 DEF Holders
<1>3. held' = 0 /\ queue' = << >> /\ flight'.waiters = {}
  BY DEF Restart, NoFlight
<1>4. queue' \in Seq(Request) /\ DOMAIN queue' = {} /\ IsFiniteSet(Holders') /\ Cardinality(Holders') = 0
  BY <1>2, <1>3, EmptySeats
<1>5. held' \in 0 .. Permits
  BY <1>3, RelayAssumption
<1>6. QED BY <1>1, <1>3, <1>4, <1>5 DEF SemInv, Seats, ModesOK, WaitersWait, At

(* Nobody leaves the place where it waits for the call but by the call's   *)
(* end, or as one of those who get its result no longer.                   *)
LEMMA WaitersStay ==
    ASSUME RelayTypes, SemInv, WaitersWait, NEW r \in Request, Proceed(r) \/ Arrive(r)
    PROVE  WaitersWait'
<1> USE DEF RelayTypes
<1>1. ASSUME \A q \in Request \ {r} : request'[q] = request[q] \/ request[q].pc = "queued",
             flight'.waiters \subseteq flight.waiters, request[r].pc # "wait"
      PROVE  WaitersWait'
  BY <1>1 DEF WaitersWait, FlightRecord
<1>2. ASSUME Return(r)
      PROVE  \A q \in Request \ {r} : request'[q] = request[q] \/ request[q].pc = "queued"
  <2>1. CASE request' = [request EXCEPT ![r] = Idle]
    BY <2>1
  <2>2. CASE queue # << >> /\ request' = [request EXCEPT ![r] = Idle, ![Head(queue)].pc = "granted"]
    <3>1. Head(queue) = queue[1] /\ 1 \in DOMAIN queue
      BY <2>2, EmptySeq, LenProperties DEF SemInv
    <3>2. request[Head(queue)].pc = "queued"
      BY <3>1 DEF SemInv, Seats, At
    <3>3. QED BY <2>2, <3>2
  <2>3. QED BY <1>2, <2>1, <2>2 DEF Return, Release
<1>3. CASE Arrive(r) \/ LeaveQueue(r) \/ Retry(r)
  BY <1>1, <1>3 DEF Arrive, LeaveQueue, Retry, TryAgain, GoTo, At, linkVars
<1>4. ASSUME NEW l, UseLink(r, l), request[r].pc # "wait", flight' = flight
      PROVE  WaitersWait'
  BY <1>1, <1>2, <1>4 DEF UseLink
<1>5. CASE Granted(r) \/ LoadCached(r) \/ TakeResult(r) \/ ProxyEnds(r)
  BY <1>1, <1>2, <1>4, <1>5 DEF Granted, LoadCached, TakeResult, ProxyEnds, GoTo, At, linkVars
<1>6. CASE Join(r)
  <2>1. /\ request'[r].pc = "wait"
        /\ \A q \in Request \ {r} : request'[q] = request[q]
        /\ flight'.waiters \subseteq flight.waiters \cup {r}
    BY <1>6 DEF Join, GoTo, RequestRecord, FlightRecord
  <2>2. QED BY <2>1 DEF WaitersWait, FlightRecord
<1>7. CASE StopWaiting(r)
  <2>1. flight'.waiters = flight.waiters \ {r}
    BY <1>7 DEF StopWaiting, FlightRecord
  <2>2. \A q \in Request \ {r} : request'[q] = request[q] \/ request[q].pc = "queued"
    BY <1>2, <1>7 DEF StopWaiting
  <2>3. QED BY <2>1, <2>2 DEF WaitersWait, FlightRecord
<1>8. QED BY <1>3, <1>5, <1>6, <1>7 DEF Proceed

LEMMA NextSeats ==
    RelayTypes /\ SemInv /\ WaitersWait /\ [Next]_vars => SemInv' /\ WaitersWait'
<1> SUFFICES ASSUME RelayTypes, SemInv, WaitersWait, [Next]_vars PROVE SemInv' /\ WaitersWait'
  OBVIOUS
<1>1. ASSUME NEW r \in Request, Arrive(r) \/ Proceed(r)
      PROVE  SemInv' /\ WaitersWait'
  BY <1>1, ArriveSeats, ProceedSeats, WaitersStay
<1>2. ASSUME request' = request, UNCHANGED semVars, flight'.waiters = flight.waiters
      PROVE  SemInv' /\ WaitersWait'
  BY <1>2, SeatsKept DEF KeepsSeat, WaitersWait
<1>3. ASSUME NEW r \in Request, ClientLeaves(r)
      PROVE  SemInv' /\ WaitersWait'
  BY <1>2, <1>3 DEF ClientLeaves, RelayTypes, FlightRecord
<1>4. CASE Call
  <2>1. CASE FetchLink \/ FetchFails
    BY <1>2, <2>1 DEF FetchLink, FetchFails, RelayTypes, FlightRecord
  <2>2. CASE Deliver
    <3>1. WaitersWait'
      BY <2>2 DEF Deliver, NoFlight, WaitersWait
    <3>2. QED BY <1>4, <3>1, CallSeats
  <2>3. QED BY <1>4, <2>1, <2>2 DEF Call
<1>5. CASE Expire \/ UNCHANGED vars
  BY <1>2, <1>5 DEF Expire, vars, linkVars
<1>6. CASE Restart
  BY <1>6, RestartSeats
<1>7. QED BY <1>1, <1>3, <1>4, <1>5, <1>6 DEF Next

(* The semaphore of the relay (originSem): every permit given out is with  *)
(* a request that will give it back, whichever way it ends; those who wait *)
(* are in the queue, once each; none of them waits while a permit is free; *)
(* for any number of requests and permits.                                 *)
THEOREM PermitsStayAccounted == Spec => []PermitsAccounted
<1>1. IInv => RelayTypes
  BY DEF IInv
<1>2. SemInv => PermitsAccounted
  <2> SUFFICES ASSUME SemInv PROVE PermitsAccounted
    OBVIOUS
  <2>1. {queue[i] : i \in DOMAIN queue} = {r \in Request : At(r, "queued")}
    BY DEF SemInv, Seats
  <2>2. QED BY <2>1 DEF SemInv, Seats, PermitsAccounted, Holders
<1>3. QED BY <1>1, <1>2, RelayInvariant, InitSeats, NextSeats, PTL DEF Spec

=============================================================================
