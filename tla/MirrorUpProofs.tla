--------------------------- MODULE MirrorUpProofs ---------------------------
(***************************************************************************)
(* What the upload scope of a task takes from the user it keeps, for any   *)
(* tree of paths, any number of nodes in the cloud and any plan; and what  *)
(* it tracks, it does not recycle.                                         *)
(***************************************************************************)
EXTENDS MirrorUp, SequenceTheorems, FiniteSetTheorems, WellFoundedInduction, TLAPS

(* The directories on the way to a video or a .strm, and the hypothesis    *)
(* that the user neither deletes nor renames them: the program deletes the *)
(* node of a directory that is gone, with all that is in it.               *)
Home == {d \in DirPath : \E p \in VideoPath \cup StrmPath : IsPrefix(d, p)}
HomesStay == Home \cap Removable = {}

-----------------------------------------------------------------------------
(***************************************************************************)
(* The inductive invariant: types, ...                                     *)
(***************************************************************************)
Kinds == {"none", "dir", "file", "strm"}
Things == [k : Kinds, c : Content \cup {nowhere}, pc : Fid \cup {nowhere}, old : BOOLEAN]
Nodes == [up : Fid \cup {root, temp, elsewhere, nowhere}, kind : {"none", "dir", "file"},
          c : Content \cup {nowhere}, name : Path \cup {Root}]
Records == [fid : Fid \cup {nowhere}, kind : Kinds, size : {SizeOf[c] : c \in Content} \cup {0}]
Ops == [kind : DOMAIN phase, path : Path, fid : Fid \cup {nowhere}, video : BOOLEAN,
        replace : Fid \cup {nowhere}]
Stages == {"idle", "begin", "ensure", "record", "put", "retireOld", "writeStrm", "remove",
           "rename", "clear"}
Jobs == [at : Stages, ops : Seq(Ops), fid : Fid \cup {nowhere},
         size : {SizeOf[c] : c \in Content} \cup {0}, calm : BOOLEAN]

Typed ==
    /\ local \in [Path -> Things] /\ node \in [Fid -> Nodes] /\ index \in [Path -> Records]
    /\ job \in Jobs
    /\ job.at = "idle" <=> job.ops = << >>
    /\ \A p \in Path : Has(p) <=> index[p].kind # "none"
    /\ handed \subseteq Content /\ torn \subseteq Path /\ settled \in 0 .. 2

(* ... what can be where in the local tree, ...                            *)
VideoNode(f) == f \in Fid /\ node[f].kind = "file" /\ node[f].name \in VideoPath \cup StrmPath \cup {Root}

LocalFine ==
    \A p \in Path :
        /\ p \in DirPath => local[p].k \in {"none", "dir"}
        /\ local[p].k = "dir" => p \in DirPath
        /\ local[p].k = "strm" <=> p \in StrmPath /\ There(p)
        /\ local[p].k = "file" => local[p].c \in Content
        /\ There(p) => LocalDir(Up(p))
        /\ local[p].pc # nowhere => VideoNode(local[p].pc)

(* ... in the cloud: directories never leave their place unless they are   *)
(* dropped, those in another have the larger id; ...                       *)
DirNode(f, d) == f \in Fid /\ node[f].kind = "dir" /\ node[f].name = d
CloudFine ==
    \A f \in Fid :
        /\ node[f].kind = "none" => node[f] = NoNode
        /\ node[f].kind = "dir" =>
                /\ node[f].c = nowhere
                /\ node[f].name \in DirPath
                /\ node[f].up \in Fid => node[f].up < f
                /\ node[f].up \notin {temp, elsewhere}
                /\ \A g \in Fresh : f < g
        /\ node[f].up \in Fid => node[node[f].up].kind = "dir"
        /\ node[f].up = elsewhere => node[f].kind = "file" /\ node[f].name = Root
        /\ node[f].kind = "file" /\ node[f].c # nowhere => node[f].name # Root

(* ... the way to a video or a .strm hangs together, ...                   *)
InPlace(up, p) == IF Up(p) = Root THEN up = root ELSE DirNode(up, Up(p))
HomesFine ==
    /\ \A f \in Fid : node[f].kind = "dir" /\ node[f].name \in Home => InPlace(node[f].up, node[f].name)
    /\ \A d \in Home : Has(d) => local[d].k = "dir"

(* ... and a node with the content of a video lies on it.                  *)
Precious(f) ==
    /\ f \in Fid /\ node[f].kind = "file" /\ node[f].c \in Big
    /\ node[f].name \in VideoPath \cup StrmPath
Reachable(f) == \/ node[f].up \in {root, temp}
                \/ \E d \in Home : DirNode(node[f].up, d)
PreciousFine == ToStrm => \A f \in Fid : Precious(f) => Reachable(f)

(* ... A record says what its node is; what may be dropped is no video and *)
(* not on the way to one; ...                                              *)
Plain(f) == f \in Fid /\ node[f].kind = "file" /\ node[f].name # Root /\ (ToStrm => ~Precious(f))
Droppable(f) == Plain(f) \/ \E d \in DirPath \ Home : DirNode(f, d)
IndexFine ==
    \A p \in Path :
        /\ index[p].kind = "dir" => p \in DirPath /\ DirNode(index[p].fid, p)
        /\ index[p].kind = "file" => p \notin DirPath \cup StrmPath /\ Plain(index[p].fid)
        /\ index[p].kind = "strm" => p \in StrmPath /\ VideoNode(index[p].fid)

(* ... an operation of the plan fits what it finds at its turn, ...        *)
Sort(o) ==
    IF o.kind = "upload" /\ o.video
    THEN o.path \in VideoPath /\ (local[o.path].k = "file" => local[o.path].c \in Big)
    ELSE ToStrm /\ o.path \in VideoPath /\ local[o.path].k = "file" => local[o.path].c \notin Big
Below(o) == IF o.kind = "mkdir" THEN o.path ELSE Up(o.path)
WayThere(o) == \A d \in Home : IsPrefix(d, Below(o)) => local[d].k = "dir"
OpFine(o) ==
    /\ o.kind = "retire" => o.path \in StrmPath /\ VideoNode(o.fid)
    /\ o.kind = "drop" => o.path \notin Home /\ Droppable(o.fid)
    /\ o.kind = "mkdir" => o.path \in DirPath /\ WayThere(o)
    /\ o.kind = "upload" =>
            /\ o.path \notin DirPath \cup StrmPath
            /\ o.video => ToStrm
            /\ o.replace = nowhere \/ VideoNode(o.replace)
            /\ Sort(o) /\ WayThere(o)
    /\ o.kind = "adopt" => o.path \in StrmPath /\ VideoNode(o.fid) /\ WayThere(o)
    /\ o.kind = "normalize" => o.path \in StrmPath
PlanFine == \A i \in DOMAIN job.ops : OpFine(job.ops[i])

(* ... and so does a step inside one.                                      *)
AtKinds ==
    [ensure |-> {"upload", "mkdir", "adopt"}, record |-> {"upload", "mkdir", "adopt"},
     retireOld |-> {"upload"}, writeStrm |-> {"upload", "adopt"}, remove |-> {"upload"},
     rename |-> {"adopt"}, put |-> {"upload", "adopt"}, clear |-> {"retire", "drop"}]
StepFine ==
    /\ job.at \notin {"idle", "begin"} => op.kind \in AtKinds[job.at]
    /\ job.at = "record" => Unrecorded # {} /\ DirNode(job.fid, TopUnrecorded)
    /\ job.at \in {"retireOld", "remove"} => op.video
    /\ job.at = "writeStrm" /\ op.kind = "upload" => op.video
    /\ job.at \in {"retireOld", "writeStrm", "remove"} /\ op.kind = "upload" =>
            /\ Precious(job.fid)
            /\ local[op.path].k = "file" => node[job.fid].c = local[op.path].c
    /\ job.at \in {"rename", "writeStrm", "put"} /\ op.kind = "adopt" => VideoNode(job.fid)
    /\ job.at = "rename" => Reachable(job.fid)
    /\ job.at = "put" /\ op.kind = "upload" =>
            IF op.video THEN VideoNode(job.fid) ELSE Plain(job.fid)

HandedFine == \A c \in handed : ToStrm /\ \E f \in Fid : node[f].c = c /\ Precious(f)

UpInv ==
    /\ Typed /\ LocalFine /\ CloudFine /\ HomesFine /\ PreciousFine /\ IndexFine
    /\ PlanFine /\ StepFine /\ HandedFine

-----------------------------------------------------------------------------
(***************************************************************************)
(* Induction, from the well-foundedness of < on the naturals: a set of     *)
(* naturals has a least element, and one with 0 and the successors of its  *)
(* elements has them all.                                                  *)
(***************************************************************************)
Less == OpToRel(<, Nat)

LEMMA LessIsWellFounded ==
    /\ IsWellFoundedOn(Less, Nat)
    /\ \A x, y \in Nat : <<x, y>> \in Less <=> x < y
<1>1. IsWellFoundedOn(Less, Nat)
  BY NatLessThanWellFounded DEF Less
<1>2. \A x, y \in Nat : <<x, y>> \in Less <=> x < y
  BY DEF Less, OpToRel
<1> QED
  BY <1>1, <1>2

LEMMA Least ==
    ASSUME NEW T \in SUBSET Nat, T # {}
    PROVE  \E x \in T : \A y \in T : x <= y
<1>1. IsWellFoundedOn(Less, Nat) /\ T \subseteq Nat
  BY LessIsWellFounded
<1>2. PICK x \in T : \A y \in T : ~(<<y, x>> \in Less)
  BY <1>1, WFMin, Zenon
<1>3. ASSUME NEW y \in T PROVE x <= y
  <2>1. ~(<<y, x>> \in Less) /\ x \in Nat /\ y \in Nat
    BY <1>1, <1>2
  <2>2. <<y, x>> \in Less <=> y < x
    BY <2>1, LessIsWellFounded
  <2> QED
    BY <2>1, <2>2
<1> QED
  BY <1>3

LEMMA SetInduction ==
    ASSUME NEW S, 0 \in S, \A n \in Nat : n \in S => n + 1 \in S
    PROVE  Nat \subseteq S
<1> SUFFICES ASSUME Nat \ S # {} PROVE FALSE
  OBVIOUS
<1>1. PICK x \in Nat \ S : \A y \in Nat \ S : x <= y
  BY Least
<1>2. x # 0 /\ x - 1 \in Nat
  BY <1>1
<1>3. x - 1 \in S
  BY <1>1, <1>2
<1> QED
  BY <1>1, <1>2, <1>3

(* A value a sequence of naturals does not exceed.                         *)
LEMMA Bounded ==
    ASSUME NEW s \in Seq(Nat)
    PROVE  \E N \in Nat : \A i \in DOMAIN s : s[i] <= N
<1> DEFINE S == {n \in Nat : \E N \in Nat : \A i \in DOMAIN s : i <= n => s[i] <= N}
<1>1. 0 \in S
  OBVIOUS
<1>2. ASSUME NEW n \in Nat, n \in S PROVE n + 1 \in S
  <2>1. PICK N \in Nat : \A i \in DOMAIN s : i <= n => s[i] <= N
    BY <1>2
  <2>2. CASE n + 1 \in DOMAIN s
    <3>1. s[n + 1] \in Nat
      BY <2>2
    <3>2. N + s[n + 1] \in Nat
      BY <3>1
    <3>3. ASSUME NEW i \in DOMAIN s, i <= n + 1 PROVE s[i] <= N + s[n + 1]
      <4>1. i = n + 1 \/ i <= n
        BY <3>3
      <4>2. s[i] \in Nat
        OBVIOUS
      <4> QED
        BY <4>1, <4>2, <3>1, <2>1
    <3>4. \E M \in Nat : \A i \in DOMAIN s : i <= n + 1 => s[i] <= M
      BY <3>2, <3>3
    <3> QED
      BY <3>4
  <2>3. CASE n + 1 \notin DOMAIN s
    <3>1. \A i \in DOMAIN s : i <= n + 1 => i <= n
      BY <2>3
    <3> QED
      BY <3>1, <2>1
  <2> QED
    BY <2>2, <2>3
<1>3. Len(s) \in S
  <2>1. \A n \in Nat : n \in S => n + 1 \in S
    BY <1>2
  <2> HIDE DEF S
  <2>2. Nat \subseteq S
    BY <1>1, <2>1, SetInduction
  <2> QED
    BY <2>2
<1>4. \A i \in DOMAIN s : i <= Len(s)
  OBVIOUS
<1> QED
  BY <1>3, <1>4

-----------------------------------------------------------------------------
(***************************************************************************)
(* FlattenSeq: a concatenation of sequences over a set is one.             *)
(***************************************************************************)
LEMMA FlattenRecursion ==
    ASSUME NEW T, NEW ss \in Seq(Seq(T)), Len(ss) > 0
    PROVE  \E g : /\ g = [i \in 1 .. Len(ss) |-> IF i = 1 THEN ss[i] ELSE g[i-1] \o ss[i]]
                  /\ FlattenSeq(ss) = g[Len(ss)]
<1> DEFINE N == Len(ss)
           E(g, i) == IF i = 1 THEN ss[i] ELSE g[i-1] \o ss[i]
           F == CHOOSE g : g = [i \in 1 .. N |-> E(g, i)]
           S == {n \in Nat : \E g : \A i \in 1 .. N : i <= n => g[i] = E(g, i)}
<1>1. 0 \in S
  OBVIOUS
<1>2. ASSUME NEW n \in Nat, n \in S PROVE n + 1 \in S
  <2>1. PICK g : \A i \in 1 .. N : i <= n => g[i] = E(g, i)
    BY <1>2
  <2> DEFINE h == [i \in 1 .. N |-> IF i = n + 1 THEN E(g, i) ELSE g[i]]
  <2>2. ASSUME NEW i \in 1 .. N, i <= n + 1 PROVE h[i] = E(h, i)
    <3>1. i - 1 \in 1 .. N => h[i - 1] = g[i - 1]
      BY <2>2, <2>1
    <3>2. h[i] = E(g, i)
      BY <2>2, <2>1
    <3>3. i # 1 => i - 1 \in 1 .. N
      BY <2>2
    <3> QED
      BY <3>1, <3>2, <3>3
  <2>3. \A i \in 1 .. N : i <= n + 1 => h[i] = E(h, i)
    BY <2>2
  <2> HIDE DEF h
  <2> QED
    BY <2>3
<1>3. N \in S
  <2>1. \A n \in Nat : n \in S => n + 1 \in S
    BY <1>2
  <2> HIDE DEF S
  <2>2. Nat \subseteq S
    BY <1>1, <2>1, SetInduction
  <2> QED
    BY <2>2
<1>4. PICK g : \A i \in 1 .. N : i <= N => g[i] = E(g, i)
  BY <1>3
<1> DEFINE h == [i \in 1 .. N |-> g[i]]
<1>5. h = [i \in 1 .. N |-> E(h, i)]
  BY <1>4
<1>6. F = [i \in 1 .. N |-> E(F, i)]
  BY <1>5
<1>7. FlattenSeq(ss) = F[N]
  BY DEF FlattenSeq
<1> QED
  BY <1>6, <1>7

LEMMA FlattenType ==
    ASSUME NEW T, NEW ss \in Seq(Seq(T))
    PROVE  FlattenSeq(ss) \in Seq(T)
<1>1. CASE Len(ss) = 0
  <2>1. FlattenSeq(ss) = ss /\ ss = << >>
    BY <1>1 DEF FlattenSeq
  <2> QED
    BY <2>1
<1>2. CASE Len(ss) > 0
  <2>1. PICK g : /\ g = [i \in 1 .. Len(ss) |-> IF i = 1 THEN ss[i] ELSE g[i-1] \o ss[i]]
                 /\ FlattenSeq(ss) = g[Len(ss)]
    BY <1>2, FlattenRecursion
  <2>2. \A i \in 1 .. Len(ss) : g[i] = IF i = 1 THEN ss[i] ELSE g[i-1] \o ss[i]
    BY <2>1
  <2> DEFINE S == {n \in Nat : n \in 1 .. Len(ss) => g[n] \in Seq(T)}
  <2>3. 0 \in S
    OBVIOUS
  <2>4. ASSUME NEW n \in Nat, n \in S PROVE n + 1 \in S
    <3>1. ASSUME n + 1 \in 1 .. Len(ss) PROVE g[n + 1] \in Seq(T)
      <4>1. ss[n + 1] \in Seq(T)
        BY <3>1
      <4>2. CASE n = 0
        BY <4>1, <4>2, <2>2, <3>1
      <4>3. CASE n # 0
        <5>0. n \in 1 .. Len(ss) /\ n + 1 # 1 /\ (n + 1) - 1 = n
          BY <3>1, <4>3
        <5>1. g[n + 1] = IF n + 1 = 1 THEN ss[n + 1] ELSE g[(n + 1) - 1] \o ss[n + 1]
          BY <2>2, <3>1
        <5>2. g[n + 1] = g[n] \o ss[n + 1]
          BY <5>0, <5>1
        <5>3. g[n] \in Seq(T)
          BY <2>4, <5>0
        <5>4. g[n] \o ss[n + 1] \in Seq(T)
          BY <5>3, <4>1
        <5> QED
          BY <5>2, <5>4
      <4> QED
        BY <4>2, <4>3
    <3> QED
      BY <3>1
  <2>5. Len(ss) \in S
    <3>1. \A n \in Nat : n \in S => n + 1 \in S
      BY <2>4
    <3> HIDE DEF S
    <3>2. Nat \subseteq S
      BY <2>3, <3>1, SetInduction
    <3> QED
      BY <3>2
  <2> QED
    BY <2>5, <2>1, <1>2
<1> QED
  BY <1>1, <1>2

(* It is empty only if they all are.                                       *)
LEMMA FlattenNonempty ==
    ASSUME NEW T, NEW ss \in Seq(Seq(T)), NEW k \in DOMAIN ss, ss[k] # << >>
    PROVE  FlattenSeq(ss) # << >>
<1>0. k \in 1 .. Len(ss) /\ Len(ss) \in Nat /\ Len(ss) > 0
  OBVIOUS
<1>1. PICK g : /\ g = [i \in 1 .. Len(ss) |-> IF i = 1 THEN ss[i] ELSE g[i-1] \o ss[i]]
               /\ FlattenSeq(ss) = g[Len(ss)]
  BY <1>0, FlattenRecursion
<1>2. \A i \in 1 .. Len(ss) : g[i] = IF i = 1 THEN ss[i] ELSE g[i-1] \o ss[i]
  BY <1>1
<1> DEFINE S == {n \in Nat : n \in 1 .. Len(ss) => g[n] \in Seq(T) /\ (n >= k => Len(g[n]) > 0)}
<1>3. 0 \in S
  OBVIOUS
<1>4. ASSUME NEW n \in Nat, n \in S PROVE n + 1 \in S
  <2>1. ASSUME n + 1 \in 1 .. Len(ss) PROVE g[n + 1] \in Seq(T) /\ (n + 1 >= k => Len(g[n + 1]) > 0)
    <3>1. ss[n + 1] \in Seq(T) /\ (n + 1 = k => Len(ss[n + 1]) > 0)
      BY <2>1
    <3>2. CASE n = 0
      <4>1. g[n + 1] = ss[n + 1]
        BY <2>1, <1>2, <3>2
      <4>2. n + 1 >= k => n + 1 = k
        BY <1>0, <3>2
      <4> QED
        BY <3>1, <4>1, <4>2
    <3>3. CASE n # 0
      <4>0. n \in 1 .. Len(ss) /\ n + 1 # 1 /\ (n + 1) - 1 = n
        BY <2>1, <3>3
      <4>1. g[n + 1] = IF n + 1 = 1 THEN ss[n + 1] ELSE g[(n + 1) - 1] \o ss[n + 1]
        BY <1>2, <2>1
      <4>2. g[n + 1] = g[n] \o ss[n + 1]
        BY <4>0, <4>1
      <4>3. g[n] \in Seq(T) /\ (n >= k => Len(g[n]) > 0)
        BY <1>4, <4>0
      <4>4. g[n] \o ss[n + 1] \in Seq(T) /\ Len(g[n] \o ss[n + 1]) = Len(g[n]) + Len(ss[n + 1])
        BY <4>3, <3>1
      <4>5. n + 1 >= k => n >= k \/ n + 1 = k
        BY <1>0
      <4>6. Len(g[n]) \in Nat /\ Len(ss[n + 1]) \in Nat
        BY <4>3, <3>1
      <4>7. ASSUME n + 1 >= k PROVE Len(g[n]) + Len(ss[n + 1]) > 0
        <5>1. Len(g[n]) > 0 \/ Len(ss[n + 1]) > 0
          BY <4>3, <4>5, <4>7, <3>1
        <5>2. \A a, b \in Nat : a > 0 \/ b > 0 => a + b > 0
          OBVIOUS
        <5> QED
          BY <5>1, <5>2, <4>6, Zenon
      <4> QED
        BY <4>2, <4>4, <4>7
    <3> QED
      BY <3>2, <3>3
  <2> QED
    BY <2>1
<1>5. Len(ss) \in S
  <2>1. \A n \in Nat : n \in S => n + 1 \in S
    BY <1>4
  <2> HIDE DEF S
  <2>2. Nat \subseteq S
    BY <1>3, <2>1, SetInduction
  <2> QED
    BY <2>2, <1>0
<1>6. Len(g[Len(ss)]) > 0
  BY <1>5, <1>0
<1>7. Len(<< >>) = 0
  OBVIOUS
<1>8. g[Len(ss)] # << >>
  <2> SUFFICES ASSUME g[Len(ss)] = << >> PROVE FALSE
    OBVIOUS
  <2>1. Len(g[Len(ss)]) = 0
    BY <1>7, Zenon
  <2> QED
    BY <2>1, <1>6
<1> QED
  BY <1>1, <1>8

-----------------------------------------------------------------------------
(***************************************************************************)
(* Paths, and what lies above and below them.                              *)
(***************************************************************************)
LEMMA PrefixPointwise ==
    ASSUME NEW T, NEW s \in Seq(T), NEW t \in Seq(T)
    PROVE  IsPrefix(s, t) <=> Len(s) <= Len(t) /\ \A i \in 1 .. Len(s) : s[i] = t[i]
<1>1. SubSeq(s, 1, Len(s)) = s
  OBVIOUS
<1>2. Len(s) <= Len(t) =>
        /\ SubSeq(t, 1, Len(s)) \in Seq(T) /\ Len(SubSeq(t, 1, Len(s))) = Len(s)
        /\ \A i \in 1 .. Len(s) : SubSeq(t, 1, Len(s))[i] = t[i]
  OBVIOUS
<1>3. Len(s) <= Len(t) /\ (\A i \in 1 .. Len(s) : s[i] = t[i]) => SubSeq(t, 1, Len(s)) = s
  <2> SUFFICES ASSUME Len(s) <= Len(t), \A i \in 1 .. Len(s) : s[i] = t[i]
               PROVE  SubSeq(t, 1, Len(s)) = s
    OBVIOUS
  <2> DEFINE r == SubSeq(t, 1, Len(s))
  <2>1. r \in Seq(T) /\ Len(r) = Len(s) /\ \A i \in 1 .. Len(s) : r[i] = s[i]
    BY <1>2
  <2> HIDE DEF r
  <2> QED
    BY <2>1, SeqEqual DEF r
<1> QED
  BY <1>1, <1>2, <1>3 DEF IsPrefix

LEMMA PrefixFacts ==
    ASSUME NEW T, NEW s \in Seq(T), NEW t \in Seq(T), NEW u \in Seq(T)
    PROVE  /\ IsPrefix(s, s)
           /\ IsPrefix(s, t) /\ IsPrefix(t, u) => IsPrefix(s, u)
           /\ IsPrefix(s, u) /\ IsPrefix(t, u) /\ Len(s) <= Len(t) => IsPrefix(s, t)
           /\ IsPrefix(s, t) => Len(s) <= Len(t)
           /\ IsPrefix(s, t) /\ Len(s) >= Len(t) => s = t
<1>1. /\ IsPrefix(s, s) <=> Len(s) <= Len(s) /\ \A i \in 1 .. Len(s) : s[i] = s[i]
      /\ IsPrefix(s, t) <=> Len(s) <= Len(t) /\ \A i \in 1 .. Len(s) : s[i] = t[i]
      /\ IsPrefix(t, u) <=> Len(t) <= Len(u) /\ \A i \in 1 .. Len(t) : t[i] = u[i]
      /\ IsPrefix(s, u) <=> Len(s) <= Len(u) /\ \A i \in 1 .. Len(s) : s[i] = u[i]
  BY PrefixPointwise
<1>2. Len(s) \in Nat /\ Len(t) \in Nat /\ Len(u) \in Nat
  OBVIOUS
<1>3. IsPrefix(s, t) /\ Len(s) >= Len(t) => s = t
  BY <1>1, <1>2, SeqEqual
<1> QED
  BY <1>1, <1>2, <1>3

LEMMA FrontFacts ==
    ASSUME NEW T, NEW s \in Seq(T), NEW t \in Seq(T), Len(t) > 0
    PROVE  /\ Front(t) \in Seq(T) /\ Len(Front(t)) = Len(t) - 1
           /\ \A i \in 1 .. Len(t) - 1 : Front(t)[i] = t[i]
           /\ IsPrefix(Front(t), t)
           /\ IsPrefix(s, t) /\ s # t => IsPrefix(s, Front(t))
<1>1. /\ Front(t) \in Seq(T) /\ Len(Front(t)) = Len(t) - 1
      /\ \A i \in 1 .. Len(t) - 1 : Front(t)[i] = t[i]
  BY DEF Front
<1>2. /\ IsPrefix(Front(t), t) <=> Len(Front(t)) <= Len(t)
                                    /\ \A i \in 1 .. Len(Front(t)) : Front(t)[i] = t[i]
      /\ IsPrefix(s, t) <=> Len(s) <= Len(t) /\ \A i \in 1 .. Len(s) : s[i] = t[i]
      /\ IsPrefix(s, Front(t)) <=> Len(s) <= Len(Front(t))
                                    /\ \A i \in 1 .. Len(s) : s[i] = Front(t)[i]
  BY <1>1, PrefixPointwise
<1>3. IsPrefix(s, t) /\ s # t => Len(s) < Len(t)
  BY PrefixFacts
<1> QED
  BY <1>1, <1>2, <1>3

Names == UNION {Range(p) : p \in Path}

LEMMA PathType ==
    ASSUME NEW p \in Path
    PROVE  /\ p \in Seq(Names) /\ Len(p) \in Nat \ {0} /\ p # Root
           /\ Up(p) \in Seq(Names) /\ Len(Up(p)) = Len(p) - 1
           /\ Up(p) = Root \/ Up(p) \in DirPath
           /\ DirPath \subseteq Path
<1>1. p \in Seq(Range(p)) /\ Len(p) > 0
  BY MirrorUpAssumption
<1>2. Range(p) \subseteq Names
  BY DEF Names
<1>3. p \in Seq(Names)
  BY <1>1, <1>2
<1>4. Up(p) \in Seq(Names) /\ Len(Up(p)) = Len(p) - 1
  BY <1>1, <1>3, FrontFacts DEF Up
<1>5. Len(p) \in Nat \ {0}
  BY <1>1, <1>3
<1>6. p # Root
  BY <1>1 DEF Root
<1> QED
  BY <1>3, <1>4, <1>5, <1>6, MirrorUpAssumption

LEMMA PathFacts ==
    ASSUME NEW d \in Path, NEW e \in Path, NEW p \in Path
    PROVE  /\ IsPrefix(p, p)
           /\ IsPrefix(d, e) /\ IsPrefix(e, p) => IsPrefix(d, p)
           /\ IsPrefix(d, p) /\ IsPrefix(e, p) /\ Len(d) <= Len(e) => IsPrefix(d, e)
           /\ IsPrefix(d, p) => Len(d) <= Len(p)
           /\ IsPrefix(d, p) /\ Len(d) >= Len(p) => d = p
           /\ IsPrefix(Up(p), p)
           /\ IsPrefix(d, Up(p)) => IsPrefix(d, p)
           /\ IsPrefix(d, p) /\ d # p => IsPrefix(d, Up(p)) /\ Up(p) \in DirPath
<1>1. d \in Seq(Names) /\ e \in Seq(Names) /\ p \in Seq(Names) /\ Len(p) > 0
  BY PathType
<1>2. Up(p) \in Seq(Names) /\ IsPrefix(Up(p), p) /\ (IsPrefix(d, p) /\ d # p => IsPrefix(d, Up(p)))
  BY <1>1, FrontFacts DEF Up
<1>3. IsPrefix(d, Up(p)) => IsPrefix(d, p)
  BY <1>1, <1>2, PrefixFacts
<1>4. IsPrefix(d, Up(p)) => Up(p) # Root
  <2>1. IsPrefix(d, Up(p)) => Len(d) <= Len(Up(p))
    BY <1>1, <1>2, PrefixFacts
  <2>2. Len(d) > 0 /\ Len(Root) = 0
    BY PathType DEF Root
  <2> QED
    BY <2>1, <2>2
<1>5. Up(p) = Root \/ Up(p) \in DirPath
  BY PathType
<1>6. /\ IsPrefix(p, p)
      /\ IsPrefix(d, e) /\ IsPrefix(e, p) => IsPrefix(d, p)
      /\ IsPrefix(d, p) /\ IsPrefix(e, p) /\ Len(d) <= Len(e) => IsPrefix(d, e)
      /\ IsPrefix(d, p) => Len(d) <= Len(p)
      /\ IsPrefix(d, p) /\ Len(d) >= Len(p) => d = p
  BY <1>1, PrefixFacts
<1> QED
  BY <1>2, <1>3, <1>4, <1>5, <1>6

(* What holds of a path and, with each path, of its directory, holds of    *)
(* all that lie above it.                                                  *)
LEMMA Ancestors ==
    ASSUME NEW S, \A e \in Path : e \in S => Up(e) = Root \/ Up(e) \in S,
           NEW p \in Path, p \in S, NEW d \in Path, IsPrefix(d, p)
    PROVE  d \in S
<1> DEFINE T == {n \in Nat : \E e \in Path : e \in S /\ IsPrefix(d, e) /\ Len(e) = n}
<1>1. T \in SUBSET Nat /\ T # {}
  BY PathType
<1>2. PICK n \in T : \A m \in T : n <= m
  <2> HIDE DEF T
  <2> QED
    BY <1>1, Least
<1>3. PICK e \in Path : e \in S /\ IsPrefix(d, e) /\ Len(e) = n
  BY <1>2
<1>4. CASE d = e
  BY <1>4, <1>3
<1>5. CASE d # e
  <2>1. IsPrefix(d, Up(e)) /\ Up(e) \in Path
    BY <1>3, <1>5, PathFacts, PathType
  <2>2. Up(e) \in S
    BY <1>3, <2>1, PathType
  <2>3. Len(Up(e)) = Len(e) - 1 /\ Len(e) \in Nat \ {0}
    BY <1>3, PathType
  <2>4. n - 1 \in T
    BY <2>1, <2>2, <2>3, <1>3
  <2> QED
    BY <2>4, <1>2
<1> QED
  BY <1>4, <1>5

LEMMA DirsAbove ==
    ASSUME NEW p \in DirPath, NEW d \in Path, IsPrefix(d, p)
    PROVE  d \in DirPath
<1>1. p \in Path /\ \A e \in Path : e \in DirPath => Up(e) = Root \/ Up(e) \in DirPath
  BY PathType, MirrorUpAssumption
<1> QED
  BY <1>1, Ancestors

LEMMA HomesAbove ==
    /\ \A d \in Home : d \in DirPath /\ d \in Path /\ (Up(d) = Root \/ Up(d) \in Home)
    /\ \A p \in VideoPath \cup StrmPath : p \in Path /\ (Up(p) = Root \/ Up(p) \in Home)
    /\ \A d \in Home, e \in Path : IsPrefix(e, d) => e \in Home
<1>1. VideoPath \cup StrmPath \cup DirPath \subseteq Path
  BY MirrorUpAssumption
<1>2. ASSUME NEW p \in VideoPath \cup StrmPath PROVE p \in Path /\ (Up(p) = Root \/ Up(p) \in Home)
  BY <1>1, PathType, PathFacts DEF Home
<1>3. ASSUME NEW d \in Home, NEW e \in Path, IsPrefix(e, d) PROVE e \in Home
  <2>1. d \in DirPath /\ d \in Path
    BY <1>1 DEF Home
  <2>2. PICK p \in VideoPath \cup StrmPath : IsPrefix(d, p)
    BY DEF Home
  <2>3. IsPrefix(e, p)
    BY <2>1, <2>2, <1>1, <1>3, PathFacts
  <2>4. e \in DirPath
    BY <2>1, <1>3, DirsAbove
  <2> QED
    BY <2>3, <2>4 DEF Home
<1>4. ASSUME NEW d \in Home PROVE d \in DirPath /\ d \in Path /\ (Up(d) = Root \/ Up(d) \in Home)
  <2>1. d \in DirPath /\ d \in Path
    BY <1>1 DEF Home
  <2>2. Up(d) = Root \/ (Up(d) \in Path /\ IsPrefix(Up(d), d))
    BY <2>1, PathType, PathFacts
  <2> QED
    BY <2>1, <2>2, <1>3
<1> QED
  BY <1>2, <1>3, <1>4

-----------------------------------------------------------------------------
(***************************************************************************)
(* The plan: PlanDir obeys its recursion, which goes down the tree, and    *)
(* so whatever holds of the operations of each path alone, holds of all.   *)
(***************************************************************************)
PlanOf(g, kids) ==
    FlattenSeq([i \in DOMAIN KeyOrder |->
                  LET p == KeyOrder[i] IN When(p \in kids, Decide(p, g[p]))])
PlanBelow(g, d) == PlanOf(g, Known(d)) \o PlanOf(g, New(d))
Scanned == {Root} \cup Path

LEMMA PathsBounded == \E N \in Nat : \A p \in Path : Len(p) <= N
<1> DEFINE s == [i \in DOMAIN KeyOrder |-> Len(KeyOrder[i])]
<1>1. KeyOrder \in Seq(Path) /\ \A p \in Path : Len(p) \in Nat
  BY MirrorUpAssumption, PathType
<1>2. s \in Seq(Nat) /\ DOMAIN s = DOMAIN KeyOrder
  BY <1>1
<1>3. PICK N \in Nat : \A i \in DOMAIN s : s[i] <= N
  <2> HIDE DEF s
  <2> QED
    BY <1>2, Bounded
<1>4. ASSUME NEW p \in Path PROVE Len(p) <= N
  <2>1. PICK i \in DOMAIN KeyOrder : KeyOrder[i] = p
    BY MirrorUpAssumption
  <2>2. s[i] = Len(p)
    BY <2>1
  <2> QED
    BY <2>1, <2>2, <1>2, <1>3
<1> QED
  BY <1>4

LEMMA KidsBelow ==
    ASSUME NEW d \in Scanned, NEW p \in Kids(d)
    PROVE  p \in Path /\ Len(p) = Len(d) + 1 /\ Len(d) \in Nat
<1>1. p \in Path /\ Up(p) = d
  BY DEF Kids
<1> QED
  BY <1>1, PathType

LEMMA PlanOfSame ==
    ASSUME NEW g, NEW h, NEW d \in Scanned, \A p \in Kids(d) : g[p] = h[p]
    PROVE  PlanBelow(g, d) = PlanBelow(h, d)
<1>1. Known(d) \subseteq Kids(d) /\ New(d) \subseteq Kids(d)
  BY DEF Known, New
<1>2. ASSUME NEW kids \in SUBSET Kids(d) PROVE PlanOf(g, kids) = PlanOf(h, kids)
  <2> DEFINE part(f, i) == LET p == KeyOrder[i] IN When(p \in kids, Decide(p, f[p]))
  <2>1. ASSUME NEW i \in DOMAIN KeyOrder PROVE part(g, i) = part(h, i)
    <3>1. CASE KeyOrder[i] \in kids
      <4>1. g[KeyOrder[i]] = h[KeyOrder[i]]
        BY <3>1
      <4> QED
        BY <4>1
    <3>2. CASE KeyOrder[i] \notin kids
      BY <3>2 DEF When
    <3> QED
      BY <3>1, <3>2
  <2>2. [i \in DOMAIN KeyOrder |-> part(g, i)] = [i \in DOMAIN KeyOrder |-> part(h, i)]
    <3> HIDE DEF part
    <3> QED
      BY <2>1
  <2> QED
    BY <2>2 DEF PlanOf
<1>3. PlanOf(g, Known(d)) = PlanOf(h, Known(d)) /\ PlanOf(g, New(d)) = PlanOf(h, New(d))
  BY <1>1, <1>2
<1> QED
  BY <1>3 DEF PlanBelow

LEMMA PlanRecursion == PlanDir = [d \in Scanned |-> PlanBelow(PlanDir, d)]
<1> DEFINE E(g) == [d \in Scanned |-> PlanBelow(g, d)]
<1>1. PlanDir = CHOOSE g : g = E(g)
  BY Zenon DEF PlanDir, Scanned, PlanBelow, PlanOf
<1>2. PICK N \in Nat : \A p \in Path : Len(p) <= N
  BY PathsBounded
<1>3. \A d \in Scanned : Len(d) \in Nat /\ Len(d) <= N
  BY <1>2, PathType DEF Scanned, Root
<1> DEFINE S == {n \in Nat : \E g : \A d \in Scanned : Len(d) + n > N => g[d] = PlanBelow(g, d)}
<1>4. 0 \in S
  BY <1>3
<1>5. ASSUME NEW n \in Nat, n \in S PROVE n + 1 \in S
  <2>1. PICK g : \A d \in Scanned : Len(d) + n > N => g[d] = PlanBelow(g, d)
    BY <1>5
  <2> DEFINE h == [d \in Scanned |-> IF Len(d) + n > N THEN g[d] ELSE PlanBelow(g, d)]
  <2>2. ASSUME NEW d \in Scanned, Len(d) + (n + 1) > N PROVE h[d] = PlanBelow(h, d)
    <3>1. ASSUME NEW p \in Kids(d) PROVE h[p] = g[p]
      <4>1. p \in Path /\ Len(p) = Len(d) + 1 /\ Len(d) \in Nat
        BY KidsBelow
      <4>2. Len(p) + n > N /\ p \in Scanned
        BY <4>1, <2>2, <1>2 DEF Scanned
      <4> QED
        BY <4>2
    <3>2. PlanBelow(h, d) = PlanBelow(g, d)
      <4> HIDE DEF h
      <4> QED
        BY <3>1, PlanOfSame
    <3>3. h[d] = PlanBelow(g, d)
      BY <2>1
    <3> QED
      BY <3>2, <3>3
  <2>3. \E f : \A d \in Scanned : Len(d) + (n + 1) > N => f[d] = PlanBelow(f, d)
    <3> HIDE DEF h
    <3> QED
      BY <2>2
  <2> QED
    BY <2>3
<1>6. N + 1 \in S
  <2>1. \A n \in Nat : n \in S => n + 1 \in S
    BY <1>5
  <2> HIDE DEF S
  <2>2. Nat \subseteq S
    BY <1>4, <2>1, SetInduction
  <2> QED
    BY <2>2, <1>2
<1>7. PICK g : \A d \in Scanned : Len(d) + (N + 1) > N => g[d] = PlanBelow(g, d)
  BY <1>6
<1> DEFINE h == [d \in Scanned |-> g[d]]
<1>8. \A d \in Scanned : g[d] = PlanBelow(g, d)
  BY <1>7, <1>3, <1>2
<1>9. ASSUME NEW d \in Scanned PROVE h[d] = PlanBelow(h, d)
  <2>1. ASSUME NEW p \in Kids(d) PROVE h[p] = g[p]
    BY KidsBelow DEF Scanned
  <2>2. PlanBelow(h, d) = PlanBelow(g, d)
    <3> HIDE DEF h
    <3> QED
      BY <2>1, PlanOfSame
  <2> QED
    BY <2>2, <1>8
<1>10. h = E(h)
  BY <1>9
<1>11. \E f : f = E(f)
  <2> HIDE DEF h, E
  <2> QED
    BY <1>10
<1>12. (CHOOSE f : f = E(f)) = E(CHOOSE f : f = E(f))
  <2> HIDE DEF E
  <2> QED
    BY <1>11
<1> QED
  BY <1>1, <1>12

LEMMA PlanType ==
    ASSUME NEW T, \A p \in Path : \A below \in Seq(T) : Decide(p, below) \in Seq(T)
    PROVE  \A d \in Scanned : PlanDir[d] \in Seq(T)
<1>1. PICK N \in Nat : \A p \in Path : Len(p) <= N
  BY PathsBounded
<1>2. \A d \in Scanned : Len(d) \in Nat /\ Len(d) <= N
  BY <1>1, PathType DEF Scanned, Root
<1>3. ASSUME NEW d \in Scanned, \A p \in Kids(d) : PlanDir[p] \in Seq(T)
      PROVE  PlanDir[d] \in Seq(T)
  <2>1. ASSUME NEW kids \in SUBSET Kids(d) PROVE PlanOf(PlanDir, kids) \in Seq(T)
    <3> DEFINE part(i) == LET p == KeyOrder[i] IN When(p \in kids, Decide(p, PlanDir[p]))
    <3>1. ASSUME NEW i \in DOMAIN KeyOrder PROVE part(i) \in Seq(T)
      <4>1. KeyOrder[i] \in Path
        BY MirrorUpAssumption
      <4>2. CASE KeyOrder[i] \in kids
        <5>1. PlanDir[KeyOrder[i]] \in Seq(T)
          BY <4>2, <1>3
        <5>2. Decide(KeyOrder[i], PlanDir[KeyOrder[i]]) \in Seq(T)
          BY <5>1, <4>1, <1>3
        <5> QED
          BY <5>2, <4>2 DEF When
      <4>3. CASE KeyOrder[i] \notin kids
        BY <4>3 DEF When
      <4> QED
        BY <4>2, <4>3
    <3>2. [i \in DOMAIN KeyOrder |-> part(i)] \in Seq(Seq(T))
      <4> HIDE DEF part
      <4>1. DOMAIN KeyOrder = 1 .. Len(KeyOrder) /\ Len(KeyOrder) \in Nat
        BY MirrorUpAssumption
      <4> QED
        BY <3>1, <4>1
    <3>3. FlattenSeq([i \in DOMAIN KeyOrder |-> part(i)]) \in Seq(T)
      <4> HIDE DEF part
      <4> QED
        BY <3>2, FlattenType
    <3> QED
      BY <3>3 DEF PlanOf
  <2>2. Known(d) \subseteq Kids(d) /\ New(d) \subseteq Kids(d)
    BY DEF Known, New
  <2>3. PlanOf(PlanDir, Known(d)) \in Seq(T) /\ PlanOf(PlanDir, New(d)) \in Seq(T)
    BY <2>1, <2>2
  <2>4. PlanDir[d] = PlanBelow(PlanDir, d)
    BY PlanRecursion
  <2> QED
    BY <2>3, <2>4 DEF PlanBelow
<1> DEFINE S == {n \in Nat : \A d \in Scanned : Len(d) + n > N => PlanDir[d] \in Seq(T)}
<1>4. 0 \in S
  BY <1>2
<1>5. ASSUME NEW n \in Nat, n \in S PROVE n + 1 \in S
  <2>1. ASSUME NEW d \in Scanned, Len(d) + (n + 1) > N PROVE PlanDir[d] \in Seq(T)
    <3>1. ASSUME NEW p \in Kids(d) PROVE PlanDir[p] \in Seq(T)
      <4>1. p \in Scanned /\ Len(p) + n > N
        BY <2>1, KidsBelow, <1>1 DEF Scanned
      <4> QED
        BY <4>1, <1>5
    <3> QED
      BY <3>1, <1>3
  <2> QED
    BY <2>1
<1>6. N + 1 \in S
  <2>1. \A n \in Nat : n \in S => n + 1 \in S
    BY <1>5
  <2> HIDE DEF S
  <2>2. Nat \subseteq S
    BY <1>4, <2>1, SetInduction
  <2> QED
    BY <2>2, <1>1
<1> QED
  BY <1>6, <1>2, <1>1

LEMMA InPhaseType ==
    ASSUME NEW T, NEW ops \in Seq(T), NEW n
    PROVE  InPhase(n, ops) \in Seq(T)
<1> DEFINE part(i) == When(phase[ops[i].kind] = n, <<ops[i]>>)
<1>1. \A i \in DOMAIN ops : part(i) \in Seq(T)
  BY DEF When
<1>2. [i \in DOMAIN ops |-> part(i)] \in Seq(Seq(T))
  <2> HIDE DEF part
  <2>1. DOMAIN ops = 1 .. Len(ops) /\ Len(ops) \in Nat
    OBVIOUS
  <2> QED
    BY <1>1, <2>1
<1>3. FlattenSeq([i \in DOMAIN ops |-> part(i)]) \in Seq(T)
  <2> HIDE DEF part
  <2> QED
    BY <1>2, FlattenType
<1> QED
  BY <1>3 DEF InPhase

LEMMA PhaseType ==
    ASSUME NEW T, NEW ops \in Seq(T)
    PROVE  ByPhase(ops) \in Seq(T)
<1>1. /\ InPhase(0, ops) \in Seq(T) /\ InPhase(1, ops) \in Seq(T)
      /\ InPhase(2, ops) \in Seq(T) /\ InPhase(3, ops) \in Seq(T)
  BY InPhaseType
<1> QED
  BY <1>1 DEF ByPhase

-----------------------------------------------------------------------------
(***************************************************************************)
(* The place of a node is found by going up its directories.               *)
(***************************************************************************)
PlaceFrom(g, f) == IF node[f].up \in Fid THEN g[node[f].up] ELSE node[f].up

LEMMA FidsBounded == \E N \in Nat : \A f \in Fid : f <= N
<1>1. Fid \subseteq Nat /\ IsFiniteSet(Fid)
  BY MirrorUpAssumption
<1>2. PICK s \in Seq(Fid) : \A f \in Fid : \E n \in 1 .. Len(s) : s[n] = f
  BY <1>1, Zenon DEF IsFiniteSet
<1>3. s \in Seq(Nat)
  <2>1. Len(s) \in Nat /\ s = [i \in 1 .. Len(s) |-> s[i]] /\ \A i \in 1 .. Len(s) : s[i] \in Nat
    BY <1>1
  <2> QED
    BY <2>1
<1>4. PICK N \in Nat : \A i \in DOMAIN s : s[i] <= N
  BY <1>3, Bounded
<1>5. DOMAIN s = 1 .. Len(s)
  BY <1>2
<1> QED
  BY <1>2, <1>4, <1>5

LEMMA PlaceRecursion ==
    ASSUME CloudFine
    PROVE  \A f \in Fid : Place[f] = PlaceFrom(Place, f)
<1> DEFINE E(g) == [f \in Fid |-> PlaceFrom(g, f)]
           Dirs == {f \in Fid : node[f].kind = "dir"}
           S == {n \in Nat : \E g : \A f \in Dirs : f < n => g[f] = PlaceFrom(g, f)}
<1>1. Place = CHOOSE g : g = E(g)
  BY Zenon DEF Place, PlaceFrom
<1>2. PICK N \in Nat : \A f \in Fid : f <= N
  BY FidsBounded
<1>3. Fid \subseteq Nat
  BY MirrorUpAssumption
<1>4. \A f \in Dirs : node[f].up \in Fid => node[f].up \in Dirs /\ node[f].up < f
  BY DEF CloudFine
<1>5. \A f \in Fid : node[f].up \in Fid => node[f].up \in Dirs
  BY DEF CloudFine
<1>6. 0 \in S
  BY <1>3
<1>7. ASSUME NEW n \in Nat, n \in S PROVE n + 1 \in S
  <2>1. PICK g : \A f \in Dirs : f < n => g[f] = PlaceFrom(g, f)
    BY <1>7
  <2> DEFINE h == [f \in Fid |-> IF f < n THEN g[f] ELSE PlaceFrom(g, f)]
  <2>2. ASSUME NEW f \in Dirs, f < n + 1 PROVE h[f] = PlaceFrom(h, f)
    <3>1. h[f] = PlaceFrom(g, f)
      BY <2>1, <2>2
    <3>2. node[f].up \in Fid => node[f].up < n
      <4>1. f \in Nat /\ (node[f].up \in Fid => node[f].up < f /\ node[f].up \in Nat)
        BY <1>3, <1>4
      <4> QED
        BY <4>1, <2>2
    <3>3. node[f].up \in Fid => h[node[f].up] = g[node[f].up]
      BY <3>2
    <3>4. PlaceFrom(h, f) = PlaceFrom(g, f)
      <4> HIDE DEF h
      <4> QED
        BY <3>3 DEF PlaceFrom
    <3> QED
      BY <3>1, <3>4
  <2>3. \E g1 : \A f \in Dirs : f < n + 1 => g1[f] = PlaceFrom(g1, f)
    <3> HIDE DEF h, Dirs
    <3> QED
      BY <2>2
  <2> QED
    BY <2>3
<1>8. N + 1 \in S
  <2>1. \A n \in Nat : n \in S => n + 1 \in S
    BY <1>7
  <2> HIDE DEF S
  <2>2. Nat \subseteq S
    BY <1>6, <2>1, SetInduction
  <2> QED
    BY <2>2, <1>2
<1>9. PICK g : \A f \in Dirs : f < N + 1 => g[f] = PlaceFrom(g, f)
  BY <1>8
<1>10. \A f \in Dirs : g[f] = PlaceFrom(g, f)
  BY <1>9, <1>2, <1>3
<1> DEFINE h == [f \in Fid |-> PlaceFrom(g, f)]
<1>11. ASSUME NEW f \in Fid PROVE PlaceFrom(g, f) = PlaceFrom(h, f)
  <2>1. node[f].up \in Fid => h[node[f].up] = g[node[f].up]
    BY <1>5, <1>10
  <2> HIDE DEF h
  <2> QED
    BY <2>1 DEF PlaceFrom
<1>12. h = E(h)
  BY <1>11
<1>13. \E f : f = E(f)
  <2> HIDE DEF h, E
  <2> QED
    BY <1>12
<1>14. Place = E(Place)
  <2> HIDE DEF E
  <2> QED
    BY <1>1, <1>13
<1> QED
  BY <1>14

LEMMA DirPlaces ==
    ASSUME Typed, CloudFine
    PROVE  \A f \in Fid : node[f].kind = "dir" => Place[f] \in {root, nowhere}
<1> DEFINE T == {f \in Fid : node[f].kind = "dir" /\ Place[f] \notin {root, nowhere}}
<1> SUFFICES ASSUME T # {} PROVE FALSE
  OBVIOUS
<1>1. T \in SUBSET Nat
  BY MirrorUpAssumption
<1>2. PICK f \in T : \A g \in T : f <= g
  <2> HIDE DEF T
  <2> QED
    BY <1>1, Least
<1>3. Place[f] = PlaceFrom(Place, f)
  BY <1>2, PlaceRecursion
<1>4. node[f].up \in Fid \cup {root, nowhere}
  BY DEF Typed, Nodes, CloudFine
<1>5. node[f].up \in Fid
  BY <1>2, <1>3, <1>4 DEF PlaceFrom
<1>6. node[f].up < f /\ node[node[f].up].kind = "dir"
  BY <1>2, <1>5 DEF CloudFine
<1>7. Place[node[f].up] = Place[f]
  BY <1>3, <1>5 DEF PlaceFrom
<1>8. node[f].up \in T
  BY <1>5, <1>6, <1>7
<1>9. f \in Nat /\ node[f].up \in Nat
  BY <1>1, <1>8
<1> QED
  BY <1>2, <1>6, <1>8, <1>9

LEMMA Elsewhere ==
    ASSUME Typed, CloudFine, NEW f \in Fid, Place[f] = elsewhere
    PROVE  node[f].kind = "file" /\ node[f].name = Root
<1>1. Place[f] = PlaceFrom(Place, f)
  BY PlaceRecursion
<1>2. node[f].up \notin Fid
  <2> SUFFICES ASSUME node[f].up \in Fid PROVE FALSE
    OBVIOUS
  <2>1. Place[node[f].up] = elsewhere /\ node[node[f].up].kind = "dir"
    BY <1>1 DEF PlaceFrom, CloudFine
  <2>2. Place[node[f].up] \in {root, nowhere}
    BY <2>1, DirPlaces
  <2> QED
    BY <2>1, <2>2, MirrorUpAssumption
<1>3. node[f].up = elsewhere
  BY <1>1, <1>2 DEF PlaceFrom
<1> QED
  BY <1>3 DEF CloudFine

LEMMA HomePlaces ==
    ASSUME Typed, CloudFine, HomesFine
    PROVE  \A f \in Fid : node[f].kind = "dir" /\ node[f].name \in Home => Place[f] = root
<1> DEFINE T == {f \in Fid : node[f].kind = "dir" /\ node[f].name \in Home /\ Place[f] # root}
<1> SUFFICES ASSUME T # {} PROVE FALSE
  OBVIOUS
<1>1. T \in SUBSET Nat
  BY MirrorUpAssumption
<1>2. PICK f \in T : \A g \in T : f <= g
  <2> HIDE DEF T
  <2> QED
    BY <1>1, Least
<1>3. Place[f] = PlaceFrom(Place, f)
  BY <1>2, PlaceRecursion
<1>4. InPlace(node[f].up, node[f].name)
  BY <1>2 DEF HomesFine
<1>5. CASE node[f].up = root
  BY <1>2, <1>3, <1>5, MirrorUpAssumption DEF PlaceFrom
<1>6. CASE node[f].up # root
  <2>1. Up(node[f].name) # Root /\ DirNode(node[f].up, Up(node[f].name))
    BY <1>4, <1>6 DEF InPlace
  <2>2. Up(node[f].name) \in Home
    BY <1>2, <2>1, HomesAbove
  <2>3. node[f].up \in Fid /\ node[node[f].up].kind = "dir" /\ node[node[f].up].name \in Home
    BY <2>1, <2>2 DEF DirNode
  <2>4. Place[node[f].up] = Place[f]
    BY <1>3, <2>3 DEF PlaceFrom
  <2>5. node[f].up \in T /\ node[f].up < f
    BY <2>3, <2>4, <1>2 DEF CloudFine
  <2>6. f \in Nat /\ node[f].up \in Nat
    BY <1>1, <2>5
  <2> QED
    BY <1>2, <2>5, <2>6
<1> QED
  BY <1>5, <1>6

LEMMA ReachableExists ==
    ASSUME Typed, CloudFine, HomesFine, NEW f \in Fid, Reachable(f)
    PROVE  Exists(f)
<1>1. Place[f] = PlaceFrom(Place, f)
  BY PlaceRecursion
<1>2. CASE node[f].up \in {root, temp}
  BY <1>1, <1>2, MirrorUpAssumption DEF PlaceFrom, Exists
<1>3. CASE \E d \in Home : DirNode(node[f].up, d)
  <2>1. node[f].up \in Fid /\ Place[node[f].up] = root
    BY <1>3, HomePlaces DEF DirNode
  <2> QED
    BY <1>1, <2>1, MirrorUpAssumption DEF PlaceFrom, Exists
<1> QED
  BY <1>2, <1>3 DEF Reachable

-----------------------------------------------------------------------------
(***************************************************************************)
(* The steps. A node is made once and changes little: ...                  *)
(***************************************************************************)
NodeStep ==
    \A f \in Fid : node[f].kind # "none" =>
        /\ node'[f].kind = node[f].kind /\ node'[f].c = node[f].c
        /\ \/ node'[f].name = node[f].name
           \/ VideoNode(f) /\ node'[f].name \in VideoPath \cup StrmPath

(* ... what it is it stays.                                                *)
LEMMA NodesLast ==
    ASSUME NodeStep, CloudFine
    PROVE  \A f \in Fid : /\ VideoNode(f) => VideoNode(f)'
                          /\ Plain(f) => Plain(f)'
                          /\ Droppable(f) => Droppable(f)'
                          /\ Precious(f) => Precious(f)' /\ node'[f].c = node[f].c
                          /\ \A d \in DirPath : DirNode(f, d) => DirNode(f, d)'
<1> SUFFICES ASSUME NEW f \in Fid
             PROVE  /\ VideoNode(f) => VideoNode(f)'
                    /\ Plain(f) => Plain(f)'
                    /\ Droppable(f) => Droppable(f)'
                    /\ Precious(f) => Precious(f)' /\ node'[f].c = node[f].c
                    /\ \A d \in DirPath : DirNode(f, d) => DirNode(f, d)'
  OBVIOUS
<1>0. \A p \in VideoPath \cup StrmPath : p # Root
  BY PathType, MirrorUpAssumption
<1>1. VideoNode(f) => VideoNode(f)'
  BY DEF NodeStep, VideoNode
<1>2. Precious(f) => Precious(f)' /\ node'[f].c = node[f].c
  BY DEF NodeStep, Precious
<1>3. Plain(f) => Plain(f)'
  <2> SUFFICES ASSUME Plain(f) PROVE Plain(f)'
    OBVIOUS
  <2>1. node[f].kind = "file" /\ node[f].name # Root /\ (ToStrm => ~Precious(f))
    BY DEF Plain
  <2>2. node'[f].kind = "file" /\ node'[f].c = node[f].c
    BY <2>1 DEF NodeStep
  <2>3. CASE node'[f].name = node[f].name
    BY <2>1, <2>2, <2>3 DEF Plain, Precious
  <2>4. CASE VideoNode(f) /\ node'[f].name \in VideoPath \cup StrmPath
    <3>1. ToStrm => node[f].c \notin Big
      BY <2>1, <2>4 DEF VideoNode, Precious
    <3> QED
      BY <3>1, <2>2, <2>4, <1>0 DEF Plain, Precious
  <2> QED
    BY <2>1, <2>3, <2>4 DEF NodeStep
<1>4. ASSUME NEW d \in DirPath, DirNode(f, d) PROVE DirNode(f, d)'
  BY <1>4 DEF NodeStep, VideoNode, DirNode
<1>5. Droppable(f) => Droppable(f)'
  BY <1>3, <1>4 DEF Droppable
<1> QED
  BY <1>1, <1>2, <1>3, <1>4, <1>5

LEMMA NodeSame == ASSUME UNCHANGED node PROVE NodeStep
<1>1. \A f \in Fid : node'[f] = node[f]
  OBVIOUS
<1> QED
  BY <1>1 DEF NodeStep

(* The records stay right as long as they stay, ...                        *)
LEMMA IndexLast ==
    ASSUME IndexFine, CloudFine, NodeStep, UNCHANGED index
    PROVE  IndexFine'
<1> SUFFICES ASSUME NEW p \in Path
             PROVE  /\ index[p].kind = "dir" => p \in DirPath /\ DirNode(index[p].fid, p)'
                    /\ index[p].kind = "file" => p \notin DirPath \cup StrmPath /\ Plain(index[p].fid)'
                    /\ index[p].kind = "strm" => p \in StrmPath /\ VideoNode(index[p].fid)'
  BY DEF IndexFine
<1>1. /\ index[p].kind = "dir" => p \in DirPath /\ DirNode(index[p].fid, p)
      /\ index[p].kind = "file" => p \notin DirPath \cup StrmPath /\ Plain(index[p].fid)
      /\ index[p].kind = "strm" => p \in StrmPath /\ VideoNode(index[p].fid)
  BY DEF IndexFine
<1>2. index[p].kind = "dir" => DirNode(index[p].fid, p)'
  <2>1. index[p].kind = "dir" => index[p].fid \in Fid
    BY <1>1 DEF DirNode
  <2> QED
    BY <1>1, <2>1, NodesLast
<1>3. index[p].kind = "file" => Plain(index[p].fid)'
  <2>1. index[p].kind = "file" => index[p].fid \in Fid
    BY <1>1 DEF Plain
  <2> QED
    BY <1>1, <2>1, NodesLast
<1>4. index[p].kind = "strm" => VideoNode(index[p].fid)'
  <2>1. index[p].kind = "strm" => index[p].fid \in Fid
    BY <1>1 DEF VideoNode
  <2> QED
    BY <1>1, <2>1, NodesLast
<1> QED
  BY <1>1, <1>2, <1>3, <1>4

(* ... and so does an operation while the directories to it stay, and the  *)
(* file it is to upload.                                                   *)
HomesLast == \A d \in Home : local[d].k = "dir" => local'[d].k = "dir"
FileLasts(p) == local'[p].k = "file" => local[p].k = "file" /\ local'[p].c = local[p].c

LEMMA OpLasts ==
    ASSUME CloudFine, NodeStep, HomesLast, NEW o, OpFine(o), o.kind = "upload" => FileLasts(o.path)
    PROVE  OpFine(o)'
<1>1. WayThere(o) => WayThere(o)'
  BY DEF WayThere, HomesLast, Below
<1>2. o.kind = "upload" /\ Sort(o) => Sort(o)'
  BY DEF Sort, FileLasts
<1>3. /\ VideoNode(o.fid) => VideoNode(o.fid)'
      /\ VideoNode(o.replace) => VideoNode(o.replace)'
      /\ Droppable(o.fid) => Droppable(o.fid)'
  <2>1. /\ VideoNode(o.fid) => o.fid \in Fid
        /\ VideoNode(o.replace) => o.replace \in Fid
        /\ Droppable(o.fid) => o.fid \in Fid
    BY DEF VideoNode, Droppable, Plain, DirNode
  <2> QED
    BY <2>1, NodesLast
<1> QED
  BY <1>1, <1>2, <1>3 DEF OpFine

LEMMA PlanLasts ==
    ASSUME PlanFine, CloudFine, NodeStep, HomesLast,
           \A i \in DOMAIN job'.ops : \E j \in DOMAIN job.ops :
                /\ job'.ops[i] = job.ops[j]
                /\ job.ops[j].kind = "upload" => FileLasts(job.ops[j].path)
    PROVE  PlanFine'
<1> SUFFICES ASSUME NEW i \in DOMAIN job'.ops PROVE OpFine(job.ops[i])'
  BY DEF PlanFine
<1>1. PICK j \in DOMAIN job.ops :
                /\ job'.ops[i] = job.ops[j]
                /\ job.ops[j].kind = "upload" => FileLasts(job.ops[j].path)
  OBVIOUS
<1>2. OpFine(job.ops[j])
  BY DEF PlanFine
<1>3. ASSUME NEW o, o = job.ops[j] PROVE OpFine(o)'
  BY <1>1, <1>2, <1>3, OpLasts
<1>4. ASSUME NEW o, o = job.ops[j], OpFine(o)' PROVE OpFine(job.ops[i])'
  BY <1>1, <1>4
<1> QED
  BY <1>3, <1>4

(* The plan at hand: its first operation, and the rest.                    *)
LEMMA OpHead ==
    ASSUME Typed, job.at # "idle"
    PROVE  /\ 1 \in DOMAIN job.ops /\ op = job.ops[1] /\ op \in Ops
           /\ Tail(job.ops) \in Seq(Ops)
           /\ \A i \in DOMAIN Tail(job.ops) :
                i + 1 \in DOMAIN job.ops /\ Tail(job.ops)[i] = job.ops[i + 1]
<1>1. job.ops \in Seq(Ops) /\ job.ops # << >>
  BY DEF Typed, Jobs
<1>2. op = job.ops[1] /\ op \in Ops /\ 1 \in DOMAIN job.ops
  BY <1>1 DEF op
<1>3. /\ Tail(job.ops) \in Seq(Ops) /\ Len(Tail(job.ops)) = Len(job.ops) - 1
      /\ \A i \in 1 .. Len(Tail(job.ops)) : Tail(job.ops)[i] = job.ops[i + 1]
  BY <1>1, HeadTailProperties
<1>4. DOMAIN Tail(job.ops) = 1 .. Len(job.ops) - 1 /\ DOMAIN job.ops = 1 .. Len(job.ops)
      /\ Len(job.ops) \in Nat
  BY <1>1, <1>3
<1> QED
  BY <1>2, <1>3, <1>4

LEMMA OpIsFine ==
    ASSUME Typed, PlanFine, job.at # "idle"
    PROVE  OpFine(op)
<1>1. 1 \in DOMAIN job.ops /\ op = job.ops[1]
  BY OpHead
<1>2. OpFine(job.ops[1])
  BY <1>1 DEF PlanFine
<1> QED
  BY <1>1, <1>2

LEMMA KeyType ==
    ASSUME Typed, PlanFine, job.at # "idle"
    PROVE  /\ op.path \in Path /\ RecordKey \in Path
           /\ op.kind = "upload" /\ op.video => RecordKey \in StrmPath /\ Up(RecordKey) = Up(op.path)
           /\ ~(op.kind = "upload" /\ op.video) => RecordKey = op.path
           /\ op.kind = "adopt" => RecordKey \in StrmPath
<1>1. op \in Ops
  BY OpHead
<1>2. op.path \in Path
  BY <1>1 DEF Ops
<1>3. OpFine(op)
  BY OpIsFine
<1>4. op.kind = "upload" /\ op.video =>
        op.path \in VideoPath /\ StrmOf[op.path] \in StrmPath /\ Up(StrmOf[op.path]) = Up(op.path)
  BY <1>3, MirrorUpAssumption DEF OpFine, Sort
<1>5. StrmPath \subseteq Path
  BY MirrorUpAssumption
<1>6. op.kind = "adopt" => op.path \in StrmPath
  BY <1>3 DEF OpFine
<1> QED
  BY <1>2, <1>4, <1>5, <1>6 DEF RecordKey

(* An operation that ends leaves the plan without it.                      *)
LEMMA EndedFacts ==
    ASSUME Typed, job.at # "idle", NEW calm \in BOOLEAN, Ended(calm)
    PROVE  /\ job' \in Jobs /\ settled' \in 0 .. 2
           /\ job'.at \in {"idle", "begin"} /\ (job'.at = "idle" <=> job'.ops = << >>)
           /\ \A i \in DOMAIN job'.ops : i + 1 \in DOMAIN job.ops /\ job'.ops[i] = job.ops[i + 1]
<1>1. /\ Tail(job.ops) \in Seq(Ops)
      /\ \A i \in DOMAIN Tail(job.ops) :
            i + 1 \in DOMAIN job.ops /\ Tail(job.ops)[i] = job.ops[i + 1]
  BY OpHead
<1>2. settled' \in 0 .. 2
  BY DEF Ended, Typed
<1>3. job \in Jobs
  BY DEF Typed
<1>4. CASE Tail(job.ops) = << >>
  <2>1. job' = Idle
    BY <1>4 DEF Ended
  <2>2. Idle \in Jobs /\ Idle.at = "idle" /\ Idle.ops = << >>
    BY DEF Idle, Jobs, Stages
  <2> QED
    BY <2>1, <2>2, <1>2
<1>5. CASE Tail(job.ops) # << >>
  <2>1. job' = [Idle EXCEPT !.at = "begin", !.ops = Tail(job.ops), !.calm = calm]
    BY <1>5 DEF Ended
  <2>2. /\ job' = [at |-> "begin", ops |-> Tail(job.ops), fid |-> nowhere, size |-> 0, calm |-> calm]
    BY <2>1 DEF Idle
  <2>3. job' \in Jobs /\ job'.at = "begin" /\ job'.ops = Tail(job.ops)
    BY <2>2, <1>1 DEF Jobs, Stages
  <2> QED
    BY <2>3, <1>1, <1>2, <1>5
<1> QED
  BY <1>4, <1>5

LEMMA CalmType == ASSUME Typed PROVE job.calm \in BOOLEAN
BY DEF Typed, Jobs

(* A step that changes neither the trees nor the index, ...                *)
LEMMA Frame ==
    ASSUME UpInv, UNCHANGED <<local, node, index, handed>>, Typed', PlanFine', StepFine'
    PROVE  UpInv'
<1>1. LocalFine' /\ CloudFine' /\ HomesFine' /\ PreciousFine'
  <2>1. LocalFine' = LocalFine
    BY DEF LocalFine, There, LocalDir, VideoNode
  <2>2. CloudFine' = CloudFine
    BY DEF CloudFine, Fresh
  <2>3. HomesFine' = HomesFine
    BY DEF HomesFine, InPlace, DirNode, Has
  <2>4. PreciousFine' = PreciousFine
    BY DEF PreciousFine, Precious, Reachable, DirNode
  <2> QED
    BY <2>1, <2>2, <2>3, <2>4 DEF UpInv
<1>2. IndexFine' /\ HandedFine'
  <2>1. IndexFine' = IndexFine
    BY DEF IndexFine, DirNode, Plain, Precious, VideoNode
  <2>2. HandedFine' = HandedFine
    BY DEF HandedFine, Precious
  <2> QED
    BY <2>1, <2>2 DEF UpInv
<1> QED
  BY <1>1, <1>2 DEF UpInv

(* ... and one that ends the operation without a change to them.           *)
LEMMA PlanGoesOn ==
    ASSUME PlanFine, CloudFine, UNCHANGED <<local, node>>,
           \A i \in DOMAIN job'.ops : i + 1 \in DOMAIN job.ops /\ job'.ops[i] = job.ops[i + 1]
    PROVE  PlanFine'
<1>1. NodeStep
  BY NodeSame
<1>2. HomesLast /\ \A p : FileLasts(p)
  BY DEF HomesLast, FileLasts
<1>3. \A i \in DOMAIN job'.ops : \E j \in DOMAIN job.ops :
                /\ job'.ops[i] = job.ops[j]
                /\ job.ops[j].kind = "upload" => FileLasts(job.ops[j].path)
  BY <1>2
<1> QED
  BY <1>1, <1>2, <1>3, PlanLasts

LEMMA StepAtRest ==
    ASSUME job'.at \in {"idle", "begin"}
    PROVE  StepFine'
BY DEF StepFine

LEMMA QuietEnd ==
    ASSUME UpInv, job.at # "idle", NEW calm \in BOOLEAN, Ended(calm),
           UNCHANGED <<local, node, index, handed>>, torn' \subseteq Path
    PROVE  UpInv'
<1>1. Typed /\ PlanFine /\ CloudFine
  BY DEF UpInv
<1>2. /\ job' \in Jobs /\ settled' \in 0 .. 2
      /\ job'.at \in {"idle", "begin"} /\ (job'.at = "idle" <=> job'.ops = << >>)
      /\ \A i \in DOMAIN job'.ops : i + 1 \in DOMAIN job.ops /\ job'.ops[i] = job.ops[i + 1]
  BY <1>1, EndedFacts
<1>3. Typed'
  BY <1>1, <1>2 DEF Typed, Has
<1>4. PlanFine'
  BY <1>1, <1>2, PlanGoesOn
<1>5. StepFine'
  BY <1>2, StepAtRest
<1> QED
  BY <1>3, <1>4, <1>5, Frame

LEMMA TornType ==
    ASSUME UpInv, job.at # "idle"
    PROVE  LeftTorn \subseteq Path /\ torn \subseteq Path
<1>1. RecordKey \in Path
  BY KeyType DEF UpInv
<1> QED
  BY <1>1 DEF LeftTorn, Subtree, UpInv, Typed

LEMMA FailsFine ==
    ASSUME UpInv, job.at # "idle", OpFails
    PROVE  UpInv'
BY TornType, QuietEnd DEF OpFails

(* The step goes on inside the operation: the plan stays as it is.         *)
LEMMA PlanStays ==
    ASSUME PlanFine, CloudFine, UNCHANGED <<local, node>>, job'.ops = job.ops
    PROVE  PlanFine' /\ op' = op /\ RecordKey' = RecordKey
<1>1. NodeStep
  BY NodeSame
<1>2. HomesLast /\ \A p : FileLasts(p)
  BY DEF HomesLast, FileLasts
<1>3. \A i \in DOMAIN job'.ops : \E j \in DOMAIN job.ops :
                /\ job'.ops[i] = job.ops[j]
                /\ job.ops[j].kind = "upload" => FileLasts(job.ops[j].path)
  BY <1>2
<1>4. op' = op
  BY DEF op
<1> QED
  BY <1>1, <1>2, <1>3, <1>4, PlanLasts DEF RecordKey

LEMMA StatFine ==
    ASSUME UpInv, StatFile
    PROVE  UpInv'
<1>1. Typed /\ PlanFine /\ CloudFine /\ job.at = "begin" /\ op.kind = "upload"
  BY DEF UpInv, StatFile, Doing
<1>2. CASE OpDone
  <2>1. Ended(job.calm) /\ job.calm \in BOOLEAN /\ torn' \subseteq Path
    BY <1>1, <1>2, CalmType DEF OpDone, StatFile, Typed
  <2> QED
    BY <1>1, <2>1, QuietEnd DEF StatFile
<1>3. CASE ~OpDone
  <2> DEFINE size == IF local[op.path].k = "file" THEN SizeOf[local[op.path].c] ELSE 0
  <2>1. job' = [job EXCEPT !.at = "ensure", !.size = size] /\ UNCHANGED settled
    BY <1>3 DEF StatFile
  <2>2. size \in {SizeOf[c] : c \in Content} \cup {0}
    <3>1. op.path \in Path
      BY <1>1, KeyType
    <3> QED
      BY <3>1 DEF UpInv, LocalFine
  <2>3. /\ job' \in Jobs /\ job'.at = "ensure" /\ job'.ops = job.ops
    BY <1>1, <2>1, <2>2 DEF Typed, Jobs, Stages
  <2>4. Typed'
    BY <1>1, <2>1, <2>3 DEF Typed, Has, StatFile
  <2>5. PlanFine' /\ op' = op
    BY <1>1, <2>3, PlanStays DEF StatFile
  <2>6. StepFine'
    BY <2>3, <2>5, <1>1 DEF StepFine, AtKinds
  <2> QED
    BY <2>4, <2>5, <2>6, Frame DEF StatFile
<1> QED
  BY <1>2, <1>3

LEMMA OthersFine ==
    ASSUME UpInv, EnsureOthers
    PROVE  UpInv'
<1>1. Typed /\ PlanFine /\ CloudFine /\ job.at = "begin" /\ op.kind \in {"mkdir", "adopt"}
  BY DEF UpInv, EnsureOthers, Doing
<1>2. job' = [job EXCEPT !.at = "ensure"] /\ UNCHANGED settled
  BY DEF EnsureOthers, Goto
<1>3. /\ job' \in Jobs /\ job'.at = "ensure" /\ job'.ops = job.ops
  BY <1>1, <1>2 DEF Typed, Jobs, Stages
<1>4. Typed'
  BY <1>1, <1>2, <1>3 DEF Typed, Has, EnsureOthers
<1>5. PlanFine' /\ op' = op
  BY <1>1, <1>3, PlanStays DEF EnsureOthers
<1>6. StepFine'
  BY <1>3, <1>5, <1>1 DEF StepFine, AtKinds
<1> QED
  BY <1>4, <1>5, <1>6, Frame DEF EnsureOthers

LEMMA MkdirFine ==
    ASSUME UpInv, MkdirDone
    PROVE  UpInv'
<1>1. Typed /\ job.at # "idle"
  BY DEF UpInv, MkdirDone, Ensured, Doing
<1>2. Ended(job.calm) /\ job.calm \in BOOLEAN /\ torn' \subseteq Path
  BY <1>1, CalmType DEF OpDone, MkdirDone, Typed
<1> QED
  BY <1>1, <1>2, QuietEnd DEF MkdirDone

LEMMA InterruptFine ==
    ASSUME UpInv, Interrupt
    PROVE  UpInv'
<1>1. Typed /\ job.at # "idle" /\ job' = Idle /\ settled' = 0
  BY DEF UpInv, Interrupt
<1>2. torn' \subseteq Path
  BY <1>1, TornType DEF Interrupt
<1>3. Idle \in Jobs /\ Idle.at = "idle" /\ Idle.ops = << >>
  BY DEF Idle, Jobs, Stages
<1>4. Typed'
  BY <1>1, <1>2, <1>3 DEF Typed, Has, Interrupt
<1>5. StepFine'
  BY <1>1, <1>3, StepAtRest
<1>6. PlanFine'
  BY <1>1, <1>3 DEF PlanFine
<1> QED
  BY <1>4, <1>5, <1>6, Frame DEF Interrupt

-----------------------------------------------------------------------------
(***************************************************************************)
(* Every operation of a plan fits what is there when it is made, and is    *)
(* about the node that the .strm or the record names.                      *)
(***************************************************************************)
Linked(f, p) == local[p].k = "strm" /\ local[p].pc = f
Recorded(f, p) == index[p].kind = "strm" /\ index[p].fid = f
Due(o) ==
    /\ o.kind = "retire" => Recorded(o.fid, o.path)
    /\ o.kind = "adopt" => Linked(o.fid, o.path)
    /\ o.kind = "upload" /\ o.video => o.replace = nowhere \/ Recorded(o.replace, StrmOf[o.path])
FineOps == {o \in Ops : OpFine(o) /\ Due(o)}

LEMMA AboveThere ==
    ASSUME LocalFine, NEW p \in Path, There(p), NEW d \in Path, IsPrefix(d, p), d # p
    PROVE  local[d].k = "dir"
<1> DEFINE S == {q \in Path : local[q].k = "dir"}
<1>1. \A q \in Path : There(q) => Up(q) = Root \/ Up(q) \in S
  BY PathType DEF LocalFine, LocalDir
<1>2. \A e \in Path : e \in S => Up(e) = Root \/ Up(e) \in S
  BY <1>1 DEF There
<1>3. IsPrefix(d, Up(p)) /\ Up(p) \in Path
  BY PathFacts, PathType
<1>4. Up(p) \in S
  BY <1>1, <1>3, PathType
<1> HIDE DEF S
<1>5. d \in S
  BY <1>2, <1>3, <1>4, Ancestors
<1> QED
  BY <1>5 DEF S

LEMMA WayIsThere ==
    ASSUME LocalFine, NEW p \in Path, There(p)
    PROVE  /\ \A d \in Home : IsPrefix(d, Up(p)) => local[d].k = "dir"
           /\ local[p].k = "dir" => \A d \in Home : IsPrefix(d, p) => local[d].k = "dir"
<1>1. ASSUME NEW d \in Home, IsPrefix(d, Up(p)) PROVE local[d].k = "dir"
  <2>1. d \in Path
    BY HomesAbove
  <2>2. IsPrefix(d, p)
    BY <2>1, <1>1, PathFacts
  <2>3. d # p
    <3> SUFFICES ASSUME d = p PROVE FALSE
      OBVIOUS
    <3>1. Up(p) # Root
      <4>1. Len(Root) = 0 /\ Root \in Seq(Names) /\ Len(p) > 0 /\ p \in Seq(Names)
        BY PathType DEF Root
      <4>2. IsPrefix(p, Root) => Len(p) <= Len(Root)
        BY <4>1, PrefixFacts
      <4> QED
        BY <4>1, <4>2, <1>1
    <3>2. Up(p) \in Path /\ Len(Up(p)) = Len(p) - 1 /\ Len(p) \in Nat
      BY <3>1, PathType
    <3>3. Len(p) <= Len(Up(p))
      BY <1>1, <3>2, PathFacts
    <3> QED
      BY <3>2, <3>3
  <2> QED
    BY <2>1, <2>2, <2>3, AboveThere
<1>2. ASSUME local[p].k = "dir", NEW d \in Home, IsPrefix(d, p) PROVE local[d].k = "dir"
  BY <1>2, HomesAbove, AboveThere
<1> QED
  BY <1>1, <1>2

LEMMA PhaseKinds == DOMAIN phase = {"retire", "drop", "mkdir", "upload", "adopt", "normalize"}
BY DEF phase

LEMMA ClearFine ==
    ASSUME UpInv, NEW p \in Path, Has(p), index[p].kind = "dir" => ~There(p)
    PROVE  ClearOp(p) \in FineOps
<1>1. index[p].fid \in Fid \cup {nowhere} /\ index[p].kind \in Kinds \ {"none"}
  BY DEF UpInv, Typed, Records
<1>2. CASE index[p].kind = "strm"
  <2>1. ClearOp(p) = Op("retire", p, index[p].fid)
    BY <1>2 DEF ClearOp
  <2>2. p \in StrmPath /\ VideoNode(index[p].fid)
    BY <1>2 DEF UpInv, IndexFine
  <2> QED
    BY <1>2, <2>1, <2>2, <1>1, PhaseKinds DEF FineOps, OpFine, Due, Recorded, Op, Ops
<1>3. CASE index[p].kind # "strm"
  <2>1. ClearOp(p) = Op("drop", p, index[p].fid)
    BY <1>3 DEF ClearOp
  <2>2. p \notin Home
    <3>1. CASE index[p].kind = "dir"
      BY <3>1 DEF UpInv, HomesFine, There
    <3>2. CASE index[p].kind = "file"
      BY <3>2, HomesAbove DEF UpInv, IndexFine
    <3> QED
      BY <3>1, <3>2, <1>1, <1>3 DEF Kinds
  <2>3. Droppable(index[p].fid)
    BY <1>1, <1>3, <2>2 DEF UpInv, IndexFine, Droppable, Kinds
  <2> QED
    BY <2>1, <2>2, <2>3, <1>1, PhaseKinds DEF FineOps, OpFine, Due, Op, Ops
<1> QED
  BY <1>2, <1>3

LEMMA WhenType ==
    ASSUME NEW T, NEW b, NEW o, b => o \in T
    PROVE  When(b, <<o>>) \in Seq(T)
BY DEF When

LEMMA MissingFine ==
    ASSUME UpInv, NEW p \in Path, ~There(p)
    PROVE  DecideMissing(p) \in Seq(FineOps)
BY ClearFine, WhenType DEF DecideMissing

LEMMA DirFine ==
    ASSUME UpInv, NEW p \in Path, local[p].k = "dir"
    PROVE  DecideDir(p) \in Seq(FineOps)
<1>1. When(Has(p) /\ index[p].kind # "dir", <<ClearOp(p)>>) \in Seq(FineOps)
  BY ClearFine, WhenType
<1>2. Op("mkdir", p, nowhere) \in FineOps
  <2>1. p \in DirPath /\ There(p)
    BY DEF UpInv, LocalFine, There
  <2>2. \A d \in Home : IsPrefix(d, p) => local[d].k = "dir"
    BY <2>1, WayIsThere DEF UpInv
  <2>3. /\ Op("mkdir", p, nowhere) \in Ops /\ Op("mkdir", p, nowhere).kind = "mkdir"
        /\ Op("mkdir", p, nowhere).path = p
    BY PhaseKinds DEF Op, Ops
  <2> QED
    BY <2>1, <2>2, <2>3 DEF FineOps, OpFine, Due, WayThere, Below
<1>3. When(index[p].kind # "dir", <<Op("mkdir", p, nowhere)>>) \in Seq(FineOps)
  BY <1>2, WhenType
<1> QED
  BY <1>1, <1>3 DEF DecideDir

LEMMA StrmFine ==
    ASSUME UpInv, NEW p \in StrmPath, There(p)
    PROVE  DecideStrm(p) \in Seq(FineOps)
<1> DEFINE pc == local[p].pc
           changed == index[p].kind # "strm" \/ pc # index[p].fid
<1>0. p \in Path /\ pc \in Fid \cup {nowhere}
  BY MirrorUpAssumption DEF UpInv, Typed, Things
<1>1. When(Has(p) /\ changed, <<ClearOp(p)>>) \in Seq(FineOps)
  <2>1. index[p].kind # "dir"
    BY <1>0, MirrorUpAssumption DEF UpInv, IndexFine
  <2> QED
    BY <1>0, <2>1, ClearFine, WhenType
<1>2. ASSUME pc # nowhere PROVE Op("adopt", p, pc) \in FineOps
  <2>1. VideoNode(pc)
    BY <1>0, <1>2 DEF UpInv, LocalFine
  <2>2. \A d \in Home : IsPrefix(d, Up(p)) => local[d].k = "dir"
    BY <1>0, WayIsThere DEF UpInv
  <2>3. /\ Op("adopt", p, pc) \in Ops /\ Op("adopt", p, pc).kind = "adopt"
        /\ Op("adopt", p, pc).path = p /\ Op("adopt", p, pc).fid = pc
    BY <1>0, PhaseKinds DEF Op, Ops
  <2>4. Linked(pc, p)
    BY <1>0 DEF UpInv, LocalFine, Linked
  <2> QED
    BY <2>1, <2>2, <2>3, <2>4 DEF FineOps, OpFine, Due, WayThere, Below
<1>3. When(changed /\ pc # nowhere, <<Op("adopt", p, pc)>>) \in Seq(FineOps)
  BY <1>2, WhenType
<1>4. Op("normalize", p, nowhere) \in FineOps
  BY <1>0, PhaseKinds DEF FineOps, OpFine, Due, Op, Ops
<1>5. When(~changed /\ local[p].old, <<Op("normalize", p, nowhere)>>) \in Seq(FineOps)
  BY <1>4, WhenType
<1>6. DecideStrm(p) = When(Has(p) /\ changed, <<ClearOp(p)>>)
                      \o When(changed /\ pc # nowhere, <<Op("adopt", p, pc)>>)
                      \o When(~changed /\ local[p].old, <<Op("normalize", p, nowhere)>>)
  BY Zenon DEF DecideStrm
<1> HIDE DEF pc, changed
<1> QED
  BY <1>1, <1>3, <1>5, <1>6

LEMMA UploadOpFine ==
    ASSUME UpInv, NEW p \in Path, There(p), local[p].k # "dir", p \notin StrmPath,
           NEW o \in Ops, o.kind = "upload", o.path = p,
           o.video => ToStrm /\ p \in VideoPath /\ local[p].c \in Big,
           ~o.video /\ ToStrm /\ p \in VideoPath => local[p].c \notin Big,
           o.replace = nowhere \/ VideoNode(o.replace),
           o.video => o.replace = nowhere \/ Recorded(o.replace, StrmOf[p])
    PROVE  o \in FineOps
<1>1. p \notin DirPath \cup StrmPath
  BY DEF UpInv, LocalFine, There
<1>2. \A d \in Home : IsPrefix(d, Up(p)) => local[d].k = "dir"
  BY WayIsThere DEF UpInv
<1> QED
  BY <1>1, <1>2 DEF FineOps, OpFine, Due, Sort, WayThere, Below

LEMMA PlainFine ==
    ASSUME UpInv, NEW p \in Path, There(p), local[p].k # "dir", p \notin StrmPath,
           ToStrm /\ p \in VideoPath => local[p].c \notin Big
    PROVE  DecidePlain(p) \in Seq(FineOps)
<1> DEFINE same == index[p].kind = "file" /\ index[p].size = SizeOf[local[p].c]
<1>1. When(Has(p) /\ ~same, <<ClearOp(p)>>) \in Seq(FineOps)
  <2>1. index[p].kind # "dir"
    BY DEF UpInv, LocalFine, IndexFine, There
  <2> QED
    BY <2>1, ClearFine, WhenType
<1>2. Op("upload", p, nowhere) \in FineOps
  BY PhaseKinds, UploadOpFine DEF Op, Ops
<1>3. When(~same, <<Op("upload", p, nowhere)>>) \in Seq(FineOps)
  BY <1>2, WhenType
<1>4. DecidePlain(p) = When(Has(p) /\ ~same, <<ClearOp(p)>>) \o When(~same, <<Op("upload", p, nowhere)>>)
  BY Zenon DEF DecidePlain
<1> HIDE DEF same
<1> QED
  BY <1>1, <1>3, <1>4

LEMMA VideoFine ==
    ASSUME UpInv, ToStrm, NEW p \in VideoPath, There(p), local[p].k # "dir"
    PROVE  DecideVideo(p) \in Seq(FineOps)
<1> DEFINE key == StrmOf[p]
           kept == index[key].kind = "strm"
           o == [Op("upload", p, nowhere) EXCEPT
                        !.video = TRUE,
                        !.replace = IF kept THEN index[key].fid ELSE nowhere]
<1>0. p \in Path /\ p \notin StrmPath /\ key \in StrmPath /\ key \in Path /\ key \notin DirPath
  BY MirrorUpAssumption
<1>1. When(Has(key) /\ ~kept, <<ClearOp(key)>>) \in Seq(FineOps)
  <2>1. index[key].kind # "dir"
    BY <1>0 DEF UpInv, IndexFine
  <2> QED
    BY <1>0, <2>1, ClearFine, WhenType
<1>2. CASE local[p].c \in Big
  <2>1. kept => VideoNode(index[key].fid)
    BY <1>0 DEF UpInv, IndexFine
  <2>2. index[key].fid \in Fid \cup {nowhere}
    BY <1>0 DEF UpInv, Typed, Records
  <2> DEFINE old == IF kept THEN index[key].fid ELSE nowhere
             r == Op("upload", p, nowhere)
  <2>3. /\ old \in Fid \cup {nowhere} /\ (old = nowhere \/ VideoNode(old))
        /\ old = nowhere \/ Recorded(old, key)
    BY <2>1, <2>2 DEF Recorded
  <2>4. r \in Ops /\ r.kind = "upload" /\ r.path = p
    BY <1>0, PhaseKinds DEF Op, Ops
  <2>5. /\ o \in Ops /\ o.kind = "upload" /\ o.path = p /\ o.video
        /\ o.replace = nowhere \/ VideoNode(o.replace)
        /\ o.replace = nowhere \/ Recorded(o.replace, StrmOf[p])
    <3>1. o = [r EXCEPT !.video = TRUE, !.replace = old]
      OBVIOUS
    <3> HIDE DEF o, r, old
    <3>2. o \in Ops /\ o.kind = "upload" /\ o.path = p /\ o.video /\ o.replace = old
      BY <2>3, <2>4, <3>1 DEF Ops
    <3> QED
      BY <2>3, <3>2
  <2> HIDE DEF o
  <2>6. o \in FineOps
    BY <2>5, <1>0, <1>2, UploadOpFine
  <2>7. DecideVideo(p) = When(Has(key) /\ ~kept, <<ClearOp(key)>>) \o <<o>>
    BY <1>2, Zenon DEF DecideVideo, o
  <2> HIDE DEF key, kept
  <2> QED
    BY <1>1, <2>6, <2>7
<1>3. CASE local[p].c \notin Big
  <2>1. When(~kept, DecidePlain(p)) \in Seq(FineOps)
    BY <1>0, <1>3, PlainFine DEF When
  <2>2. DecideVideo(p) = When(Has(key) /\ ~kept, <<ClearOp(key)>>) \o When(~kept, DecidePlain(p))
    BY <1>3, Zenon DEF DecideVideo
  <2> HIDE DEF key, kept
  <2> QED
    BY <1>1, <2>1, <2>2
<1> QED
  BY <1>2, <1>3

LEMMA DecideFine ==
    ASSUME UpInv, NEW p \in Path, NEW below \in Seq(FineOps)
    PROVE  Decide(p, below) \in Seq(FineOps)
<1>1. CASE ~There(p)
  BY <1>1, MissingFine DEF Decide
<1>2. CASE There(p) /\ local[p].k = "dir"
  <2>1. DecideDir(p) \in Seq(FineOps)
    BY <1>2, DirFine
  <2>2. DecideDir(p) \o below \in Seq(FineOps)
    BY <2>1
  <2> QED
    BY <2>2, <1>2 DEF Decide
<1>3. CASE There(p) /\ local[p].k # "dir"
  <2>1. CASE p \in StrmPath
    BY <1>3, <2>1, StrmFine DEF Decide, DecideFile
  <2>2. CASE p \notin StrmPath /\ ToStrm /\ p \in VideoPath
    BY <1>3, <2>2, VideoFine DEF Decide, DecideFile
  <2>3. CASE p \notin StrmPath /\ ~(ToStrm /\ p \in VideoPath)
    BY <1>3, <2>3, PlainFine DEF Decide, DecideFile
  <2> QED
    BY <2>1, <2>2, <2>3
<1> QED
  BY <1>1, <1>2, <1>3

LEMMA PlansFine ==
    ASSUME UpInv
    PROVE  /\ \A d \in Scanned : PlanDir[d] \in Seq(FineOps)
           /\ \A p \in Path : PlanFile(p) \in Seq(FineOps)
<1>1. \A d \in Scanned : PlanDir[d] \in Seq(FineOps)
  BY DecideFine, PlanType
<1>2. \A p \in Path : PlanFile(p) \in Seq(FineOps)
  BY <1>1, DecideFine DEF PlanFile, Scanned
<1> QED
  BY <1>1, <1>2

LEMMA PhaseNonempty ==
    ASSUME NEW ops \in Seq(Ops), ops # << >>
    PROVE  ByPhase(ops) # << >>
<1>1. PICK n \in 0 .. 3 : phase[ops[1].kind] = n
  <2>0. ops[1] \in Ops
    OBVIOUS
  <2>1. ops[1].kind \in {"retire", "drop", "mkdir", "upload", "adopt", "normalize"}
    BY <2>0, PhaseKinds DEF Ops
  <2> QED
    BY <2>1 DEF phase
<1> DEFINE part(i) == When(phase[ops[i].kind] = n, <<ops[i]>>)
<1>2. 1 \in DOMAIN ops /\ part(1) = <<ops[1]>>
  BY <1>1 DEF When
<1>3. [i \in DOMAIN ops |-> part(i)] \in Seq(Seq(Ops))
  <2>1. \A i \in DOMAIN ops : part(i) \in Seq(Ops)
    BY DEF When
  <2> HIDE DEF part
  <2>2. DOMAIN ops = 1 .. Len(ops) /\ Len(ops) \in Nat
    OBVIOUS
  <2> QED
    BY <2>1, <2>2
<1>4. FlattenSeq([i \in DOMAIN ops |-> part(i)]) # << >>
  <2> DEFINE ss == [i \in DOMAIN ops |-> part(i)]
  <2>1. 1 \in DOMAIN ss /\ ss[1] # << >>
    <3>1. ss[1] = <<ops[1]>> /\ 1 \in DOMAIN ss
      <4> HIDE DEF part
      <4> QED
        BY <1>2
    <3>2. \A x : <<x>> # << >>
      OBVIOUS
    <3> QED
      BY <3>1, <3>2
  <2> HIDE DEF ss
  <2>2. ss \in Seq(Seq(Ops)) => FlattenSeq(ss) # << >>
    BY <2>1, FlattenNonempty
  <2> QED
    BY <2>2, <1>3 DEF ss
<1>5. InPhase(n, ops) # << >>
  BY <1>4 DEF InPhase
<1>6. \A m : InPhase(m, ops) \in Seq(Ops)
  BY InPhaseType
<1>7. InPhase(0, ops) # << >> \/ InPhase(1, ops) # << >> \/ InPhase(2, ops) # << >> \/ InPhase(3, ops) # << >>
  BY <1>1, <1>5
<1> QED
  BY <1>6, <1>7 DEF ByPhase

LEMMA BeginFine ==
    ASSUME UpInv, NEW ops \in Seq(FineOps), NEW full \in BOOLEAN, Begin(ops, full)
    PROVE  UpInv'
<1>1. Typed /\ job.at = "idle"
  BY DEF UpInv, Begin
<1>2. settled' \in 0 .. 2
  BY <1>1 DEF Begin, Typed
<1>3. ops \in Seq(Ops)
  BY DEF FineOps
<1>4. CASE ops = << >>
  <2>1. job' = Idle /\ Idle \in Jobs /\ Idle.at = "idle" /\ Idle.ops = << >>
    BY <1>4 DEF Begin, Idle, Jobs, Stages
  <2>2. Typed'
    BY <1>1, <1>2, <2>1 DEF Typed, Has, Begin
  <2>3. StepFine' /\ PlanFine'
    BY <2>1, StepAtRest DEF PlanFine
  <2> QED
    BY <2>2, <2>3, Frame DEF Begin
<1>5. CASE ops # << >>
  <2>1. job' = [Idle EXCEPT !.at = "begin", !.ops = ByPhase(ops), !.calm = full]
    BY <1>5 DEF Begin
  <2>2. ByPhase(ops) \in Seq(FineOps) /\ ByPhase(ops) \in Seq(Ops) /\ ByPhase(ops) # << >>
    BY <1>3, <1>5, PhaseType, PhaseNonempty
  <2>3. Idle \in Jobs
    BY DEF Idle, Jobs, Stages
  <2>4. job' \in Jobs /\ job'.at = "begin" /\ job'.ops = ByPhase(ops)
    BY <2>1, <2>2, <2>3 DEF Jobs, Stages
  <2>5. Typed'
    BY <1>1, <1>2, <2>2, <2>4 DEF Typed, Has, Begin
  <2>6. StepFine'
    BY <2>4, StepAtRest
  <2>7. PlanFine'
    <3>1. ASSUME NEW i \in DOMAIN job'.ops PROVE OpFine(job.ops[i])'
      <4>1. job'.ops[i] \in FineOps
        BY <2>2, <2>4, <3>1
      <4>2. ASSUME NEW o, o \in FineOps PROVE OpFine(o)'
        <5>1. OpFine(o) /\ CloudFine
          BY <4>2 DEF FineOps, UpInv
        <5>2. NodeStep /\ HomesLast /\ FileLasts(o.path)
          BY NodeSame DEF HomesLast, FileLasts, Begin
        <5> QED
          BY <5>1, <5>2, OpLasts
      <4>3. ASSUME NEW o, o = job'.ops[i], OpFine(o)' PROVE OpFine(job.ops[i])'
        BY <4>3
      <4> QED
        BY <4>1, <4>2, <4>3
    <3> QED
      BY <3>1 DEF PlanFine
  <2> QED
    BY <2>5, <2>6, <2>7, Frame DEF Begin
<1> QED
  BY <1>4, <1>5

LEMMA BeginsFine ==
    ASSUME UpInv,
           \/ FullScan
           \/ \E d \in DirPath : DirScan(d)
           \/ \E p \in Path : FileJob(p)
    PROVE  UpInv'
<1>1. Root \in Scanned /\ DirPath \subseteq Scanned
  BY MirrorUpAssumption DEF Scanned
<1>2. CASE FullScan
  BY <1>1, <1>2, PlansFine, BeginFine DEF FullScan
<1>3. CASE \E d \in DirPath : DirScan(d)
  BY <1>1, <1>3, PlansFine, BeginFine DEF DirScan
<1>4. CASE \E p \in Path : FileJob(p)
  BY <1>4, PlansFine, BeginFine DEF FileJob
<1> QED
  BY <1>2, <1>3, <1>4

-----------------------------------------------------------------------------
(***************************************************************************)
(* The directories an operation needs.                                     *)
(***************************************************************************)
LEMMA NoneAboveRoot == \A d \in Path : ~IsPrefix(d, Root)
<1>1. Root \in Seq(Names) /\ Len(Root) = 0
  BY DEF Root
<1>2. ASSUME NEW d \in Path, IsPrefix(d, Root) PROVE FALSE
  <2>1. d \in Seq(Names) /\ Len(d) > 0
    BY PathType
  <2>2. Len(d) <= Len(Root)
    BY <1>1, <1>2, <2>1, PrefixFacts
  <2> QED
    BY <1>1, <2>1, <2>2
<1> QED
  BY <1>2

LEMMA Target ==
    ASSUME Typed, PlanFine, job.at # "idle", op.kind \in {"upload", "mkdir", "adopt"}
    PROVE  /\ TargetDir = Root \/ TargetDir \in DirPath
           /\ \A d \in Unrecorded : d \in DirPath /\ (d \in Home => local[d].k = "dir")
<1>1. OpFine(op) /\ op.path \in Path
  BY OpIsFine, KeyType
<1>2. TargetDir = Root \/ TargetDir \in DirPath
  BY <1>1, PathType DEF TargetDir, OpFine
<1>3. WayThere(op) /\ TargetDir = Below(op)
  BY <1>1 DEF OpFine, TargetDir, Below
<1>4. ASSUME NEW d \in Unrecorded PROVE d \in DirPath /\ (d \in Home => local[d].k = "dir")
  <2>1. d \in Path /\ IsPrefix(d, TargetDir)
    BY DEF Unrecorded
  <2>2. TargetDir \in DirPath
    BY <1>2, <2>1, NoneAboveRoot
  <2>3. d \in DirPath
    BY <2>1, <2>2, DirsAbove
  <2> QED
    BY <1>3, <2>1, <2>3 DEF WayThere
<1> QED
  BY <1>2, <1>4

LEMMA TopFacts ==
    ASSUME Typed, PlanFine, job.at # "idle", op.kind \in {"upload", "mkdir", "adopt"},
           Unrecorded # {}
    PROVE  /\ TopUnrecorded \in Unrecorded
           /\ Up(TopUnrecorded) = Root \/ (Up(TopUnrecorded) \in DirPath /\ Has(Up(TopUnrecorded)))
<1> DEFINE T == {n \in Nat : \E d \in Unrecorded : Len(d) = n}
<1>0. Unrecorded \subseteq Path /\ \A d \in Path : Len(d) \in Nat
  BY PathType DEF Unrecorded
<1>1. T \in SUBSET Nat /\ T # {}
  BY <1>0
<1>2. PICK n \in T : \A m \in T : n <= m
  <2> HIDE DEF T
  <2> QED
    BY <1>1, Least
<1>3. PICK d \in Unrecorded : Len(d) = n
  BY <1>2
<1>4. TargetDir \in DirPath /\ TargetDir \in Path
  BY <1>3, Target, NoneAboveRoot, MirrorUpAssumption DEF Unrecorded
<1>5. ASSUME NEW e \in Unrecorded PROVE IsPrefix(d, e)
  <2>1. Len(d) <= Len(e)
    BY <1>0, <1>2, <1>3
  <2>2. d \in Path /\ e \in Path /\ IsPrefix(d, TargetDir) /\ IsPrefix(e, TargetDir)
    BY DEF Unrecorded
  <2> QED
    BY <2>1, <2>2, <1>4, PathFacts
<1>6. /\ TopUnrecorded \in Unrecorded
      /\ \A e \in Unrecorded : IsPrefix(TopUnrecorded, e)
  BY <1>3, <1>5, Zenon DEF TopUnrecorded
<1>7. ASSUME Up(TopUnrecorded) # Root PROVE Up(TopUnrecorded) \in DirPath /\ Has(Up(TopUnrecorded))
  <2> DEFINE t == TopUnrecorded
  <2>1. t \in Path /\ IsPrefix(t, TargetDir)
    BY <1>6 DEF Unrecorded
  <2>2. Up(t) \in DirPath /\ Up(t) \in Path /\ Len(Up(t)) = Len(t) - 1 /\ Len(t) \in Nat
    BY <1>7, <2>1, PathType
  <2>3. IsPrefix(Up(t), t)
    BY <2>1, PathFacts
  <2>4. IsPrefix(Up(t), TargetDir)
    BY <2>1, <2>2, <2>3, <1>4, PathFacts
  <2>5. ~Has(Up(t)) => Up(t) \in Unrecorded
    BY <2>2, <2>4 DEF Unrecorded
  <2>6. Up(t) \in Unrecorded => Len(t) <= Len(Up(t))
    BY <1>6, <2>1, <2>2, PathFacts
  <2> QED
    BY <2>2, <2>5, <2>6
<1> QED
  BY <1>6, <1>7

(* The record of a directory, and of the one a path lies in.               *)
LEMMA DirRecord ==
    ASSUME Typed, IndexFine, NEW p \in Path,
           Up(p) = Root \/ (Up(p) \in DirPath /\ Has(Up(p)))
    PROVE  /\ InPlace(FidOf(Up(p)), p)
           /\ p \in VideoPath \cup StrmPath => FidOf(Up(p)) = root \/ \E d \in Home : DirNode(FidOf(Up(p)), d)
           /\ FidOf(Up(p)) = root \/ (FidOf(Up(p)) \in Fid /\ node[FidOf(Up(p))].kind = "dir")
<1>1. CASE Up(p) = Root
  BY <1>1 DEF InPlace, FidOf
<1>2. CASE Up(p) # Root
  <2>1. Up(p) \in DirPath /\ Up(p) \in Path /\ Has(Up(p))
    BY <1>2, MirrorUpAssumption
  <2>2. index[Up(p)].kind = "dir"
    BY <2>1, MirrorUpAssumption DEF IndexFine, Typed, Records, Kinds
  <2>3. DirNode(index[Up(p)].fid, Up(p)) /\ FidOf(Up(p)) = index[Up(p)].fid
    BY <2>1, <2>2, <1>2 DEF IndexFine, FidOf
  <2>4. p \in VideoPath \cup StrmPath => Up(p) \in Home
    BY <1>2, HomesAbove
  <2> QED
    BY <1>2, <2>3, <2>4 DEF InPlace, DirNode
<1> QED
  BY <1>1, <1>2

LEMMA EnsuredDir ==
    ASSUME Typed, PlanFine, job.at # "idle", op.kind \in {"upload", "adopt"}, Unrecorded = {}
    PROVE  Up(op.path) = Root \/ (Up(op.path) \in DirPath /\ Has(Up(op.path)))
<1>1. op.path \in Path
  BY KeyType
<1>2. ASSUME Up(op.path) # Root PROVE Up(op.path) \in DirPath /\ Has(Up(op.path))
  <2>1. Up(op.path) \in DirPath /\ Up(op.path) \in Path
    BY <1>1, <1>2, PathType
  <2>2. IsPrefix(Up(op.path), TargetDir)
    BY <2>1, PathFacts DEF TargetDir
  <2> QED
    BY <2>1, <2>2 DEF Unrecorded
<1> QED
  BY <1>2

-----------------------------------------------------------------------------
(***************************************************************************)
(* The steps in the cloud. Moving a node: ...                              *)
(***************************************************************************)
LEMMA LocalLasts ==
    ASSUME LocalFine, CloudFine, NodeStep, UNCHANGED local
    PROVE  LocalFine'
<1>1. \A p \in Path : local[p].pc # nowhere => VideoNode(local[p].pc)'
  <2>1. \A p \in Path : local[p].pc # nowhere => VideoNode(local[p].pc) /\ local[p].pc \in Fid
    BY DEF LocalFine, VideoNode
  <2> QED
    BY <2>1, NodesLast
<1> QED
  BY <1>1 DEF LocalFine, There, LocalDir

LEMMA HandedLasts ==
    ASSUME HandedFine, CloudFine, NodeStep, UNCHANGED handed
    PROVE  HandedFine'
<1> SUFFICES ASSUME NEW c \in handed
             PROVE  ToStrm /\ \E f \in Fid : node'[f].c = c /\ Precious(f)'
  BY DEF HandedFine
<1>1. PICK f \in Fid : node[f].c = c /\ Precious(f)
  BY DEF HandedFine
<1>2. node'[f].c = c /\ Precious(f)'
  BY <1>1, NodesLast
<1> QED
  BY <1>2 DEF HandedFine

LEMMA MovedFacts ==
    ASSUME Typed, NEW f, NEW place \in Fid \cup {root, temp, elsewhere, nowhere},
           node' = Moved(f, place)
    PROVE  /\ node' \in [Fid -> Nodes] /\ NodeStep
           /\ \A g \in Fid :
                /\ node'[g].kind = node[g].kind /\ node'[g].c = node[g].c /\ node'[g].name = node[g].name
                /\ node'[g] = node[g] \/ (g = f /\ node'[g].up = place)
           /\ Fresh' = Fresh
<1>1. node \in [Fid -> Nodes]
  BY DEF Typed
<1>2. CASE Exists(f)
  <2>1. f \in Fid /\ node' = [node EXCEPT ![f].up = place]
    BY <1>2 DEF Exists, Moved
  <2>2. node' \in [Fid -> Nodes]
    BY <1>1, <2>1 DEF Nodes
  <2>3. \A g \in Fid :
            /\ node'[g].kind = node[g].kind /\ node'[g].c = node[g].c /\ node'[g].name = node[g].name
            /\ node'[g] = node[g] \/ (g = f /\ node'[g].up = place)
    BY <1>1, <2>1 DEF Nodes
  <2> QED
    BY <2>2, <2>3 DEF NodeStep, Fresh
<1>3. CASE ~Exists(f)
  <2>1. node' = node
    BY <1>3 DEF Moved
  <2>2. \A g \in Fid : node'[g] = node[g]
    BY <2>1
  <2> QED
    BY <1>1, <2>1, <2>2 DEF NodeStep, Fresh
<1> QED
  BY <1>2, <1>3

(* ... a video goes to the recycle directory or to a directory on the way  *)
(* to a video, and only what holds no video is deleted.                    *)
LEMMA MoveFine ==
    ASSUME UpInv, NEW f, NEW place, node' = Moved(f, place), UNCHANGED <<local, index, handed>>,
           \/ VideoNode(f) /\ place = temp
           \/ VideoNode(f) /\ (place = root \/ \E d \in Home : DirNode(place, d))
           \/ Droppable(f) /\ place = nowhere
    PROVE  /\ node' \in [Fid -> Nodes] /\ NodeStep
           /\ LocalFine' /\ CloudFine' /\ HomesFine' /\ PreciousFine' /\ IndexFine' /\ HandedFine'
<1>0. Typed /\ LocalFine /\ CloudFine /\ HomesFine /\ PreciousFine /\ IndexFine /\ HandedFine
  BY DEF UpInv
<1>1. place \in Fid \cup {root, temp, elsewhere, nowhere}
  BY DEF DirNode
<1>2. /\ node' \in [Fid -> Nodes] /\ NodeStep
      /\ \A g \in Fid :
           /\ node'[g].kind = node[g].kind /\ node'[g].c = node[g].c /\ node'[g].name = node[g].name
           /\ node'[g] = node[g] \/ (g = f /\ node'[g].up = place)
      /\ Fresh' = Fresh
  BY <1>0, <1>1, MovedFacts
<1>3. f \in Fid /\ node[f].kind \in {"dir", "file"}
  BY DEF VideoNode, Droppable, Plain, DirNode
<1>4. LocalFine' /\ IndexFine' /\ HandedFine'
  BY <1>0, <1>2, LocalLasts, IndexLast, HandedLasts
<1>5. CloudFine'
  <2> SUFFICES ASSUME NEW g \in Fid
               PROVE  /\ node'[g].kind = "none" => node'[g] = NoNode
                      /\ node'[g].kind = "dir" =>
                                /\ node'[g].c = nowhere
                                /\ node'[g].name \in DirPath
                                /\ node'[g].up \in Fid => node'[g].up < g
                                /\ node'[g].up \notin {temp, elsewhere}
                                /\ \A h \in Fresh' : g < h
                      /\ node'[g].up \in Fid => node'[node'[g].up].kind = "dir"
                      /\ node'[g].up = elsewhere => node'[g].kind = "file" /\ node'[g].name = Root
                      /\ node'[g].kind = "file" /\ node'[g].c # nowhere => node'[g].name # Root
    BY DEF CloudFine
  <2>1. CASE node'[g] = node[g]
    BY <2>1, <1>0, <1>2 DEF CloudFine
  <2>2. CASE g = f /\ node'[g].up = place
    <3>1. place = elsewhere => FALSE
      BY MirrorUpAssumption DEF DirNode
    <3>2. place \in Fid => node[place].kind = "dir"
      BY MirrorUpAssumption DEF DirNode
    <3>3. node[f].kind = "dir" => place = nowhere
      BY DEF VideoNode
    <3>4. nowhere \notin Fid \cup {temp, elsewhere}
      BY MirrorUpAssumption
    <3> QED
      BY <2>2, <3>1, <3>2, <3>3, <3>4, <1>0, <1>2, <1>3 DEF CloudFine
  <2> QED
    BY <2>1, <2>2, <1>2
<1>6. HomesFine'
  <2>1. ASSUME NEW g \in Fid, node'[g].kind = "dir", node'[g].name \in Home
        PROVE  InPlace(node[g].up, node[g].name)'
    <3>1. g # f
      <4>1. ASSUME g = f PROVE FALSE
        <5>1. node[f].kind = "dir" /\ node[f].name \in Home
          BY <4>1, <2>1, <1>2
        <5> QED
          BY <5>1 DEF VideoNode, Droppable, Plain, DirNode
      <4> QED
        BY <4>1
    <3>2. node'[g] = node[g]
      BY <3>1, <1>2
    <3>3. InPlace(node[g].up, node[g].name)
      BY <2>1, <3>2, <1>0 DEF HomesFine
    <3> QED
      BY <3>2, <3>3, <1>2 DEF InPlace, DirNode
  <2>2. \A d \in Home : Has(d)' => local'[d].k = "dir"
    BY <1>0 DEF HomesFine, Has
  <2> QED
    BY <2>1, <2>2 DEF HomesFine
<1>7. PreciousFine'
  <2> SUFFICES ASSUME ToStrm, NEW g \in Fid, Precious(g)' PROVE Reachable(g)'
    BY DEF PreciousFine
  <2>1. Precious(g)
    BY <1>2 DEF Precious
  <2>2. CASE node'[g] = node[g]
    <3>1. Reachable(g)
      BY <2>1, <1>0 DEF PreciousFine
    <3> QED
      BY <2>2, <3>1, <1>2 DEF Reachable, DirNode
  <2>3. CASE g = f /\ node'[g].up = place
    <3>1. ~Droppable(f)
      BY <2>1, <2>3 DEF Droppable, Plain, Precious, DirNode
    <3>2. place \in {temp, root} \/ \E d \in Home : DirNode(place, d)
      BY <3>1
    <3> QED
      BY <3>2, <2>3, <1>2 DEF Reachable, DirNode
  <2> QED
    BY <2>2, <2>3, <1>2
<1> QED
  BY <1>2, <1>4, <1>5, <1>6, <1>7

LEMMA GotoFacts ==
    ASSUME Typed, job.at # "idle", NEW l \in Stages, l # "idle", job' = [job EXCEPT !.at = l]
    PROVE  /\ job' \in Jobs /\ job'.at = l /\ job'.ops = job.ops /\ job'.fid = job.fid
           /\ job'.at = "idle" <=> job'.ops = << >>
<1>1. job \in Jobs /\ job.ops # << >>
  BY DEF Typed
<1> QED
  BY <1>1 DEF Jobs

(* The plan stays as it is over a step in the cloud.                       *)
LEMMA PlanOverCloud ==
    ASSUME PlanFine, CloudFine, NodeStep, UNCHANGED local, job'.ops = job.ops
    PROVE  PlanFine' /\ op' = op /\ RecordKey' = RecordKey
<1>1. HomesLast /\ \A p : FileLasts(p)
  BY DEF HomesLast, FileLasts
<1>2. \A i \in DOMAIN job'.ops : \E j \in DOMAIN job.ops :
                /\ job'.ops[i] = job.ops[j]
                /\ job.ops[j].kind = "upload" => FileLasts(job.ops[j].path)
  BY <1>1
<1>3. op' = op
  BY DEF op
<1> QED
  BY <1>1, <1>2, <1>3, PlanLasts DEF RecordKey

LEMMA RetireOldFine ==
    ASSUME UpInv, RetireOld
    PROVE  UpInv'
<1>1. Typed /\ PlanFine /\ CloudFine /\ StepFine /\ job.at = "retireOld" /\ job.at # "idle"
  BY DEF UpInv, RetireOld
<1>2. CASE OpFails
  BY <1>1, <1>2, FailsFine
<1>3. CASE ~OpFails
  <2>1. node' = Moved(op.replace, temp) /\ Goto("writeStrm") /\ UNCHANGED <<local, index, handed, torn>>
    BY <1>3 DEF RetireOld
  <2>2. op.kind = "upload" /\ op.video /\ OpFine(op)
    BY <1>1, OpIsFine DEF StepFine, AtKinds
  <2>3. op.replace = nowhere \/ VideoNode(op.replace)
    BY <2>2 DEF OpFine
  <2>4. CASE op.replace = nowhere
    <3>1. node' = node
      BY <2>1, <2>4, MirrorUpAssumption DEF Moved, Exists
    <3>2. job' \in Jobs /\ job'.at = "writeStrm" /\ job'.ops = job.ops /\ job'.fid = job.fid
          /\ (job'.at = "idle" <=> job'.ops = << >>)
      BY <2>1, <1>1, GotoFacts DEF Goto, Stages
    <3>3. Typed'
      BY <1>1, <2>1, <3>1, <3>2 DEF Typed, Has, Goto
    <3>4. PlanFine' /\ op' = op
      BY <1>1, <2>1, <3>1, <3>2, PlanStays
    <3>5. StepFine'
      <4>1. Precious(job.fid) /\ (local[op.path].k = "file" => node[job.fid].c = local[op.path].c)
        BY <1>1, <2>2 DEF StepFine
      <4>2. Precious(job.fid)'
        BY <3>1, <3>2, <4>1 DEF Precious
      <4> QED
        BY <2>1, <2>2, <3>1, <3>2, <3>4, <4>1, <4>2 DEF StepFine, AtKinds
    <3> QED
      BY <2>1, <3>1, <3>3, <3>4, <3>5, Frame
  <2>5. CASE VideoNode(op.replace)
    <3>1. /\ node' \in [Fid -> Nodes] /\ NodeStep
          /\ LocalFine' /\ CloudFine' /\ HomesFine' /\ PreciousFine' /\ IndexFine' /\ HandedFine'
      BY <2>1, <2>5, MoveFine
    <3>2. job' \in Jobs /\ job'.at = "writeStrm" /\ job'.ops = job.ops /\ job'.fid = job.fid
          /\ (job'.at = "idle" <=> job'.ops = << >>)
      BY <2>1, <1>1, GotoFacts DEF Goto, Stages
    <3>3. Typed'
      BY <1>1, <2>1, <3>1, <3>2 DEF Typed, Has, Goto
    <3>4. PlanFine' /\ op' = op
      BY <1>1, <2>1, <3>1, <3>2, PlanOverCloud
    <3>5. StepFine'
      <4>1. Precious(job.fid) /\ (local[op.path].k = "file" => node[job.fid].c = local[op.path].c)
        BY <1>1, <2>2 DEF StepFine
      <4>2. job.fid \in Fid
        BY <4>1 DEF Precious
      <4>3. ASSUME NEW f, f = job.fid, f \in Fid, Precious(f) PROVE Precious(f)' /\ node'[f].c = node[f].c
        BY <4>3, <1>1, <3>1, NodesLast
      <4>4. Precious(job.fid)' /\ node'[job.fid].c = node[job.fid].c
        BY <4>1, <4>2, <4>3, <3>2 DEF Precious
      <4> QED
        BY <2>1, <2>2, <3>2, <3>4, <4>1, <4>4 DEF StepFine, AtKinds
    <3> QED
      BY <3>1, <3>3, <3>4, <3>5 DEF UpInv
  <2> QED
    BY <2>3, <2>4, <2>5
<1> QED
  BY <1>2, <1>3

(* retire and drop.                                                        *)
LEMMA ClearingFine ==
    ASSUME UpInv, Retire \/ Drop
    PROVE  UpInv'
<1>1. Typed /\ PlanFine /\ CloudFine /\ job.at = "begin" /\ job.at # "idle"
      /\ op.kind \in {"retire", "drop"}
  BY DEF UpInv, Retire, Drop, Doing
<1>2. CASE OpFails
  BY <1>1, <1>2, FailsFine
<1>3. CASE ~OpFails
  <2>1. /\ \/ op.kind = "retire" /\ node' = Moved(op.fid, temp)
           \/ op.kind = "drop" /\ node' = Moved(op.fid, nowhere)
        /\ Goto("clear") /\ UNCHANGED <<local, index, handed, torn>>
    BY <1>3 DEF Retire, Drop, Doing
  <2>2. (op.kind = "retire" => VideoNode(op.fid)) /\ (op.kind = "drop" => Droppable(op.fid))
    BY <1>1, OpIsFine DEF OpFine
  <2>3. /\ node' \in [Fid -> Nodes] /\ NodeStep
        /\ LocalFine' /\ CloudFine' /\ HomesFine' /\ PreciousFine' /\ IndexFine' /\ HandedFine'
    BY <2>1, <2>2, MoveFine
  <2>4. job' \in Jobs /\ job'.at = "clear" /\ job'.ops = job.ops
        /\ (job'.at = "idle" <=> job'.ops = << >>)
    BY <2>1, <1>1, GotoFacts DEF Goto, Stages
  <2>5. Typed'
    BY <1>1, <2>1, <2>3, <2>4 DEF Typed, Has, Goto
  <2>6. PlanFine' /\ op' = op
    BY <1>1, <2>1, <2>3, <2>4, PlanOverCloud
  <2>7. StepFine'
    BY <1>1, <2>4, <2>6 DEF StepFine, AtKinds
  <2> QED
    BY <2>3, <2>5, <2>6, <2>7 DEF UpInv
<1> QED
  BY <1>2, <1>3

(* adopt: a video is moved to where its .strm is, ...                      *)
LEMMA AdoptMoveFine ==
    ASSUME UpInv, MoveAdopted
    PROVE  UpInv'
<1>1. Typed /\ PlanFine /\ CloudFine /\ IndexFine /\ job.at = "ensure" /\ job.at # "idle"
      /\ op.kind = "adopt" /\ Unrecorded = {}
  BY DEF UpInv, MoveAdopted, Ensured, Doing
<1>2. CASE OpFails
  BY <1>1, <1>2, FailsFine
<1>3. CASE ~OpFails
  <2> DEFINE place == FidOf(Up(op.path))
  <2>1. /\ Exists(op.fid) /\ node' = Moved(op.fid, place)
        /\ job' = [job EXCEPT !.at = "rename", !.fid = op.fid]
        /\ UNCHANGED <<local, index, handed, torn, settled>>
    BY <1>3 DEF MoveAdopted
  <2>2. op.path \in StrmPath /\ VideoNode(op.fid) /\ op.path \in Path
    BY <1>1, OpIsFine, KeyType DEF OpFine
  <2>3. place = root \/ \E d \in Home : DirNode(place, d)
    BY <1>1, <2>2, EnsuredDir, DirRecord
  <2>4. /\ node' \in [Fid -> Nodes] /\ NodeStep
        /\ LocalFine' /\ CloudFine' /\ HomesFine' /\ PreciousFine' /\ IndexFine' /\ HandedFine'
    <3> HIDE DEF place
    <3> QED
      BY <2>1, <2>2, <2>3, MoveFine
  <2>5. op.fid \in Fid
    BY <2>2 DEF VideoNode
  <2>6. job' \in Jobs /\ job'.at = "rename" /\ job'.ops = job.ops /\ job'.fid = op.fid
        /\ (job'.at = "idle" <=> job'.ops = << >>)
    <3>1. job \in Jobs /\ job.ops # << >>
      BY <1>1 DEF Typed
    <3> QED
      BY <3>1, <2>1, <2>5 DEF Jobs, Stages
  <2>7. Typed'
    BY <1>1, <2>1, <2>4, <2>6 DEF Typed, Has
  <2>8. PlanFine' /\ op' = op
    BY <1>1, <2>1, <2>4, <2>6, PlanOverCloud
  <2>9. StepFine'
    <3>1. VideoNode(job.fid)'
      <4>1. ASSUME NEW f, f = op.fid PROVE VideoNode(f)'
        BY <4>1, <2>2, <2>4, <2>5, <1>1, NodesLast
      <4> QED
        BY <4>1, <2>6 DEF VideoNode
    <3>2. Reachable(job.fid)'
      <4>1. place \in Fid \cup {root, temp, elsewhere, nowhere}
        BY <2>3 DEF DirNode
      <4>2. node'[op.fid].up = place /\ \A g \in Fid : node'[g].kind = node[g].kind /\ node'[g].name = node[g].name
        <5> HIDE DEF place
        <5>1. \A g \in Fid : node'[g].kind = node[g].kind /\ node'[g].name = node[g].name
          BY <1>1, <2>1, <4>1, MovedFacts
        <5>2. node' = [node EXCEPT ![op.fid].up = place] /\ node \in [Fid -> Nodes]
          BY <1>1, <2>1 DEF Moved, Typed
        <5> QED
          BY <5>1, <5>2, <2>5 DEF Nodes
      <4> HIDE DEF place
      <4> QED
        BY <4>2, <2>3, <2>6 DEF Reachable, DirNode
    <3> QED
      BY <1>1, <2>6, <2>8, <3>1, <3>2 DEF StepFine, AtKinds
  <2> QED
    BY <2>4, <2>7, <2>8, <2>9 DEF UpInv
<1> QED
  BY <1>2, <1>3

(* ... and named after it. A file in the cloud, new or not: ...            *)
LEMMA FilePut ==
    ASSUME UpInv, NEW f \in Fid, NEW n \in Nodes, node' = [node EXCEPT ![f] = n],
           NodeStep, UNCHANGED <<local, index, handed>>,
           node[f].kind # "dir", n.kind = "file", n.name # Root,
           n.up \in {root, temp} \/ (n.up \in Fid /\ node[n.up].kind = "dir"),
           n.name \in VideoPath \cup StrmPath /\ n.c \in Big /\ ToStrm =>
                n.up \in {root, temp} \/ \E d \in Home : DirNode(n.up, d)
    PROVE  /\ node' \in [Fid -> Nodes]
           /\ LocalFine' /\ CloudFine' /\ HomesFine' /\ PreciousFine' /\ IndexFine' /\ HandedFine'
<1>0. Typed /\ LocalFine /\ CloudFine /\ HomesFine /\ PreciousFine /\ IndexFine /\ HandedFine
  BY DEF UpInv
<1>1. node' \in [Fid -> Nodes] /\ node'[f] = n /\ \A g \in Fid \ {f} : node'[g] = node[g]
  BY <1>0 DEF Typed
<1>2. LocalFine' /\ IndexFine' /\ HandedFine'
  BY <1>0, LocalLasts, IndexLast, HandedLasts
<1>3. Fresh' \subseteq Fresh
  BY <1>1 DEF Fresh
<1>4. \A g \in Fid : node[g].kind = "dir" => node'[g] = node[g] /\ g # f
  BY <1>1
<1>5. CloudFine'
  <2> SUFFICES ASSUME NEW g \in Fid
               PROVE  /\ node'[g].kind = "none" => node'[g] = NoNode
                      /\ node'[g].kind = "dir" =>
                                /\ node'[g].c = nowhere
                                /\ node'[g].name \in DirPath
                                /\ node'[g].up \in Fid => node'[g].up < g
                                /\ node'[g].up \notin {temp, elsewhere}
                                /\ \A h \in Fresh' : g < h
                      /\ node'[g].up \in Fid => node'[node'[g].up].kind = "dir"
                      /\ node'[g].up = elsewhere => node'[g].kind = "file" /\ node'[g].name = Root
                      /\ node'[g].kind = "file" /\ node'[g].c # nowhere => node'[g].name # Root
    BY DEF CloudFine
  <2>1. CASE g = f
    <3>1. elsewhere \notin Fid \cup {root, temp}
      BY MirrorUpAssumption
    <3>2. n.up \in Fid => node'[n.up].kind = "dir"
      BY <1>4, MirrorUpAssumption
    <3> QED
      BY <2>1, <1>1, <3>1, <3>2
  <2>2. CASE g # f
    <3>1. node'[g] = node[g]
      BY <2>2, <1>1
    <3>2. /\ node[g].kind = "none" => node[g] = NoNode
          /\ node[g].kind = "dir" =>
                    /\ node[g].c = nowhere
                    /\ node[g].name \in DirPath
                    /\ node[g].up \in Fid => node[g].up < g
                    /\ node[g].up \notin {temp, elsewhere}
                    /\ \A h \in Fresh : g < h
          /\ node[g].up \in Fid => node[node[g].up].kind = "dir"
          /\ node[g].up = elsewhere => node[g].kind = "file" /\ node[g].name = Root
          /\ node[g].kind = "file" /\ node[g].c # nowhere => node[g].name # Root
      BY <1>0 DEF CloudFine
    <3> QED
      BY <3>1, <3>2, <1>3, <1>4
  <2> QED
    BY <2>1, <2>2
<1>6. HomesFine'
  <2>1. ASSUME NEW g \in Fid, node'[g].kind = "dir", node'[g].name \in Home
        PROVE  InPlace(node[g].up, node[g].name)'
    <3>1. g # f /\ node'[g] = node[g]
      BY <2>1, <1>1
    <3>2. InPlace(node[g].up, node[g].name)
      BY <2>1, <3>1, <1>0 DEF HomesFine
    <3> QED
      BY <3>1, <3>2, <1>4 DEF InPlace, DirNode
  <2>2. \A d \in Home : Has(d)' => local'[d].k = "dir"
    BY <1>0 DEF HomesFine, Has
  <2> QED
    BY <2>1, <2>2 DEF HomesFine
<1>7. PreciousFine'
  <2> SUFFICES ASSUME ToStrm, NEW g \in Fid, Precious(g)' PROVE Reachable(g)'
    BY DEF PreciousFine
  <2>1. CASE g = f
    <3>1. n.up \in {root, temp} \/ \E d \in Home : DirNode(n.up, d)
      BY <2>1, <1>1 DEF Precious
    <3> QED
      BY <3>1, <2>1, <1>1, <1>4 DEF Reachable, DirNode
  <2>2. CASE g # f
    <3>1. node'[g] = node[g] /\ Precious(g)
      BY <2>2, <1>1 DEF Precious
    <3>2. Reachable(g)
      BY <3>1, <1>0 DEF PreciousFine
    <3> QED
      BY <3>1, <3>2, <1>4 DEF Reachable, DirNode
  <2> QED
    BY <2>1, <2>2
<1> QED
  BY <1>1, <1>2, <1>5, <1>6, <1>7

LEMMA AdoptNameFine ==
    ASSUME UpInv, RenameAdopted
    PROVE  UpInv'
<1>1. Typed /\ PlanFine /\ CloudFine /\ StepFine /\ PreciousFine /\ job.at = "rename" /\ job.at # "idle"
  BY DEF UpInv, RenameAdopted
<1>2. CASE OpFails
  BY <1>1, <1>2, FailsFine
<1>3. CASE ~OpFails
  <2> DEFINE f == job.fid
             n == [node[f] EXCEPT !.name = op.path]
  <2>1. node' = [node EXCEPT ![f].name = op.path] /\ Goto("writeStrm")
        /\ UNCHANGED <<local, index, handed, torn>>
    BY <1>3 DEF RenameAdopted
  <2>2. op.kind = "adopt" /\ VideoNode(f) /\ Reachable(f)
    BY <1>1 DEF StepFine, AtKinds
  <2>3. op.path \in StrmPath /\ op.path \in Path /\ op.path # Root
    BY <1>1, <2>2, OpIsFine, KeyType, PathType DEF OpFine
  <2>4. f \in Fid /\ node[f] \in Nodes /\ node[f].kind = "file"
    BY <1>1, <2>2 DEF VideoNode, Typed
  <2>5. n \in Nodes /\ n.kind = "file" /\ n.name = op.path /\ n.up = node[f].up /\ n.c = node[f].c
    BY <2>3, <2>4 DEF Nodes
  <2>6. node' = [node EXCEPT ![f] = n]
    BY <1>1, <2>1, <2>4 DEF Typed, Nodes
  <2> HIDE DEF n
  <2>7. node' \in [Fid -> Nodes] /\ node'[f] = n /\ \A g \in Fid \ {f} : node'[g] = node[g]
    BY <1>1, <2>4, <2>5, <2>6 DEF Typed
  <2>8. NodeStep
    BY <2>2, <2>3, <2>4, <2>5, <2>7 DEF NodeStep
  <2>9. n.up \in {root, temp} \/ \E d \in Home : DirNode(n.up, d)
    BY <2>2, <2>5 DEF Reachable
  <2>10. /\ LocalFine' /\ CloudFine' /\ HomesFine' /\ PreciousFine' /\ IndexFine' /\ HandedFine'
    <3>1. n.up \in {root, temp} \/ (n.up \in Fid /\ node[n.up].kind = "dir")
      BY <2>9 DEF DirNode
    <3>2. n.name # Root /\ node[f].kind # "dir"
      BY <2>3, <2>4, <2>5
    <3> HIDE DEF f
    <3> QED
      BY <2>1, <2>4, <2>5, <2>6, <2>8, <2>9, <3>1, <3>2, FilePut
  <2>11. job' \in Jobs /\ job'.at = "writeStrm" /\ job'.ops = job.ops /\ job'.fid = job.fid
         /\ (job'.at = "idle" <=> job'.ops = << >>)
    BY <2>1, <1>1, GotoFacts DEF Goto, Stages
  <2>12. Typed'
    BY <1>1, <2>1, <2>7, <2>11 DEF Typed, Has, Goto
  <2>13. PlanFine' /\ op' = op
    BY <1>1, <2>1, <2>8, <2>11, PlanOverCloud
  <2>14. StepFine'
    <3>1. VideoNode(job.fid)'
      BY <2>3, <2>4, <2>5, <2>7, <2>11 DEF VideoNode
    <3> QED
      BY <2>2, <2>11, <2>13, <3>1 DEF StepFine, AtKinds
  <2> QED
    BY <2>10, <2>12, <2>13, <2>14 DEF UpInv
<1> QED
  BY <1>2, <1>3

(* ... the one that is uploaded.                                           *)
LEMMA UploadFine ==
    ASSUME UpInv, UploadFile
    PROVE  UpInv'
<1>1. /\ Typed /\ LocalFine /\ CloudFine /\ IndexFine /\ PlanFine
      /\ job.at = "ensure" /\ job.at # "idle" /\ op.kind = "upload" /\ Unrecorded = {}
  <2>1. Ensured("upload")
    BY Zenon DEF UploadFile
  <2> QED
    BY <2>1 DEF UpInv, Ensured, Doing
<1>2. CASE OpFails
  BY <1>1, <1>2, FailsFine
<1>3. CASE ~OpFails
  <2> DEFINE p == op.path
             parent == FidOf(Up(p))
             twins == {f \in Fid : /\ node[f].up = parent /\ node[f].c = local[p].c
                                   /\ \/ node[f].name = p
                                      \/ p \in VideoPath /\ node[f].name = StrmOf[p]}
  <2>1. /\ local[p].k = "file" /\ IsDir(parent)
        /\ UNCHANGED <<local, index, handed, torn, settled>>
    BY <1>3, Zenon DEF UploadFile
  <2>2. PICK f \in Fresh \cup twins :
            /\ node' = [node EXCEPT ![f] = [up |-> parent, kind |-> "file", c |-> local[p].c, name |-> p]]
            /\ job' = [job EXCEPT
                                !.fid = f,
                                !.at = IF ~op.video THEN "put"
                                       ELSE IF Supersedes(f) THEN "retireOld"
                                       ELSE "writeStrm"]
    BY <1>3, Zenon DEF UploadFile
  <2> DEFINE n == [up |-> parent, kind |-> "file", c |-> local[p].c, name |-> p]
  <2>3. OpFine(op) /\ p \in Path /\ p \notin DirPath \cup StrmPath /\ p # Root
    BY <1>1, OpIsFine, KeyType, PathType DEF OpFine
  <2>4. /\ p \in VideoPath \cup StrmPath => parent = root \/ \E d \in Home : DirNode(parent, d)
        /\ parent = root \/ (parent \in Fid /\ node[parent].kind = "dir")
    BY <1>1, <2>3, EnsuredDir, DirRecord
  <2>5. f \in Fid /\ (f \in Fresh \/ f \in twins)
    BY DEF Fresh
  <2>6. local[p].c \in Content /\ local[p].c # nowhere
    BY <1>1, <2>1, <2>3, MirrorUpAssumption DEF LocalFine
  <2>7. node[f].kind = "none" \/ (node[f].kind = "file" /\ f \in twins)
    <3>1. node[f].kind \in {"none", "dir", "file"}
      BY <1>1, <2>5 DEF Typed, Nodes
    <3>2. f \in twins => node[f].c # nowhere
      BY <2>6
    <3>3. node[f].kind = "none" => node[f] = NoNode
      BY <1>1, <2>5 DEF CloudFine
    <3>4. node[f].kind = "dir" => node[f].c = nowhere
      BY <1>1, <2>5 DEF CloudFine
    <3> QED
      BY <3>1, <3>2, <3>4, <2>5 DEF Fresh
  <2>8. n \in Nodes /\ n.kind = "file" /\ n.name = p /\ n.up = parent /\ n.c = local[p].c
    BY <2>3, <2>4, <2>6 DEF Nodes
  <2>9. node' = [node EXCEPT ![f] = n]
    BY <2>2
  <2> HIDE DEF n
  <2>10. node' \in [Fid -> Nodes] /\ node'[f] = n /\ \A g \in Fid \ {f} : node'[g] = node[g]
    BY <1>1, <2>5, <2>8, <2>9 DEF Typed
  <2>11. NodeStep
    <3>1. ASSUME node[f].kind # "none"
          PROVE  /\ node[f].kind = "file" /\ node[f].c = local[p].c
                 /\ node[f].name = p \/ (VideoNode(f) /\ p \in VideoPath)
      <4>1. f \in twins /\ node[f].kind = "file"
        BY <2>7, <3>1
      <4>2. p \in VideoPath /\ node[f].name = StrmOf[p] => VideoNode(f)
        BY <4>1, <2>5, MirrorUpAssumption DEF VideoNode
      <4> QED
        BY <4>1, <4>2
    <3> HIDE DEF p, parent, twins
    <3> QED
      BY <3>1, <2>8, <2>10 DEF NodeStep
  <2>12. LocalFine' /\ CloudFine' /\ HomesFine' /\ PreciousFine' /\ IndexFine' /\ HandedFine'
    <3>1. n.up \in {root, temp} \/ (n.up \in Fid /\ node[n.up].kind = "dir")
      BY <2>4, <2>8
    <3>2. n.name # Root /\ node[f].kind # "dir"
      BY <2>3, <2>7, <2>8
    <3>3. n.name \in VideoPath \cup StrmPath /\ n.c \in Big /\ ToStrm =>
                n.up \in {root, temp} \/ \E d \in Home : DirNode(n.up, d)
      BY <2>4, <2>8
    <3> HIDE DEF p, parent, twins
    <3> QED
      BY <2>1, <2>5, <2>8, <2>9, <2>11, <3>1, <3>2, <3>3, FilePut
  <2>13. /\ job' \in Jobs /\ job'.ops = job.ops /\ job'.fid = f
         /\ (job'.at = "idle" <=> job'.ops = << >>)
         /\ job'.at \in {"put", "retireOld", "writeStrm"} /\ (job'.at = "put" <=> ~op.video)
    <3> HIDE DEF p, parent, twins
    <3>1. job \in Jobs /\ job.ops # << >>
      BY <1>1 DEF Typed
    <3> QED
      BY <3>1, <2>2, <2>5 DEF Jobs, Stages
  <2>14. Typed'
    BY <1>1, <2>1, <2>10, <2>13 DEF Typed, Has
  <2>15. PlanFine' /\ op' = op
    BY <1>1, <2>1, <2>11, <2>13, PlanOverCloud
  <2>16. StepFine'
    <3>1. CASE op.video
      <4>1. ToStrm /\ p \in VideoPath /\ local[p].c \in Big
        BY <3>1, <2>1, <2>3, <1>1 DEF OpFine, Sort
      <4>2. Precious(job.fid)' /\ node'[job'.fid].c = local[p].c
        BY <4>1, <2>5, <2>8, <2>10, <2>13 DEF Precious
      <4> QED
        BY <1>1, <3>1, <4>2, <2>1, <2>13, <2>15 DEF StepFine, AtKinds
    <3>2. CASE ~op.video
      <4>1. ToStrm /\ p \in VideoPath => local[p].c \notin Big
        BY <3>2, <2>1, <2>3, <1>1 DEF OpFine, Sort
      <4>2. Plain(job.fid)'
        BY <4>1, <2>3, <2>5, <2>8, <2>10, <2>13 DEF Plain, Precious
      <4> QED
        BY <1>1, <3>2, <4>2, <2>13, <2>15 DEF StepFine, AtKinds
    <3> QED
      BY <3>1, <3>2
  <2> QED
    BY <2>12, <2>14, <2>15, <2>16 DEF UpInv
<1> QED
  BY <1>2, <1>3

(* A directory in the cloud, found or made, ...                            *)
LEMMA FolderFine ==
    ASSUME UpInv, CreateFolder
    PROVE  UpInv'
<1>1. /\ Typed /\ LocalFine /\ CloudFine /\ HomesFine /\ PreciousFine /\ IndexFine /\ PlanFine
      /\ StepFine /\ HandedFine
      /\ job.at = "ensure" /\ job.at # "idle" /\ Unrecorded # {}
  <2>1. job.at = "ensure" /\ Unrecorded # {}
    BY Zenon DEF CreateFolder
  <2> QED
    BY <2>1 DEF UpInv
<1>2. CASE OpFails
  BY <1>1, <1>2, FailsFine
<1>3. CASE ~OpFails
  <2> DEFINE d == TopUnrecorded
             parent == FidOf(Up(d))
             twins == {f \in Fid : node[f].up = parent /\ node[f].kind = "dir" /\ node[f].name = d}
             n == [NoNode EXCEPT !.up = parent, !.kind = "dir", !.name = d]
  <2>1. UNCHANGED <<local, index, handed, torn, settled>>
    BY <1>3, Zenon DEF CreateFolder
  <2>2. PICK f \in (IF twins # {} THEN twins ELSE Fresh) :
            /\ f \in Fresh => \A g \in Fresh : f <= g
            /\ node' = [node EXCEPT ![f] = n]
            /\ job' = [job EXCEPT !.at = "record", !.fid = f]
    BY <1>3, Zenon DEF CreateFolder
  <2>3. op.kind \in {"upload", "mkdir", "adopt"}
    BY <1>1 DEF StepFine, AtKinds
  <2>4. d \in Unrecorded /\ d \in Path /\ d \in DirPath /\ d # Root
    <3>1. d \in Unrecorded
      BY <1>1, <2>3, TopFacts
    <3> QED
      BY <3>1, <1>1, <2>3, Target, PathType DEF Unrecorded
  <2>5. InPlace(parent, d) /\ (parent = root \/ (parent \in Fid /\ node[parent].kind = "dir"))
    <3>1. Up(d) = Root \/ (Up(d) \in DirPath /\ Has(Up(d)))
      BY <1>1, <2>3, TopFacts
    <3> QED
      BY <3>1, <2>4, <1>1, DirRecord
  <2>6. n \in Nodes /\ n.kind = "dir" /\ n.up = parent /\ n.c = nowhere /\ n.name = d
    <3>1. NoNode \in Nodes /\ NoNode.c = nowhere
      BY DEF NoNode, Nodes
    <3>2. d \in Path /\ parent \in Fid \cup {root}
      BY <2>4, <2>5
    <3> HIDE DEF d, parent
    <3> QED
      BY <3>1, <3>2 DEF Nodes
  <2>7. f \in Fid /\ (f \in twins \/ f \in Fresh)
    BY DEF Fresh
  <2> HIDE DEF n
  <2>9. node' \in [Fid -> Nodes] /\ node'[f] = n /\ \A g \in Fid \ {f} : node'[g] = node[g]
    BY <1>1, <2>2, <2>7, <2>6 DEF Typed
  <2>10. f \in Fresh \/ (node[f].kind = "dir" /\ node[f].up = parent /\ node[f].name = d
                            /\ node[f].c = nowhere)
    BY <2>7, <1>1 DEF CloudFine
  <2>11. node[f].kind = "none" \/ node'[f] = node[f]
    <3>1. CASE f \in Fresh
      BY <3>1 DEF Fresh
    <3>2. CASE f \notin Fresh
      <4>1. node[f] \in Nodes
        BY <1>1, <2>7 DEF Typed
      <4>2. node[f] = [up |-> node[f].up, kind |-> node[f].kind, c |-> node[f].c, name |-> node[f].name]
        BY <4>1 DEF Nodes
      <4>3. node[f].kind = "dir" /\ node[f].up = parent /\ node[f].name = d /\ node[f].c = nowhere
        BY <2>10, <3>2
      <4>4. n = [up |-> n.up, kind |-> n.kind, c |-> n.c, name |-> n.name]
        BY <2>6 DEF Nodes
      <4> QED
        BY <4>2, <4>3, <4>4, <2>6, <2>9
    <3> QED
      BY <3>1, <3>2
  <2>12. NodeStep
    BY <2>9, <2>11 DEF NodeStep
  <2>13. LocalFine' /\ IndexFine' /\ HandedFine'
    BY <1>1, <2>1, <2>12, LocalLasts, IndexLast, HandedLasts
  <2>14. \A g \in Fid : node[g].kind = "dir" => node'[g] = node[g]
    BY <2>9, <2>11
  <2>15. CloudFine'
    <3> SUFFICES ASSUME NEW g \in Fid
                 PROVE  /\ node'[g].kind = "none" => node'[g] = NoNode
                        /\ node'[g].kind = "dir" =>
                                  /\ node'[g].c = nowhere
                                  /\ node'[g].name \in DirPath
                                  /\ node'[g].up \in Fid => node'[g].up < g
                                  /\ node'[g].up \notin {temp, elsewhere}
                                  /\ \A h \in Fresh' : g < h
                        /\ node'[g].up \in Fid => node'[node'[g].up].kind = "dir"
                        /\ node'[g].up = elsewhere => node'[g].kind = "file" /\ node'[g].name = Root
                        /\ node'[g].kind = "file" /\ node'[g].c # nowhere => node'[g].name # Root
      BY DEF CloudFine
    <3>0. Fresh' \subseteq Fresh \ {f}
      BY <2>6, <2>9 DEF Fresh
    <3>1. CASE node'[g] = node[g]
      <4>1. /\ node[g].kind = "none" => node[g] = NoNode
            /\ node[g].kind = "dir" =>
                    /\ node[g].c = nowhere
                    /\ node[g].name \in DirPath
                    /\ node[g].up \in Fid => node[g].up < g
                    /\ node[g].up \notin {temp, elsewhere}
                    /\ \A h \in Fresh : g < h
            /\ node[g].up \in Fid => node[node[g].up].kind = "dir"
            /\ node[g].up = elsewhere => node[g].kind = "file" /\ node[g].name = Root
            /\ node[g].kind = "file" /\ node[g].c # nowhere => node[g].name # Root
        BY <1>1 DEF CloudFine
      <4> QED
        BY <3>0, <3>1, <4>1, <2>14
    <3>2. CASE node'[g] # node[g]
      <4>1. g = f /\ f \in Fresh /\ \A h \in Fresh : f <= h
        BY <3>2, <2>2, <2>7, <2>9, <2>11 DEF Fresh
      <4>2. parent \in Fid => parent < f /\ node'[parent].kind = "dir"
        BY <4>1, <2>5, <2>14, <1>1, MirrorUpAssumption DEF CloudFine
      <4>3. parent \notin {temp, elsewhere}
        BY <2>5, MirrorUpAssumption
      <4>4. ASSUME NEW h \in Fresh' PROVE f < h
        <5>1. h \in Fresh /\ h # f
          BY <3>0
        <5>2. f <= h /\ f \in Nat /\ h \in Nat
          BY <4>1, <5>1, <2>7, MirrorUpAssumption DEF Fresh
        <5> QED
          BY <5>1, <5>2
      <4> QED
        BY <4>1, <4>2, <4>3, <4>4, <2>4, <2>6, <2>9
    <3> QED
      BY <3>1, <3>2
  <2>16. HomesFine'
    <3>1. ASSUME NEW g \in Fid, node'[g].kind = "dir", node'[g].name \in Home
          PROVE  InPlace(node[g].up, node[g].name)'
      <4>1. CASE node'[g] = node[g]
        <5>1. InPlace(node[g].up, node[g].name)
          BY <3>1, <4>1, <1>1 DEF HomesFine
        <5> QED
          BY <4>1, <5>1, <2>14 DEF InPlace, DirNode
      <4>2. CASE node'[g] # node[g]
        <5>1. node'[g].up = parent /\ node'[g].name = d
          BY <4>2, <2>6, <2>9
        <5>2. InPlace(node'[g].up, node'[g].name)
          BY <5>1, <2>5
        <5>3. \A e : DirNode(node'[g].up, e) => node'[g].up \in Fid
                    /\ node'[node'[g].up].kind = "dir" /\ node'[node'[g].up].name = e
          BY <2>14 DEF DirNode
        <5> QED
          BY <5>2, <5>3 DEF InPlace, DirNode
      <4> QED
        BY <4>1, <4>2
    <3>2. \A e \in Home : Has(e)' => local'[e].k = "dir"
      BY <1>1, <2>1 DEF HomesFine, Has
    <3> QED
      BY <3>1, <3>2 DEF HomesFine
  <2>17. PreciousFine'
    <3> SUFFICES ASSUME ToStrm, NEW g \in Fid, Precious(g)' PROVE Reachable(g)'
      BY DEF PreciousFine
    <3>1. node'[g] = node[g]
      BY <2>6, <2>9 DEF Precious
    <3>2. Reachable(g)
      BY <3>1, <1>1 DEF PreciousFine, Precious
    <3> QED
      BY <3>1, <3>2, <2>14 DEF Reachable, DirNode
  <2>18. /\ job' \in Jobs /\ job'.at = "record" /\ job'.ops = job.ops /\ job'.fid = f
         /\ (job'.at = "idle" <=> job'.ops = << >>)
    <3> HIDE DEF d, parent, twins
    <3>1. job \in Jobs /\ job.ops # << >>
      BY <1>1 DEF Typed
    <3> QED
      BY <3>1, <2>2, <2>7 DEF Jobs, Stages
  <2>19. Typed'
    BY <1>1, <2>1, <2>9, <2>18 DEF Typed, Has
  <2>20. PlanFine' /\ op' = op
    BY <1>1, <2>1, <2>12, <2>18, PlanOverCloud
  <2>21. StepFine'
    <3>1. Unrecorded' = Unrecorded
      BY <2>1, <2>20 DEF Unrecorded, TargetDir, Has
    <3>2. TopUnrecorded' = d
      BY <3>1 DEF TopUnrecorded
    <3>3. DirNode(job.fid, TopUnrecorded)'
      BY <2>7, <2>6, <2>9, <2>18, <3>2 DEF DirNode
    <3> QED
      BY <1>1, <2>3, <2>18, <2>20, <3>1, <3>3 DEF StepFine, AtKinds
  <2> QED
    BY <2>13, <2>15, <2>16, <2>17, <2>19, <2>20, <2>21 DEF UpInv
<1> QED
  BY <1>2, <1>3

-----------------------------------------------------------------------------
(***************************************************************************)
(* The steps in the index. One record is written: ...                      *)
(***************************************************************************)
LEMMA IndexFrame ==
    ASSUME UpInv, UNCHANGED <<local, node, handed>>, Typed', PlanFine', StepFine', IndexFine',
           \A d \in Home : Has(d)' => local[d].k = "dir"
    PROVE  UpInv'
<1>1. LocalFine' /\ CloudFine' /\ PreciousFine'
  <2>1. LocalFine' = LocalFine
    BY DEF LocalFine, There, LocalDir, VideoNode
  <2>2. CloudFine' = CloudFine
    BY DEF CloudFine, Fresh
  <2>3. PreciousFine' = PreciousFine
    BY DEF PreciousFine, Precious, Reachable, DirNode
  <2> QED
    BY <2>1, <2>2, <2>3 DEF UpInv
<1>2. HandedFine'
  <2>1. HandedFine' = HandedFine
    BY DEF HandedFine, Precious
  <2> QED
    BY <2>1 DEF UpInv
<1>3. HomesFine'
  BY DEF UpInv, HomesFine, InPlace, DirNode
<1> QED
  BY <1>1, <1>2, <1>3 DEF UpInv

LEMMA RecordPut ==
    ASSUME UpInv, UNCHANGED <<local, node>>, NEW p \in Path, NEW r \in Records, r.kind # "none",
           index' = [index EXCEPT ![p] = r],
           r.kind = "dir" => p \in DirPath /\ DirNode(r.fid, p) /\ (p \in Home => local[p].k = "dir"),
           r.kind = "file" => p \notin DirPath \cup StrmPath /\ Plain(r.fid),
           r.kind = "strm" => p \in StrmPath /\ VideoNode(r.fid)
    PROVE  /\ index' \in [Path -> Records] /\ \A q \in Path : Has(q)' <=> index'[q].kind # "none"
           /\ IndexFine' /\ \A d \in Home : Has(d)' => local[d].k = "dir"
<1>1. Typed /\ IndexFine /\ HomesFine /\ index \in [Path -> Records]
  BY DEF UpInv, Typed
<1>2. /\ index' \in [Path -> Records] /\ index'[p] = r
      /\ \A q \in Path \ {p} : index'[q] = index[q]
  BY <1>1
<1>3. \A q \in Path : Has(q)' <=> index'[q].kind # "none"
  BY <1>1, <1>2 DEF Has, NoRecord, Typed
<1>4. IndexFine'
  <2> SUFFICES ASSUME NEW q \in Path
               PROVE  /\ index'[q].kind = "dir" => q \in DirPath /\ DirNode(index[q].fid, q)'
                      /\ index'[q].kind = "file" => q \notin DirPath \cup StrmPath /\ Plain(index[q].fid)'
                      /\ index'[q].kind = "strm" => q \in StrmPath /\ VideoNode(index[q].fid)'
    BY DEF IndexFine
  <2>1. CASE q = p
    BY <2>1, <1>2 DEF DirNode, Plain, Precious, VideoNode
  <2>2. CASE q # p
    BY <2>2, <1>1, <1>2 DEF IndexFine, DirNode, Plain, Precious, VideoNode
  <2> QED
    BY <2>1, <2>2
<1>5. ASSUME NEW d \in Home, Has(d)' PROVE local[d].k = "dir"
  <2>1. d \in Path /\ d \in DirPath
    BY HomesAbove
  <2>2. CASE d = p
    <3>1. r.kind = "dir"
      BY <2>1, <2>2, MirrorUpAssumption DEF Records, Kinds
    <3> QED
      BY <2>2, <3>1
  <2>3. CASE d # p
    BY <2>1, <2>3, <1>1, <1>2, <1>5 DEF HomesFine, Has
  <2> QED
    BY <2>2, <2>3
<1> QED
  BY <1>2, <1>3, <1>4, <1>5

(* ... that of a directory, ...                                            *)
LEMMA RecordFine ==
    ASSUME UpInv, RecordFolder
    PROVE  UpInv'
<1>1. Typed /\ PlanFine /\ CloudFine /\ StepFine /\ job.at = "record" /\ job.at # "idle"
  BY DEF UpInv, RecordFolder
<1> DEFINE d == TopUnrecorded
           r == [fid |-> job.fid, kind |-> "dir", size |-> 0]
<1>2. /\ index' = [index EXCEPT ![d] = r] /\ job' = [job EXCEPT !.at = "ensure", !.fid = nowhere]
      /\ UNCHANGED <<local, node, handed, torn, settled>>
  BY DEF RecordFolder
<1>3. op.kind \in {"upload", "mkdir", "adopt"} /\ Unrecorded # {} /\ DirNode(job.fid, d)
  BY <1>1 DEF StepFine, AtKinds
<1>4. d \in Path /\ d \in DirPath /\ (d \in Home => local[d].k = "dir")
  <2>1. d \in Unrecorded
    BY <1>1, <1>3, TopFacts
  <2> QED
    BY <2>1, <1>1, <1>3, Target DEF Unrecorded
<1>5. r \in Records /\ r.kind = "dir" /\ r.fid = job.fid
  BY <1>3 DEF Records, Kinds, DirNode
<1> HIDE DEF d, r
<1>6. /\ index' \in [Path -> Records] /\ \A q \in Path : Has(q)' <=> index'[q].kind # "none"
      /\ IndexFine' /\ \A e \in Home : Has(e)' => local[e].k = "dir"
  BY <1>2, <1>3, <1>4, <1>5, RecordPut
<1>7. job' \in Jobs /\ job'.at = "ensure" /\ job'.ops = job.ops
  BY <1>1, <1>2 DEF Typed, Jobs, Stages
<1>8. Typed'
  BY <1>1, <1>2, <1>6, <1>7 DEF Typed
<1>9. PlanFine' /\ op' = op
  BY <1>1, <1>2, <1>7, PlanStays
<1>10. StepFine'
  BY <1>3, <1>7, <1>9 DEF StepFine, AtKinds
<1> QED
  BY <1>2, <1>6, <1>8, <1>9, <1>10, IndexFrame

(* ... that of a file, ...                                                 *)
LEMMA PutFine ==
    ASSUME UpInv, PutRecord
    PROVE  UpInv'
<1>1. Typed /\ PlanFine /\ CloudFine /\ StepFine /\ job.at = "put" /\ job.at # "idle"
  BY DEF UpInv, PutRecord
<1>2. /\ index' = [index EXCEPT ![RecordKey] = Outcome] /\ torn' = torn \ {RecordKey}
      /\ Ended(job.calm) /\ UNCHANGED <<local, node, handed>>
  BY DEF PutRecord, OpDone
<1>3. op.kind \in {"upload", "adopt"} /\ RecordKey \in Path /\ OpFine(op)
  BY <1>1, KeyType, OpIsFine DEF StepFine, AtKinds
<1>4. /\ Outcome \in Records /\ Outcome.kind \in {"file", "strm"}
      /\ Outcome.kind = "file" => RecordKey \notin DirPath \cup StrmPath /\ Plain(Outcome.fid)
      /\ Outcome.kind = "strm" => RecordKey \in StrmPath /\ VideoNode(Outcome.fid)
  <2>0. job.fid \in Fid \cup {nowhere} /\ job.size \in {SizeOf[c] : c \in Content} \cup {0}
    BY <1>1 DEF Typed, Jobs
  <2>1. CASE op.kind = "upload" /\ ~op.video
    <3>1. RecordKey = op.path /\ op.path \notin DirPath \cup StrmPath
      BY <2>1, <1>1, <1>3, KeyType DEF OpFine
    <3>2. Plain(job.fid)
      BY <2>1, <1>1 DEF StepFine
    <3>3. Outcome = [fid |-> job.fid, kind |-> "file", size |-> job.size]
      BY <2>1 DEF Outcome
    <3> QED
      BY <2>0, <3>1, <3>2, <3>3 DEF Records, Kinds
  <2>2. CASE ~(op.kind = "upload" /\ ~op.video)
    <3>1. RecordKey \in StrmPath
      BY <2>2, <1>1, <1>3, KeyType
    <3>2. VideoNode(job.fid)
      BY <2>2, <1>1, <1>3 DEF StepFine
    <3>3. Outcome = [fid |-> job.fid, kind |-> "strm", size |-> 0]
      BY <2>2 DEF Outcome
    <3> QED
      BY <2>0, <3>1, <3>2, <3>3 DEF Records, Kinds
  <2> QED
    BY <2>1, <2>2
<1>5. /\ index' \in [Path -> Records] /\ \A q \in Path : Has(q)' <=> index'[q].kind # "none"
      /\ IndexFine' /\ \A e \in Home : Has(e)' => local[e].k = "dir"
  BY <1>2, <1>3, <1>4, RecordPut
<1>6. /\ job' \in Jobs /\ settled' \in 0 .. 2
      /\ job'.at \in {"idle", "begin"} /\ (job'.at = "idle" <=> job'.ops = << >>)
      /\ \A i \in DOMAIN job'.ops : i + 1 \in DOMAIN job.ops /\ job'.ops[i] = job.ops[i + 1]
  BY <1>1, <1>2, CalmType, EndedFacts
<1>7. Typed'
  BY <1>1, <1>2, <1>5, <1>6 DEF Typed
<1>8. PlanFine'
  BY <1>1, <1>2, <1>6, PlanGoesOn
<1>9. StepFine'
  BY <1>6, StepAtRest
<1> QED
  BY <1>2, <1>5, <1>7, <1>8, <1>9, IndexFrame

(* ... and those of what is gone are deleted.                              *)
LEMMA ClearTreeFine ==
    ASSUME UpInv, ClearTree
    PROVE  UpInv'
<1>1. Typed /\ PlanFine /\ CloudFine /\ IndexFine /\ HomesFine /\ job.at = "clear" /\ job.at # "idle"
  BY DEF UpInv, ClearTree
<1> DEFINE gone == Cleared(op.path)
<1>2. /\ index' = [p \in Path |-> IF p \in gone THEN NoRecord ELSE index[p]]
      /\ torn' = (torn \ gone) \cup PassedOver(op.path)
      /\ PassedOver(op.path) \subseteq Path
      /\ Ended(job.calm) /\ UNCHANGED <<local, node, handed>>
  BY DEF ClearTree, OpDone, PassedOver, Subtree
<1> HIDE DEF gone
<1>3. NoRecord \in Records /\ NoRecord.kind = "none"
  BY DEF NoRecord, Records, Kinds
<1>4. \A p \in Path : index'[p] = NoRecord \/ index'[p] = index[p]
  BY <1>2
<1>5. index' \in [Path -> Records] /\ \A q \in Path : Has(q)' <=> index'[q].kind # "none"
  <2>1. index \in [Path -> Records]
    BY <1>1 DEF Typed
  <2>2. index' \in [Path -> Records]
    BY <2>1, <1>2, <1>3
  <2> QED
    BY <2>2, <1>1, <1>3, <1>4 DEF Typed, Has
<1>6. IndexFine'
  <2> SUFFICES ASSUME NEW q \in Path
               PROVE  /\ index'[q].kind = "dir" => q \in DirPath /\ DirNode(index[q].fid, q)'
                      /\ index'[q].kind = "file" => q \notin DirPath \cup StrmPath /\ Plain(index[q].fid)'
                      /\ index'[q].kind = "strm" => q \in StrmPath /\ VideoNode(index[q].fid)'
    BY DEF IndexFine
  <2>1. CASE index'[q] = NoRecord
    BY <2>1, <1>3
  <2>2. CASE index'[q] = index[q]
    BY <2>2, <1>1, <1>2 DEF IndexFine, DirNode, Plain, Precious, VideoNode
  <2> QED
    BY <2>1, <2>2, <1>4
<1>7. \A d \in Home : Has(d)' => local[d].k = "dir"
  BY <1>1, <1>4, HomesAbove DEF HomesFine, Has
<1>8. /\ job' \in Jobs /\ settled' \in 0 .. 2
      /\ job'.at \in {"idle", "begin"} /\ (job'.at = "idle" <=> job'.ops = << >>)
      /\ \A i \in DOMAIN job'.ops : i + 1 \in DOMAIN job.ops /\ job'.ops[i] = job.ops[i + 1]
  BY <1>1, <1>2, CalmType, EndedFacts
<1>9. Typed'
  BY <1>1, <1>2, <1>5, <1>8 DEF Typed
<1>10. PlanFine'
  BY <1>1, <1>2, <1>8, PlanGoesOn
<1>11. StepFine'
  BY <1>8, StepAtRest
<1> QED
  BY <1>2, <1>6, <1>7, <1>9, <1>10, <1>11, IndexFrame

-----------------------------------------------------------------------------
(***************************************************************************)
(* The steps in the local tree. What is put where a directory is not       *)
(* leaves the directories as they are.                                     *)
(***************************************************************************)
LEMMA LocalFrame ==
    ASSUME UpInv, UNCHANGED <<node, index>>, LocalFine', HomesLast, Typed', PlanFine', StepFine',
           HandedFine'
    PROVE  UpInv'
<1>1. CloudFine' /\ PreciousFine' /\ IndexFine'
  <2>1. CloudFine' = CloudFine
    BY DEF CloudFine, Fresh
  <2>2. PreciousFine' = PreciousFine
    BY DEF PreciousFine, Precious, Reachable, DirNode
  <2>3. IndexFine' = IndexFine
    BY DEF IndexFine, DirNode, Plain, Precious, VideoNode
  <2> QED
    BY <2>1, <2>2, <2>3 DEF UpInv
<1>2. HomesFine'
  <2>1. \A f \in Fid : node'[f].kind = "dir" /\ node'[f].name \in Home => InPlace(node[f].up, node[f].name)'
    BY DEF UpInv, HomesFine, InPlace, DirNode
  <2>2. \A d \in Home : Has(d)' => local'[d].k = "dir"
    BY DEF UpInv, HomesFine, Has, HomesLast
  <2> QED
    BY <2>1, <2>2 DEF HomesFine
<1> QED
  BY <1>1, <1>2 DEF UpInv

LEMMA ThingPut ==
    ASSUME UpInv, UNCHANGED node, NEW p \in Path, NEW t \in Things, local' = [local EXCEPT ![p] = t],
           local[p].k = "dir" => t.k = "dir",
           p \in DirPath => t.k \in {"none", "dir"},
           t.k = "dir" => p \in DirPath,
           t.k = "strm" <=> p \in StrmPath /\ t.k # "none",
           t.k = "file" => t.c \in Content,
           t.k # "none" => LocalDir(Up(p)),
           t.pc # nowhere => VideoNode(t.pc)
    PROVE  /\ local' \in [Path -> Things] /\ local'[p] = t
           /\ \A q \in Path \ {p} : local'[q] = local[q]
           /\ LocalFine' /\ HomesLast
<1>1. local \in [Path -> Things] /\ LocalFine
  BY DEF UpInv, Typed
<1>2. /\ local' \in [Path -> Things] /\ local'[p] = t
      /\ \A q \in Path \ {p} : local'[q] = local[q]
  BY <1>1
<1>3. \A d \in Path : local[d].k = "dir" => local'[d].k = "dir"
  BY <1>2
<1>4. HomesLast
  BY <1>3, HomesAbove DEF HomesLast
<1>5. \A q \in Path : LocalDir(Up(q)) => LocalDir(Up(q))'
  BY <1>3, PathType DEF LocalDir
<1>6. \A f : VideoNode(f) => VideoNode(f)'
  BY DEF VideoNode
<1>7. LocalFine'
  <2> SUFFICES ASSUME NEW q \in Path
               PROVE  /\ q \in DirPath => local'[q].k \in {"none", "dir"}
                      /\ local'[q].k = "dir" => q \in DirPath
                      /\ local'[q].k = "strm" <=> q \in StrmPath /\ local'[q].k # "none"
                      /\ local'[q].k = "file" => local'[q].c \in Content
                      /\ local'[q].k # "none" => LocalDir(Up(q))'
                      /\ local'[q].pc # nowhere => VideoNode(local[q].pc)'
    BY DEF LocalFine, There
  <2>1. CASE q = p
    <3>1. t.pc # nowhere => VideoNode(t.pc)'
      BY DEF VideoNode
    <3> QED
      BY <2>1, <1>2, <1>5, <3>1 DEF VideoNode
  <2>2. CASE q # p
    <3>1. local'[q] = local[q]
      BY <2>2, <1>2
    <3> QED
      BY <3>1, <1>1, <1>5 DEF LocalFine, There, VideoNode
  <2> QED
    BY <2>1, <2>2
<1> QED
  BY <1>2, <1>4, <1>7

LEMMA ThingTypes ==
    /\ Nothing \in Things /\ Nothing.k = "none" /\ Nothing.pc = nowhere
    /\ Directory \in Things /\ Directory.k = "dir" /\ Directory.pc = nowhere
    /\ \A c \in Content : File(c) \in Things /\ File(c).k = "file" /\ File(c).c = c /\ File(c).pc = nowhere
    /\ \A f \in Fid \cup {nowhere}, isOld \in BOOLEAN :
            /\ Strm(f, isOld) \in Things /\ Strm(f, isOld).k = "strm" /\ Strm(f, isOld).pc = f
<1>1. Nothing \in Things /\ Nothing.k = "none" /\ Nothing.pc = nowhere
  BY DEF Nothing, Things, Kinds
<1>2. Directory \in Things /\ Directory.k = "dir" /\ Directory.pc = nowhere
  BY DEF Nothing, Things, Kinds, Directory
<1>3. ASSUME NEW c \in Content
      PROVE  File(c) \in Things /\ File(c).k = "file" /\ File(c).c = c /\ File(c).pc = nowhere
  BY DEF Nothing, Things, Kinds, File
<1>4. ASSUME NEW f \in Fid \cup {nowhere}, NEW isOld \in BOOLEAN
      PROVE  Strm(f, isOld) \in Things /\ Strm(f, isOld).k = "strm" /\ Strm(f, isOld).pc = f
  BY DEF Nothing, Things, Kinds, Strm
<1> QED
  BY <1>1, <1>2, <1>3, <1>4

(* The plan stays as it is, or loses its head, while what it is to upload  *)
(* stays.                                                                  *)
LEMMA PlanOverLocal ==
    ASSUME PlanFine, CloudFine, UNCHANGED node, HomesLast, \A p \in Path : FileLasts(p), Typed,
           \/ job'.ops = job.ops
           \/ \A i \in DOMAIN job'.ops : i + 1 \in DOMAIN job.ops /\ job'.ops[i] = job.ops[i + 1]
    PROVE  PlanFine'
<1>1. NodeStep
  BY NodeSame
<1>2. job.ops \in Seq(Ops)
  BY DEF Typed, Jobs
<1>3. ASSUME NEW j \in DOMAIN job.ops PROVE FileLasts(job.ops[j].path)
  <2>1. job.ops[j] \in Ops
    BY <1>2
  <2>2. job.ops[j].path \in Path
    BY <2>1 DEF Ops
  <2> QED
    BY <2>2
<1>4. \A i \in DOMAIN job'.ops : \E j \in DOMAIN job.ops :
                /\ job'.ops[i] = job.ops[j]
                /\ job.ops[j].kind = "upload" => FileLasts(job.ops[j].path)
  BY <1>3
<1> QED
  BY <1>1, <1>4, PlanLasts

(* The .strm is written, ...                                               *)
LEMMA WriteStrmFine ==
    ASSUME UpInv, WriteStrm
    PROVE  UpInv'
<1>1. Typed /\ PlanFine /\ CloudFine /\ StepFine /\ HandedFine /\ job.at = "writeStrm" /\ job.at # "idle"
  BY DEF UpInv, WriteStrm
<1>2. CASE OpFails
  BY <1>1, <1>2, FailsFine
<1>3. CASE ~OpFails
  <2> DEFINE t == Strm(job.fid, FALSE)
             l == IF op.kind = "upload" THEN "remove" ELSE "put"
  <2>1. /\ LocalDir(Up(RecordKey)) /\ local[RecordKey].k # "dir"
        /\ local' = [local EXCEPT ![RecordKey] = t] /\ Goto(l)
        /\ UNCHANGED <<node, index, handed, torn>>
    BY <1>3 DEF WriteStrm
  <2>2. op.kind \in {"upload", "adopt"} /\ (op.kind = "upload" => op.video)
    BY <1>1 DEF StepFine, AtKinds
  <2>3. RecordKey \in Path /\ RecordKey \in StrmPath /\ RecordKey \notin DirPath
    BY <1>1, <2>2, KeyType, MirrorUpAssumption
  <2>4. VideoNode(job.fid)
    BY <1>1, <2>2 DEF StepFine, Precious, VideoNode
  <2>5. t \in Things /\ t.k = "strm" /\ t.pc = job.fid
    BY <2>4, ThingTypes DEF VideoNode
  <2> HIDE DEF t
  <2>6. /\ local' \in [Path -> Things] /\ local'[RecordKey] = t
        /\ \A q \in Path \ {RecordKey} : local'[q] = local[q]
        /\ LocalFine' /\ HomesLast
    BY <2>1, <2>3, <2>4, <2>5, ThingPut
  <2>7. \A p \in Path : FileLasts(p)
    BY <2>5, <2>6 DEF FileLasts
  <2>8. job' \in Jobs /\ job'.at = l /\ job'.ops = job.ops /\ job'.fid = job.fid
        /\ (job'.at = "idle" <=> job'.ops = << >>)
    BY <2>1, <1>1, GotoFacts DEF Goto, Stages
  <2>9. Typed'
    BY <1>1, <2>1, <2>6, <2>8 DEF Typed, Has, Goto
  <2>10. PlanFine' /\ op' = op
    BY <1>1, <2>1, <2>6, <2>7, <2>8, PlanOverLocal DEF op
  <2>11. StepFine'
    <3>1. FileLasts(op.path)
      BY <1>1, <2>7, KeyType
    <3>2. op.kind = "upload" => /\ Precious(job.fid)
                                /\ local[op.path].k = "file" => node[job.fid].c = local[op.path].c
      BY <1>1 DEF StepFine
    <3>3. op.kind = "upload" => Precious(job.fid)'
      BY <3>2, <2>1, <2>8 DEF Precious
    <3>4. VideoNode(job.fid)'
      BY <2>1, <2>4, <2>8 DEF VideoNode
    <3> QED
      BY <2>1, <2>2, <2>8, <2>10, <3>1, <3>2, <3>3, <3>4 DEF StepFine, AtKinds, FileLasts
  <2>12. HandedFine'
    BY <1>1, <2>1 DEF HandedFine, Precious
  <2> QED
    BY <2>1, <2>6, <2>9, <2>10, <2>11, <2>12, LocalFrame
<1> QED
  BY <1>2, <1>3

LEMMA JobCalm ==
    ASSUME job \in Jobs, NEW l \in Stages, job' = [job EXCEPT !.at = l, !.calm = FALSE]
    PROVE  job' \in Jobs /\ job'.at = l /\ job'.ops = job.ops /\ job'.fid = job.fid
<1> DEFINE sizes == {SizeOf[c] : c \in Content} \cup {0}
           fids == Fid \cup {nowhere}
           r == [at |-> l, ops |-> job.ops, fid |-> job.fid, size |-> job.size, calm |-> FALSE]
<1>1. job' = r
  BY DEF Jobs
<1>2. job.ops \in Seq(Ops) /\ job.fid \in fids /\ job.size \in sizes /\ FALSE \in BOOLEAN
  BY DEF Jobs
<1>3. Jobs = [at : Stages, ops : Seq(Ops), fid : fids, size : sizes, calm : BOOLEAN]
  BY DEF Jobs
<1>4. r \in Jobs
  <2> HIDE DEF sizes, fids
  <2> QED
    BY <1>2, <1>3, Zenon
<1> QED
  BY <1>1, <1>4

(* ... the original is removed, whose content is in the cloud, ...         *)
LEMMA RemoveFine ==
    ASSUME UpInv, RemoveOriginal
    PROVE  UpInv'
<1>1. /\ Typed /\ LocalFine /\ PlanFine /\ CloudFine /\ StepFine /\ HandedFine
      /\ job.at = "remove" /\ job.at # "idle" /\ UNCHANGED <<node, index, torn>>
  BY DEF UpInv, RemoveOriginal
<1>2. op.kind = "upload" /\ op.video /\ Precious(job.fid) /\ ToStrm /\ op.path \in Path
      /\ op.path \notin StrmPath \cup DirPath
      /\ (local[op.path].k = "file" => node[job.fid].c = local[op.path].c)
  BY <1>1, KeyType, OpIsFine DEF StepFine, AtKinds, OpFine
<1>3. /\ job' \in Jobs /\ job'.at = "put" /\ job'.ops = job.ops /\ job'.fid = job.fid
      /\ settled' \in 0 .. 2 /\ (job'.at = "idle" <=> job'.ops = << >>)
  <2>1. job \in Jobs /\ job.ops # << >> /\ settled \in 0 .. 2
    BY <1>1 DEF Typed
  <2>2. CASE Goto("put")
    BY <1>1, <2>1, <2>2, GotoFacts DEF Goto, Stages
  <2>3. CASE job' = [job EXCEPT !.at = "put", !.calm = FALSE] /\ settled' = 0
    BY <2>1, <2>3, JobCalm DEF Stages
  <2> QED
    BY <2>2, <2>3 DEF RemoveOriginal
<1>4. op' = op
  BY <1>3 DEF op
<1>5. StepFine'
  <2>1. VideoNode(job.fid)'
    BY <1>1, <1>2, <1>3 DEF Precious, VideoNode
  <2> QED
    BY <1>2, <1>3, <1>4, <2>1 DEF StepFine, AtKinds
<1>6. CASE /\ local[op.path].k = "file" /\ local' = [local EXCEPT ![op.path] = Nothing]
           /\ handed' = handed \cup {local[op.path].c}
  <2>1. /\ local' \in [Path -> Things] /\ local'[op.path] = Nothing
        /\ \A q \in Path \ {op.path} : local'[q] = local[q]
        /\ LocalFine' /\ HomesLast
    BY <1>1, <1>2, <1>6, ThingTypes, ThingPut
  <2>2. \A p \in Path : FileLasts(p)
    BY <2>1, ThingTypes DEF FileLasts
  <2>3. PlanFine'
    BY <1>1, <1>3, <2>1, <2>2, PlanOverLocal
  <2>4. handed' \subseteq Content
    BY <1>1, <1>2, <1>6 DEF Typed, LocalFine
  <2>5. Typed'
    BY <1>1, <1>3, <2>1, <2>4 DEF Typed, Has
  <2>6. HandedFine'
    <3> SUFFICES ASSUME NEW c \in handed' PROVE ToStrm /\ \E f \in Fid : node[f].c = c /\ Precious(f)
      BY <1>1 DEF HandedFine, Precious
    <3>1. CASE c \in handed
      BY <3>1, <1>1 DEF HandedFine
    <3>2. CASE c = local[op.path].c
      BY <3>2, <1>2, <1>6 DEF Precious
    <3> QED
      BY <3>1, <3>2, <1>6
  <2> QED
    BY <1>1, <1>5, <2>1, <2>3, <2>5, <2>6, LocalFrame
<1>7. CASE UNCHANGED <<local, handed>>
  <2>1. Typed'
    BY <1>1, <1>3, <1>7 DEF Typed, Has
  <2>2. PlanFine'
    BY <1>1, <1>3, <1>7, PlanStays
  <2> QED
    BY <1>1, <1>5, <1>7, <2>1, <2>2, Frame
<1> QED
  BY <1>6, <1>7 DEF RemoveOriginal

(* ... an old link is written anew.                                        *)
LEMMA NormalizeFine ==
    ASSUME UpInv, Normalize
    PROVE  UpInv'
<1>1. Typed /\ LocalFine /\ PlanFine /\ CloudFine /\ StepFine /\ HandedFine
      /\ job.at = "begin" /\ job.at # "idle" /\ op.kind = "normalize"
  BY DEF UpInv, Normalize, Doing
<1>2. CASE OpFails
  BY <1>1, <1>2, FailsFine
<1>3. CASE ~OpFails
  <2> DEFINE p == op.path
             t == IF local[p].k = "strm" /\ local[p].pc # nowhere THEN [local[p] EXCEPT !.old = FALSE]
                  ELSE local[p]
  <2>1. p \in Path /\ p \in StrmPath /\ p \notin DirPath
    BY <1>1, KeyType, OpIsFine, MirrorUpAssumption DEF OpFine
  <2>2. local' = [local EXCEPT ![p] = t] /\ Ended(job.calm) /\ UNCHANGED <<node, index, handed, torn>>
    BY <1>3 DEF Normalize, OpDone
  <2>3. t \in Things /\ t.k = local[p].k /\ t.c = local[p].c /\ t.pc = local[p].pc
    <3>1. local[p] \in Things
      BY <1>1, <2>1 DEF Typed
    <3> HIDE DEF p
    <3> QED
      BY <3>1 DEF Things
  <2> HIDE DEF t
  <2>4. /\ local' \in [Path -> Things] /\ local'[p] = t
        /\ \A q \in Path \ {p} : local'[q] = local[q]
        /\ LocalFine' /\ HomesLast
    <3>1. /\ local[p].k = "dir" => t.k = "dir"
          /\ p \in DirPath => t.k \in {"none", "dir"}
          /\ t.k = "dir" => p \in DirPath
          /\ t.k = "strm" <=> p \in StrmPath /\ t.k # "none"
          /\ t.k = "file" => t.c \in Content
          /\ t.k # "none" => LocalDir(Up(p))
          /\ t.pc # nowhere => VideoNode(t.pc)
      BY <1>1, <2>1, <2>3 DEF LocalFine, There
    <3> HIDE DEF p
    <3> QED
      BY <2>1, <2>2, <2>3, <3>1, ThingPut
  <2>5. \A q \in Path : FileLasts(q)
    BY <2>3, <2>4 DEF FileLasts
  <2>6. /\ job' \in Jobs /\ settled' \in 0 .. 2
        /\ job'.at \in {"idle", "begin"} /\ (job'.at = "idle" <=> job'.ops = << >>)
        /\ \A i \in DOMAIN job'.ops : i + 1 \in DOMAIN job.ops /\ job'.ops[i] = job.ops[i + 1]
    BY <1>1, <2>2, CalmType, EndedFacts
  <2>7. Typed'
    BY <1>1, <2>2, <2>4, <2>6 DEF Typed, Has
  <2>8. PlanFine'
    BY <1>1, <2>2, <2>4, <2>5, <2>6, PlanOverLocal
  <2>9. StepFine'
    BY <2>6, StepAtRest
  <2>10. HandedFine'
    BY <1>1, <2>2 DEF HandedFine, Precious
  <2> QED
    BY <2>2, <2>4, <2>7, <2>8, <2>9, <2>10, LocalFrame
<1> QED
  BY <1>2, <1>3

-----------------------------------------------------------------------------
(***************************************************************************)
(* The user's changes: what a plan is to upload stays as it is while files *)
(* do not change between the plan and their turn, ...                      *)
(***************************************************************************)
LEMMA JobShaken ==
    ASSUME job \in Jobs, job' = [job EXCEPT !.calm = FALSE]
    PROVE  job' \in Jobs /\ job'.at = job.at /\ job'.ops = job.ops /\ job'.fid = job.fid
<1> DEFINE sizes == {SizeOf[c] : c \in Content} \cup {0}
           fids == Fid \cup {nowhere}
           r == [at |-> job.at, ops |-> job.ops, fid |-> job.fid, size |-> job.size, calm |-> FALSE]
<1>1. job' = r
  BY DEF Jobs
<1>2. /\ job.at \in Stages /\ job.ops \in Seq(Ops) /\ job.fid \in fids /\ job.size \in sizes
      /\ FALSE \in BOOLEAN
  BY DEF Jobs
<1>3. Jobs = [at : Stages, ops : Seq(Ops), fid : fids, size : sizes, calm : BOOLEAN]
  BY DEF Jobs
<1>4. r \in Jobs
  <2> HIDE DEF sizes, fids
  <2> QED
    BY <1>2, <1>3, Zenon
<1> QED
  BY <1>1, <1>4

LEMMA UserFrame ==
    ASSUME UpInv, ~Growing, NEW new \in [Path -> Things], Edited(new), LocalFine', HomesLast,
           \A p \in Awaited : FileLasts(p)
    PROVE  UpInv'
<1>1. Typed /\ PlanFine /\ CloudFine /\ StepFine /\ HandedFine
  BY DEF UpInv
<1>2. /\ local' = new /\ settled' = 0 /\ job' = [job EXCEPT !.calm = FALSE]
      /\ UNCHANGED <<node, index, handed, torn>>
  BY DEF Edited
<1>3. /\ job' \in Jobs /\ job'.at = job.at /\ job'.ops = job.ops /\ job'.fid = job.fid
  <2>1. job \in Jobs /\ job.at \in Stages
    BY <1>1 DEF Typed, Jobs
  <2> QED
    BY <1>2, <2>1, JobShaken
<1>4. op' = op
  BY <1>3 DEF op
<1>5. \A i \in DOMAIN job.ops : job.ops[i].kind = "upload" => FileLasts(job.ops[i].path)
  BY DEF Awaited, Coming
<1>6. Typed'
  BY <1>1, <1>2, <1>3 DEF Typed, Has
<1>7. PlanFine'
  <2>1. NodeStep
    BY <1>2, NodeSame
  <2>2. \A i \in DOMAIN job'.ops : \E j \in DOMAIN job.ops :
                /\ job'.ops[i] = job.ops[j]
                /\ job.ops[j].kind = "upload" => FileLasts(job.ops[j].path)
    BY <1>3, <1>5
  <2> QED
    BY <1>1, <2>1, <2>2, PlanLasts
<1>8. StepFine'
  <2>1. Unrecorded' = Unrecorded
    BY <1>2, <1>4 DEF Unrecorded, TargetDir, Has
  <2>2. TopUnrecorded' = TopUnrecorded
    BY <2>1 DEF TopUnrecorded
  <2>3. job.at # "idle" /\ op.kind = "upload" => FileLasts(op.path)
    BY <1>1, <1>5, OpHead
  <2>4. /\ VideoNode(job.fid) => VideoNode(job.fid)'
        /\ Precious(job.fid) => Precious(job.fid)'
        /\ Plain(job.fid) => Plain(job.fid)'
        /\ Reachable(job.fid) => Reachable(job.fid)'
        /\ DirNode(job.fid, TopUnrecorded) => DirNode(job.fid, TopUnrecorded)'
    BY <1>2, <1>3, <2>2 DEF VideoNode, Precious, Plain, Reachable, DirNode
  <2>5. /\ job.at \in {"retireOld", "writeStrm", "remove"} /\ op.kind = "upload" /\ local'[op.path].k = "file"
             => node[job.fid].c = local'[op.path].c
    BY <1>1, <2>3 DEF StepFine, FileLasts
  <2> QED
    BY <1>1, <1>2, <1>3, <1>4, <2>1, <2>4, <2>5 DEF StepFine
<1>9. HandedFine'
  BY <1>1, <1>2 DEF HandedFine, Precious
<1> QED
  BY <1>2, <1>6, <1>7, <1>8, <1>9, LocalFrame

(* ... one thing is put somewhere, ...                                     *)
LEMMA PuttingFine ==
    ASSUME UpInv, ~Growing,
           \/ \E p \in Path, c \in Content : WriteFile(p, c)
           \/ \E p \in Path, f \in Fid \cup {nowhere}, isOld \in BOOLEAN : WriteLink(p, f, isOld)
           \/ \E p \in Path : MakeDir(p)
    PROVE  UpInv'
<1>1. Typed /\ LocalFine /\ CloudFine
  BY DEF UpInv
<1>2. ASSUME NEW p \in Path, NEW t \in Things, Edited([local EXCEPT ![p] = t]),
             local[p].k # "dir",
             p \in DirPath => t.k \in {"none", "dir"},
             t.k = "dir" => p \in DirPath,
             t.k = "strm" <=> p \in StrmPath /\ t.k # "none",
             t.k = "file" => t.c \in Content /\ p \notin Awaited,
             LocalDir(Up(p)),
             t.pc # nowhere => VideoNode(t.pc)
      PROVE  UpInv'
  <2>1. local' = [local EXCEPT ![p] = t] /\ UNCHANGED node
    BY <1>2 DEF Edited
  <2>2. /\ local' \in [Path -> Things] /\ local'[p] = t
        /\ \A q \in Path \ {p} : local'[q] = local[q]
        /\ LocalFine' /\ HomesLast
    BY <1>2, <2>1, ThingPut
  <2>3. \A q \in Awaited : q \in Path
    <3>1. job.ops \in Seq(Ops)
      BY <1>1 DEF Typed, Jobs
    <3>2. \A i \in DOMAIN job.ops : job.ops[i] \in Ops
      BY <3>1
    <3> QED
      BY <3>2 DEF Awaited, Coming, Ops
  <2>4. \A q \in Awaited : FileLasts(q)
    BY <1>2, <2>2, <2>3 DEF FileLasts
  <2>5. [local EXCEPT ![p] = t] \in [Path -> Things]
    BY <2>1, <2>2
  <2> QED
    BY <1>2, <2>2, <2>4, <2>5, UserFrame
<1>3. ASSUME NEW p \in Path, NEW c \in Content, WriteFile(p, c) PROVE UpInv'
  <2>1. p \notin StrmPath \cup DirPath \cup Awaited /\ LocalDir(Up(p))
        /\ Edited([local EXCEPT ![p] = File(c)])
    BY <1>3 DEF WriteFile, InHand
  <2>2. local[p].k # "dir"
    BY <1>1, <2>1 DEF LocalFine
  <2>3. File(c) \in Things /\ File(c).k = "file" /\ File(c).c = c /\ File(c).pc = nowhere
    BY ThingTypes
  <2> QED
    BY <2>1, <2>2, <2>3, <1>2
<1>4. ASSUME NEW p \in Path, NEW f \in Fid \cup {nowhere}, NEW isOld \in BOOLEAN, WriteLink(p, f, isOld)
      PROVE  UpInv'
  <2>1. p \in StrmPath /\ LocalDir(Up(p)) /\ Edited([local EXCEPT ![p] = Strm(f, isOld)])
    BY <1>4 DEF WriteLink
  <2>2. f # nowhere => VideoNode(f)
    <3>1. f # nowhere => f \in Fid /\ (Place[f] = elsewhere \/ local[p].pc = f)
      BY <1>4 DEF WriteLink
    <3>2. f \in Fid /\ Place[f] = elsewhere => node[f].kind = "file" /\ node[f].name = Root
      BY <1>1, Elsewhere
    <3> QED
      BY <3>1, <3>2, <1>1 DEF LocalFine, VideoNode
  <2>3. p \notin DirPath /\ local[p].k # "dir"
    BY <1>1, <2>1, MirrorUpAssumption DEF LocalFine
  <2>4. Strm(f, isOld) \in Things /\ Strm(f, isOld).k = "strm" /\ Strm(f, isOld).pc = f
    BY ThingTypes
  <2> QED
    BY <2>1, <2>2, <2>3, <2>4, <1>2
<1>5. ASSUME NEW p \in Path, MakeDir(p) PROVE UpInv'
  <2>1. p \in DirPath /\ local[p].k = "none" /\ LocalDir(Up(p)) /\ Edited([local EXCEPT ![p] = Directory])
    BY <1>5 DEF MakeDir
  <2>2. p \notin StrmPath
    BY <2>1, MirrorUpAssumption
  <2>3. Directory \in Things /\ Directory.k = "dir" /\ Directory.pc = nowhere
    BY ThingTypes
  <2> QED
    BY <2>1, <2>2, <2>3, <1>2
<1> QED
  BY <1>3, <1>4, <1>5

(* ... or something is deleted, ...                                        *)
LEMMA DeleteFine ==
    ASSUME UpInv, ~Growing, HomesStay, NEW p \in Path, Delete(p)
    PROVE  UpInv'
<1>1. Typed /\ LocalFine /\ local \in [Path -> Things]
  BY DEF UpInv, Typed
<1> DEFINE new == [q \in Path |-> IF q \in Subtree(p) THEN Nothing ELSE local[q]]
<1>2. p \in Removable /\ Subtree(p) \cap InHand = {} /\ Edited(new)
  BY DEF Delete
<1>3. new \in [Path -> Things]
  BY <1>1, ThingTypes
<1>4. local' = new /\ UNCHANGED node
  BY <1>2 DEF Edited
<1>5. /\ \A q \in Path : q \in Subtree(p) => local'[q] = Nothing
      /\ \A q \in Path : q \notin Subtree(p) => local'[q] = local[q]
  BY <1>4
<1> HIDE DEF new
<1>6. HomesLast
  <2> SUFFICES ASSUME NEW d \in Home, d \in Subtree(p) PROVE FALSE
    BY <1>5, HomesAbove DEF HomesLast
  <2>1. p \in Home
    BY HomesAbove DEF Subtree
  <2> QED
    BY <2>1, <1>2 DEF HomesStay
<1>7. LocalFine'
  <2> SUFFICES ASSUME NEW q \in Path
               PROVE  /\ q \in DirPath => local'[q].k \in {"none", "dir"}
                      /\ local'[q].k = "dir" => q \in DirPath
                      /\ local'[q].k = "strm" <=> q \in StrmPath /\ local'[q].k # "none"
                      /\ local'[q].k = "file" => local'[q].c \in Content
                      /\ local'[q].k # "none" => LocalDir(Up(q))'
                      /\ local'[q].pc # nowhere => VideoNode(local[q].pc)'
    BY DEF LocalFine, There
  <2>1. CASE q \in Subtree(p)
    BY <2>1, <1>5, ThingTypes
  <2>2. CASE q \notin Subtree(p)
    <3>1. local'[q] = local[q]
      BY <2>2, <1>5
    <3>2. ASSUME LocalDir(Up(q)) PROVE LocalDir(Up(q))'
      <4>1. Up(q) # Root => Up(q) \in Path /\ Up(q) \notin Subtree(p)
        BY <2>2, PathType, PathFacts DEF Subtree
      <4> QED
        BY <3>2, <4>1, <1>5 DEF LocalDir
    <3> QED
      BY <3>1, <3>2, <1>1, <1>4 DEF LocalFine, There, VideoNode
  <2> QED
    BY <2>1, <2>2
<1>8. \A q \in Awaited : FileLasts(q)
  <2>1. \A q \in Awaited : q \in Path
    <3>1. job.ops \in Seq(Ops)
      BY <1>1 DEF Typed, Jobs
    <3>2. \A i \in DOMAIN job.ops : job.ops[i] \in Ops
      BY <3>1
    <3> QED
      BY <3>2 DEF Awaited, Coming, Ops
  <2> QED
    BY <2>1, <1>2, <1>5 DEF InHand, FileLasts
<1> QED
  BY <1>2, <1>3, <1>6, <1>7, <1>8, UserFrame

(* ... or it gets another name, with all that is in it: what is then at x  *)
(* was at From(p, q, x).                                                   *)
From(p, q, x) == p \o SubSeq(x, Len(q) + 1, Len(x))

LEMMA FromFacts ==
    ASSUME NEW p \in Path, NEW q \in Path, NEW x \in Subtree(q)
    PROVE  /\ x = q => From(p, q, x) = p
           /\ x # q /\ From(p, q, x) \in Path =>
                /\ Last(From(p, q, x)) = Last(x)
                /\ Up(x) \in Subtree(q) /\ Up(x) \in Path
                /\ Up(From(p, q, x)) = From(p, q, Up(x)) /\ From(p, q, Up(x)) \in DirPath
                /\ From(p, q, Up(x)) # Root
<1> DEFINE s == SubSeq(x, Len(q) + 1, Len(x))
           y == From(p, q, x)
<1>0. x \in Path /\ IsPrefix(q, x) /\ Len(q) <= Len(x)
  BY PathFacts DEF Subtree
<1>1. /\ p \in Seq(Names) /\ q \in Seq(Names) /\ x \in Seq(Names)
      /\ Len(p) \in Nat \ {0} /\ Len(q) \in Nat \ {0} /\ Len(x) \in Nat \ {0}
  BY <1>0, PathType
<1>2. s \in Seq(Names) /\ Len(s) = Len(x) - Len(q) /\ \A i \in 1 .. Len(s) : s[i] = x[Len(q) + i]
  BY <1>0, <1>1
<1>3. y \in Seq(Names) /\ y = p \o s /\ Len(y) = Len(p) + Len(s)
  <2> HIDE DEF s
  <2>1. p \o s \in Seq(Names) /\ Len(p \o s) = Len(p) + Len(s)
    BY <1>1, <1>2, ConcatProperties
  <2>2. y = p \o s
    BY DEF From, s
  <2> QED
    BY <2>1, <2>2
<1>4. ASSUME x = q PROVE y = p
  <2>1. s = << >>
    BY <1>2, <1>4
  <2> HIDE DEF s
  <2> QED
    BY <2>1, <1>1, <1>3
<1>5. ASSUME x # q, y \in Path
      PROVE  /\ Last(y) = Last(x)
             /\ Up(x) \in Subtree(q) /\ Up(x) \in Path
             /\ Up(y) = From(p, q, Up(x)) /\ From(p, q, Up(x)) \in DirPath
             /\ From(p, q, Up(x)) # Root
  <2>1. IsPrefix(q, Up(x)) /\ Up(x) \in DirPath /\ Up(x) \in Path /\ Up(x) \in Subtree(q)
    BY <1>0, <1>5, PathFacts, MirrorUpAssumption DEF Subtree
  <2>2. Up(x) \in Seq(Names) /\ Len(Up(x)) = Len(x) - 1 /\ \A i \in 1 .. Len(x) - 1 : Up(x)[i] = x[i]
    BY <1>1, FrontFacts DEF Up
  <2>3. Len(q) <= Len(Up(x)) /\ Len(Up(x)) \in Nat
    BY <1>1, <2>1, <2>2, PathFacts
  <2> DEFINE u == SubSeq(Up(x), Len(q) + 1, Len(Up(x)))
  <2>4. u \in Seq(Names) /\ Len(u) = Len(Up(x)) - Len(q) /\ \A i \in 1 .. Len(u) : u[i] = Up(x)[Len(q) + i]
    BY <2>2, <2>3, <1>1
  <2>5. From(p, q, Up(x)) = p \o u
    BY DEF From
  <2> HIDE DEF s, u, y
  <2>6. Up(y) \in Seq(Names) /\ Len(Up(y)) = Len(y) - 1 /\ \A i \in 1 .. Len(y) - 1 : Up(y)[i] = y[i]
    <3>1. y \in Seq(Names) /\ Len(y) > 0
      BY <1>1, <1>2, <1>3
    <3> QED
      BY <3>1, FrontFacts DEF Up
  <2>7. p \o u \in Seq(Names) /\ Len(p \o u) = Len(p) + Len(u)
        /\ \A i \in 1 .. Len(p) + Len(u) : (p \o u)[i] = IF i <= Len(p) THEN p[i] ELSE u[i - Len(p)]
    BY <1>1, <2>4, ConcatProperties
  <2>8. \A i \in 1 .. Len(p) + Len(s) : y[i] = IF i <= Len(p) THEN p[i] ELSE s[i - Len(p)]
    BY <1>1, <1>2, <1>3
  <2>9. Len(Up(y)) = Len(p \o u)
    BY <1>1, <1>2, <1>3, <2>2, <2>4, <2>6, <2>7
  <2>10. ASSUME NEW i \in 1 .. Len(p \o u) PROVE Up(y)[i] = (p \o u)[i]
    <3>1. i \in 1 .. Len(y) - 1 /\ i \in 1 .. Len(p) + Len(s) /\ i \in 1 .. Len(p) + Len(u)
      BY <1>1, <1>2, <1>3, <2>2, <2>4, <2>7
    <3>2. CASE i <= Len(p)
      BY <3>1, <3>2, <2>6, <2>7, <2>8
    <3>3. CASE i > Len(p)
      <4>1. i - Len(p) \in 1 .. Len(u) /\ i - Len(p) \in 1 .. Len(s) /\ Len(q) + (i - Len(p)) \in 1 .. Len(x) - 1
        <5>1. /\ Len(u) \in Nat /\ Len(s) \in Nat /\ Len(Up(x)) \in Nat
              /\ Len(u) = Len(Up(x)) - Len(q) /\ Len(s) = Len(x) - Len(q) /\ Len(Up(x)) = Len(x) - 1
          BY <1>1, <1>2, <2>2, <2>3, <2>4
        <5>2. i \in Nat /\ i <= Len(p) + Len(u) /\ i > Len(p)
          BY <3>1, <3>3, <5>1, <1>1
        <5>3. Len(p) \in Nat /\ Len(q) \in Nat /\ Len(x) \in Nat
          BY <1>1
        <5> QED
          BY <5>1, <5>2, <5>3
      <4>2. u[i - Len(p)] = x[Len(q) + (i - Len(p))] /\ s[i - Len(p)] = x[Len(q) + (i - Len(p))]
        BY <4>1, <1>2, <2>2, <2>4
      <4>3. ~(i <= Len(p))
        BY <3>3, <1>1
      <4> QED
        BY <3>1, <4>2, <4>3, <2>6, <2>7, <2>8
    <3> QED
      BY <3>1, <3>2, <3>3, <1>1
  <2>11. Up(y) = p \o u
    BY <2>6, <2>7, <2>9, <2>10, SeqEqual
  <2>12. Last(y) = Last(x)
    <3>1. Len(s) \in 1 .. Len(s) /\ Len(q) + Len(s) = Len(x)
      BY <1>1, <1>2, <2>2, <2>3
    <3>2. s[Len(s)] = x[Len(x)]
      BY <3>1, <1>2
    <3>3. Len(y) \in 1 .. Len(p) + Len(s) /\ ~(Len(y) <= Len(p)) /\ Len(y) - Len(p) = Len(s)
      BY <3>1, <1>1, <1>2, <1>3
    <3> QED
      BY <3>2, <3>3, <2>8 DEF Last
  <2>13. p \o u # Root
    <3>1. Len(p \o u) > 0
      BY <1>1, <2>4, <2>7
    <3> QED
      BY <3>1 DEF Root
  <2>14. Up(y) = Root \/ Up(y) \in DirPath
    BY <1>5, PathType
  <2> QED
    BY <2>1, <2>5, <2>11, <2>12, <2>13, <2>14
<1> QED
  BY <1>4, <1>5

LEMMA RenameFine ==
    ASSUME UpInv, ~Growing, HomesStay, NEW p \in Path, NEW q \in Path, Rename(p, q)
    PROVE  UpInv'
<1>1. Typed /\ LocalFine /\ local \in [Path -> Things]
  BY DEF UpInv, Typed
<1> DEFINE new == [x \in Path |->
                IF x \in Subtree(q) THEN IF From(p, q, x) \in Path THEN local[From(p, q, x)] ELSE Nothing
                ELSE IF x \in Subtree(p) THEN Nothing
                ELSE local[x]]
<1>2. /\ p \in Removable /\ local[q].k = "none" /\ LocalDir(Up(q)) /\ q \notin Subtree(p)
      /\ Subtree(p) \cap InHand = {} /\ Subtree(q) \cap Awaited = {}
      /\ Edited(new)
  BY Zenon DEF Rename, From
<1>3. (p \in StrmPath <=> q \in StrmPath) /\ (p \in DirPath <=> q \in DirPath)
  BY Zenon DEF Rename
<1>4. new \in [Path -> Things]
  BY <1>1, ThingTypes
<1>5. local' = new /\ UNCHANGED node
  BY <1>2 DEF Edited
<1>6. ASSUME NEW x \in Path
      PROVE  /\ x \in Subtree(q) =>
                    local'[x] = IF From(p, q, x) \in Path THEN local[From(p, q, x)] ELSE Nothing
             /\ x \notin Subtree(q) /\ x \in Subtree(p) => local'[x] = Nothing
             /\ x \notin Subtree(q) /\ x \notin Subtree(p) => local'[x] = local[x]
  BY <1>5
<1> HIDE DEF new
<1>7. HomesLast
  <2> SUFFICES ASSUME NEW d \in Home, local[d].k = "dir" PROVE local'[d].k = "dir"
    BY DEF HomesLast
  <2>1. d \in Path /\ d \in DirPath
    BY HomesAbove
  <2>2. d \notin Subtree(p)
    <3>1. p \notin Home
      BY <1>2 DEF HomesStay
    <3> QED
      BY <3>1, HomesAbove DEF Subtree
  <2>3. d \notin Subtree(q)
    <3> SUFFICES ASSUME IsPrefix(q, d) PROVE FALSE
      BY DEF Subtree
    <3>1. q # d
      BY <1>2
    <3>2. There(d)
      BY DEF There
    <3>3. local[q].k = "dir"
      BY <3>1, <3>2, <2>1, <1>1, AboveThere
    <3> QED
      BY <3>3, <1>2
  <2> QED
    BY <2>1, <2>2, <2>3, <1>6
<1>8. LocalFine'
  <2> SUFFICES ASSUME NEW x \in Path
               PROVE  /\ x \in DirPath => local'[x].k \in {"none", "dir"}
                      /\ local'[x].k = "dir" => x \in DirPath
                      /\ local'[x].k = "strm" <=> x \in StrmPath /\ local'[x].k # "none"
                      /\ local'[x].k = "file" => local'[x].c \in Content
                      /\ local'[x].k # "none" => LocalDir(Up(x))'
                      /\ local'[x].pc # nowhere => VideoNode(local[x].pc)'
    BY DEF LocalFine, There
  <2>1. CASE local'[x] = Nothing
    BY <2>1, ThingTypes
  <2>2. CASE x \notin Subtree(q) /\ x \notin Subtree(p)
    <3>1. local'[x] = local[x]
      BY <2>2, <1>6
    <3>2. ASSUME LocalDir(Up(x)) PROVE LocalDir(Up(x))'
      <4>1. Up(x) # Root => Up(x) \in Path /\ Up(x) \notin Subtree(p) /\ Up(x) \notin Subtree(q)
        BY <2>2, PathType, PathFacts DEF Subtree
      <4> QED
        BY <3>2, <4>1, <1>6 DEF LocalDir
    <3> QED
      BY <3>1, <3>2, <1>1, <1>5 DEF LocalFine, There, VideoNode
  <2>3. CASE x \in Subtree(q) /\ From(p, q, x) \in Path
    <3> DEFINE y == From(p, q, x)
    <3>1. local'[x] = local[y] /\ y \in Path
      BY <2>3, <1>6
    <3>2. (x \in DirPath <=> y \in DirPath) /\ (x \in StrmPath <=> y \in StrmPath)
      <4>1. CASE x = q
        BY <4>1, <2>3, <1>3, FromFacts
      <4>2. CASE x # q
        <5>1. Last(y) = Last(x)
          BY <4>2, <2>3, FromFacts
        <5> HIDE DEF y
        <5> QED
          BY <5>1, <3>1, MirrorUpAssumption
      <4> QED
        BY <4>1, <4>2
    <3>3. There(y) => LocalDir(Up(x))'
      <4>1. CASE x = q
        <5>1. Up(q) # Root => Up(q) \in Path /\ Up(q) \notin Subtree(p) /\ Up(q) \notin Subtree(q)
          <6>1. ASSUME Up(q) # Root PROVE Up(q) \in Path /\ Up(q) \notin Subtree(p) /\ Up(q) \notin Subtree(q)
            <7>1. Up(q) \in Path /\ Len(Up(q)) = Len(q) - 1 /\ Len(q) \in Nat
              BY <6>1, PathType
            <7>2. Up(q) \notin Subtree(q)
              BY <7>1, PathFacts DEF Subtree
            <7>3. Up(q) \notin Subtree(p)
              BY <7>1, <1>2, PathFacts DEF Subtree
            <7> QED
              BY <7>1, <7>2, <7>3
          <6> QED
            BY <6>1
        <5> QED
          BY <4>1, <5>1, <1>2, <1>6 DEF LocalDir
      <4>2. CASE x # q
        <5>1. /\ Up(x) \in Subtree(q) /\ Up(x) \in Path
              /\ Up(y) = From(p, q, Up(x)) /\ From(p, q, Up(x)) \in DirPath
              /\ From(p, q, Up(x)) # Root
          BY <4>2, <2>3, FromFacts
        <5>2. From(p, q, Up(x)) \in Path /\ Up(x) # Root
          BY <5>1, MirrorUpAssumption, PathType
        <5>3. local'[Up(x)] = local[Up(y)]
          BY <5>1, <5>2, <1>6
        <5>4. There(y) => local[Up(y)].k = "dir"
          BY <3>1, <5>1, <1>1 DEF LocalFine, LocalDir
        <5> QED
          BY <5>2, <5>3, <5>4 DEF LocalDir
      <4> QED
        BY <4>1, <4>2
    <3> HIDE DEF y
    <3> QED
      BY <3>1, <3>2, <3>3, <1>1, <1>5 DEF LocalFine, There, VideoNode
  <2> QED
    BY <2>1, <2>2, <2>3, <1>6
<1>9. \A x \in Awaited : FileLasts(x)
  <2>1. \A x \in Awaited : x \in Path
    <3>1. job.ops \in Seq(Ops)
      BY <1>1 DEF Typed, Jobs
    <3>2. \A i \in DOMAIN job.ops : job.ops[i] \in Ops
      BY <3>1
    <3> QED
      BY <3>2 DEF Awaited, Coming, Ops
  <2>2. \A x \in Awaited : x \notin Subtree(p) /\ x \notin Subtree(q)
    BY <1>2 DEF InHand
  <2> QED
    BY <2>1, <2>2, <1>6 DEF FileLasts
<1> QED
  BY <1>2, <1>4, <1>7, <1>8, <1>9, UserFrame

-----------------------------------------------------------------------------
(***************************************************************************)
(* The theorems.                                                           *)
(***************************************************************************)
LEMMA InitFine == Init => UpInv
<1> SUFFICES ASSUME Init PROVE UpInv
  OBVIOUS
<1> DEFINE video == [NoNode EXCEPT !.up = elsewhere, !.kind = "file"]
<1>1. /\ \A p \in Path : index[p] = NoRecord
      /\ local \in Start /\ index = [p \in Path |-> NoRecord]
      /\ \A f \in Fid : node[f] = IF f \in Foreign THEN video ELSE NoNode
      /\ node = [f \in Fid |-> IF f \in Foreign THEN video ELSE NoNode]
      /\ job = Idle /\ handed = {} /\ torn = {} /\ settled = 0
  BY DEF Init
<1>2. /\ NoNode \in Nodes /\ NoNode.kind = "none" /\ NoNode.up = nowhere /\ NoNode.c = nowhere
      /\ video \in Nodes /\ video.kind = "file" /\ video.up = elsewhere /\ video.c = nowhere
      /\ video.name = Root
  BY DEF NoNode, Nodes
<1>3. NoRecord \in Records /\ NoRecord.kind = "none"
  BY DEF NoRecord, Records, Kinds
<1>4. Idle \in Jobs /\ Idle.at = "idle" /\ Idle.ops = << >>
  BY DEF Idle, Jobs, Stages
<1> HIDE DEF video
<1>a. /\ local \in [Path -> {Nothing, Directory} \cup {File(c) : c \in Content}]
      /\ \A p \in Path : local[p] # Nothing =>
            /\ p \notin StrmPath /\ (p \in DirPath <=> local[p] = Directory)
            /\ Up(p) = Root \/ local[Up(p)] = Directory
  BY <1>1, StartAssumption
<1>b. /\ \A p \in Path : local[p] \in Things
      /\ \A p \in Path : local[p].pc = nowhere
      /\ \A p \in Path : \/ local[p] = Nothing /\ local[p].k = "none"
                         \/ local[p] = Directory /\ local[p].k = "dir"
                         \/ local[p].k = "file" /\ local[p].c \in Content /\ local[p] # Directory
  <2>0. ASSUME NEW p \in Path
        PROVE  /\ local[p] \in Things /\ local[p].pc = nowhere
               /\ \/ local[p] = Nothing /\ local[p].k = "none"
                  \/ local[p] = Directory /\ local[p].k = "dir"
                  \/ local[p].k = "file" /\ local[p].c \in Content /\ local[p] # Directory
    <3>1. local[p] = Nothing \/ local[p] = Directory \/ \E c \in Content : local[p] = File(c)
      BY <1>a
    <3>2. CASE \E c \in Content : local[p] = File(c)
      <4>1. PICK c \in Content : local[p] = File(c)
        BY <3>2
      <4>2. local[p].k = "file" /\ local[p].c = c /\ local[p].pc = nowhere /\ local[p] \in Things
        BY <4>1, ThingTypes
      <4>3. local[p] # Directory
        BY <4>2, ThingTypes
      <4> QED
        BY <4>2, <4>3
    <3> QED
      BY <3>1, <3>2, ThingTypes
  <2>1. \A p \in Path : local[p] \in Things
    BY <2>0
  <2>2. \A p \in Path : local[p].pc = nowhere
    BY <2>0
  <2>3. \A p \in Path : \/ local[p] = Nothing /\ local[p].k = "none"
                        \/ local[p] = Directory /\ local[p].k = "dir"
                        \/ local[p].k = "file" /\ local[p].c \in Content /\ local[p] # Directory
    BY <2>0
  <2> QED
    BY <2>1, <2>2, <2>3
<1>5. local \in [Path -> Things] /\ node \in [Fid -> Nodes] /\ index \in [Path -> Records]
  BY <1>1, <1>2, <1>3, <1>a, <1>b
<1>6. Typed
  BY <1>1, <1>3, <1>4, <1>5 DEF Typed, Has
<1>7. LocalFine
  <2>1. \A p \in Path : There(p) <=> local[p] # Nothing
    BY <1>b, ThingTypes DEF There
  <2>2. \A p \in Path : There(p) => LocalDir(Up(p))
    BY <2>1, <1>a, ThingTypes DEF LocalDir
  <2> QED
    BY <1>a, <1>b, <2>1, <2>2, ThingTypes, MirrorUpAssumption DEF LocalFine
<1>8. elsewhere \notin Fid /\ nowhere \notin Fid /\ nowhere # elsewhere /\ nowhere \notin Content
  BY MirrorUpAssumption
<1>9. CloudFine
  <2> SUFFICES ASSUME NEW f \in Fid
               PROVE  /\ node[f].kind = "none" => node[f] = NoNode
                      /\ node[f].kind # "dir"
                      /\ node[f].up \notin Fid
                      /\ node[f].up = elsewhere => node[f].kind = "file" /\ node[f].name = Root
                      /\ node[f].kind = "file" /\ node[f].c # nowhere => node[f].name # Root
    BY DEF CloudFine
  <2> QED
    BY <1>1, <1>2, <1>8
<1>10. \A f \in Fid : node[f].kind # "dir" /\ node[f].c = nowhere
  BY <1>1, <1>2
<1>11. HomesFine
  BY <1>1, <1>10, HomesAbove DEF HomesFine, Has
<1>12. PreciousFine
  BY <1>8, <1>10, MirrorUpAssumption DEF PreciousFine, Precious
<1>13. IndexFine
  BY <1>1, <1>3 DEF IndexFine
<1>14. PlanFine
  BY <1>1, <1>4 DEF PlanFine
<1>15. StepFine
  BY <1>1, <1>4 DEF StepFine
<1>16. HandedFine
  BY <1>1 DEF HandedFine
<1> QED
  BY <1>6, <1>7, <1>9, <1>11, <1>12, <1>13, <1>14, <1>15, <1>16 DEF UpInv

LEMMA StepsFine ==
    ASSUME ~Growing, HomesStay, UpInv, [Next]_vars
    PROVE  UpInv'
<1>1. ASSUME FullScan \/ (\E d \in DirPath : DirScan(d)) \/ (\E p \in Path : FileJob(p)) PROVE UpInv'
  BY <1>1, BeginsFine
<1>2. ASSUME ApplySteps PROVE UpInv'
  BY <1>2, StatFine, OthersFine, FolderFine, RecordFine, MkdirFine, UploadFine, RetireOldFine,
     WriteStrmFine, RemoveFine, PutFine, AdoptMoveFine, AdoptNameFine, NormalizeFine, ClearingFine,
     ClearTreeFine DEF ApplySteps
<1>3. ASSUME Interrupt PROVE UpInv'
  BY <1>3, InterruptFine
<1>4. ASSUME UserSteps PROVE UpInv'
  BY <1>4, PuttingFine, DeleteFine, RenameFine DEF UserSteps
<1>5. ASSUME UNCHANGED vars PROVE UpInv'
  <2>1. UNCHANGED <<local, node, index, job, handed, torn, settled>>
    BY <1>5 DEF vars
  <2>2. Typed /\ PlanFine /\ CloudFine /\ StepFine
    BY DEF UpInv
  <2>3. Typed'
    BY <2>1, <2>2 DEF Typed, Has
  <2>4. PlanFine'
    BY <2>1, <2>2, PlanStays
  <2>5. StepFine'
    <3>1. StepFine' = StepFine
      BY <2>1 DEF StepFine, op, Precious, VideoNode, Plain, Reachable, DirNode, TopUnrecorded,
                  Unrecorded, TargetDir, Has
    <3> QED
      BY <2>2, <3>1
  <2> QED
    BY <2>1, <2>3, <2>4, <2>5, Frame
<1> QED
  BY <1>1, <1>2, <1>3, <1>4, <1>5 DEF Next

LEMMA HandedHere == UpInv => HandedIsKept
<1> SUFFICES ASSUME UpInv, NEW c \in handed PROVE \E f \in Fid : node[f].c = c /\ Exists(f)
  BY DEF HandedIsKept
<1>1. Typed /\ CloudFine /\ HomesFine /\ PreciousFine /\ HandedFine
  BY DEF UpInv
<1>2. PICK f \in Fid : node[f].c = c /\ Precious(f) /\ ToStrm
  BY <1>1 DEF HandedFine
<1>3. Reachable(f)
  BY <1>1, <1>2 DEF PreciousFine
<1>4. Exists(f)
  BY <1>1, <1>3, ReachableExists
<1> QED
  BY <1>2, <1>4

(* The types of TypeOK, from the invariant.                                *)
LEMMA TypesHere == UpInv => TypeOK
<1> SUFFICES ASSUME UpInv PROVE TypeOK
  OBVIOUS
<1>1. Typed /\ LocalFine
  BY DEF UpInv
<1>2. \A p \in Path : local[p] \in Things /\ index[p] \in Records
  BY <1>1 DEF Typed
<1>3. \A f \in Fid : node[f] \in Nodes
  BY <1>1 DEF Typed
<1>4. \A p \in Path : /\ local[p].k \in {"none", "dir", "file", "strm"}
                      /\ local[p].k = "file" => local[p].c \in Content
                      /\ local[p].pc \in Fid \cup {nowhere}
  BY <1>1, <1>2 DEF LocalFine, Things, Kinds
<1>5. \A f \in Fid : node[f].up \in Fid \cup {root, temp, elsewhere, nowhere}
  BY <1>3 DEF Nodes
<1>6. \A p \in Path : /\ index[p].fid \in Fid \cup {nowhere}
                      /\ index[p].kind \in {"none", "dir", "file", "strm"}
  BY <1>2 DEF Records, Kinds
<1> QED
  BY <1>1, <1>4, <1>5, <1>6 DEF TypeOK, Typed

(* UpInv holds in every reachable state: the tree, the cloud, the index    *)
(* and the plan fit together wherever a step of Apply (apply.go), a        *)
(* failure, a stop or a change of the user leaves them, as long as files   *)
(* do not change between the plan and their turn and the directories on    *)
(* the way to a video or a .strm stay where they are.                      *)
THEOREM UpAlways ==
    ASSUME ~Growing, HomesStay
    PROVE  Spec => []UpInv
<1>1. Init => UpInv
  BY InitFine
<1>2. UpInv /\ [Next]_vars => UpInv'
  BY StepsFine
<1> QED
  BY <1>1, <1>2, PTL DEF Spec

(* Under the same hypotheses: the content of every original that           *)
(* replaceWithStrm removed (apply.go) is in a node that exists, if only in *)
(* the recycle directory, for any tree, any plan and any failures.         *)
THEOREM HandedAlways ==
    ASSUME ~Growing, HomesStay
    PROVE  Spec => []HandedIsKept
<1>1. Spec => []UpInv
  BY UpAlways
<1>2. UpInv => HandedIsKept
  BY HandedHere
<1> QED
  BY <1>1, <1>2, PTL

(* The types of the upload scope's variables, under the same hypotheses.   *)
THEOREM UpTypes ==
    ASSUME ~Growing, HomesStay
    PROVE  Spec => []TypeOK
<1>1. Spec => []UpInv
  BY UpAlways
<1>2. UpInv => TypeOK
  BY TypesHere
<1> QED
  BY <1>1, <1>2, PTL

-----------------------------------------------------------------------------
(***************************************************************************)
(* What is tracked is not recycled. A path claims a node: its .strm names  *)
(* it, or its record, an operation that is going to adopt it or to clear   *)
(* it away, or the operation under way, which is about to record it. All   *)
(* claims but those of a .strm and of an adoption to come hold the node:   *)
(* it has been brought into the task's directory.                          *)
(***************************************************************************)
Adopts(o, f, p) == o.kind = "adopt" /\ o.path = p /\ o.fid = f
Retires(o, f, p) ==
    \/ o.kind = "retire" /\ o.path = p /\ o.fid = f
    \/ o.kind = "upload" /\ o.video /\ StrmOf[o.path] = p /\ o.replace = f
ToAdopt(f, p) == \E i \in DOMAIN job.ops : Adopts(job.ops[i], f, p)
ToRetire(f, p) == \E i \in DOMAIN job.ops : Retires(job.ops[i], f, p)
Making == {"rename", "retireOld", "writeStrm", "remove", "put"}
Handled(f, p) ==
    /\ job.at \in Making
    /\ op.kind = "upload" => op.video
    /\ RecordKey = p /\ job.fid = f
Held(f, p) == Recorded(f, p) \/ Handled(f, p) \/ ToRetire(f, p)
Claimed(f, p) == Held(f, p) \/ Linked(f, p) \/ ToAdopt(f, p)

(* One path claims a node, which is called after it once it was renamed;   *)
(* no .strm is where only a name is left; ...                              *)
Family(p) == {p} \cup {v \in VideoPath : StrmOf[v] = p}
Links == \A p \in Path : local[p].pc # nowhere => local[p].k = "strm"
Single == \A f \in Fid : \A p, q \in Path : Claimed(f, p) /\ Claimed(f, q) => p = q
Named == \A f \in Fid : \A p \in Path : Claimed(f, p) => node[f].name \in Family(p) \cup {Root}
Taken == \A f \in Fid : \A p \in Path : Held(f, p) => node[f].up # elsewhere

(* ... the node that is about to be recorded is not in the recycle         *)
(* directory; nor is one that .strm and record agree on, unless the        *)
(* operation under way has just put it there, and the record has not       *)
(* followed yet.                                                           *)
AtHand ==
    /\ job.at \in Making => node[job.fid].up # temp
    /\ job.at = "retireOld" => Supersedes(job.fid)
Pending ==
    IF job.at = "clear" THEN {op.path}
    ELSE IF job.at \in {"writeStrm", "remove", "put"} /\ Supersedes(job.fid) THEN {RecordKey}
    ELSE {}
Spared ==
    \A f \in Fid : \A p \in Path : Linked(f, p) /\ Recorded(f, p) =>
        p \in torn \cup Pending \/ node[f].up # temp

TrackInv == Links /\ Single /\ Named /\ Taken /\ AtHand /\ Spared

(* What claims a node, claims the node of a video, for a .strm.            *)
LEMMA ClaimedIsVideo ==
    ASSUME UpInv, NEW f \in Fid, NEW p \in Path, Claimed(f, p)
    PROVE  VideoNode(f) /\ node[f].kind = "file" /\ p \in StrmPath
<1>1. Typed /\ LocalFine /\ IndexFine /\ PlanFine /\ StepFine
  BY DEF UpInv
<1>2. f # nowhere
  BY MirrorUpAssumption
<1>3. CASE Linked(f, p)
  BY <1>1, <1>2, <1>3 DEF Linked, LocalFine, VideoNode
<1>4. CASE Recorded(f, p)
  BY <1>1, <1>4 DEF Recorded, IndexFine, VideoNode
<1>5. CASE Handled(f, p)
  <2>1. job.at # "idle" /\ job.at # "begin" /\ op.kind \in {"upload", "adopt"}
    BY <1>1, <1>5 DEF Handled, Making, StepFine, AtKinds
  <2>2. p \in StrmPath
    BY <1>1, <1>5, <2>1, KeyType DEF Handled
  <2>3. VideoNode(job.fid)
    BY <1>1, <1>5, <2>1 DEF Handled, Making, StepFine, AtKinds, Precious, VideoNode
  <2> QED
    BY <1>5, <2>2, <2>3 DEF Handled, VideoNode
<1>6. CASE ToRetire(f, p)
  <2>1. PICK i \in DOMAIN job.ops : Retires(job.ops[i], f, p)
    BY <1>6 DEF ToRetire
  <2>2. OpFine(job.ops[i])
    BY <1>1 DEF PlanFine
  <2> QED
    BY <1>2, <2>1, <2>2, MirrorUpAssumption DEF Retires, OpFine, Sort, VideoNode
<1>7. CASE ToAdopt(f, p)
  <2>1. PICK i \in DOMAIN job.ops : Adopts(job.ops[i], f, p)
    BY <1>7 DEF ToAdopt
  <2>2. OpFine(job.ops[i])
    BY <1>1 DEF PlanFine
  <2> QED
    BY <2>1, <2>2 DEF Adopts, OpFine, VideoNode
<1> QED
  BY <1>3, <1>4, <1>5, <1>6, <1>7 DEF Claimed, Held

(* A step that adds no claim, or the only one that there is to a node,     *)
(* names nodes after the path that claims them, and takes none to where it *)
(* must not be.                                                            *)
LEMMA TrackStays ==
    ASSUME TrackInv, Links', AtHand',
           \A f \in Fid : \A p \in Path : Claimed(f, p)' =>
                \/ /\ Claimed(f, p)
                   /\ node'[f].name = node[f].name \/ node'[f].name \in Family(p)
                \/ /\ \A q \in Path : Claimed(f, q)' => q = p
                   /\ node'[f].name \in Family(p) \cup {Root},
           \A f \in Fid : \A p \in Path : Held(f, p)' =>
                (Held(f, p) /\ node'[f].up = node[f].up) \/ node'[f].up # elsewhere,
           \A f \in Fid : \A p \in Path : Linked(f, p)' /\ Recorded(f, p)' =>
                \/ p \in (torn \cup Pending)' \/ node'[f].up # temp
                \/ /\ Linked(f, p) /\ Recorded(f, p) /\ p \notin torn \cup Pending
                   /\ node'[f].up = node[f].up
    PROVE  TrackInv'
<1>1. Links /\ Single /\ Named /\ Taken /\ AtHand /\ Spared
  BY DEF TrackInv
<1>2. Single'
  BY <1>1 DEF Single
<1>3. Named'
  BY <1>1 DEF Named
<1>4. Taken'
  BY <1>1 DEF Taken
<1>5. Spared'
  BY <1>1 DEF Spared
<1> QED
  BY <1>2, <1>3, <1>4, <1>5 DEF TrackInv

(* A plan of operations that the one before had adds none.                 *)
LEMMA PlanClaims ==
    ASSUME \A i \in DOMAIN job'.ops : \E j \in DOMAIN job.ops : job'.ops[i] = job.ops[j]
    PROVE  \A f, p : (ToRetire(f, p)' => ToRetire(f, p)) /\ (ToAdopt(f, p)' => ToAdopt(f, p))
BY DEF ToRetire, ToAdopt, Retires, Adopts

(* An operation fails: its path is torn if it was pending.                 *)
LEMMA PendingIsTorn ==
    ASSUME UpInv, job.at # "idle"
    PROVE  Pending \subseteq LeftTorn
<1>1. RecordKey \in Path /\ op.path \in Path
  BY KeyType DEF UpInv
<1>2. op.path \in Subtree(op.path)
  BY <1>1, PathFacts DEF Subtree
<1> QED
  BY <1>2 DEF Pending, LeftTorn

(* A step that changes neither the trees nor the index, ...                *)
LEMMA TrackRests ==
    ASSUME TrackInv, UNCHANGED <<local, node, index>>, AtHand',
           \A i \in DOMAIN job'.ops : \E j \in DOMAIN job.ops : job'.ops[i] = job.ops[j],
           \A f \in Fid : \A p \in Path : Handled(f, p)' => Handled(f, p),
           torn \cup Pending \subseteq (torn \cup Pending)'
    PROVE  TrackInv'
<1>1. Links'
  BY DEF TrackInv, Links
<1>2. ASSUME NEW f \in Fid, NEW p \in Path
      PROVE  /\ Linked(f, p)' <=> Linked(f, p)
             /\ Recorded(f, p)' <=> Recorded(f, p)
             /\ node'[f] = node[f]
             /\ Held(f, p)' => Held(f, p)
             /\ Claimed(f, p)' => Claimed(f, p)
  <2>1. (Linked(f, p)' <=> Linked(f, p)) /\ (Recorded(f, p)' <=> Recorded(f, p)) /\ node'[f] = node[f]
    BY DEF Linked, Recorded
  <2>2. (ToRetire(f, p)' => ToRetire(f, p)) /\ (ToAdopt(f, p)' => ToAdopt(f, p))
    BY PlanClaims
  <2> QED
    BY <2>1, <2>2 DEF Held, Claimed
<1>3. ASSUME NEW f \in Fid, NEW p \in Path, Held(f, p) PROVE node[f].up # elsewhere
  BY <1>3 DEF TrackInv, Taken
<1>4. ASSUME NEW f \in Fid, NEW p \in Path, Linked(f, p), Recorded(f, p)
      PROVE  p \in (torn \cup Pending)' \/ node'[f].up # temp
  BY <1>2, <1>4 DEF TrackInv, Spared
<1> QED
  BY <1>1, <1>2, <1>3, <1>4, TrackStays

(* ... and one that ends the operation, or the job, as well.               *)
LEMMA RestIsQuiet ==
    ASSUME job'.at \in {"idle", "begin", "ensure", "record", "clear"}
    PROVE  AtHand' /\ \A f, p : ~Handled(f, p)'
BY DEF AtHand, Handled, Making

LEMMA TrackEnds ==
    ASSUME UpInv, TrackInv, job.at # "idle", UNCHANGED <<local, node, index>>,
           (\E calm \in BOOLEAN : Ended(calm)) \/ job' = Idle,
           torn' = torn \cup LeftTorn \/ (torn' = torn /\ Pending = {})
    PROVE  TrackInv'
<1>1. /\ job'.at \in {"idle", "begin"}
      /\ \A i \in DOMAIN job'.ops : \E j \in DOMAIN job.ops : job'.ops[i] = job.ops[j]
  <2>1. CASE job' = Idle
    BY <2>1 DEF Idle
  <2>2. ASSUME NEW calm \in BOOLEAN, Ended(calm)
        PROVE  /\ job'.at \in {"idle", "begin"}
               /\ \A i \in DOMAIN job'.ops : i + 1 \in DOMAIN job.ops /\ job'.ops[i] = job.ops[i + 1]
    <3>1. Typed
      BY DEF UpInv
    <3> QED
      BY <2>2, <3>1, EndedFacts
  <2> QED
    BY <2>1, <2>2
<1>2. AtHand' /\ \A f, p : ~Handled(f, p)'
  BY <1>1, RestIsQuiet
<1>3. torn \cup Pending \subseteq (torn \cup Pending)'
  BY PendingIsTorn
<1> QED
  BY <1>1, <1>2, <1>3, TrackRests

LEMMA TrackFails ==
    ASSUME UpInv, TrackInv, job.at # "idle", OpFails
    PROVE  TrackInv'
BY TrackEnds DEF OpFails

LEMMA TrackInterrupt ==
    ASSUME UpInv, TrackInv, Interrupt
    PROVE  TrackInv'
BY TrackEnds DEF Interrupt

LEMMA TrackMkdir ==
    ASSUME UpInv, TrackInv, MkdirDone
    PROVE  TrackInv'
<1>1. job.at = "ensure" /\ job.at # "idle" /\ job.calm \in BOOLEAN /\ Pending = {}
  BY CalmType DEF MkdirDone, Ensured, Doing, UpInv, Pending
<1> QED
  BY <1>1, TrackEnds DEF MkdirDone, OpDone

LEMMA TrackStat ==
    ASSUME UpInv, TrackInv, StatFile \/ EnsureOthers
    PROVE  TrackInv'
<1>1. /\ job.at = "begin" /\ job.at # "idle" /\ job.calm \in BOOLEAN /\ Pending = {} /\ Typed
      /\ UNCHANGED <<local, node, index, torn>>
  BY CalmType DEF StatFile, EnsureOthers, Doing, UpInv, Pending
<1>2. CASE OpDone
  BY <1>1, <1>2, TrackEnds DEF OpDone
<1>3. CASE ~OpDone
  <2>1. job'.at = "ensure" /\ job'.ops = job.ops
    <3>1. job \in Jobs
      BY <1>1 DEF Typed
    <3> QED
      BY <1>3, <3>1 DEF StatFile, EnsureOthers, Goto, Jobs
  <2>2. AtHand' /\ \A f, p : ~Handled(f, p)'
    BY <2>1, RestIsQuiet
  <2> QED
    BY <1>1, <2>1, <2>2, TrackRests
<1> QED
  BY <1>2, <1>3

(* A plan of what there is to do adds no claim to those of the .strm files *)
(* and the records it is made from.                                        *)
LEMMA TrackBegin ==
    ASSUME UpInv, TrackInv, NEW ops \in Seq(FineOps), NEW full \in BOOLEAN, Begin(ops, full)
    PROVE  TrackInv'
<1>1. job.at = "idle" /\ UNCHANGED <<local, node, index, torn>> /\ Pending = {}
  BY DEF Begin, Pending
<1>2. job'.at \in {"idle", "begin"} /\ \A i \in DOMAIN job'.ops : job'.ops[i] \in FineOps
  <2>1. CASE ops = << >>
    BY <2>1 DEF Begin, Idle
  <2>2. CASE ops # << >>
    <3>1. ByPhase(ops) \in Seq(FineOps)
      BY PhaseType
    <3>2. job' = [Idle EXCEPT !.at = "begin", !.ops = ByPhase(ops), !.calm = full]
      BY <2>2 DEF Begin
    <3>3. job'.at = "begin" /\ job'.ops = ByPhase(ops)
      BY <3>2 DEF Idle
    <3> QED
      BY <3>1, <3>3
  <2> QED
    BY <2>1, <2>2
<1>3. AtHand' /\ \A f, p : ~Handled(f, p)'
  BY <1>2, RestIsQuiet
<1>4. ASSUME NEW f \in Fid, NEW p \in Path
      PROVE  /\ Linked(f, p)' <=> Linked(f, p)
             /\ Recorded(f, p)' <=> Recorded(f, p)
             /\ node'[f] = node[f]
             /\ Held(f, p)' => Held(f, p)
             /\ Claimed(f, p)' => Claimed(f, p)
  <2>1. (Linked(f, p)' <=> Linked(f, p)) /\ (Recorded(f, p)' <=> Recorded(f, p)) /\ node'[f] = node[f]
    BY <1>1 DEF Linked, Recorded
  <2>2. ASSUME NEW o \in FineOps
        PROVE  (Retires(o, f, p) => Recorded(f, p)) /\ (Adopts(o, f, p) => Linked(f, p))
    <3>1. Due(o) /\ f # nowhere
      BY MirrorUpAssumption DEF FineOps
    <3> QED
      BY <3>1 DEF Due, Retires, Adopts
  <2>3. ToRetire(f, p)' => Recorded(f, p)
    BY <1>2, <2>2 DEF ToRetire, Retires
  <2>4. ToAdopt(f, p)' => Linked(f, p)
    BY <1>2, <2>2 DEF ToAdopt, Adopts
  <2> QED
    BY <1>3, <2>1, <2>3, <2>4 DEF Held, Claimed
<1>5. ASSUME NEW f \in Fid, NEW p \in Path, Held(f, p) PROVE node[f].up # elsewhere
  BY <1>5 DEF TrackInv, Taken
<1>6. ASSUME NEW f \in Fid, NEW p \in Path, Linked(f, p), Recorded(f, p)
      PROVE  p \in (torn \cup Pending)' \/ node'[f].up # temp
  BY <1>1, <1>4, <1>6 DEF TrackInv, Spared
<1>7. Links'
  BY <1>1 DEF TrackInv, Links
<1> QED
  BY <1>3, <1>4, <1>5, <1>6, <1>7, TrackStays

LEMMA TrackBegins ==
    ASSUME UpInv, TrackInv,
           \/ FullScan
           \/ \E d \in DirPath : DirScan(d)
           \/ \E p \in Path : FileJob(p)
    PROVE  TrackInv'
<1>1. Root \in Scanned /\ DirPath \subseteq Scanned
  BY MirrorUpAssumption DEF Scanned
<1>2. CASE FullScan
  BY <1>1, <1>2, PlansFine, TrackBegin DEF FullScan
<1>3. CASE \E d \in DirPath : DirScan(d)
  BY <1>1, <1>3, PlansFine, TrackBegin DEF DirScan
<1>4. CASE \E p \in Path : FileJob(p)
  BY <1>4, PlansFine, TrackBegin DEF FileJob
<1> QED
  BY <1>2, <1>3, <1>4

-----------------------------------------------------------------------------
(***************************************************************************)
(* The steps in the cloud. Nothing is claimed anew but what is going to be *)
(* recorded, and what is claimed stays where it is.                        *)
(***************************************************************************)
LEMMA SameClaims ==
    ASSUME UNCHANGED <<local, index>>, job'.ops = job.ops
    PROVE  \A f, p : /\ Linked(f, p)' <=> Linked(f, p)
                     /\ Recorded(f, p)' <=> Recorded(f, p)
                     /\ ToRetire(f, p)' <=> ToRetire(f, p)
                     /\ ToAdopt(f, p)' <=> ToAdopt(f, p)
BY DEF Linked, Recorded, ToRetire, ToAdopt, Retires, Adopts

LEMMA LinksLast == ASSUME TrackInv, UNCHANGED local PROVE Links'
BY DEF TrackInv, Links

LEMMA TrackFolder ==
    ASSUME UpInv, TrackInv, CreateFolder
    PROVE  TrackInv'
<1>1. job.at = "ensure" /\ job.at # "idle" /\ Unrecorded # {} /\ Typed /\ Pending = {}
  <2>1. job.at = "ensure" /\ Unrecorded # {}
    BY Zenon DEF CreateFolder
  <2> QED
    BY <2>1 DEF UpInv, Pending
<1>2. CASE OpFails
  BY <1>1, <1>2, TrackFails
<1>3. CASE ~OpFails
  <2> DEFINE d == TopUnrecorded
             parent == FidOf(Up(d))
             twins == {f \in Fid : node[f].up = parent /\ node[f].kind = "dir" /\ node[f].name = d}
             n == [NoNode EXCEPT !.up = parent, !.kind = "dir", !.name = d]
  <2>1. UNCHANGED <<local, index, torn>>
    BY <1>3, Zenon DEF CreateFolder
  <2>2. PICK f \in (IF twins # {} THEN twins ELSE Fresh) :
            /\ f \in Fresh => \A g \in Fresh : f <= g
            /\ node' = [node EXCEPT ![f] = n]
            /\ job' = [job EXCEPT !.at = "record", !.fid = f]
    BY <1>3, Zenon DEF CreateFolder
  <2>3. f \in Fid /\ node[f].kind # "file"
    BY DEF Fresh
  <2> HIDE DEF n
  <2>4. \A g \in Fid : node[g].kind = "file" => node'[g] = node[g]
    BY <1>1, <2>2, <2>3 DEF Typed
  <2>5. job'.at = "record" /\ job'.ops = job.ops
    <3>1. job \in Jobs
      BY <1>1 DEF Typed
    <3> QED
      BY <2>2, <3>1 DEF Jobs
  <2>6. AtHand' /\ \A g, p : ~Handled(g, p)'
    BY <2>5, RestIsQuiet
  <2>7. ASSUME NEW g \in Fid, NEW p \in Path
        PROVE  /\ Held(g, p)' => Held(g, p) /\ node'[g] = node[g]
               /\ Claimed(g, p)' => Claimed(g, p) /\ node'[g] = node[g]
               /\ Linked(g, p)' /\ Recorded(g, p)' =>
                    Linked(g, p) /\ Recorded(g, p) /\ node'[g] = node[g]
    <3>1. /\ Linked(g, p)' <=> Linked(g, p)
          /\ Recorded(g, p)' <=> Recorded(g, p)
          /\ ToRetire(g, p)' <=> ToRetire(g, p)
          /\ ToAdopt(g, p)' <=> ToAdopt(g, p)
      BY <2>1, <2>5, SameClaims
    <3>2. Claimed(g, p) => node'[g] = node[g]
      BY <2>4, ClaimedIsVideo
    <3> QED
      BY <2>6, <3>1, <3>2 DEF Held, Claimed
  <2>8. torn \cup Pending \subseteq (torn \cup Pending)'
    BY <1>1, <2>1
  <2>9. Links'
    BY <2>1, LinksLast
  <2>10. ASSUME NEW g \in Fid, NEW p \in Path, Linked(g, p)' /\ Recorded(g, p)'
         PROVE  \/ p \in (torn \cup Pending)' \/ node'[g].up # temp
                \/ /\ Linked(g, p) /\ Recorded(g, p) /\ p \notin torn \cup Pending
                   /\ node'[g].up = node[g].up
    BY <2>7, <2>8, <2>10
  <2> QED
    BY <2>6, <2>7, <2>9, <2>10, TrackStays
<1> QED
  BY <1>2, <1>3

LEMMA TrackUpload ==
    ASSUME UpInv, TrackInv, UploadFile
    PROVE  TrackInv'
<1>1. /\ Typed /\ LocalFine /\ CloudFine /\ IndexFine /\ PlanFine /\ Pending = {}
      /\ job.at = "ensure" /\ job.at # "idle" /\ op.kind = "upload" /\ Unrecorded = {}
  <2>1. Ensured("upload")
    BY Zenon DEF UploadFile
  <2> QED
    BY <2>1 DEF UpInv, Ensured, Doing, Pending
<1>2. CASE OpFails
  BY <1>1, <1>2, TrackFails
<1>3. CASE ~OpFails
  <2> DEFINE p == op.path
             parent == FidOf(Up(p))
             twins == {f \in Fid : /\ node[f].up = parent /\ node[f].c = local[p].c
                                   /\ \/ node[f].name = p
                                      \/ p \in VideoPath /\ node[f].name = StrmOf[p]}
  <2>1. UNCHANGED <<local, index, torn>>
    BY <1>3, Zenon DEF UploadFile
  <2>2. PICK f \in Fresh \cup twins :
            /\ node' = [node EXCEPT ![f] = [up |-> parent, kind |-> "file", c |-> local[p].c, name |-> p]]
            /\ job' = [job EXCEPT
                                !.fid = f,
                                !.at = IF ~op.video THEN "put"
                                       ELSE IF Supersedes(f) THEN "retireOld"
                                       ELSE "writeStrm"]
    BY <1>3, Zenon DEF UploadFile
  <2> DEFINE n == [up |-> parent, kind |-> "file", c |-> local[p].c, name |-> p]
  <2>3. OpFine(op) /\ p \in Path /\ p \notin DirPath \cup StrmPath /\ p # Root
    BY <1>1, OpIsFine, KeyType, PathType DEF OpFine
  <2>4. parent # temp /\ parent # elsewhere
    <3>1. parent = root \/ parent \in Fid
      BY <1>1, <2>3, EnsuredDir, DirRecord
    <3> HIDE DEF parent
    <3> QED
      BY <3>1, MirrorUpAssumption
  <2>5. f \in Fid /\ (f \in Fresh \/ f \in twins)
    BY DEF Fresh
  <2>6. node'[f].up = parent /\ node'[f].name = p /\ \A g \in Fid \ {f} : node'[g] = node[g]
    <3>1. n.up = parent /\ n.name = p /\ node' = [node EXCEPT ![f] = n]
      BY <2>2
    <3> HIDE DEF n, p, parent, twins
    <3> QED
      BY <1>1, <2>5, <3>1 DEF Typed
  <2>7. /\ job'.ops = job.ops /\ job'.fid = f /\ op' = op
        /\ job'.at \in Making /\ (job'.at = "retireOld" => Supersedes(f))
    <3> HIDE DEF p, parent, twins
    <3>1. job \in Jobs
      BY <1>1 DEF Typed
    <3>2. job'.ops = job.ops /\ job'.fid = f
      BY <2>2, <3>1 DEF Jobs
    <3>3. job'.at \in Making /\ (job'.at = "retireOld" => Supersedes(f))
      BY <2>2, <3>1 DEF Jobs, Making
    <3> QED
      BY <3>2, <3>3 DEF op
  <2>8. RecordKey' = RecordKey
    BY <2>7 DEF RecordKey
  <2>9. AtHand'
    <3>1. Supersedes(f) => Supersedes(f)'
      BY <2>7 DEF Supersedes
    <3>2. Supersedes(f)' => Supersedes(job.fid)'
      BY <2>7 DEF Supersedes
    <3> HIDE DEF p, parent, twins
    <3> QED
      BY <2>4, <2>6, <2>7, <3>1, <3>2 DEF AtHand
  \* What claims a twin is the .strm of the file.
  <2>10. ASSUME NEW q \in Path, Claimed(f, q)
         PROVE  p \in VideoPath /\ q = StrmOf[p]
    <3>1. VideoNode(f) /\ node[f].kind = "file" /\ q \in StrmPath
      BY <2>5, <2>10, ClaimedIsVideo
    <3>2. f \in twins
      BY <2>5, <3>1 DEF Fresh
    <3>3. node[f].name = p \/ (p \in VideoPath /\ node[f].name = StrmOf[p])
      BY <3>2
    <3>4. node[f].name \in Family(q) \cup {Root}
      BY <2>5, <2>10 DEF TrackInv, Named
    <3>5. p \in VideoPath => StrmOf[p] \in StrmPath /\ StrmOf[p] \notin VideoPath /\ StrmOf[p] # Root
      BY PathType, MirrorUpAssumption
    <3> HIDE DEF p, parent, twins
    <3> QED
      BY <2>3, <3>1, <3>3, <3>4, <3>5 DEF Family
  <2>11. ASSUME NEW q \in Path, Handled(f, q)'
         PROVE  p \in VideoPath /\ q = StrmOf[p]
    <3>1. op.video /\ RecordKey = q
      BY <1>1, <2>7, <2>8, <2>11 DEF Handled
    <3>2. p \in VideoPath
      BY <1>1, <2>3, <3>1 DEF OpFine, Sort
    <3> QED
      BY <1>1, <3>1, <3>2 DEF RecordKey
  <2>12. \A g \in Fid : \A q \in Path :
            /\ Linked(g, q)' <=> Linked(g, q)
            /\ Recorded(g, q)' <=> Recorded(g, q)
            /\ ToRetire(g, q)' <=> ToRetire(g, q)
            /\ ToAdopt(g, q)' <=> ToAdopt(g, q)
    BY <2>1, <2>7, SameClaims
  <2>13. \A g, q : Handled(g, q)' => g = f
    BY <2>7 DEF Handled
  <2>14. \A q \in Path : Claimed(f, q)' => p \in VideoPath /\ q = StrmOf[p]
    <3> HIDE DEF p, parent, twins
    <3> QED
      BY <2>5, <2>10, <2>11, <2>12 DEF Claimed, Held
  <2>15. \A g \in Fid \ {f} : \A q \in Path : (Claimed(g, q)' => Claimed(g, q)) /\ (Held(g, q)' => Held(g, q))
    BY <2>12, <2>13 DEF Claimed, Held
  <2>16. Links'
    BY <2>1, LinksLast
  <2> HIDE DEF p, parent, twins
  <2>17. ASSUME NEW g \in Fid, NEW q \in Path, Claimed(g, q)'
         PROVE  \/ /\ Claimed(g, q)
                   /\ node'[g].name = node[g].name \/ node'[g].name \in Family(q)
                \/ /\ \A r \in Path : Claimed(g, r)' => r = q
                   /\ node'[g].name \in Family(q) \cup {Root}
    <3>1. CASE g = f
      <4>1. p \in VideoPath /\ q = StrmOf[p]
        BY <2>14, <2>17, <3>1
      <4>2. node'[g].name \in Family(q)
        BY <2>6, <3>1, <4>1 DEF Family
      <4>3. ASSUME NEW r \in Path, Claimed(g, r)' PROVE r = q
        BY <2>14, <3>1, <4>1, <4>3
      <4> QED
        BY <4>2, <4>3
    <3>2. CASE g # f
      BY <2>6, <2>15, <2>17, <3>2
    <3> QED
      BY <3>1, <3>2
  <2>18. ASSUME NEW g \in Fid, NEW q \in Path, Held(g, q)'
         PROVE  (Held(g, q) /\ node'[g].up = node[g].up) \/ node'[g].up # elsewhere
    BY <2>4, <2>6, <2>15, <2>18
  <2>19. ASSUME NEW g \in Fid, NEW q \in Path, Linked(g, q)' /\ Recorded(g, q)'
         PROVE  \/ q \in (torn \cup Pending)' \/ node'[g].up # temp
                \/ /\ Linked(g, q) /\ Recorded(g, q) /\ q \notin torn \cup Pending
                   /\ node'[g].up = node[g].up
    BY <1>1, <2>1, <2>4, <2>6, <2>12, <2>19
  <2> QED
    BY <2>9, <2>16, <2>17, <2>18, <2>19, TrackStays
<1> QED
  BY <1>2, <1>3

(* Claims of a step inside the operation.                                  *)
LEMMA SameHandled ==
    ASSUME job'.ops = job.ops, job'.fid = job.fid, job.at \in Making
    PROVE  /\ op' = op /\ RecordKey' = RecordKey /\ (Supersedes(job.fid)' <=> Supersedes(job.fid))
           /\ \A f, p : Handled(f, p)' => Handled(f, p)
<1>1. op' = op
  BY DEF op
<1>2. RecordKey' = RecordKey /\ (Supersedes(job.fid)' <=> Supersedes(job.fid))
  BY <1>1 DEF RecordKey, Supersedes
<1> QED
  BY <1>1, <1>2 DEF Handled

(* A node is moved, and only to the recycle directory when the path that   *)
(* claims it is pending then.                                              *)
LEMMA TrackMoves ==
    ASSUME UpInv, TrackInv, UNCHANGED <<local, index, torn>>, job'.ops = job.ops, AtHand',
           NEW f \in Fid, NEW place \in Fid \cup {root, temp, elsewhere, nowhere},
           node' = Moved(f, place), place # elsewhere,
           \A g \in Fid : \A p \in Path : Handled(g, p)' => Handled(g, p) \/ (g = f /\ Claimed(g, p)),
           \A g \in Fid : \A p \in Path : Handled(g, p)' => node'[g].up # elsewhere,
           Pending \subseteq Pending',
           place = temp => \A p \in Path : Claimed(f, p) => p \in Pending'
    PROVE  TrackInv'
<1>1. \A g \in Fid : node'[g].name = node[g].name /\ (node'[g] = node[g] \/ (g = f /\ node'[g].up = place))
  BY MovedFacts DEF UpInv
<1>2. \A g \in Fid : \A p \in Path :
        /\ Linked(g, p)' <=> Linked(g, p)
        /\ Recorded(g, p)' <=> Recorded(g, p)
        /\ ToRetire(g, p)' <=> ToRetire(g, p)
        /\ ToAdopt(g, p)' <=> ToAdopt(g, p)
  BY SameClaims
<1>3. Links'
  BY LinksLast
<1>4. ASSUME NEW g \in Fid, NEW p \in Path, Claimed(g, p)' PROVE Claimed(g, p) /\ node'[g].name = node[g].name
  BY <1>1, <1>2, <1>4 DEF Claimed, Held
<1>5. ASSUME NEW g \in Fid, NEW p \in Path, Held(g, p)'
      PROVE  (Held(g, p) /\ node'[g].up = node[g].up) \/ node'[g].up # elsewhere
  BY <1>1, <1>2, <1>5 DEF Held
<1>6. ASSUME NEW g \in Fid, NEW p \in Path, Linked(g, p)' /\ Recorded(g, p)'
      PROVE  \/ p \in (torn \cup Pending)' \/ node'[g].up # temp
             \/ /\ Linked(g, p) /\ Recorded(g, p) /\ p \notin torn \cup Pending
                /\ node'[g].up = node[g].up
  <2>1. Linked(g, p) /\ Recorded(g, p) /\ Claimed(g, p)
    BY <1>2, <1>6 DEF Claimed
  <2>2. p \in torn \cup Pending => p \in (torn \cup Pending)'
    OBVIOUS
  <2> QED
    BY <1>1, <2>1, <2>2
<1> QED
  BY <1>3, <1>4, <1>5, <1>6, TrackStays

LEMMA TrackRetireOld ==
    ASSUME UpInv, TrackInv, RetireOld
    PROVE  TrackInv'
<1>1. Typed /\ PlanFine /\ StepFine /\ job.at = "retireOld" /\ job.at # "idle" /\ AtHand /\ Pending = {}
  BY DEF UpInv, RetireOld, TrackInv, Pending
<1>2. CASE OpFails
  BY <1>1, <1>2, TrackFails
<1>3. CASE ~OpFails
  <2> DEFINE f == op.replace
  <2>1. node' = Moved(f, temp) /\ Goto("writeStrm") /\ UNCHANGED <<local, index, torn>>
    BY <1>3 DEF RetireOld
  <2>2. op.kind = "upload" /\ op.video /\ OpFine(op)
    BY <1>1, OpIsFine DEF StepFine, AtKinds
  <2>3. f # nowhere /\ f # job.fid /\ Supersedes(job.fid)
    BY <1>1 DEF AtHand, Supersedes
  <2>4. f \in Fid
    BY <2>2, <2>3 DEF OpFine, VideoNode
  <2>5. job'.at = "writeStrm" /\ job'.ops = job.ops /\ job'.fid = job.fid
    BY <2>1, <1>1, GotoFacts DEF Goto, Stages
  <2>6. /\ op' = op /\ RecordKey' = RecordKey /\ (Supersedes(job.fid)' <=> Supersedes(job.fid))
        /\ \A g, p : Handled(g, p)' => Handled(g, p)
    BY <1>1, <2>5, SameHandled DEF Making
  <2>7. \A g \in Fid : node'[g] = node[g] \/ (g = f /\ node'[g].up = temp)
    <3> HIDE DEF f
    <3> QED
      BY <1>1, <2>1, <2>4, MovedFacts
  <2>8. job.fid \in Fid
    BY <1>1, <2>2 DEF StepFine, Precious
  <2>9. AtHand'
    BY <1>1, <2>3, <2>5, <2>7, <2>8 DEF AtHand, Making
  <2>10. Pending' = {RecordKey}
    BY <2>3, <2>5, <2>6 DEF Pending
  <2>11. RecordKey \in Path /\ Claimed(f, RecordKey)
    <3>1. RecordKey \in Path /\ RecordKey = StrmOf[op.path]
      BY <1>1, <2>2, KeyType DEF RecordKey
    <3>2. 1 \in DOMAIN job.ops /\ Retires(job.ops[1], f, RecordKey)
      BY <1>1, <2>2, <3>1, OpHead DEF Retires
    <3> QED
      BY <3>1, <3>2 DEF Claimed, Held, ToRetire
  <2>12. \A p \in Path : Claimed(f, p) => p \in Pending'
    BY <2>4, <2>10, <2>11 DEF TrackInv, Single
  <2>13. ASSUME NEW g \in Fid, NEW p \in Path, Handled(g, p)' PROVE node'[g].up # elsewhere
    <3>1. node[g].up # elsewhere
      BY <2>6, <2>13 DEF TrackInv, Taken, Held
    <3> QED
      BY <2>7, <3>1, MirrorUpAssumption
  <2>14. temp # elsewhere
    BY MirrorUpAssumption
  <2> HIDE DEF f
  <2> QED
    BY <1>1, <2>1, <2>4, <2>5, <2>6, <2>9, <2>12, <2>13, <2>14, TrackMoves
<1> QED
  BY <1>2, <1>3

LEMMA TrackClearing ==
    ASSUME UpInv, TrackInv, Retire \/ Drop
    PROVE  TrackInv'
<1>1. /\ Typed /\ PlanFine /\ job.at = "begin" /\ job.at # "idle" /\ Pending = {}
      /\ (op.kind = "retire" /\ Retire) \/ (op.kind = "drop" /\ Drop)
  BY DEF UpInv, Retire, Drop, Doing, Pending
<1>2. CASE OpFails
  BY <1>1, <1>2, TrackFails
<1>3. CASE ~OpFails
  <2> DEFINE f == op.fid
             place == IF op.kind = "retire" THEN temp ELSE nowhere
  <2>1. node' = Moved(f, place) /\ Goto("clear") /\ UNCHANGED <<local, index, torn>>
    BY <1>1, <1>3 DEF Retire, Drop
  <2>2. OpFine(op)
    BY <1>1, OpIsFine
  <2>3. f \in Fid
    BY <1>1, <2>2 DEF OpFine, VideoNode, Droppable, Plain, DirNode
  <2>4. job'.at = "clear" /\ job'.ops = job.ops
    BY <2>1, <1>1, GotoFacts DEF Goto, Stages
  <2>5. AtHand' /\ \A g, p : ~Handled(g, p)'
    BY <2>4, RestIsQuiet
  <2>6. Pending' = {op.path}
    BY <2>4 DEF Pending, op
  <2>7. place = temp => \A p \in Path : Claimed(f, p) => p \in Pending'
    <3> SUFFICES ASSUME place = temp, NEW p \in Path, Claimed(f, p) PROVE p = op.path
      BY <2>6
    <3>1. op.kind = "retire" /\ op.path \in Path
      BY <1>1, KeyType, MirrorUpAssumption
    <3>2. 1 \in DOMAIN job.ops /\ Retires(job.ops[1], f, op.path)
      BY <1>1, <3>1, OpHead DEF Retires
    <3>3. Claimed(f, op.path)
      BY <3>2 DEF Claimed, Held, ToRetire
    <3> QED
      BY <2>3, <3>1, <3>3 DEF TrackInv, Single
  <2>8. place \in Fid \cup {root, temp, elsewhere, nowhere} /\ place # elsewhere
    BY MirrorUpAssumption
  <2> HIDE DEF f, place
  <2> QED
    BY <1>1, <2>1, <2>3, <2>4, <2>5, <2>7, <2>8, TrackMoves
<1> QED
  BY <1>2, <1>3

LEMMA TrackAdoptMove ==
    ASSUME UpInv, TrackInv, MoveAdopted
    PROVE  TrackInv'
<1>1. Typed /\ PlanFine /\ IndexFine /\ job.at = "ensure" /\ job.at # "idle" /\ Pending = {}
      /\ op.kind = "adopt" /\ Unrecorded = {}
  BY DEF UpInv, MoveAdopted, Ensured, Doing, Pending
<1>2. CASE OpFails
  BY <1>1, <1>2, TrackFails
<1>3. CASE ~OpFails
  <2> DEFINE f == op.fid
             place == FidOf(Up(op.path))
  <2>1. /\ Exists(f) /\ node' = Moved(f, place)
        /\ job' = [job EXCEPT !.at = "rename", !.fid = f]
        /\ UNCHANGED <<local, index, torn>>
    BY <1>3 DEF MoveAdopted
  <2>2. op.path \in StrmPath /\ f \in Fid /\ op.path \in Path
    BY <1>1, OpIsFine, KeyType DEF OpFine, VideoNode
  <2>3. place \in Fid \cup {root} /\ place # temp /\ place # elsewhere
    <3>1. place \in Fid \cup {root}
      BY <1>1, <2>2, EnsuredDir, DirRecord
    <3> HIDE DEF place
    <3> QED
      BY <3>1, MirrorUpAssumption
  <2>4. job'.at = "rename" /\ job'.ops = job.ops /\ job'.fid = f
    <3>1. job \in Jobs
      BY <1>1 DEF Typed
    <3> QED
      BY <3>1, <2>1 DEF Jobs
  <2>5. node'[f].up = place
    <3>1. node' = [node EXCEPT ![f].up = place] /\ node \in [Fid -> Nodes]
      BY <1>1, <2>1 DEF Moved, Typed
    <3> HIDE DEF f, place
    <3> QED
      BY <3>1, <2>2 DEF Nodes
  <2>6. AtHand'
    BY <2>3, <2>4, <2>5 DEF AtHand
  <2>7. Claimed(f, op.path)
    <3>1. 1 \in DOMAIN job.ops /\ Adopts(job.ops[1], f, op.path)
      BY <1>1, OpHead DEF Adopts
    <3> QED
      BY <3>1 DEF Claimed, ToAdopt
  <2>8. \A g, p : Handled(g, p)' => g = f /\ p = op.path
    <3>1. op' = op
      BY <2>4 DEF op
    <3>2. RecordKey' = op.path
      BY <1>1, <3>1 DEF RecordKey
    <3> QED
      BY <2>4, <3>2 DEF Handled
  <2> HIDE DEF f, place
  <2>9. \A g \in Fid : \A p \in Path : Handled(g, p)' => g = f /\ Claimed(g, p) /\ node'[g].up # elsewhere
    BY <2>3, <2>5, <2>7, <2>8
  <2> QED
    BY <1>1, <2>1, <2>2, <2>3, <2>4, <2>6, <2>9, TrackMoves
<1> QED
  BY <1>2, <1>3

LEMMA TrackAdoptName ==
    ASSUME UpInv, TrackInv, RenameAdopted
    PROVE  TrackInv'
<1>1. Typed /\ PlanFine /\ StepFine /\ job.at = "rename" /\ job.at # "idle" /\ AtHand /\ Pending = {}
  BY DEF UpInv, RenameAdopted, TrackInv, Pending
<1>2. CASE OpFails
  BY <1>1, <1>2, TrackFails
<1>3. CASE ~OpFails
  <2> DEFINE f == job.fid
  <2>1. node' = [node EXCEPT ![f].name = op.path] /\ Goto("writeStrm") /\ UNCHANGED <<local, index, torn>>
    BY <1>3 DEF RenameAdopted
  <2>2. op.kind = "adopt" /\ f \in Fid /\ op.path \in Path
    BY <1>1, KeyType DEF StepFine, AtKinds, VideoNode
  <2>3. \A g \in Fid : node'[g].up = node[g].up /\ node'[g].name = IF g = f THEN op.path ELSE node[g].name
    <3> HIDE DEF f
    <3>1. node \in [Fid -> Nodes]
      BY <1>1 DEF Typed
    <3> QED
      BY <2>1, <2>2, <3>1 DEF Nodes
  <2>4. job'.at = "writeStrm" /\ job'.ops = job.ops /\ job'.fid = job.fid
    BY <2>1, <1>1, GotoFacts DEF Goto, Stages
  <2>5. \A g, p : Handled(g, p)' => Handled(g, p)
    BY <1>1, <2>4, SameHandled DEF Making
  <2>6. AtHand'
    BY <1>1, <2>2, <2>3, <2>4 DEF AtHand, Making
  <2>7. Handled(f, op.path)
    BY <1>1, <2>2 DEF Handled, Making, RecordKey
  <2>8. \A p \in Path : Claimed(f, p) => p = op.path
    BY <2>2, <2>7 DEF TrackInv, Single, Claimed, Held
  <2>9. \A g \in Fid : \A p \in Path :
        /\ Linked(g, p)' <=> Linked(g, p)
        /\ Recorded(g, p)' <=> Recorded(g, p)
        /\ ToRetire(g, p)' <=> ToRetire(g, p)
        /\ ToAdopt(g, p)' <=> ToAdopt(g, p)
    BY <2>1, <2>4, SameClaims
  <2>10. Links'
    BY <2>1, LinksLast
  <2>11. \A g \in Fid : \A p \in Path : (Held(g, p)' => Held(g, p)) /\ (Claimed(g, p)' => Claimed(g, p))
    BY <2>5, <2>9 DEF Claimed, Held
  <2> HIDE DEF f
  <2>12. ASSUME NEW g \in Fid, NEW p \in Path, Claimed(g, p)'
         PROVE  Claimed(g, p) /\ (node'[g].name = node[g].name \/ node'[g].name \in Family(p))
    BY <2>3, <2>8, <2>11, <2>12 DEF Family
  <2>13. ASSUME NEW g \in Fid, NEW p \in Path, Held(g, p)' PROVE Held(g, p) /\ node'[g].up = node[g].up
    BY <2>3, <2>11, <2>13
  <2>14. ASSUME NEW g \in Fid, NEW p \in Path, Linked(g, p)' /\ Recorded(g, p)'
         PROVE  \/ p \in (torn \cup Pending)'
                \/ /\ Linked(g, p) /\ Recorded(g, p) /\ p \notin torn \cup Pending
                   /\ node'[g].up = node[g].up
    BY <1>1, <2>1, <2>3, <2>9, <2>14
  <2> QED
    BY <2>6, <2>10, <2>12, <2>13, <2>14, TrackStays
<1> QED
  BY <1>2, <1>3

-----------------------------------------------------------------------------
(***************************************************************************)
(* The steps in the index and the local tree.                              *)
(***************************************************************************)
LEMMA TrackHere ==
    ASSUME TrackInv, UNCHANGED node, Links', AtHand',
           \A f \in Fid : \A p \in Path : (Claimed(f, p)' => Claimed(f, p)) /\ (Held(f, p)' => Held(f, p)),
           \A f \in Fid : \A p \in Path : Linked(f, p)' /\ Recorded(f, p)' =>
                \/ p \in (torn \cup Pending)' \/ node[f].up # temp
                \/ Linked(f, p) /\ Recorded(f, p) /\ p \notin torn \cup Pending
    PROVE  TrackInv'
BY TrackStays

LEMMA TrackRecord ==
    ASSUME UpInv, TrackInv, RecordFolder
    PROVE  TrackInv'
<1>1. Typed /\ job.at = "record" /\ Pending = {} /\ UNCHANGED <<local, node, torn>>
  BY DEF UpInv, RecordFolder, Pending
<1> DEFINE d == TopUnrecorded
           r == [fid |-> job.fid, kind |-> "dir", size |-> 0]
<1>2. /\ index' = [index EXCEPT ![d] = r] /\ job' = [job EXCEPT !.at = "ensure", !.fid = nowhere]
      /\ r.kind = "dir"
  BY DEF RecordFolder
<1> HIDE DEF d, r
<1>3. job'.at = "ensure" /\ job'.ops = job.ops
  <2>1. job \in Jobs
    BY <1>1 DEF Typed
  <2> QED
    BY <1>2, <2>1 DEF Jobs
<1>4. AtHand' /\ \A f, p : ~Handled(f, p)'
  BY <1>3, RestIsQuiet
<1>5. Links'
  BY <1>1, LinksLast
<1>6. ASSUME NEW f \in Fid, NEW p \in Path
      PROVE  /\ Linked(f, p)' <=> Linked(f, p)
             /\ Recorded(f, p)' => Recorded(f, p)
             /\ (Claimed(f, p)' => Claimed(f, p)) /\ (Held(f, p)' => Held(f, p))
  <2>1. Linked(f, p)' <=> Linked(f, p)
    BY <1>1 DEF Linked
  <2>2. Recorded(f, p)' => Recorded(f, p)
    <3>1. index'[p] = r \/ index'[p] = index[p]
      BY <1>1, <1>2 DEF Typed
    <3> QED
      BY <1>2, <3>1 DEF Recorded
  <2>3. (ToRetire(f, p)' => ToRetire(f, p)) /\ (ToAdopt(f, p)' => ToAdopt(f, p))
    BY <1>3, PlanClaims
  <2> QED
    BY <1>4, <2>1, <2>2, <2>3 DEF Claimed, Held
<1>7. ASSUME NEW f \in Fid, NEW p \in Path, Linked(f, p)', Recorded(f, p)'
      PROVE  \/ p \in (torn \cup Pending)' \/ node[f].up # temp
             \/ Linked(f, p) /\ Recorded(f, p) /\ p \notin torn \cup Pending
  BY <1>1, <1>6, <1>7
<1> QED
  BY <1>1, <1>4, <1>5, <1>6, <1>7, TrackHere

LEMMA TrackPut ==
    ASSUME UpInv, TrackInv, PutRecord
    PROVE  TrackInv'
<1>1. /\ Typed /\ PlanFine /\ StepFine /\ AtHand /\ job.at = "put" /\ job.at # "idle"
      /\ Pending \subseteq {RecordKey}
  BY DEF UpInv, PutRecord, TrackInv, Pending
<1>2. /\ index' = [index EXCEPT ![RecordKey] = Outcome] /\ torn' = torn \ {RecordKey}
      /\ Ended(job.calm) /\ UNCHANGED <<local, node>>
  BY DEF PutRecord, OpDone
<1>3. RecordKey \in Path /\ op.kind \in {"upload", "adopt"}
  BY <1>1, KeyType DEF StepFine, AtKinds
<1>4. /\ job'.at \in {"idle", "begin"}
      /\ \A i \in DOMAIN job'.ops : i + 1 \in DOMAIN job.ops /\ job'.ops[i] = job.ops[i + 1]
  BY <1>1, <1>2, CalmType, EndedFacts
<1>5. AtHand' /\ \A f, p : ~Handled(f, p)'
  BY <1>4, RestIsQuiet
<1>6. Links'
  BY <1>2, LinksLast
<1>7. \A p \in Path : index'[p] = IF p = RecordKey THEN Outcome ELSE index[p]
  BY <1>1, <1>2 DEF Typed
<1>8. ASSUME NEW f \in Fid, NEW p \in Path, Recorded(f, p)'
      PROVE  IF p = RecordKey THEN f = job.fid /\ Handled(f, p) ELSE Recorded(f, p)
  <2>1. CASE p = RecordKey
    <3>1. Outcome.kind = "strm" /\ Outcome.fid = f
      BY <1>7, <1>8, <2>1 DEF Recorded
    <3>2. f = job.fid /\ (op.kind = "upload" => op.video)
      BY <3>1 DEF Outcome
    <3> QED
      BY <1>1, <2>1, <3>2 DEF Handled, Making
  <2>2. CASE p # RecordKey
    BY <1>7, <1>8, <2>2 DEF Recorded
  <2> QED
    BY <2>1, <2>2
<1>9. ASSUME NEW f \in Fid, NEW p \in Path
      PROVE  /\ Linked(f, p)' <=> Linked(f, p)
             /\ (Claimed(f, p)' => Claimed(f, p)) /\ (Held(f, p)' => Held(f, p))
  <2>1. Linked(f, p)' <=> Linked(f, p)
    BY <1>2 DEF Linked
  <2>2. (ToRetire(f, p)' => ToRetire(f, p)) /\ (ToAdopt(f, p)' => ToAdopt(f, p))
    BY <1>4, PlanClaims
  <2>3. Recorded(f, p)' => Held(f, p)
    BY <1>8 DEF Held
  <2> QED
    BY <1>5, <2>1, <2>2, <2>3 DEF Claimed, Held
<1>10. ASSUME NEW f \in Fid, NEW p \in Path, Linked(f, p)', Recorded(f, p)'
       PROVE  \/ p \in (torn \cup Pending)' \/ node[f].up # temp
              \/ Linked(f, p) /\ Recorded(f, p) /\ p \notin torn \cup Pending
  <2>1. CASE p = RecordKey
    BY <1>1, <1>8, <1>10, <2>1 DEF AtHand, Making
  <2>2. CASE p # RecordKey
    <3>1. p \in torn \cup Pending => p \in torn'
      BY <1>1, <1>2, <2>2
    <3> QED
      BY <1>8, <1>9, <1>10, <2>2, <3>1
  <2> QED
    BY <2>1, <2>2
<1> QED
  BY <1>2, <1>5, <1>6, <1>9, <1>10, TrackHere

LEMMA TrackClearTree ==
    ASSUME UpInv, TrackInv, ClearTree
    PROVE  TrackInv'
<1>1. Typed /\ PlanFine /\ job.at = "clear" /\ job.at # "idle" /\ Pending = {op.path}
  BY DEF UpInv, ClearTree, Pending
<1> DEFINE gone == Cleared(op.path)
<1>2. op.path \in gone
  <2>1. op.path \in Path
    BY <1>1, KeyType
  <2>2. op.path \in Subtree(op.path)
    BY <2>1, PathFacts DEF Subtree
  <2>3. \A p \in Path : Rank(p) \in Nat
    <3> SUFFICES ASSUME NEW p \in Path PROVE Rank(p) \in Nat
      OBVIOUS
    <3>1. \E i \in DOMAIN KeyOrder : KeyOrder[i] = p
      BY MirrorUpAssumption
    <3>2. Rank(p) \in DOMAIN KeyOrder
      BY <3>1 DEF Rank
    <3>3. KeyOrder \in Seq(Path)
      BY MirrorUpAssumption
    <3> QED
      BY <3>2, <3>3
  <2> QED
    <3>1. ~\E r \in Path : Rank(op.path) < Rank(r) /\ Rank(r) < Rank(op.path)
      BY <2>1, <2>3
    <3> QED
      BY <2>2, <3>1 DEF Cleared, PassedOver
<1>3. /\ index' = [p \in Path |-> IF p \in gone THEN NoRecord ELSE index[p]]
      /\ torn' = (torn \ gone) \cup PassedOver(op.path)
      /\ Ended(job.calm) /\ UNCHANGED <<local, node>>
  BY DEF ClearTree, OpDone
<1> HIDE DEF gone
<1>4. /\ job'.at \in {"idle", "begin"}
      /\ \A i \in DOMAIN job'.ops : i + 1 \in DOMAIN job.ops /\ job'.ops[i] = job.ops[i + 1]
  BY <1>1, <1>3, CalmType, EndedFacts
<1>5. AtHand' /\ \A f, p : ~Handled(f, p)'
  BY <1>4, RestIsQuiet
<1>6. Links'
  BY <1>3, LinksLast
<1>7. ASSUME NEW f \in Fid, NEW p \in Path
      PROVE  /\ Linked(f, p)' <=> Linked(f, p)
             /\ Recorded(f, p)' => Recorded(f, p) /\ p \notin gone
             /\ (Claimed(f, p)' => Claimed(f, p)) /\ (Held(f, p)' => Held(f, p))
  <2>1. Linked(f, p)' <=> Linked(f, p)
    BY <1>3 DEF Linked
  <2>2. Recorded(f, p)' => Recorded(f, p) /\ p \notin gone
    BY <1>3 DEF Recorded, NoRecord
  <2>3. (ToRetire(f, p)' => ToRetire(f, p)) /\ (ToAdopt(f, p)' => ToAdopt(f, p))
    BY <1>4, PlanClaims
  <2> QED
    BY <1>5, <2>1, <2>2, <2>3 DEF Claimed, Held
<1>8. ASSUME NEW f \in Fid, NEW p \in Path, Linked(f, p)', Recorded(f, p)'
      PROVE  \/ p \in (torn \cup Pending)' \/ node[f].up # temp
             \/ Linked(f, p) /\ Recorded(f, p) /\ p \notin torn \cup Pending
  BY <1>1, <1>2, <1>3, <1>7, <1>8
<1> QED
  BY <1>3, <1>5, <1>6, <1>7, <1>8, TrackHere

LEMMA TrackWriteStrm ==
    ASSUME UpInv, TrackInv, WriteStrm
    PROVE  TrackInv'
<1>1. /\ Typed /\ PlanFine /\ StepFine /\ AtHand /\ Links /\ job.at = "writeStrm" /\ job.at # "idle"
  BY DEF UpInv, WriteStrm, TrackInv
<1>2. CASE OpFails
  BY <1>1, <1>2, TrackFails
<1>3. CASE ~OpFails
  <2> DEFINE t == Strm(job.fid, FALSE)
             l == IF op.kind = "upload" THEN "remove" ELSE "put"
  <2>1. /\ local' = [local EXCEPT ![RecordKey] = t] /\ Goto(l)
        /\ UNCHANGED <<node, index, torn>>
    BY <1>3 DEF WriteStrm
  <2>2. op.kind \in {"upload", "adopt"} /\ (op.kind = "upload" => op.video)
    BY <1>1 DEF StepFine, AtKinds
  <2>3. RecordKey \in Path /\ job.fid \in Fid
    BY <1>1, <2>2, KeyType DEF StepFine, Precious, VideoNode
  <2>4. t.k = "strm" /\ t.pc = job.fid
    BY <2>3, ThingTypes
  <2> HIDE DEF t
  <2>5. \A q \in Path : local'[q] = IF q = RecordKey THEN t ELSE local[q]
    BY <1>1, <2>1 DEF Typed
  <2>6. job'.at = l /\ job'.ops = job.ops /\ job'.fid = job.fid
    BY <2>1, <1>1, GotoFacts DEF Goto, Stages
  <2>7. /\ RecordKey' = RecordKey /\ (Supersedes(job.fid)' <=> Supersedes(job.fid))
        /\ \A f, p : Handled(f, p)' => Handled(f, p)
    BY <1>1, <2>6, SameHandled DEF Making
  <2>8. Links'
    BY <1>1, <2>4, <2>5 DEF Links
  <2>9. AtHand'
    BY <1>1, <2>1, <2>6 DEF AtHand, Making
  <2>10. Pending' = Pending
    BY <1>1, <2>6, <2>7 DEF Pending
  <2>11. ASSUME NEW f \in Fid, NEW p \in Path
         PROVE  /\ Linked(f, p)' => IF p = RecordKey THEN f = job.fid /\ Handled(f, p) ELSE Linked(f, p)
                /\ Recorded(f, p)' <=> Recorded(f, p)
                /\ (Claimed(f, p)' => Claimed(f, p)) /\ (Held(f, p)' => Held(f, p))
    <3>1. Linked(f, p)' => IF p = RecordKey THEN f = job.fid /\ Handled(f, p) ELSE Linked(f, p)
      BY <1>1, <2>2, <2>4, <2>5 DEF Linked, Handled, Making
    <3>2. Recorded(f, p)' <=> Recorded(f, p)
      BY <2>1 DEF Recorded
    <3>3. (ToRetire(f, p)' => ToRetire(f, p)) /\ (ToAdopt(f, p)' => ToAdopt(f, p))
      BY <2>6, PlanClaims
    <3> QED
      BY <2>7, <3>1, <3>2, <3>3 DEF Claimed, Held
  <2>12. ASSUME NEW f \in Fid, NEW p \in Path, Linked(f, p)', Recorded(f, p)'
         PROVE  \/ p \in (torn \cup Pending)' \/ node[f].up # temp
                \/ Linked(f, p) /\ Recorded(f, p) /\ p \notin torn \cup Pending
    <3>1. CASE p = RecordKey
      BY <1>1, <2>11, <2>12, <3>1 DEF AtHand, Making
    <3>2. CASE p # RecordKey
      BY <2>1, <2>10, <2>11, <2>12, <3>2
    <3> QED
      BY <3>1, <3>2
  <2> QED
    BY <2>1, <2>8, <2>9, <2>11, <2>12, TrackHere
<1> QED
  BY <1>2, <1>3

LEMMA TrackRemove ==
    ASSUME UpInv, TrackInv, RemoveOriginal
    PROVE  TrackInv'
<1>1. /\ Typed /\ StepFine /\ AtHand /\ Links /\ job.at = "remove" /\ job.at # "idle"
      /\ UNCHANGED <<node, index, torn>>
  BY DEF UpInv, RemoveOriginal, TrackInv
<1>2. job'.at = "put" /\ job'.ops = job.ops /\ job'.fid = job.fid
  <2>1. job \in Jobs
    BY <1>1 DEF Typed
  <2>2. CASE Goto("put")
    BY <1>1, <2>2, GotoFacts DEF Goto, Stages
  <2>3. CASE job' = [job EXCEPT !.at = "put", !.calm = FALSE]
    BY <2>1, <2>3, JobCalm DEF Stages
  <2> QED
    BY <2>2, <2>3 DEF RemoveOriginal
<1>3. \A p \in Path : local'[p] = local[p] \/ local'[p] = Nothing
  <2>1. CASE local' = [local EXCEPT ![op.path] = Nothing]
    BY <1>1, <2>1 DEF Typed
  <2> QED
    BY <2>1 DEF RemoveOriginal
<1>4. /\ RecordKey' = RecordKey /\ (Supersedes(job.fid)' <=> Supersedes(job.fid))
      /\ \A f, p : Handled(f, p)' => Handled(f, p)
  BY <1>1, <1>2, SameHandled DEF Making
<1>5. Pending' = Pending
  BY <1>1, <1>2, <1>4 DEF Pending
<1>6. Links'
  BY <1>1, <1>3, ThingTypes DEF Links
<1>7. AtHand'
  BY <1>1, <1>2 DEF AtHand, Making
<1>8. ASSUME NEW f \in Fid, NEW p \in Path
      PROVE  /\ Linked(f, p)' => Linked(f, p)
             /\ Recorded(f, p)' <=> Recorded(f, p)
             /\ (Claimed(f, p)' => Claimed(f, p)) /\ (Held(f, p)' => Held(f, p))
  <2>1. Linked(f, p)' => Linked(f, p)
    BY <1>3, ThingTypes DEF Linked
  <2>2. Recorded(f, p)' <=> Recorded(f, p)
    BY <1>1 DEF Recorded
  <2>3. (ToRetire(f, p)' => ToRetire(f, p)) /\ (ToAdopt(f, p)' => ToAdopt(f, p))
    BY <1>2, PlanClaims
  <2> QED
    BY <1>4, <2>1, <2>2, <2>3 DEF Claimed, Held
<1>9. ASSUME NEW f \in Fid, NEW p \in Path, Linked(f, p)', Recorded(f, p)'
      PROVE  \/ p \in (torn \cup Pending)' \/ node[f].up # temp
             \/ Linked(f, p) /\ Recorded(f, p) /\ p \notin torn \cup Pending
  BY <1>1, <1>5, <1>8, <1>9
<1> QED
  BY <1>1, <1>6, <1>7, <1>8, <1>9, TrackHere

LEMMA TrackNormalize ==
    ASSUME UpInv, TrackInv, Normalize
    PROVE  TrackInv'
<1>1. Typed /\ Links /\ job.at = "begin" /\ job.at # "idle" /\ Pending = {}
  BY DEF UpInv, Normalize, Doing, Pending, TrackInv
<1>2. CASE OpFails
  BY <1>1, <1>2, TrackFails
<1>3. CASE ~OpFails
  <2> DEFINE p == op.path
             t == IF local[p].k = "strm" /\ local[p].pc # nowhere THEN [local[p] EXCEPT !.old = FALSE]
                  ELSE local[p]
  <2>1. local' = [local EXCEPT ![p] = t] /\ Ended(job.calm) /\ UNCHANGED <<node, index, torn>>
    BY <1>3 DEF Normalize, OpDone
  <2>2. \A q \in Path : local'[q].k = local[q].k /\ local'[q].pc = local[q].pc
    <3>1. \A q \in Path : local[q] \in Things /\ local'[q] = IF q = p THEN t ELSE local[q]
      BY <1>1, <2>1 DEF Typed
    <3>2. p \in Path => t.k = local[p].k /\ t.pc = local[p].pc
      <4>1. p \in Path => local[p] \in Things
        BY <3>1
      <4> HIDE DEF p
      <4> QED
        BY <4>1 DEF Things
    <3> HIDE DEF p, t
    <3> QED
      BY <3>1, <3>2
  <2> HIDE DEF p, t
  <2>3. /\ job'.at \in {"idle", "begin"}
        /\ \A i \in DOMAIN job'.ops : i + 1 \in DOMAIN job.ops /\ job'.ops[i] = job.ops[i + 1]
    BY <1>1, <2>1, CalmType, EndedFacts
  <2>4. AtHand' /\ \A f, q : ~Handled(f, q)'
    BY <2>3, RestIsQuiet
  <2>5. Links'
    BY <1>1, <2>2 DEF Links
  <2>6. ASSUME NEW f \in Fid, NEW q \in Path
        PROVE  /\ Linked(f, q)' <=> Linked(f, q)
               /\ Recorded(f, q)' <=> Recorded(f, q)
               /\ (Claimed(f, q)' => Claimed(f, q)) /\ (Held(f, q)' => Held(f, q))
    <3>1. (Linked(f, q)' <=> Linked(f, q)) /\ (Recorded(f, q)' <=> Recorded(f, q))
      BY <2>1, <2>2 DEF Linked, Recorded
    <3>2. (ToRetire(f, q)' => ToRetire(f, q)) /\ (ToAdopt(f, q)' => ToAdopt(f, q))
      BY <2>3, PlanClaims
    <3> QED
      BY <2>4, <3>1, <3>2 DEF Claimed, Held
  <2>7. ASSUME NEW f \in Fid, NEW q \in Path, Linked(f, q)', Recorded(f, q)'
        PROVE  \/ q \in (torn \cup Pending)' \/ node[f].up # temp
               \/ Linked(f, q) /\ Recorded(f, q) /\ q \notin torn \cup Pending
    BY <1>1, <2>1, <2>6, <2>7
  <2> QED
    BY <2>1, <2>4, <2>5, <2>6, <2>7, TrackHere
<1> QED
  BY <1>2, <1>3

(* The user's changes: none claims a node that another path claims, unless *)
(* a .strm is moved or copied.                                             *)
LEMMA TrackUser ==
    ASSUME UpInv, TrackInv, NEW new, Edited(new), Links',
           \A f \in Fid : \A p \in Path : Linked(f, p)' =>
                \/ Linked(f, p)
                \/ /\ node[f].up = elsewhere
                   /\ \A q \in Path : Linked(f, q)' \/ ToAdopt(f, q) => q = p
    PROVE  TrackInv'
<1>1. Typed /\ CloudFine /\ AtHand /\ Taken
  BY DEF UpInv, TrackInv
<1>2. UNCHANGED <<node, index, torn>> /\ job' = [job EXCEPT !.calm = FALSE]
  BY DEF Edited
<1>3. job'.at = job.at /\ job'.ops = job.ops /\ job'.fid = job.fid
  <2>1. job \in Jobs
    BY <1>1 DEF Typed
  <2> QED
    BY <1>2, <2>1, JobShaken
<1>4. op' = op
  BY <1>3 DEF op
<1>5. RecordKey' = RecordKey /\ (Supersedes(job.fid)' <=> Supersedes(job.fid))
  BY <1>3, <1>4 DEF RecordKey, Supersedes
<1>6. Pending' = Pending
  BY <1>3, <1>4, <1>5 DEF Pending
<1>7. AtHand'
  BY <1>1, <1>2, <1>3, <1>5 DEF AtHand
<1>8. ASSUME NEW f \in Fid, NEW p \in Path
      PROVE  /\ Recorded(f, p)' <=> Recorded(f, p)
             /\ Held(f, p)' => Held(f, p)
             /\ ToAdopt(f, p)' => ToAdopt(f, p)
  <2>1. Recorded(f, p)' <=> Recorded(f, p)
    BY <1>2 DEF Recorded
  <2>2. Handled(f, p)' => Handled(f, p)
    BY <1>3, <1>4, <1>5 DEF Handled
  <2>3. (ToRetire(f, p)' => ToRetire(f, p)) /\ (ToAdopt(f, p)' => ToAdopt(f, p))
    BY <1>3, PlanClaims
  <2> QED
    BY <2>1, <2>2, <2>3 DEF Held
<1>9. ASSUME NEW f \in Fid, NEW p \in Path, Claimed(f, p)', ~Claimed(f, p)
      PROVE  /\ \A q \in Path : Claimed(f, q)' => q = p
             /\ node[f].name = Root
  <2>1. Linked(f, p)' /\ ~Linked(f, p)
    BY <1>8, <1>9 DEF Claimed
  <2>2. node[f].up = elsewhere /\ \A q \in Path : Linked(f, q)' \/ ToAdopt(f, q) => q = p
    BY <2>1
  <2>3. \A q \in Path : ~Held(f, q)
    BY <2>2, <1>1 DEF Taken
  <2>4. node[f].name = Root
    BY <2>2, <1>1 DEF CloudFine
  <2> QED
    BY <1>8, <2>2, <2>3, <2>4 DEF Claimed
<1>10. ASSUME NEW f \in Fid, NEW p \in Path, Linked(f, p)', Recorded(f, p)' PROVE Linked(f, p)
  <2>1. Held(f, p)
    BY <1>8, <1>10 DEF Held
  <2>2. node[f].up # elsewhere
    BY <1>1, <2>1 DEF Taken
  <2> QED
    BY <1>10, <2>2
<1>11. ASSUME NEW f \in Fid, NEW p \in Path, Linked(f, p)', Recorded(f, p)'
       PROVE  \/ p \in (torn \cup Pending)' \/ node[f].up # temp
              \/ Linked(f, p) /\ Recorded(f, p) /\ p \notin torn \cup Pending
  BY <1>2, <1>6, <1>8, <1>10, <1>11
<1>12. \A f \in Fid : \A p \in Path : Claimed(f, p)' =>
            \/ Claimed(f, p) /\ node'[f].name = node[f].name
            \/ (\A q \in Path : Claimed(f, q)' => q = p) /\ node'[f].name = Root
  BY <1>2, <1>9
<1>13. \A f \in Fid : \A p \in Path : Held(f, p)' => Held(f, p) /\ node'[f].up = node[f].up
  BY <1>2, <1>8
<1>14. \A f \in Fid : \A p \in Path : Linked(f, p)' /\ Recorded(f, p)' =>
            \/ p \in (torn \cup Pending)' \/ node'[f].up # temp
            \/ /\ Linked(f, p) /\ Recorded(f, p) /\ p \notin torn \cup Pending
               /\ node'[f].up = node[f].up
  BY <1>2, <1>11
<1> QED
  BY <1>7, <1>12, <1>13, <1>14, TrackStays

(* Where nothing but a .strm is put, no path gets a claim.                 *)
LEMMA TrackPutting ==
    ASSUME UpInv, TrackInv,
           \/ \E p \in Path, c \in Content : WriteFile(p, c)
           \/ \E p \in Path : MakeDir(p)
           \/ \E p \in Path : Delete(p)
    PROVE  TrackInv'
<1>1. Typed /\ Links
  BY DEF UpInv, TrackInv
<1>2. ASSUME NEW new, Edited(new),
             \A x \in Path : new[x] = local[x] \/ (new[x].k # "strm" /\ new[x].pc = nowhere)
      PROVE  TrackInv'
  <2>1. local' = new
    BY <1>2 DEF Edited
  <2>2. Links'
    BY <1>1, <1>2, <2>1 DEF Links
  <2>3. \A f \in Fid : \A p \in Path : Linked(f, p)' => Linked(f, p)
    BY <1>2, <2>1 DEF Linked
  <2> QED
    BY <1>2, <2>2, <2>3, TrackUser
<1>3. ASSUME NEW p \in Path, NEW t, t.k # "strm", t.pc = nowhere,
             Edited([local EXCEPT ![p] = t])
      PROVE  TrackInv'
  <2>1. \A x \in Path : [local EXCEPT ![p] = t][x] = IF x = p THEN t ELSE local[x]
    BY <1>1 DEF Typed
  <2> QED
    BY <1>2, <1>3, <2>1
<1>4. ASSUME NEW p \in Path, NEW c \in Content, WriteFile(p, c) PROVE TrackInv'
  BY <1>3, <1>4, ThingTypes DEF WriteFile
<1>5. ASSUME NEW p \in Path, MakeDir(p) PROVE TrackInv'
  BY <1>3, <1>5, ThingTypes DEF MakeDir
<1>6. ASSUME NEW p \in Path, Delete(p) PROVE TrackInv'
  <2> DEFINE new == [q \in Path |-> IF q \in Subtree(p) THEN Nothing ELSE local[q]]
  <2>1. \A x \in Path : new[x] = local[x] \/ new[x] = Nothing
    OBVIOUS
  <2>2. Edited(new)
    BY <1>6 DEF Delete
  <2> HIDE DEF new
  <2>3. \A x \in Path : new[x] = local[x] \/ (new[x].k # "strm" /\ new[x].pc = nowhere)
    BY <2>1, ThingTypes
  <2> QED
    BY <1>2, <2>2, <2>3
<1> QED
  BY <1>4, <1>5, <1>6

(* A link to what is elsewhere in the cloud is the first claim to it.      *)
LEMMA TrackWriteLink ==
    ASSUME UpInv, TrackInv,
           NEW p \in Path, NEW f \in Fid \cup {nowhere}, NEW isOld \in BOOLEAN, WriteLink(p, f, isOld)
    PROVE  TrackInv'
<1>1. Typed /\ CloudFine /\ Links /\ nowhere \notin Fid
  BY MirrorUpAssumption DEF UpInv, TrackInv
<1> DEFINE t == Strm(f, isOld)
           new == [local EXCEPT ![p] = t]
<1>2. /\ Edited(new)
      /\ f # nowhere => /\ Place[f] = elsewhere \/ local[p].pc = f
                        /\ \A q \in Path \ {p} : local[q].pc # f
                        /\ \A i \in Coming : job.ops[i].fid = f => job.ops[i].path = p
  BY DEF WriteLink
<1>3. t.k = "strm" /\ t.pc = f
  BY ThingTypes
<1> HIDE DEF t
<1>4. \A x \in Path : local'[x] = IF x = p THEN t ELSE local[x]
  BY <1>1, <1>2 DEF Edited, Typed
<1> HIDE DEF new
<1>5. Links'
  BY <1>1, <1>3, <1>4 DEF Links
<1>6. ASSUME NEW g \in Fid, NEW x \in Path, Linked(g, x)', ~Linked(g, x)
      PROVE  /\ node[g].up = elsewhere
             /\ \A q \in Path : Linked(g, q)' \/ ToAdopt(g, q) => q = x
  <2>1. x = p /\ g = f /\ f # nowhere
    BY <1>1, <1>3, <1>4, <1>6 DEF Linked
  <2>2. local[p].pc # f
    BY <1>1, <1>6, <2>1 DEF Links, Linked
  <2>3. Place[f] = elsewhere
    BY <1>2, <2>1, <2>2
  <2>4. node[f].up = elsewhere
    <3>1. Place[f] = PlaceFrom(Place, f)
      BY <1>1, <2>1, PlaceRecursion
    <3>2. node[f].up \notin Fid
      <4> SUFFICES ASSUME node[f].up \in Fid PROVE FALSE
        OBVIOUS
      <4>1. Place[node[f].up] = elsewhere /\ node[node[f].up].kind = "dir"
        BY <1>1, <2>1, <2>3, <3>1 DEF PlaceFrom, CloudFine
      <4>2. node[node[f].up].kind = "file"
        BY <1>1, <4>1, Elsewhere
      <4> QED
        BY <4>1, <4>2
    <3> QED
      BY <2>3, <3>1, <3>2 DEF PlaceFrom
  <2>5. ASSUME NEW q \in Path, Linked(f, q)' PROVE q = p
    BY <1>2, <1>4, <2>1, <2>5 DEF Linked
  <2>6. ASSUME NEW q \in Path, ToAdopt(f, q) PROVE q = p
    BY <1>2, <2>1, <2>6 DEF ToAdopt, Adopts, Coming
  <2> QED
    BY <2>1, <2>4, <2>5, <2>6
<1> QED
  BY <1>2, <1>5, <1>6, TrackUser

(* What is renamed takes no .strm along, unless it is one or leads to one. *)
LEMMA TrackRename ==
    ASSUME UpInv, TrackInv, ~Moves, HomesStay, NEW p \in Path, NEW q \in Path, Rename(p, q)
    PROVE  TrackInv'
<1>1. Typed /\ LocalFine /\ Links
  BY DEF UpInv, TrackInv
<1> DEFINE new == [x \in Path |->
                IF x \in Subtree(q) THEN IF From(p, q, x) \in Path THEN local[From(p, q, x)] ELSE Nothing
                ELSE IF x \in Subtree(p) THEN Nothing
                ELSE local[x]]
<1>2. p \in Removable /\ Edited(new) /\ p \notin StrmPath
  <2>1. p \in Removable /\ Edited(new)
    BY Zenon DEF Rename, From
  <2>2. p \notin StrmPath
    BY Zenon DEF Rename
  <2> QED
    BY <2>1, <2>2
<1>3. ASSUME NEW x \in Path
      PROVE  \/ new[x] = local[x] \/ new[x] = Nothing
             \/ x \in Subtree(q) /\ From(p, q, x) \in Path /\ new[x] = local[From(p, q, x)]
  OBVIOUS
<1>4. local' = new
  BY <1>2 DEF Edited
<1> HIDE DEF new
<1>5. ASSUME NEW x \in Path, x \in Subtree(q), From(p, q, x) \in Path
      PROVE  local[From(p, q, x)].k # "strm"
  <2> DEFINE y == From(p, q, x)
  <2> SUFFICES ASSUME local[y].k = "strm" PROVE FALSE
    OBVIOUS
  <2>1. y \in StrmPath /\ y \in Path
    BY <1>1, <1>5 DEF LocalFine
  <2>2. IsPrefix(p, y)
    <3> DEFINE s == SubSeq(x, Len(q) + 1, Len(x))
    <3>1. /\ p \in Seq(Names) /\ q \in Seq(Names) /\ x \in Seq(Names) /\ y \in Seq(Names)
          /\ Len(p) \in Nat /\ Len(q) \in Nat /\ Len(x) \in Nat
      BY <2>1, PathType
    <3>2. s \in Seq(Names)
      BY <3>1
    <3>3. y = p \o s
      BY DEF From
    <3> HIDE DEF s, y
    <3>4. /\ Len(p) <= Len(p \o s) /\ \A i \in 1 .. Len(p) : (p \o s)[i] = p[i]
      BY <3>1, <3>2, ConcatProperties
    <3> QED
      BY <3>1, <3>3, <3>4, PrefixPointwise
  <2>3. p # y
    BY <1>2, <2>1
  <2> HIDE DEF y
  <2>4. IsPrefix(p, Up(y)) /\ Up(y) \in DirPath
    BY <2>1, <2>2, <2>3, PathFacts
  <2>5. p \in Home
    BY <2>1, <2>2, <2>4, DirsAbove DEF Home
  <2> QED
    BY <1>2, <2>5 DEF HomesStay
<1>6. \A x \in Path : new[x] = local[x] \/ (new[x].k # "strm" /\ new[x].pc = nowhere)
  BY <1>1, <1>3, <1>5, ThingTypes DEF Links
<1>7. Links'
  BY <1>1, <1>4, <1>6 DEF Links
<1>8. \A f \in Fid : \A x \in Path : Linked(f, x)' => Linked(f, x)
  BY <1>4, <1>6 DEF Linked
<1> QED
  BY <1>2, <1>7, <1>8, TrackUser

LEMMA InitTracked == Init => TrackInv
<1> SUFFICES ASSUME Init PROVE TrackInv
  OBVIOUS
<1>1. /\ \A p \in Path : index[p] = NoRecord
      /\ local \in Start /\ job = Idle
  BY DEF Init
<1>a. \A p \in Path : local[p].pc = nowhere
  <2>1. ASSUME NEW p \in Path PROVE local[p] = Nothing \/ local[p] = Directory \/ \E c \in Content : local[p] = File(c)
    BY <1>1, StartAssumption
  <2> QED
    BY <2>1, ThingTypes
<1>2. job.at = "idle" /\ job.ops = << >> /\ Nothing.k = "none" /\ Nothing.pc = nowhere /\ NoRecord.kind = "none"
  BY <1>1, ThingTypes DEF Idle, NoRecord
<1>3. ASSUME NEW f \in Fid, NEW p \in Path PROVE ~Claimed(f, p)
  BY <1>1, <1>a, <1>2, MirrorUpAssumption DEF Claimed, Held, Linked, Recorded, Handled, Making, ToRetire, ToAdopt
<1>4. ASSUME NEW f \in Fid, NEW p \in Path PROVE ~Held(f, p) /\ ~(Linked(f, p) /\ Recorded(f, p))
  BY <1>3 DEF Claimed, Held
<1>5. Links /\ AtHand
  BY <1>1, <1>a, <1>2 DEF Links, AtHand, Making
<1> QED
  BY <1>3, <1>4, <1>5 DEF TrackInv, Single, Named, Taken, Spared

LEMMA TrackSteps ==
    ASSUME ~Moves, HomesStay, UpInv, TrackInv, [Next]_vars
    PROVE  TrackInv'
<1>1. ASSUME FullScan \/ (\E d \in DirPath : DirScan(d)) \/ (\E p \in Path : FileJob(p)) PROVE TrackInv'
  BY <1>1, TrackBegins
<1>2. ASSUME ApplySteps PROVE TrackInv'
  BY <1>2, TrackStat, TrackFolder, TrackRecord, TrackMkdir, TrackUpload, TrackRetireOld,
     TrackWriteStrm, TrackRemove, TrackPut, TrackAdoptMove, TrackAdoptName, TrackNormalize,
     TrackClearing, TrackClearTree DEF ApplySteps
<1>3. ASSUME Interrupt PROVE TrackInv'
  BY <1>3, TrackInterrupt
<1>4. ASSUME UserSteps PROVE TrackInv'
  BY <1>4, TrackPutting, TrackWriteLink, TrackRename DEF UserSteps
<1>5. ASSUME UNCHANGED vars PROVE TrackInv'
  <2>1. UNCHANGED <<local, node, index, job, torn>>
    BY <1>5 DEF vars
  <2>2. op' = op
    BY <2>1 DEF op
  <2>3. RecordKey' = RecordKey /\ (Supersedes(job.fid)' <=> Supersedes(job.fid))
    BY <2>1, <2>2 DEF RecordKey, Supersedes
  <2>4. Pending' = Pending /\ \A f, p : Handled(f, p)' => Handled(f, p)
    BY <2>1, <2>2, <2>3 DEF Pending, Handled
  <2>5. AtHand'
    BY <2>1, <2>3 DEF TrackInv, AtHand
  <2> QED
    BY <2>1, <2>4, <2>5, TrackRests
<1> QED
  BY <1>1, <1>2, <1>3, <1>4, <1>5 DEF Next

(* Between two jobs nothing is pending.                                    *)
LEMMA TrackedHere == UpInv /\ TrackInv => TrackedIsNotRecycled
<1> SUFFICES ASSUME UpInv, TrackInv, NEW p \in Path \ torn, job.at = "idle",
                    local[p].k = "strm", index[p].kind = "strm", index[p].fid = local[p].pc
             PROVE  Place[local[p].pc] # temp
  BY DEF TrackedIsNotRecycled
<1> DEFINE f == local[p].pc
<1>1. Typed /\ CloudFine /\ IndexFine /\ Spared
  BY DEF UpInv, TrackInv
<1>2. f \in Fid
  BY <1>1 DEF IndexFine, VideoNode
<1>3. Linked(f, p) /\ Recorded(f, p) /\ Pending = {}
  BY DEF Linked, Recorded, Pending
<1> HIDE DEF f
<1>4. node[f].up # temp
  BY <1>1, <1>2, <1>3 DEF Spared
<1>5. Place[f] = IF node[f].up \in Fid THEN Place[node[f].up] ELSE node[f].up
  BY <1>1, <1>2, PlaceRecursion DEF PlaceFrom
<1>6. node[f].up \in Fid => Place[node[f].up] \in {root, nowhere}
  BY <1>1, <1>2, DirPlaces DEF CloudFine
<1>7. Place[f] # temp
  BY <1>4, <1>5, <1>6, MirrorUpAssumption
<1> QED
  BY <1>7 DEF f

(* While .strm files are not moved either, every node has one path that    *)
(* claims it, and what a step of Apply (apply.go) clears away is no other  *)
(* path's: its record goes with it, or is torn when that fails.            *)
THEOREM TrackAlways ==
    ASSUME ~Growing, ~Moves, HomesStay
    PROVE  Spec => []TrackInv
<1>1. Init => TrackInv
  BY InitTracked
<1>2. UpInv /\ TrackInv /\ [Next]_vars => TrackInv'
  BY TrackSteps
<1>3. Spec => []UpInv
  BY UpAlways
<1> QED
  BY <1>1, <1>2, <1>3, PTL DEF Spec

(* Under the same hypotheses: between two jobs, the video on which a .strm *)
(* and its record agree is not in the recycle directory, unless clearing   *)
(* it away was cut short: no plan (plan.go) undoes what it, or one before, *)
(* has done, and no failure or stop makes it do so.                        *)
THEOREM TrackedAlways ==
    ASSUME ~Growing, ~Moves, HomesStay
    PROVE  Spec => []TrackedIsNotRecycled
<1>1. (Spec => []TrackInv) /\ (Spec => []UpInv)
  BY TrackAlways, UpAlways
<1>2. UpInv /\ TrackInv => TrackedIsNotRecycled
  BY TrackedHere
<1> QED
  BY <1>1, <1>2, PTL

=============================================================================
