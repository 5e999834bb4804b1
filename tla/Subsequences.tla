---------------------------- MODULE Subsequences ----------------------------
(***************************************************************************)
(* The entries of a sequence at a set of positions, kept in order: what an *)
(* in-place filter of a slice leaves. It is written with the rank of a     *)
(* position in the set, which is what a proof can use (WorkQueueProofs);   *)
(* MCWorkQueue compares it with the library's SelectSeq.                   *)
(***************************************************************************)
EXTENDS Naturals, FiniteSets

RankIn(I, i) == Cardinality({j \in I : j <= i})

NthOf(I, n) == CHOOSE i \in I : RankIn(I, i) = n

SelectAt(s, I) == [n \in 1 .. Cardinality(I) |-> s[NthOf(I, n)]]

=============================================================================
