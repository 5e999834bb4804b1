----------------------------- MODULE MCHandover -----------------------------
(* A video of one block that may grow to two, or be cut to one: a copy is  *)
(* empty, a part of it, or whole. One pickcode, so that a second upload of *)
(* the same content gets the node there is, and a second Move the entry.   *)
EXTENDS Handover

CONSTANTS x, p1, d1, d2
MCBlock == {x}
MCContent == {<<x>>, <<x, x>>}
MCPickCode == {p1}
MCDir == {d1, d2}

=============================================================================
