------------------------------ MODULE MCUpload ------------------------------
(* A file of one to three blocks that grows or is rewritten twice; one     *)
(* block is sent in one piece, two in two parts, three in parts of two, so *)
(* that the last is short. One content is known to the service.            *)
EXTENDS Upload, TLC

CONSTANTS x, y, p1, p2
MCBlock == {x, y}
MCContent == {<<x>>, <<x, y>>, <<y, y>>, <<x, y, x>>}
MCPickCode == {p1, p2}
MCElsewhere == {<<x, y>>}
MCPartSize == [n \in 1..MaxBlocks |-> IF n < 3 THEN 1 ELSE 2]
MCSymmetry == Permutations(MCPickCode)

=============================================================================
