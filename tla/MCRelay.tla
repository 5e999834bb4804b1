------------------------------ MODULE MCRelay ------------------------------
(* Three requests, so that two can share what a third changes, or queue    *)
(* behind it. The proofs speak of any number.                              *)
EXTENDS Relay, TLC

CONSTANTS r1, r2, r3
MCRequest == {r1, r2, r3}

=============================================================================
