----------------------------- MODULE MCLogFeed -----------------------------
(* A ring of two entries. One browser: they share nothing but the ring,    *)
(* and no step of one changes what another one sees.                       *)
EXTENDS LogFeed, TLC

CONSTANT c1
MCClient == {c1}

=============================================================================
