----------------------------- MODULE MCHyperfox -----------------------------
(* Two exchanges, two live clients, a channel that holds one record.       *)
EXTENDS Hyperfox

CONSTANTS r1, r2, c1, c2

MCRequests == {r1, r2}
MCConns    == {c1, c2}
=============================================================================
