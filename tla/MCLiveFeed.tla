----------------------------- MODULE MCLiveFeed -----------------------------
(* Two clients and two broadcasts.                                         *)
EXTENDS LiveFeed

CONSTANTS c1, c2, m1, m2

MCConns    == {c1, c2}
MCMessages == {m1, m2}
=============================================================================
