----------------------------- MODULE MCStartup -----------------------------
(* Two requests, and every choice of flags. *)
EXTENDS Startup

CONSTANTS r1, r2

MCRequests == {r1, r2}
=============================================================================
