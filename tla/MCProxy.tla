------------------------------ MODULE MCProxy ------------------------------
(* Two requests; two writers, the capture tool last; bodies of 0 or 1 chunk *)
(* up and 0 to 2 down; a channel that holds one record.                    *)
EXTENDS Proxy

CONSTANTS r1, r2

MCRequests == {r1, r2}
=============================================================================
