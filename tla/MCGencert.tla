----------------------------- MODULE MCGencert -----------------------------
(* Three handshakes for one host, two root CAs.                            *)
EXTENDS Gencert, TLC

CONSTANTS h1, h2, h3, n1, k1, k2

MCHandshakes == {h1, h2, h3}
MCHosts      == {n1}
MCRoots      == {k1, k2}
MCHostOf     == h1 :> n1 @@ h2 :> n1 @@ h3 :> n1
=============================================================================
