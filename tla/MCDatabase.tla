---------------------------- MODULE MCDatabase ----------------------------
(* Three processes, each with -db, for any file, or without.               *)
EXTENDS Database

CONSTANTS p1, p2, p3, other

MCProcs == {p1, p2, p3}
MCOtherNames == {other}
=============================================================================
