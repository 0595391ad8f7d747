----------------------------- MODULE MCRecorder -----------------------------
(* Three exchanges and a channel that holds one record.                    *)
EXTENDS Recorder

CONSTANTS r1, r2, r3

MCRequests == {r1, r2, r3}
=============================================================================
