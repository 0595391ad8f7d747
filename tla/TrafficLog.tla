----------------------------- MODULE TrafficLog -----------------------------
(***************************************************************************)
(* What hyperfox promises of the traffic it captures, without the channel, *)
(* the goroutines and the database: a record that was taken is stored      *)
(* once, unless the process dies first, and what is stored stays.          *)
(***************************************************************************)
EXTENDS Sequences

CONSTANT Requests  \* the proxied exchanges

VARIABLES
  taken,    \* exchanges whose record was ever handed over
  pending,  \* those not stored yet
  log       \* the records stored, in the order of their ids

vars == <<taken, pending, log>>

Init ==
  /\ taken   = {}
  /\ pending = {}
  /\ log     = <<>>

Take(r) ==
  /\ r \notin taken
  /\ taken'   = taken \cup {r}
  /\ pending' = pending \cup {r}
  /\ UNCHANGED log

Store(r) ==
  /\ r \in pending
  /\ pending' = pending \ {r}
  /\ log'     = Append(log, r)
  /\ UNCHANGED taken

\* The process dies with what it has not stored.
Drop ==
  /\ pending # {}
  /\ pending' = {}
  /\ UNCHANGED <<taken, log>>

Next == Drop \/ \E r \in Requests : Take(r) \/ Store(r)

Spec     == Init /\ [][Next]_vars
FairSpec == Spec /\ \A r \in Requests : WF_vars(Store(r))
=============================================================================
