------------------------------ MODULE Hyperfox ------------------------------
(***************************************************************************)
(* main.go 126-147: one process, from the exchange that was proxied to the *)
(* clients of GET /live.  The goroutine that saves a record is the one     *)
(* that broadcasts its id, so the recorder and the live feed meet in       *)
(* wsBroadcast: its call is Announce, its return Announced.  A broadcast   *)
(* is named by the exchange whose record it announces.                     *)
(***************************************************************************)
EXTENDS Naturals, Sequences

CONSTANTS Requests, Cap, Conns, Hello, Nobody

\* What Recorder and LiveFeed assume of theirs.
ASSUME HyperfoxAssumption ==
  /\ Cap \in Nat \ {0}
  /\ Conns \cap Requests = {}
  /\ Hello \notin Requests
  /\ Nobody \notin Conns \cup Requests

VARIABLES
  exchange, ch, saving, db, process,
  clients, mu, adder, reader, caster, todo, writing, failed,
  closed, peer, frames,
  baseline  \* history: baseline[c] is the table when c got the nil message

R == INSTANCE Recorder
L == INSTANCE LiveFeed WITH Messages <- Requests

recorderVars == <<exchange, ch, saving, db, process>>
feedVars     == <<clients, mu, adder, reader, caster, todo, writing, failed,
                  closed, peer, frames, baseline>>
vars         == <<recorderVars, feedVars>>

Init ==
  /\ R!Init
  /\ L!Init
  /\ baseline = [c \in Conns |-> {}]

-----------------------------------------------------------------------------
\* A step of the recorder alone; of the live feed alone, while the process is
\* there to take it.
Record(A) == A /\ UNCHANGED feedVars
Feed(A)   == process = "up" /\ A /\ UNCHANGED <<recorderVars, baseline>>

Greet(c) ==
  /\ process = "up"
  /\ L!Greet(c)
  /\ baseline' = [baseline EXCEPT ![c] = R!Stored]
  /\ UNCHANGED recorderVars

\* wsBroadcast is called with the id that Insert returned.
Announce(r) ==
  /\ process = "up"
  /\ saving[r] = "notify"
  /\ L!Broadcast(r)
  /\ UNCHANGED <<recorderVars, baseline>>

\* wsBroadcast has returned, after its deferred removals.
Announced(r) ==
  /\ caster[r] = "done"
  /\ R!Notify(r)
  /\ UNCHANGED feedVars

\* One life of the process: Exit and Restart, after which there is no live
\* client, are left to Recorder.
Next ==
  \/ Record(R!Receive)
  \/ \E r \in Requests :
       \/ Record(R!Serve(r)) \/ Record(R!Refuse(r)) \/ Record(R!Close(r))
       \/ Record(R!SendRecord(r))
       \/ Record(R!Insert(r)) \/ Record(R!InsertFails(r))
       \/ Announce(r) \/ Announced(r)
       \/ Feed(L!LockBroadcast(r)) \/ Feed(L!Visit(r)) \/ Feed(L!Send(r))
       \/ Feed(L!EndBroadcast(r)) \/ Feed(L!CastRemoves(r))
  \/ \E c \in Conns :
       \/ Feed(L!Connect(c)) \/ Feed(L!AddConn(c)) \/ Greet(c)
       \/ Feed(L!ReadError(c)) \/ Feed(L!ReaderRemoves(c)) \/ Feed(L!Leave(c))

\* What the recorder's goroutines do by themselves.  No fairness of a write:
\* a live client may stop reading for ever.
Fairness ==
  /\ WF_vars(Record(R!Receive))
  /\ \A r \in Requests :
       WF_vars(Record(R!SendRecord(r))) /\ WF_vars(Record(R!Insert(r)))

Spec     == Init /\ [][Next]_vars
FairSpec == Spec /\ Fairness

-----------------------------------------------------------------------------
(* Properties                                                              *)

\* wsBroadcast of r has still to write to c.
WillBeTold(c, r) ==
  \/ saving[r] = "notify" /\ caster[r] \in {"none", "locking"}
  \/ caster[r] = "sending" /\ (c \in todo[r] \/ writing[r] = c)

\* A live client that is still connected can find every record: it was in the
\* table when the client got the nil message, which is when a client reads the
\* list, or its id has reached the client, or a broadcast on its way will still
\* write to it.  No order of connecting, storing, broadcasting, failing and
\* removing other clients leaves a record that the client is never told of.
NoMissedRecord ==
  \A c \in clients : process = "up" /\ adder[c] = "done" /\ peer[c] = "there" =>
    \A r \in R!Stored :
      r \in baseline[c] \/ r \in R!Range(frames[c]) \/ WillBeTold(c, r)

\* No live client has the id of a record that cannot be read back.
ToldIsStored ==
  \A c \in Conns : \A r \in Requests : r \in R!Range(frames[c]) => r \in R!Stored

\* Recording does not wait for live clients: with one that never reads again,
\* and wsMu held for ever, every relayed exchange is still stored (or an
\* insert fails first).
StalledClientLosesNothing ==
  \A r \in Requests :
    exchange[r] = "closing" ~> r \in R!Stored \/ process = "panicked"
=============================================================================
