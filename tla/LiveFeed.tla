------------------------------ MODULE LiveFeed ------------------------------
(***************************************************************************)
(* websocket_service.go: the websocket clients of GET /live and the        *)
(* broadcasts sent to them.                                                *)
(*                                                                         *)
(* Goroutines: wsAddConn(c) and wsReadMessages(c) for each connection c,   *)
(* wsBroadcast(m) for each message m.  All of them share the map wsClients *)
(* under the mutex wsMu.  A connection and its peer are external           *)
(* (github.com/gorilla/websocket over TCP); they are modelled by what the  *)
(* calls WriteJSON, ReadJSON and Close may do.                             *)
(***************************************************************************)
EXTENDS Naturals, Sequences, FiniteSets

CONSTANTS
  Conns,     \* the connections (*websocket.Conn), never reused
  Messages,  \* the messages, each broadcast by a goroutine of its own
  Hello,     \* the nil message that wsAddConn writes first
  Nobody     \* no goroutine, no connection

ASSUME LiveFeedAssumption ==
  /\ Conns \cap Messages = {}
  /\ Hello \notin Messages
  /\ Nobody \notin Conns \cup Messages

VARIABLES
  clients,  \* wsClients
  mu,       \* what the holder of wsMu is working for, or Nobody
  adder,    \* adder[c]: where wsAddConn(c) is
  reader,   \* reader[c]: where wsReadMessages(c) is
  caster,   \* caster[m]: where wsBroadcast(m) is
  todo,     \* todo[m]: what the loop of wsBroadcast(m) has not visited yet
  writing,  \* writing[m]: the connection wsBroadcast(m) is writing to
  failed,   \* failed[m]: the deferred wsRemoveConn calls of wsBroadcast(m)
  closed,   \* connections closed by conn.Close()
  peer,     \* peer[c]: what the other end of c does
  frames    \* frames[c]: the messages that reached the other end of c

connVars == <<closed, peer, frames>>
castVars == <<caster, todo, writing, failed>>
vars     == <<clients, mu, adder, reader, castVars, connVars>>

Init ==
  /\ clients = {}
  /\ mu      = Nobody
  /\ adder   = [c \in Conns |-> "none"]
  /\ reader  = [c \in Conns |-> "none"]
  /\ caster  = [m \in Messages |-> "none"]
  /\ todo    = [m \in Messages |-> {}]
  /\ writing = [m \in Messages |-> Nobody]
  /\ failed  = [m \in Messages |-> {}]
  /\ closed  = {}
  /\ peer    = [c \in Conns |-> "absent"]
  /\ frames  = [c \in Conns |-> <<>>]

-----------------------------------------------------------------------------
(* The other end of a connection.                                          *)

\* The peer closes, or the network breaks, for good.
Leave(c) ==
  /\ peer[c] = "there"
  /\ peer' = [peer EXCEPT ![c] = "gone"]
  /\ UNCHANGED <<clients, mu, adder, reader, castVars, closed, frames>>

\* wsSendMessage(c, msg) returns, with a nil error when ok.  While a peer that
\* is there does not read, the call does not return: no write deadline is set,
\* so nothing but the peer makes this happen (see PeersRead).  What is written
\* to a peer that is gone may be lost without an error.
Write(c, msg, ok) ==
  \/ /\ c \notin closed
     /\ peer[c] = "there"
     /\ ok
     /\ frames' = [frames EXCEPT ![c] = Append(@, msg)]
  \/ /\ c \in closed => ~ok
     /\ c \in closed \/ peer[c] = "gone"
     /\ frames' = frames

-----------------------------------------------------------------------------
(* liveHandler, wsAddConn                                                  *)

\* The upgrade succeeds and wsAddConn(c) is spawned.  A failed upgrade answers
\* 500 and touches nothing here.
Connect(c) ==
  /\ adder[c] = "none"
  /\ adder' = [adder EXCEPT ![c] = "locking"]
  /\ peer'  = [peer EXCEPT ![c] = "there"]
  /\ UNCHANGED <<clients, mu, reader, castVars, closed, frames>>

\* Fault: the lock is given back before the nil message is written.
HoldBriefly(c) == mu' = mu

Hold(c) == mu' = c

\* wsMu.Lock(), the connection enters the map, its reader is spawned.
AddConn(c) ==
  /\ adder[c] = "locking"
  /\ mu = Nobody
  /\ Hold(c)
  /\ clients' = clients \cup {c}
  /\ reader'  = [reader EXCEPT ![c] = "reading"]
  /\ adder'   = [adder EXCEPT ![c] = "greeting"]
  /\ UNCHANGED <<castVars, connVars>>

\* The nil message is written under wsMu; an error is only logged.
Greet(c) ==
  /\ adder[c] = "greeting"
  /\ \E ok \in BOOLEAN : Write(c, Hello, ok)
  /\ mu'    = Nobody
  /\ adder' = [adder EXCEPT ![c] = "done"]
  /\ UNCHANGED <<clients, reader, castVars, closed, peer>>

-----------------------------------------------------------------------------
(* wsRemoveConn, wsReadMessages                                            *)

\* Fault: the connection is closed and deleted without wsMu.
RemoveConnUnlocked(c) ==
  /\ closed'  = closed \cup (clients \cap {c})
  /\ clients' = clients \ {c}

\* Fault: the connection is closed and stays in the map.
RemoveConnKeeps(c) ==
  /\ mu = Nobody
  /\ closed'  = closed \cup (clients \cap {c})
  /\ clients' = clients

\* wsRemoveConn(c), from Lock to Unlock: nothing in it blocks.
RemoveConn(c) ==
  /\ mu = Nobody
  /\ closed'  = closed \cup (clients \cap {c})
  /\ clients' = clients \ {c}

\* Fault: the reader returns without its deferred wsRemoveConn.
ReadErrorForgets(c) ==
  /\ reader[c] = "reading"
  /\ reader' = [reader EXCEPT ![c] = "ended"]
  /\ UNCHANGED <<clients, mu, adder, castVars, connVars>>

\* ReadJSON fails: the peer sent something other than a JSON object of strings,
\* left, or the connection was closed here.  A good message changes nothing.
ReadError(c) ==
  /\ reader[c] = "reading"
  /\ reader' = [reader EXCEPT ![c] = "leaving"]
  /\ UNCHANGED <<clients, mu, adder, castVars, connVars>>

\* The deferred wsRemoveConn of the reader.
ReaderRemoves(c) ==
  /\ reader[c] = "leaving"
  /\ RemoveConn(c)
  /\ reader' = [reader EXCEPT ![c] = "ended"]
  /\ UNCHANGED <<mu, adder, castVars, peer, frames>>

-----------------------------------------------------------------------------
(* wsBroadcast                                                             *)

Broadcast(m) ==
  /\ caster[m] = "none"
  /\ caster' = [caster EXCEPT ![m] = "locking"]
  /\ UNCHANGED <<clients, mu, adder, reader, todo, writing, failed, connVars>>

LockBroadcast(m) ==
  /\ caster[m] = "locking"
  /\ mu = Nobody
  /\ mu'     = m
  /\ caster' = [caster EXCEPT ![m] = "sending"]
  /\ todo'   = [todo EXCEPT ![m] = clients]
  /\ UNCHANGED <<clients, adder, reader, writing, failed, connVars>>

\* The loop takes its next connection, in the random order of a map.
Visit(m) ==
  /\ caster[m] = "sending"
  /\ writing[m] = Nobody
  /\ \E c \in todo[m] :
       /\ writing' = [writing EXCEPT ![m] = c]
       /\ todo'    = [todo EXCEPT ![m] = @ \ {c}]
  /\ UNCHANGED <<clients, mu, adder, reader, caster, failed, connVars>>

\* Fault: the loop returns at the first error.
TodoOrStop(m, ok) == IF ok THEN todo[m] ELSE {}

\* What the loop has still to visit after a write.
TodoAfter(m, ok) == todo[m]

\* The write returns; on an error the removal is deferred.
Send(m) ==
  /\ caster[m] = "sending"
  /\ writing[m] # Nobody
  /\ \E ok \in BOOLEAN :
       /\ Write(writing[m], m, ok)
       /\ failed' = IF ok THEN failed
                    ELSE [failed EXCEPT ![m] = @ \cup {writing[m]}]
       /\ todo' = [todo EXCEPT ![m] = TodoAfter(m, ok)]
  /\ writing' = [writing EXCEPT ![m] = Nobody]
  /\ UNCHANGED <<clients, mu, adder, reader, caster, closed, peer>>

\* Fault: the loop is over while a write is under way.
LoopOverEarly(m) == todo[m] = {}

LoopOver(m) == writing[m] = Nobody /\ todo[m] = {}

\* Fault: wsRemoveConn is called inside the loop, under wsMu.
UnlockLast(m) == mu' = IF failed[m] = {} THEN Nobody ELSE mu

Unlock(m) == mu' = Nobody

\* wsMu.Unlock(); the deferred calls run after it.
EndBroadcast(m) ==
  /\ caster[m] = "sending"
  /\ LoopOver(m)
  /\ Unlock(m)
  /\ caster' = [caster EXCEPT ![m] = IF failed[m] = {} THEN "done" ELSE "removing"]
  /\ UNCHANGED <<clients, adder, reader, todo, writing, failed, connVars>>

\* One deferred wsRemoveConn; their order is that of the loop, reversed.
CastRemoves(m) ==
  /\ caster[m] = "removing"
  /\ \E c \in failed[m] :
       /\ RemoveConn(c)
       /\ failed' = [failed EXCEPT ![m] = @ \ {c}]
       /\ caster' = [caster EXCEPT ![m] = IF failed[m] = {c} THEN "done" ELSE @]
  /\ UNCHANGED <<mu, adder, reader, todo, writing, peer, frames>>

-----------------------------------------------------------------------------
Next ==
  \/ \E c \in Conns :
       \/ Connect(c) \/ AddConn(c) \/ Greet(c)
       \/ ReadError(c) \/ ReaderRemoves(c) \/ Leave(c)
  \/ \E m \in Messages :
       \/ Broadcast(m) \/ LockBroadcast(m) \/ Visit(m) \/ Send(m)
       \/ EndBroadcast(m) \/ CastRemoves(m)

\* A runnable goroutine runs.  Weak fairness is enough for wsMu: the goroutines
\* take it a bounded number of times, so a waiter that is never served would see
\* it free for ever.  A read or a write returns once the connection is broken.
Progress ==
  /\ \A c \in Conns :
       /\ WF_vars(AddConn(c)) /\ WF_vars(Greet(c) /\ peer[c] = "gone")
       /\ WF_vars(ReadError(c) /\ (peer[c] = "gone" \/ c \in closed))
       /\ WF_vars(ReaderRemoves(c))
  /\ \A m \in Messages :
       /\ WF_vars(LockBroadcast(m)) /\ WF_vars(Visit(m))
       /\ WF_vars(Send(m) /\ peer[writing[m]] = "gone")
       /\ WF_vars(EndBroadcast(m)) /\ WF_vars(CastRemoves(m))

\* No peer keeps a write waiting for ever.  The server cannot enforce it.
PeersRead ==
  /\ \A c \in Conns : WF_vars(Greet(c))
  /\ \A m \in Messages : WF_vars(Send(m))

Spec     == Init /\ [][Next]_vars
FairSpec == Spec /\ Progress /\ PeersRead

-----------------------------------------------------------------------------
(* Properties                                                              *)

\* Every variable holds values of its kind, and a broadcast has a write under
\* way only inside its loop and removals to make only before it is done.
TypeOK ==
  /\ clients \in SUBSET Conns
  /\ mu \in Conns \cup Messages \cup {Nobody}
  /\ adder \in [Conns -> {"none", "locking", "greeting", "done"}]
  /\ reader \in [Conns -> {"none", "reading", "leaving", "ended"}]
  /\ caster \in [Messages -> {"none", "locking", "sending", "removing", "done"}]
  /\ todo \in [Messages -> SUBSET Conns]
  /\ writing \in [Messages -> Conns \cup {Nobody}]
  /\ failed \in [Messages -> SUBSET Conns]
  /\ closed \in SUBSET Conns
  /\ peer \in [Conns -> {"absent", "there", "gone"}]
  /\ frames \in [Conns -> Seq(Messages \cup {Hello})]
  /\ \A m \in Messages :
       /\ writing[m] # Nobody => caster[m] = "sending"
       /\ failed[m] # {} => caster[m] \in {"sending", "removing"}

\* The goroutines inside wsSendMessage(c, ...).
WritersOf(c) == {m \in Messages : writing[m] = c} \cup
                {d \in {c} : adder[d] = "greeting"}

\* A connection never has two concurrent writers, which gorilla/websocket does
\* not support: wsAddConn and every wsBroadcast write to it one at a time.
OneWriterPerConn == \A c \in Conns : \A g, h \in WritersOf(c) : g = h

\* No goroutine writes to a connection that wsRemoveConn has closed.
NoWriteAfterClose == \A c \in closed : WritersOf(c) = {}

\* The first frame a client gets is the nil message, and it gets it once; after
\* it, no broadcast reaches it twice.
FramesInOrder ==
  \A c \in Conns : \A i, j \in DOMAIN frames[c] :
    /\ frames[c][i] = Hello <=> i = 1
    /\ frames[c][i] = frames[c][j] => i = j

\* A connection whose reader has returned is no longer in wsClients: a reader
\* that fails at once cannot run its removal before wsAddConn has registered
\* the connection, and nothing registers it again.
EndedReaderUnregistered ==
  \A c \in Conns : reader[c] = "ended" => c \notin clients

\* Every wsBroadcast returns: wsMu is never waited for by its own holder.
BroadcastsEnd ==
  \A m \in Messages : caster[m] = "locking" ~> caster[m] = "done"

\* A connection whose peer has left is closed here too: neither the goroutines
\* nor the entry in wsClients nor the socket of a departed client is kept.
GoneIsClosed ==
  \A c \in Conns : peer[c] = "gone" ~> c \in closed /\ reader[c] = "ended"
=============================================================================
