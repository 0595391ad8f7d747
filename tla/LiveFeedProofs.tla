--------------------------- MODULE LiveFeedProofs ---------------------------
(***************************************************************************)
(* Proofs about LiveFeed, for any connections and any broadcasts.          *)
(***************************************************************************)
EXTENDS LiveFeed, TLAPS

-----------------------------------------------------------------------------
(* Type correctness                                                        *)

\* The initial state is well typed.
LEMMA InitTypeOK == Init => TypeOK
BY DEF Init, TypeOK

\* One write, by whoever makes it, keeps the frames well typed.
LEMMA WriteType ==
  ASSUME TypeOK, NEW c \in Conns, NEW msg \in Messages \cup {Hello},
         NEW ok \in BOOLEAN, Write(c, msg, ok)
  PROVE  frames' \in [Conns -> Seq(Messages \cup {Hello})]
<1> frames \in [Conns -> Seq(Messages \cup {Hello})] BY DEF TypeOK
<1>1. CASE frames' = frames BY <1>1
<1>2. CASE frames' = [frames EXCEPT ![c] = Append(@, msg)]
  <2>1. Append(frames[c], msg) \in Seq(Messages \cup {Hello}) OBVIOUS
  <2> QED BY <1>2, <2>1
<1> QED BY <1>1, <1>2 DEF Write

\* Every step keeps the types.
LEMMA StepTypeOK == TypeOK /\ [Next]_vars => TypeOK'
<1> SUFFICES ASSUME TypeOK, [Next]_vars PROVE TypeOK' OBVIOUS
<1> USE LiveFeedAssumption
<1>1. ASSUME NEW c \in Conns, Connect(c) PROVE TypeOK'
  BY <1>1 DEF TypeOK, Connect, castVars
<1>2. ASSUME NEW c \in Conns, AddConn(c) PROVE TypeOK'
  BY <1>2 DEF TypeOK, AddConn, Hold, castVars, connVars
<1>3. ASSUME NEW c \in Conns, Greet(c) PROVE TypeOK'
  <2>1. frames' \in [Conns -> Seq(Messages \cup {Hello})]
    BY <1>3, WriteType DEF Greet
  <2> QED BY <1>3, <2>1 DEF TypeOK, Greet, castVars
<1>4. ASSUME NEW c \in Conns, ReadError(c) PROVE TypeOK'
  BY <1>4 DEF TypeOK, ReadError, castVars, connVars
<1>5. ASSUME NEW c \in Conns, ReaderRemoves(c) PROVE TypeOK'
  BY <1>5 DEF TypeOK, ReaderRemoves, RemoveConn, castVars
<1>6. ASSUME NEW c \in Conns, Leave(c) PROVE TypeOK'
  BY <1>6 DEF TypeOK, Leave, castVars
<1>7. ASSUME NEW m \in Messages, Broadcast(m) PROVE TypeOK'
  BY <1>7 DEF TypeOK, Broadcast, connVars
<1>8. ASSUME NEW m \in Messages, LockBroadcast(m) PROVE TypeOK'
  BY <1>8 DEF TypeOK, LockBroadcast, connVars
<1>9. ASSUME NEW m \in Messages, Visit(m) PROVE TypeOK'
  BY <1>9 DEF TypeOK, Visit, connVars
<1>10. ASSUME NEW m \in Messages, Send(m) PROVE TypeOK'
  <2>1. writing[m] \in Conns BY <1>10 DEF TypeOK, Send, TodoAfter
  <2>2. frames' \in [Conns -> Seq(Messages \cup {Hello})]
    BY <1>10, <2>1, WriteType DEF Send, TodoAfter
  <2>3. failed' \in [Messages -> SUBSET Conns]
    BY <1>10, <2>1 DEF TypeOK, Send, TodoAfter
  <2> QED BY <1>10, <2>1, <2>2, <2>3 DEF TypeOK, Send, TodoAfter
<1>11. ASSUME NEW m \in Messages, EndBroadcast(m) PROVE TypeOK'
  BY <1>11 DEF TypeOK, EndBroadcast, LoopOver, Unlock, connVars
<1>12. ASSUME NEW m \in Messages, CastRemoves(m) PROVE TypeOK'
  BY <1>12 DEF TypeOK, CastRemoves, RemoveConn
<1>13. ASSUME UNCHANGED vars PROVE TypeOK'
  BY <1>13 DEF TypeOK, vars, castVars, connVars
<1> QED
  BY <1>1, <1>2, <1>3, <1>4, <1>5, <1>6, <1>7, <1>8, <1>9, <1>10, <1>11, <1>12, <1>13
     DEF Next

\* The type invariant of LiveFeed.
THEOREM TypeCorrect == Spec => []TypeOK
BY InitTypeOK, StepTypeOK, PTL DEF Spec

-----------------------------------------------------------------------------
(* The mutex and the life of a connection                                  *)

\* Whoever is inside a critical section that has several steps holds wsMu.
LockInv ==
  /\ \A c \in Conns : adder[c] = "greeting" => mu = c
  /\ \A m \in Messages : caster[m] = "sending" => mu = m

\* A connection is registered once, by wsAddConn, which starts its reader, and
\* is closed when it is unregistered.
LifeInv ==
  /\ clients \cap closed = {}
  /\ \A c \in clients \cup closed : adder[c] \in {"greeting", "done"}
  /\ \A c \in Conns : adder[c] = "greeting" => c \in clients
  /\ \A c \in clients : reader[c] # "ended"

\* What a broadcast still has to write to is registered: wsMu is held.
CastInv ==
  \A m \in Messages : caster[m] = "sending" =>
    /\ todo[m] \subseteq clients
    /\ writing[m] # Nobody => writing[m] \in clients

IInv == TypeOK /\ LockInv /\ LifeInv /\ CastInv

\* The initial state satisfies the inductive invariant.
LEMMA InitIInv == Init => IInv
BY InitTypeOK, LiveFeedAssumption DEF Init, IInv, LockInv, LifeInv, CastInv

\* Every step keeps the mutex, the connections and the broadcasts consistent.
LEMMA StepIInv == IInv /\ [Next]_vars => IInv'
<1> SUFFICES ASSUME IInv, [Next]_vars PROVE IInv'
  OBVIOUS
<1> USE LiveFeedAssumption
<1>0. TypeOK' BY StepTypeOK DEF IInv
<1>1. ASSUME NEW c \in Conns, Connect(c) PROVE LockInv' /\ LifeInv' /\ CastInv'
  <2> USE <1>1 DEF IInv, TypeOK, Connect, castVars, connVars
  <2>1. LockInv' BY DEF LockInv
  <2>2. LifeInv' BY DEF LifeInv, LockInv
  <2>3. CastInv' BY DEF CastInv, LifeInv, LockInv
  <2> QED BY <2>1, <2>2, <2>3
<1>2. ASSUME NEW c \in Conns, AddConn(c) PROVE LockInv' /\ LifeInv' /\ CastInv'
  <2> USE <1>2 DEF IInv, TypeOK, AddConn, Hold, castVars, connVars
  <2>1. LockInv' BY DEF LockInv
  <2>2. LifeInv' BY DEF LifeInv, LockInv
  <2>3. CastInv' BY DEF CastInv, LifeInv, LockInv
  <2> QED BY <2>1, <2>2, <2>3
<1>3. ASSUME NEW c \in Conns, Greet(c) PROVE LockInv' /\ LifeInv' /\ CastInv'
  <2> USE <1>3 DEF IInv, TypeOK, Greet, castVars, connVars
  <2>1. LockInv' BY DEF LockInv
  <2>2. LifeInv' BY DEF LifeInv, LockInv
  <2>3. CastInv' BY DEF CastInv, LifeInv, LockInv
  <2> QED BY <2>1, <2>2, <2>3
<1>4. ASSUME NEW c \in Conns, ReadError(c) PROVE LockInv' /\ LifeInv' /\ CastInv'
  <2> USE <1>4 DEF IInv, TypeOK, ReadError, castVars, connVars
  <2>1. LockInv' BY DEF LockInv
  <2>2. LifeInv' BY DEF LifeInv, LockInv
  <2>3. CastInv' BY DEF CastInv, LifeInv, LockInv
  <2> QED BY <2>1, <2>2, <2>3
<1>5. ASSUME NEW c \in Conns, ReaderRemoves(c) PROVE LockInv' /\ LifeInv' /\ CastInv'
  <2> USE <1>5 DEF IInv, TypeOK, ReaderRemoves, RemoveConn, castVars, connVars
  <2>1. LockInv' BY DEF LockInv
  <2>2. LifeInv' BY DEF LifeInv, LockInv
  <2>3. CastInv' BY DEF CastInv, LifeInv, LockInv
  <2> QED BY <2>1, <2>2, <2>3
<1>6. ASSUME NEW c \in Conns, Leave(c) PROVE LockInv' /\ LifeInv' /\ CastInv'
  <2> USE <1>6 DEF IInv, TypeOK, Leave, castVars, connVars
  <2>1. LockInv' BY DEF LockInv
  <2>2. LifeInv' BY DEF LifeInv, LockInv
  <2>3. CastInv' BY DEF CastInv, LifeInv, LockInv
  <2> QED BY <2>1, <2>2, <2>3
<1>7. ASSUME NEW m \in Messages, Broadcast(m) PROVE LockInv' /\ LifeInv' /\ CastInv'
  <2> USE <1>7 DEF IInv, TypeOK, Broadcast, castVars, connVars
  <2>1. LockInv' BY DEF LockInv
  <2>2. LifeInv' BY DEF LifeInv, LockInv
  <2>3. CastInv' BY DEF CastInv, LifeInv, LockInv
  <2> QED BY <2>1, <2>2, <2>3
<1>8. ASSUME NEW m \in Messages, LockBroadcast(m) PROVE LockInv' /\ LifeInv' /\ CastInv'
  <2> USE <1>8 DEF IInv, TypeOK, LockBroadcast, castVars, connVars
  <2>1. LockInv' BY DEF LockInv
  <2>2. LifeInv' BY DEF LifeInv, LockInv
  <2>3. CastInv' BY DEF CastInv, LifeInv, LockInv
  <2> QED BY <2>1, <2>2, <2>3
<1>9. ASSUME NEW m \in Messages, Visit(m) PROVE LockInv' /\ LifeInv' /\ CastInv'
  <2> USE <1>9 DEF IInv, TypeOK, Visit, castVars, connVars
  <2>1. LockInv' BY DEF LockInv
  <2>2. LifeInv' BY DEF LifeInv, LockInv
  <2>3. CastInv' BY DEF CastInv, LifeInv, LockInv
  <2> QED BY <2>1, <2>2, <2>3
<1>10. ASSUME NEW m \in Messages, Send(m) PROVE LockInv' /\ LifeInv' /\ CastInv'
  <2> USE <1>10 DEF IInv, TypeOK, Send, TodoAfter, castVars, connVars
  <2>1. LockInv' BY DEF LockInv
  <2>2. LifeInv' BY DEF LifeInv, LockInv
  <2>3. CastInv' BY DEF CastInv, LifeInv, LockInv
  <2> QED BY <2>1, <2>2, <2>3
<1>11. ASSUME NEW m \in Messages, EndBroadcast(m) PROVE LockInv' /\ LifeInv' /\ CastInv'
  <2> USE <1>11 DEF IInv, TypeOK, EndBroadcast, LoopOver, Unlock, castVars, connVars
  <2>1. LockInv' BY DEF LockInv
  <2>2. LifeInv' BY DEF LifeInv, LockInv
  <2>3. CastInv' BY DEF CastInv, LifeInv, LockInv
  <2> QED BY <2>1, <2>2, <2>3
<1>12. ASSUME NEW m \in Messages, CastRemoves(m) PROVE LockInv' /\ LifeInv' /\ CastInv'
  <2> USE <1>12 DEF IInv, TypeOK, CastRemoves, RemoveConn, castVars, connVars
  <2>1. LockInv' BY DEF LockInv
  <2>2. LifeInv' BY DEF LifeInv, LockInv
  <2>3. CastInv' BY DEF CastInv, LifeInv, LockInv
  <2> QED BY <2>1, <2>2, <2>3
<1>13. ASSUME UNCHANGED vars PROVE LockInv' /\ LifeInv' /\ CastInv'
  BY <1>13 DEF IInv, LockInv, LifeInv, CastInv, vars, castVars, connVars
<1> QED
  BY <1>0, <1>1, <1>2, <1>3, <1>4, <1>5, <1>6, <1>7, <1>8, <1>9, <1>10, <1>11,
     <1>12, <1>13 DEF Next, IInv

\* The inductive invariant of LiveFeed.
LEMMA Inductive == Spec => []IInv
BY InitIInv, StepIInv, PTL DEF Spec

-----------------------------------------------------------------------------
(* What follows                                                            *)

\* Whoever writes to a connection holds wsMu, and the connection is registered.
LEMMA WriterHoldsMutex ==
  ASSUME IInv, NEW c \in Conns, NEW g \in WritersOf(c)
  PROVE  mu = g /\ c \in clients
<1> USE LiveFeedAssumption
<1>1. CASE g \in Messages /\ writing[g] = c
  <2>1. writing[g] # Nobody /\ caster[g] = "sending"
    BY <1>1 DEF IInv, TypeOK
  <2> QED BY <1>1, <2>1 DEF IInv, LockInv, CastInv
<1>2. CASE g = c /\ adder[c] = "greeting"
  BY <1>2 DEF IInv, LockInv, LifeInv
<1> QED BY <1>1, <1>2 DEF WritersOf

\* gorilla/websocket is never asked to write to a connection from two
\* goroutines: wsAddConn and wsBroadcast write under wsMu.
THEOREM OneWriter == Spec => []OneWriterPerConn
<1>1. IInv => OneWriterPerConn
  <2> SUFFICES ASSUME IInv, NEW c \in Conns, NEW g \in WritersOf(c), NEW h \in WritersOf(c)
               PROVE  g = h
    BY DEF OneWriterPerConn
  <2> QED BY WriterHoldsMutex
<1> QED BY <1>1, Inductive, PTL

\* No goroutine writes to a connection after wsRemoveConn has closed it: what
\* is being written to is registered, and wsRemoveConn waits for wsMu.
THEOREM ClosedIsNotWritten == Spec => []NoWriteAfterClose
<1>1. IInv => NoWriteAfterClose
  <2> SUFFICES ASSUME IInv, NEW c \in closed, NEW g \in WritersOf(c) PROVE FALSE
    BY DEF NoWriteAfterClose
  <2>1. c \in Conns /\ c \notin clients
    BY DEF IInv, TypeOK, LifeInv
  <2> QED BY <2>1, WriterHoldsMutex
<1> QED BY <1>1, Inductive, PTL

\* A connection whose reader has ended is not in wsClients, and never again.
THEOREM EndedIsUnregistered == Spec => []EndedReaderUnregistered
<1>1. IInv => EndedReaderUnregistered
  BY DEF IInv, LifeInv, EndedReaderUnregistered
<1> QED BY <1>1, Inductive, PTL

-----------------------------------------------------------------------------
(* The order of the frames                                                 *)

\* Nothing is written before the nil message; a client that did not get it is
\* gone.
HelloInv ==
  \A c \in Conns :
    /\ adder[c] \in {"none", "locking", "greeting"} => frames[c] = <<>>
    /\ adder[c] = "done" /\ frames[c] = <<>> => peer[c] = "gone"

\* A broadcast that reached c has visited it, and will not visit it again.
VisitedInv ==
  \A m \in Messages :
    /\ caster[m] = "sending" => writing[m] \notin todo[m]
    /\ \A c \in Conns : \A i \in DOMAIN frames[c] : frames[c][i] = m =>
         /\ caster[m] \notin {"none", "locking"}
         /\ caster[m] = "sending" => c \notin todo[m] /\ writing[m] # c

FrameInv == IInv /\ HelloInv /\ VisitedInv /\ FramesInOrder

\* A sequence in order stays so when a new message is appended to it, and an
\* empty one when the nil message is.
LEMMA AppendInOrder ==
  ASSUME NEW s \in Seq(Messages \cup {Hello}), NEW x \in Messages \cup {Hello},
         \A i, j \in DOMAIN s : (s[i] = Hello <=> i = 1) /\ (s[i] = s[j] => i = j),
         x = Hello <=> s = <<>>,
         \A i \in DOMAIN s : s[i] # x
  PROVE  \A i, j \in DOMAIN Append(s, x) :
           /\ Append(s, x)[i] = Hello <=> i = 1
           /\ Append(s, x)[i] = Append(s, x)[j] => i = j
<1> DEFINE t == Append(s, x)
<1>1. /\ DOMAIN s = 1..Len(s) /\ DOMAIN t = 1..(Len(s) + 1) /\ Len(s) \in Nat
      /\ \A i \in 1..Len(s) : t[i] = s[i]
      /\ t[Len(s) + 1] = x
  OBVIOUS
<1>2. s = <<>> <=> Len(s) = 0
  OBVIOUS
<1> HIDE DEF t
<1> SUFFICES \A i, j \in DOMAIN t : (t[i] = Hello <=> i = 1) /\ (t[i] = t[j] => i = j)
  BY DEF t
<1> QED BY <1>1, <1>2

\* The initial state is in order.
LEMMA InitFrameInv == Init => FrameInv
BY InitIInv DEF Init, FrameInv, HelloInv, VisitedInv, FramesInOrder

\* Every step keeps the frames in order.
LEMMA StepFrameInv == FrameInv /\ [Next]_vars => FrameInv'
<1> SUFFICES ASSUME FrameInv, [Next]_vars PROVE FrameInv'
  OBVIOUS
<1> DEFINE Frames == HelloInv /\ VisitedInv /\ FramesInOrder
<1> USE LiveFeedAssumption
<1>0. IInv' BY StepIInv DEF FrameInv
<1>1. ASSUME NEW c \in Conns, Connect(c) PROVE Frames'
  <2> USE <1>1 DEF FrameInv, IInv, TypeOK, Connect, castVars, connVars
  <2>1. HelloInv' BY DEF HelloInv
  <2>2. VisitedInv' BY DEF VisitedInv
  <2>3. FramesInOrder' BY DEF FramesInOrder
  <2> QED BY <2>1, <2>2, <2>3
<1>2. ASSUME NEW c \in Conns, AddConn(c) PROVE Frames'
  <2> USE <1>2 DEF FrameInv, IInv, TypeOK, AddConn, Hold, castVars, connVars
  <2>1. HelloInv' BY DEF HelloInv
  <2>2. VisitedInv' BY DEF VisitedInv
  <2>3. FramesInOrder' BY DEF FramesInOrder
  <2> QED BY <2>1, <2>2, <2>3
<1>3. ASSUME NEW c \in Conns, Greet(c) PROVE Frames'
  <2>1. /\ frames[c] = <<>> /\ c \notin closed
        /\ frames \in [Conns -> Seq(Messages \cup {Hello})]
    BY <1>3 DEF FrameInv, IInv, LifeInv, HelloInv, TypeOK, Greet
  <2>2. \/ frames' = [frames EXCEPT ![c] = Append(@, Hello)]
        \/ frames' = frames /\ peer[c] = "gone"
    BY <1>3, <2>1 DEF Greet, Write
  <2>3. Append(frames[c], Hello) = <<Hello>>
    BY <2>1
  <2>4. HelloInv'
    <3>1. /\ frames'[c] = <<>> => peer[c] = "gone"
          /\ \A d \in Conns \ {c} : frames'[d] = frames[d]
      <4>1. <<Hello>> # <<>> OBVIOUS
      <4> QED BY <2>1, <2>2, <2>3, <4>1
    <3>2. /\ adder' = [adder EXCEPT ![c] = "done"]
          /\ adder \in [Conns -> {"none", "locking", "greeting", "done"}]
          /\ peer' = peer
      BY <1>3 DEF FrameInv, IInv, TypeOK, Greet
    <3> QED BY <3>1, <3>2 DEF FrameInv, HelloInv
  <2>5. VisitedInv'
    <3>1. \A d \in Conns : \A i \in DOMAIN frames'[d] :
            frames'[d][i] # Hello => i \in DOMAIN frames[d] /\ frames'[d][i] = frames[d][i]
      BY <2>1, <2>2, <2>3
    <3> QED BY <1>3, <3>1 DEF FrameInv, VisitedInv, Greet, castVars
  <2>6. FramesInOrder'
    <3>1. \A i, j \in DOMAIN <<Hello>> :
            /\ <<Hello>>[i] = Hello <=> i = 1
            /\ <<Hello>>[i] = <<Hello>>[j] => i = j
      OBVIOUS
    <3> QED BY <2>1, <2>2, <2>3, <3>1 DEF FrameInv, FramesInOrder
  <2> QED BY <2>4, <2>5, <2>6
<1>4. ASSUME NEW c \in Conns, ReadError(c) PROVE Frames'
  <2> USE <1>4 DEF FrameInv, IInv, TypeOK, ReadError, castVars, connVars
  <2>1. HelloInv' BY DEF HelloInv
  <2>2. VisitedInv' BY DEF VisitedInv
  <2>3. FramesInOrder' BY DEF FramesInOrder
  <2> QED BY <2>1, <2>2, <2>3
<1>5. ASSUME NEW c \in Conns, ReaderRemoves(c) PROVE Frames'
  <2> USE <1>5 DEF FrameInv, IInv, TypeOK, ReaderRemoves, RemoveConn, castVars, connVars
  <2>1. HelloInv' BY DEF HelloInv
  <2>2. VisitedInv' BY DEF VisitedInv
  <2>3. FramesInOrder' BY DEF FramesInOrder
  <2> QED BY <2>1, <2>2, <2>3
<1>6. ASSUME NEW c \in Conns, Leave(c) PROVE Frames'
  <2> USE <1>6 DEF FrameInv, IInv, TypeOK, Leave, castVars, connVars
  <2>1. HelloInv' BY DEF HelloInv
  <2>2. VisitedInv' BY DEF VisitedInv
  <2>3. FramesInOrder' BY DEF FramesInOrder
  <2> QED BY <2>1, <2>2, <2>3
<1>7. ASSUME NEW m \in Messages, Broadcast(m) PROVE Frames'
  <2> USE <1>7 DEF FrameInv, IInv, TypeOK, Broadcast, castVars, connVars
  <2>1. HelloInv' BY DEF HelloInv
  <2>2. VisitedInv' BY DEF VisitedInv
  <2>3. FramesInOrder' BY DEF FramesInOrder
  <2> QED BY <2>1, <2>2, <2>3
<1>8. ASSUME NEW m \in Messages, LockBroadcast(m) PROVE Frames'
  <2> USE <1>8 DEF FrameInv, IInv, TypeOK, LockBroadcast, castVars, connVars
  <2>1. HelloInv' BY DEF HelloInv
  <2>2. VisitedInv' BY DEF VisitedInv
  <2>3. FramesInOrder' BY DEF FramesInOrder
  <2> QED BY <2>1, <2>2, <2>3
<1>9. ASSUME NEW m \in Messages, Visit(m) PROVE Frames'
  <2> USE <1>9 DEF FrameInv, IInv, TypeOK, Visit, castVars, connVars
  <2>1. HelloInv' BY DEF HelloInv
  <2>2. VisitedInv' BY DEF VisitedInv
  <2>3. FramesInOrder' BY DEF FramesInOrder
  <2> QED BY <2>1, <2>2, <2>3
<1>10. ASSUME NEW m \in Messages, Send(m) PROVE Frames'
  <2> DEFINE c == writing[m]
  <2>1. /\ c \in Conns /\ c \in clients /\ mu = m /\ caster[m] = "sending"
        /\ frames \in [Conns -> Seq(Messages \cup {Hello})]
        /\ m # Hello
    BY <1>10 DEF FrameInv, IInv, TypeOK, LockInv, CastInv, Send, TodoAfter
  <2>2. adder[c] = "done" /\ m \notin Conns
    BY <2>1 DEF FrameInv, IInv, LifeInv, LockInv
  <2>3. \/ /\ frames' = [frames EXCEPT ![c] = Append(@, m)]
           /\ peer[c] = "there"
        \/ frames' = frames
    BY <1>10 DEF Send, TodoAfter, Write
  <2>4. CASE frames' = frames
    <3> USE <1>10, <2>4 DEF FrameInv, IInv, TypeOK, Send, TodoAfter
    <3>1. HelloInv' BY DEF HelloInv
    <3>2. VisitedInv' BY DEF VisitedInv
    <3>3. FramesInOrder' BY DEF FramesInOrder
    <3> QED BY <3>1, <3>2, <3>3
  <2>5. CASE frames' = [frames EXCEPT ![c] = Append(@, m)] /\ peer[c] = "there"
    <3> DEFINE s == frames[c]
               t == Append(s, m)
    <3>1. s \in Seq(Messages \cup {Hello}) /\ s # <<>>
      BY <2>1, <2>2, <2>5 DEF FrameInv, HelloInv
    <3>2. \A i \in DOMAIN s : s[i] # m
      BY <2>1 DEF FrameInv, VisitedInv
    <3>3. \A i, j \in DOMAIN s : (s[i] = Hello <=> i = 1) /\ (s[i] = s[j] => i = j)
      BY <2>1 DEF FrameInv, FramesInOrder
    <3>4. /\ frames'[c] = t
          /\ \A d \in Conns \ {c} : frames'[d] = frames[d]
      BY <2>1, <2>5
    <3>5. t # <<>> /\ \A i \in DOMAIN t : t[i] # m => i \in DOMAIN s /\ t[i] = s[i]
      BY <3>1
    <3>6. \A i, j \in DOMAIN t : (t[i] = Hello <=> i = 1) /\ (t[i] = t[j] => i = j)
      <4> HIDE DEF s
      <4> QED BY <2>1, <3>1, <3>2, <3>3, AppendInOrder
    <3> HIDE DEF s, t
    <3>7. HelloInv'
      BY <1>10, <2>2, <3>4, <3>5 DEF FrameInv, HelloInv, Send, TodoAfter
    <3>8. VisitedInv'
      <4>1. writing \in [Messages -> Conns \cup {Nobody}] /\ todo \in [Messages -> SUBSET Conns]
        BY DEF FrameInv, IInv, TypeOK
      <4>2. caster' = caster /\ todo' = todo /\ writing' = [writing EXCEPT ![m] = Nobody]
        BY <1>10, <4>1 DEF Send, TodoAfter
      <4>3. c \notin todo[m]
        BY <2>1 DEF FrameInv, VisitedInv
      <4>4. ASSUME NEW n \in Messages, NEW d \in Conns, NEW i \in DOMAIN frames'[d],
                   frames'[d][i] = n
            PROVE  /\ caster'[n] \notin {"none", "locking"}
                   /\ caster'[n] = "sending" => d \notin todo'[n] /\ writing'[n] # d
        <5>1. CASE d = c /\ n = m
          BY <2>1, <4>1, <4>2, <4>3, <5>1
        <5>2. CASE ~(d = c /\ n = m)
          <6>1. i \in DOMAIN frames[d] /\ frames[d][i] = n
            BY <3>4, <3>5, <4>4, <5>2 DEF s
          <6>2. /\ caster[n] \notin {"none", "locking"}
                /\ caster[n] = "sending" => d \notin todo[n] /\ writing[n] # d
            BY <6>1 DEF FrameInv, VisitedInv
          <6> QED BY <4>1, <4>2, <6>2
        <5> QED BY <5>1, <5>2
      <4>5. \A n \in Messages : caster'[n] = "sending" => writing'[n] \notin todo'[n]
        BY <4>1, <4>2 DEF FrameInv, VisitedInv
      <4> QED BY <4>4, <4>5 DEF VisitedInv
    <3>9. FramesInOrder'
      BY <3>4, <3>6 DEF FrameInv, FramesInOrder
    <3> QED BY <3>7, <3>8, <3>9
  <2> QED BY <2>3, <2>4, <2>5
<1>11. ASSUME NEW m \in Messages, EndBroadcast(m) PROVE Frames'
  <2> USE <1>11 DEF FrameInv, IInv, TypeOK, EndBroadcast, LoopOver, Unlock, castVars, connVars
  <2>1. HelloInv' BY DEF HelloInv
  <2>2. VisitedInv' BY DEF VisitedInv
  <2>3. FramesInOrder' BY DEF FramesInOrder
  <2> QED BY <2>1, <2>2, <2>3
<1>12. ASSUME NEW m \in Messages, CastRemoves(m) PROVE Frames'
  <2> USE <1>12 DEF FrameInv, IInv, TypeOK, CastRemoves, RemoveConn, castVars, connVars
  <2>1. HelloInv' BY DEF HelloInv
  <2>2. VisitedInv' BY DEF VisitedInv
  <2>3. FramesInOrder' BY DEF FramesInOrder
  <2> QED BY <2>1, <2>2, <2>3
<1>13. ASSUME UNCHANGED vars PROVE Frames'
  BY <1>13 DEF FrameInv, HelloInv, VisitedInv, FramesInOrder, vars, castVars, connVars
<1> QED
  BY <1>0, <1>1, <1>2, <1>3, <1>4, <1>5, <1>6, <1>7, <1>8, <1>9, <1>10, <1>11,
     <1>12, <1>13 DEF Next, FrameInv

\* A client gets the nil message first, and no message twice: no broadcast can
\* write to a connection that wsAddConn has registered and not greeted.
THEOREM FramesAreInOrder == Spec => []FramesInOrder
<1>1. Spec => []FrameInv
  BY InitFrameInv, StepFrameInv, PTL DEF Spec
<1>2. FrameInv => FramesInOrder
  BY DEF FrameInv
<1> QED BY <1>1, <1>2, PTL
=============================================================================
