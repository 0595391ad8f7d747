--------------------------- MODULE HyperfoxProofs ---------------------------
(***************************************************************************)
(* Proofs about Hyperfox.  Each of its steps is a step of Recorder or      *)
(* leaves it alone, and likewise for LiveFeed; so what RecorderProofs and  *)
(* LiveFeedProofs prove of the parts holds of the process, and only what   *)
(* joins the two is proved here.                                           *)
(***************************************************************************)
EXTENDS Hyperfox, TLAPS

RP == INSTANCE RecorderProofs
LP == INSTANCE LiveFeedProofs WITH Messages <- Requests

-----------------------------------------------------------------------------
(* The parts                                                               *)

\* The process starts with both of its parts in their initial states.
LEMMA InitParts == Init => RP!Init /\ LP!Init
BY DEF Init, R!Init, RP!Init, L!Init, LP!Init

\* Seen from the recorder, every step is one of its own or changes nothing.
LEMMA StepRecorder == [Next]_vars => [RP!Next]_(RP!vars)
<1> SUFFICES ASSUME [Next]_vars PROVE RP!Next \/ UNCHANGED RP!vars
  OBVIOUS
<1>1. ASSUME UNCHANGED recorderVars PROVE UNCHANGED RP!vars
  BY <1>1 DEF recorderVars, RP!vars
<1>2. ASSUME Record(R!Receive) PROVE RP!Next
  <2>1. RP!Receive
    BY <1>2 DEF Record, R!Receive, RP!Receive, R!Dequeue, RP!Dequeue, R!InsertFirst,
                RP!InsertFirst
  <2> QED BY <2>1 DEF RP!Next
<1>3. ASSUME NEW r \in Requests,
             Record(R!Serve(r)) \/ Record(R!Refuse(r)) \/ Record(R!Close(r))
      PROVE  RP!Next
  <2>1. RP!Serve(r) \/ RP!Refuse(r) \/ RP!Close(r)
    BY <1>3 DEF Record, R!Serve, RP!Serve, R!Refuse, RP!Refuse, R!Close, RP!Close
  <2> QED BY <2>1 DEF RP!Next
<1>4. ASSUME NEW r \in Requests, Record(R!SendRecord(r)) PROVE RP!Next
  <2>1. RP!SendRecord(r)
    BY <1>4 DEF Record, R!SendRecord, RP!SendRecord, R!Enqueue, RP!Enqueue
  <2> QED BY <2>1 DEF RP!Next
<1>5. ASSUME NEW r \in Requests, Record(R!Insert(r)) PROVE RP!Next
  <2>1. RP!Insert(r)
    BY <1>5 DEF Record, R!Insert, RP!Insert, R!AfterInsert, RP!AfterInsert
  <2> QED BY <2>1 DEF RP!Next
<1>6. ASSUME NEW r \in Requests, Record(R!InsertFails(r)) PROVE RP!Next
  <2>1. RP!InsertFails(r)
    BY <1>6 DEF Record, R!InsertFails, RP!InsertFails, R!Die, RP!Die, R!Stored, RP!Stored,
                R!Range, RP!Range
  <2> QED BY <2>1 DEF RP!Next
<1>7. ASSUME NEW r \in Requests, Announced(r) PROVE RP!Next
  <2>1. RP!Notify(r) BY <1>7 DEF Announced, R!Notify, RP!Notify
  <2> QED BY <2>1 DEF RP!Next
<1>8. ASSUME NEW r \in Requests,
             \/ Announce(r) \/ Feed(L!LockBroadcast(r)) \/ Feed(L!Visit(r))
             \/ Feed(L!Send(r)) \/ Feed(L!EndBroadcast(r)) \/ Feed(L!CastRemoves(r))
      PROVE  UNCHANGED recorderVars
  BY <1>8 DEF Announce, Feed
<1>9. ASSUME NEW c \in Conns,
             \/ Feed(L!Connect(c)) \/ Feed(L!AddConn(c)) \/ Greet(c)
             \/ Feed(L!ReadError(c)) \/ Feed(L!ReaderRemoves(c)) \/ Feed(L!Leave(c))
      PROVE  UNCHANGED recorderVars
  BY <1>9 DEF Greet, Feed
<1>10. ASSUME UNCHANGED vars PROVE UNCHANGED recorderVars
  BY <1>10 DEF vars
<1> QED
  BY <1>1, <1>2, <1>3, <1>4, <1>5, <1>6, <1>7, <1>8, <1>9, <1>10 DEF Next

\* Seen from the live feed, every step is one of its own or changes nothing.
LEMMA StepFeed == [Next]_vars => [LP!Next]_(LP!vars)
<1> SUFFICES ASSUME [Next]_vars PROVE LP!Next \/ UNCHANGED LP!vars
  OBVIOUS
<1> USE DEF L!castVars, LP!castVars, L!connVars, LP!connVars
<1>1. ASSUME UNCHANGED feedVars PROVE UNCHANGED LP!vars
  BY <1>1 DEF feedVars, LP!vars
<1>2. ASSUME NEW r \in Requests,
             \/ Record(R!Serve(r)) \/ Record(R!Refuse(r)) \/ Record(R!Close(r))
             \/ Record(R!SendRecord(r)) \/ Record(R!Insert(r)) \/ Record(R!InsertFails(r))
             \/ Announced(r)
      PROVE  UNCHANGED feedVars
  BY <1>2 DEF Record, Announced
<1>3. ASSUME Record(R!Receive) PROVE UNCHANGED feedVars
  BY <1>3 DEF Record
<1>4. ASSUME NEW r \in Requests, Announce(r) PROVE LP!Next
  <2>1. LP!Broadcast(r) BY <1>4 DEF Announce, L!Broadcast, LP!Broadcast
  <2> QED BY <2>1 DEF LP!Next
<1>5. ASSUME NEW r \in Requests, Feed(L!LockBroadcast(r)) \/ Feed(L!Visit(r)) PROVE LP!Next
  <2>1. LP!LockBroadcast(r) \/ LP!Visit(r)
    BY <1>5 DEF Feed, L!LockBroadcast, LP!LockBroadcast, L!Visit, LP!Visit
  <2> QED BY <2>1 DEF LP!Next
<1>6. ASSUME NEW r \in Requests, Feed(L!Send(r)) PROVE LP!Next
  <2>1. LP!Send(r)
    BY <1>6 DEF Feed, L!Send, LP!Send, L!Write, LP!Write, L!TodoAfter, LP!TodoAfter
  <2> QED BY <2>1 DEF LP!Next
<1>7. ASSUME NEW r \in Requests, Feed(L!EndBroadcast(r)) \/ Feed(L!CastRemoves(r))
      PROVE  LP!Next
  <2>1. LP!EndBroadcast(r) \/ LP!CastRemoves(r)
    BY <1>7 DEF Feed, L!EndBroadcast, LP!EndBroadcast, L!LoopOver, LP!LoopOver, L!Unlock,
                LP!Unlock, L!CastRemoves, LP!CastRemoves, L!RemoveConn, LP!RemoveConn
  <2> QED BY <2>1 DEF LP!Next
<1>8. ASSUME NEW c \in Conns, Feed(L!Connect(c)) \/ Feed(L!AddConn(c)) PROVE LP!Next
  <2>1. LP!Connect(c) \/ LP!AddConn(c)
    BY <1>8 DEF Feed, L!Connect, LP!Connect, L!AddConn, LP!AddConn, L!Hold, LP!Hold
  <2> QED BY <2>1 DEF LP!Next
<1>9. ASSUME NEW c \in Conns, Greet(c) PROVE LP!Next
  <2>1. LP!Greet(c) BY <1>9 DEF Greet, L!Greet, LP!Greet, L!Write, LP!Write
  <2> QED BY <2>1 DEF LP!Next
<1>10. ASSUME NEW c \in Conns,
              Feed(L!ReadError(c)) \/ Feed(L!ReaderRemoves(c)) \/ Feed(L!Leave(c))
       PROVE  LP!Next
  <2>1. LP!ReadError(c) \/ LP!ReaderRemoves(c) \/ LP!Leave(c)
    BY <1>10 DEF Feed, L!ReadError, LP!ReadError, L!ReaderRemoves, LP!ReaderRemoves,
                 L!RemoveConn, LP!RemoveConn, L!Leave, LP!Leave
  <2> QED BY <2>1 DEF LP!Next
<1>11. ASSUME UNCHANGED vars PROVE UNCHANGED feedVars
  BY <1>11 DEF vars
<1> QED
  BY <1>1, <1>2, <1>3, <1>4, <1>5, <1>6, <1>7, <1>8, <1>9, <1>10, <1>11 DEF Next

\* Both parts run in the process exactly as they are specified by themselves.
THEOREM ProcessRunsBoth == Spec => RP!Spec /\ LP!Spec
BY InitParts, StepRecorder, StepFeed, PTL DEF Spec, RP!Spec, LP!Spec

\* What the process does to the table is what TrafficLog says, whatever the feed
\* does meanwhile: this is the log that RecordsAPI reads from.
THEOREM ProcessKeepsLog == Spec => RP!Log!Spec
<1>1. RP!Spec => RP!Log!Spec
  BY RP!RecorderImplementsLog, HyperfoxAssumption DEF RP!RecorderAssumption
<1> QED BY <1>1, ProcessRunsBoth, PTL

-----------------------------------------------------------------------------
(* Where the parts meet                                                    *)

\* While the process is up, a stored record is being announced or is announced.
SavedInv ==
  process = "up" => \A r \in R!Stored : saving[r] \in {"notify", "done"}

\* wsBroadcast is called for stored records, and has returned when its caller
\* goes on.
CastInv ==
  \A r \in Requests :
    /\ caster[r] # "none" => r \in R!Stored
    /\ saving[r] = "done" => caster[r] = "done"

\* r has reached c, or the loop of its broadcast has still to write it to c.
ToldOrTodo(c, r) ==
  \/ r \in R!Range(frames[c])
  \/ caster[r] = "sending" /\ (c \in todo[r] \/ writing[r] = c)

\* A broadcast that got wsMu reaches the clients it found, unless they leave,
\* and the others have a list that its record is in.
TellInv ==
  /\ baseline \in [Conns -> SUBSET Requests]
  /\ \A c \in clients : \A r \in Requests :
       /\ adder[c] = "done" /\ peer[c] = "there"
       /\ caster[r] \in {"sending", "removing", "done"}
       => r \in baseline[c] \/ ToldOrTodo(c, r)

\* The inductive invariant: those of the parts, and what joins them.
IInv == RP!IInv /\ LP!FrameInv /\ SavedInv /\ CastInv /\ TellInv

\* There is nothing to announce and nobody to tell.
LEMMA InitIInv == Init => IInv
<1> SUFFICES ASSUME Init PROVE IInv
  OBVIOUS
<1>1. RP!Init /\ LP!Init BY InitParts
<1>2. RP!IInv BY <1>1, RP!InitIInv, HyperfoxAssumption DEF RP!RecorderAssumption
<1>3. LP!FrameInv BY <1>1, LP!InitFrameInv, HyperfoxAssumption DEF LP!LiveFeedAssumption
<1>4. R!Stored = {} BY DEF Init, R!Init, R!Stored, R!Range
<1>5. SavedInv /\ CastInv /\ TellInv
  BY <1>4 DEF Init, R!Init, L!Init, SavedInv, CastInv, TellInv
<1> QED BY <1>2, <1>3, <1>5 DEF IInv

\* What the invariants of the parts say of their variables, for the steps below.
LEMMA PartTypes ==
  ASSUME IInv
  PROVE  /\ ch \in Seq(Requests) /\ db \in Seq(Requests)
         /\ saving \in [Requests -> {"none", "insert", "notify", "done"}]
         /\ process \in {"up", "exited", "panicked"}
         /\ clients \subseteq Conns
         /\ adder \in [Conns -> {"none", "locking", "greeting", "done"}]
         /\ caster \in [Requests -> {"none", "locking", "sending", "removing", "done"}]
         /\ todo \in [Requests -> SUBSET Conns]
         /\ writing \in [Requests -> Conns \cup {Nobody}]
         /\ failed \in [Requests -> SUBSET Conns]
         /\ peer \in [Conns -> {"absent", "there", "gone"}]
         /\ frames \in [Conns -> Seq(Requests \cup {Hello})]
BY DEF IInv, RP!IInv, RP!TypeOK, LP!FrameInv, LP!IInv, LP!TypeOK

\* An insert adds its row.
LEMMA InsertStores ==
  ASSUME IInv, NEW r \in Requests, Record(R!Insert(r))
  PROVE  R!Stored' = R!Stored \cup {r}
<1>1. db' = Append(db, r) /\ db \in Seq(Requests)
  BY PartTypes DEF Record, R!Insert
<1> QED BY <1>1, RP!RangeAppend, HyperfoxAssumption DEF RP!RecorderAssumption, R!Stored,
           R!Range, RP!Range

\* No step of the process takes a row away.
LEMMA StoredStays == IInv /\ [Next]_vars => R!Stored \subseteq R!Stored'
<1> SUFFICES ASSUME IInv, [Next]_vars PROVE R!Stored \subseteq R!Stored'
  OBVIOUS
<1>1. ASSUME UNCHANGED db PROVE R!Stored \subseteq R!Stored'
  BY <1>1 DEF R!Stored
<1>2. ASSUME NEW r \in Requests, Record(R!Insert(r)) PROVE R!Stored \subseteq R!Stored'
  BY <1>2, InsertStores
<1>3. ASSUME NEW r \in Requests,
             \/ Record(R!Serve(r)) \/ Record(R!Refuse(r)) \/ Record(R!Close(r))
             \/ Record(R!SendRecord(r)) \/ Record(R!InsertFails(r)) \/ Announced(r)
      PROVE  UNCHANGED db
  BY <1>3 DEF Record, Announced, R!Serve, R!Refuse, R!Close, R!SendRecord, R!InsertFails,
              R!Die, R!Notify
<1>4. ASSUME Record(R!Receive) PROVE UNCHANGED db
  BY <1>4 DEF Record, R!Receive
<1>5. ASSUME NEW r \in Requests,
             \/ Announce(r) \/ Feed(L!LockBroadcast(r)) \/ Feed(L!Visit(r))
             \/ Feed(L!Send(r)) \/ Feed(L!EndBroadcast(r)) \/ Feed(L!CastRemoves(r))
      PROVE  UNCHANGED db
  BY <1>5 DEF Announce, Feed, recorderVars
<1>6. ASSUME NEW c \in Conns,
             \/ Feed(L!Connect(c)) \/ Feed(L!AddConn(c)) \/ Greet(c)
             \/ Feed(L!ReadError(c)) \/ Feed(L!ReaderRemoves(c)) \/ Feed(L!Leave(c))
      PROVE  UNCHANGED db
  BY <1>6 DEF Greet, Feed, recorderVars
<1>7. ASSUME UNCHANGED vars PROVE UNCHANGED db
  BY <1>7 DEF vars, recorderVars
<1> QED BY <1>1, <1>2, <1>3, <1>4, <1>5, <1>6, <1>7 DEF Next

\* The channel holds no stored record, so none is taken up again.
LEMMA HeadIsNew ==
  ASSUME IInv, ch # <<>>
  PROVE  Head(ch) \in Requests /\ Head(ch) \notin R!Stored /\ saving[Head(ch)] = "none"
<1>1. ch \in Seq(Requests) /\ Head(ch) \in Requests BY PartTypes
<1>2. Head(ch) \in RP!Range(ch)
  <2>1. Head(ch) = ch[1] /\ 1 \in DOMAIN ch BY <1>1
  <2> QED BY <2>1 DEF RP!Range
<1> QED BY <1>1, <1>2 DEF IInv, RP!IInv, RP!PlaceInv, RP!Stored, R!Stored, RP!Range, R!Range

\* Every step keeps: a stored record is being announced or is announced.
LEMMA StepSaved == IInv /\ [Next]_vars => SavedInv'
<1> SUFFICES ASSUME IInv, [Next]_vars, process' = "up"
             PROVE  \A q \in R!Stored' : saving'[q] \in {"notify", "done"}
  BY DEF SavedInv
<1>0. /\ saving \in [Requests -> {"none", "insert", "notify", "done"}]
      /\ process = "up" => \A q \in R!Stored : saving[q] \in {"notify", "done"}
      /\ R!Stored \subseteq Requests
  BY PartTypes DEF IInv, SavedInv, R!Stored, R!Range
<1>1. ASSUME NEW r \in Requests, Record(R!Insert(r))
      PROVE  \A q \in R!Stored' : saving'[q] \in {"notify", "done"}
  <2>1. R!Stored' = R!Stored \cup {r} BY <1>1, InsertStores
  <2> QED BY <1>0, <1>1, <2>1 DEF Record, R!Insert, R!AfterInsert
<1>2. ASSUME Record(R!Receive)
      PROVE  \A q \in R!Stored' : saving'[q] \in {"notify", "done"}
  <2>1. /\ process = "up" /\ UNCHANGED db
        /\ saving' = [saving EXCEPT ![Head(ch)] = "insert"]
        /\ Head(ch) \notin R!Stored
    BY <1>2, HeadIsNew DEF Record, R!Receive, R!Dequeue, R!InsertFirst
  <2>2. R!Stored' = R!Stored BY <2>1 DEF R!Stored
  <2> QED BY <1>0, <2>1, <2>2
<1>3. ASSUME NEW r \in Requests, Announced(r)
      PROVE  \A q \in R!Stored' : saving'[q] \in {"notify", "done"}
  <2>1. /\ process = "up" /\ UNCHANGED db
        /\ saving' = [saving EXCEPT ![r] = "done"]
    BY <1>3 DEF Announced, R!Notify
  <2>2. R!Stored' = R!Stored BY <2>1 DEF R!Stored
  <2> QED BY <1>0, <2>1, <2>2
<1>4. ASSUME NEW r \in Requests, Record(R!InsertFails(r)) PROVE FALSE
  BY <1>4 DEF Record, R!InsertFails, R!Die
<1>5. ASSUME UNCHANGED <<saving, process, db>>
      PROVE  \A q \in R!Stored' : saving'[q] \in {"notify", "done"}
  <2>1. R!Stored' = R!Stored BY <1>5 DEF R!Stored
  <2> QED BY <1>0, <1>5, <2>1
<1>6. ASSUME NEW r \in Requests,
             \/ Record(R!Serve(r)) \/ Record(R!Refuse(r)) \/ Record(R!Close(r))
             \/ Record(R!SendRecord(r))
      PROVE  UNCHANGED <<saving, process, db>>
  BY <1>6 DEF Record, R!Serve, R!Refuse, R!Close, R!SendRecord
<1>7. ASSUME NEW r \in Requests,
             \/ Announce(r) \/ Feed(L!LockBroadcast(r)) \/ Feed(L!Visit(r))
             \/ Feed(L!Send(r)) \/ Feed(L!EndBroadcast(r)) \/ Feed(L!CastRemoves(r))
      PROVE  UNCHANGED <<saving, process, db>>
  BY <1>7 DEF Announce, Feed, recorderVars
<1>8. ASSUME NEW c \in Conns,
             \/ Feed(L!Connect(c)) \/ Feed(L!AddConn(c)) \/ Greet(c)
             \/ Feed(L!ReadError(c)) \/ Feed(L!ReaderRemoves(c)) \/ Feed(L!Leave(c))
      PROVE  UNCHANGED <<saving, process, db>>
  BY <1>8 DEF Greet, Feed, recorderVars
<1>9. ASSUME UNCHANGED vars PROVE UNCHANGED <<saving, process, db>>
  BY <1>9 DEF vars, recorderVars
<1> QED
  BY <1>1, <1>2, <1>3, <1>4, <1>5, <1>6, <1>7, <1>8, <1>9 DEF Next

\* Every step keeps: what is broadcast is stored, and its caller waits for it.
LEMMA StepCast == IInv /\ [Next]_vars => CastInv'
<1> SUFFICES ASSUME IInv, [Next]_vars PROVE CastInv'
  OBVIOUS
<1>0. /\ saving \in [Requests -> {"none", "insert", "notify", "done"}]
      /\ caster \in [Requests -> {"none", "locking", "sending", "removing", "done"}]
      /\ R!Stored \subseteq R!Stored'
      /\ \A q \in Requests : /\ caster[q] # "none" => q \in R!Stored
                             /\ saving[q] = "done" => caster[q] = "done"
  BY PartTypes, StoredStays DEF IInv, CastInv
<1>1. ASSUME NEW r \in Requests, Announce(r) PROVE CastInv'
  <2>1. r \in R!Stored
    BY <1>1 DEF Announce, IInv, RP!IInv, RP!PlaceInv, RP!Stored, R!Stored, RP!Range, R!Range
  <2>2. caster' = [caster EXCEPT ![r] = "locking"] /\ caster[r] = "none" /\ saving' = saving
    BY <1>1 DEF Announce, L!Broadcast, recorderVars
  <2> QED BY <1>0, <2>1, <2>2 DEF CastInv
<1>2. ASSUME NEW r \in Requests, Announced(r) PROVE CastInv'
  <2>1. saving' = [saving EXCEPT ![r] = "done"] /\ caster[r] = "done" /\ caster' = caster
    BY <1>2 DEF Announced, R!Notify, feedVars
  <2> QED BY <1>0, <2>1 DEF CastInv
<1>3. ASSUME NEW r \in Requests,
             \/ Record(R!Serve(r)) \/ Record(R!Refuse(r)) \/ Record(R!Close(r))
             \/ Record(R!SendRecord(r)) \/ Record(R!Insert(r)) \/ Record(R!InsertFails(r))
      PROVE  CastInv'
  <2>1. caster' = caster /\ \A q \in Requests : saving'[q] = "done" => saving[q] = "done"
    BY <1>0, <1>3 DEF Record, R!Serve, R!Refuse, R!Close, R!SendRecord, R!Insert,
                      R!AfterInsert, R!InsertFails, R!Die, feedVars
  <2> QED BY <1>0, <2>1 DEF CastInv
<1>4. ASSUME Record(R!Receive) PROVE CastInv'
  <2>1. caster' = caster /\ saving' = [saving EXCEPT ![Head(ch)] = "insert"]
    BY <1>4 DEF Record, R!Receive, R!InsertFirst, feedVars
  <2> QED BY <1>0, <2>1 DEF CastInv
<1>5. ASSUME NEW r \in Requests,
             \/ Feed(L!LockBroadcast(r)) \/ Feed(L!Visit(r))
             \/ Feed(L!Send(r)) \/ Feed(L!EndBroadcast(r)) \/ Feed(L!CastRemoves(r))
      PROVE  CastInv'
  <2>1. /\ saving' = saving
        /\ \A q \in Requests : caster'[q] # "none" => caster[q] # "none"
        /\ \A q \in Requests : caster[q] = "done" => caster'[q] = "done"
    BY <1>0, <1>5 DEF Feed, L!LockBroadcast, L!Visit, L!Send, L!EndBroadcast, L!CastRemoves,
                      recorderVars
  <2> QED BY <1>0, <2>1 DEF CastInv
<1>6. ASSUME NEW c \in Conns,
             \/ Feed(L!Connect(c)) \/ Feed(L!AddConn(c)) \/ Greet(c)
             \/ Feed(L!ReadError(c)) \/ Feed(L!ReaderRemoves(c)) \/ Feed(L!Leave(c))
      PROVE  CastInv'
  <2>1. saving' = saving /\ caster' = caster
    BY <1>6 DEF Feed, Greet, L!Connect, L!AddConn, L!Greet, L!ReadError, L!ReaderRemoves,
                L!Leave, L!castVars, recorderVars
  <2> QED BY <1>0, <2>1 DEF CastInv
<1>7. ASSUME UNCHANGED vars PROVE CastInv'
  <2>1. saving' = saving /\ caster' = caster
    BY <1>7 DEF vars, feedVars, recorderVars
  <2> QED BY <1>0, <2>1 DEF CastInv
<1> QED BY <1>1, <1>2, <1>3, <1>4, <1>5, <1>6, <1>7 DEF Next

\* A write that reaches a client adds its message to what the client was told.
LEMMA WriteTells ==
  ASSUME IInv, NEW c \in Conns, NEW msg \in Requests \cup {Hello},
         frames' = [frames EXCEPT ![c] = Append(@, msg)]
  PROVE  /\ R!Range(frames'[c]) = R!Range(frames[c]) \cup {msg}
         /\ \A d \in Conns \ {c} : frames'[d] = frames[d]
<1>1. frames[c] \in Seq(Requests \cup {Hello}) /\ frames'[c] = Append(frames[c], msg)
  BY PartTypes
<1>2. RP!Range(Append(frames[c], msg)) = RP!Range(frames[c]) \cup {msg}
  BY <1>1, RP!RangeAppend, HyperfoxAssumption DEF RP!RecorderAssumption
<1>3. \A d \in Conns \ {c} : frames'[d] = frames[d]
  BY PartTypes
<1> QED BY <1>1, <1>2, <1>3 DEF R!Range, RP!Range

\* Every step keeps: a broadcast reaches every client that stays.
LEMMA StepTell == IInv /\ [Next]_vars => TellInv'
<1> SUFFICES ASSUME IInv, [Next]_vars PROVE TellInv'
  OBVIOUS
<1> DEFINE Owed(c, r) == /\ c \in clients /\ adder[c] = "done" /\ peer[c] = "there"
                         /\ caster[r] \in {"sending", "removing", "done"}
           Told(c, r) == r \in R!Range(frames[c])
           Todo(c, r) == caster[r] = "sending" /\ (c \in todo[r] \/ writing[r] = c)
<1>0. /\ baseline \in [Conns -> SUBSET Requests] /\ clients \subseteq Conns
      /\ \A c \in Conns, r \in Requests :
           Owed(c, r) => r \in baseline[c] \/ Told(c, r) \/ Todo(c, r)
  BY PartTypes DEF IInv, TellInv, ToldOrTodo
<1>g. ASSUME baseline' \in [Conns -> SUBSET Requests], clients' \subseteq Conns,
             \A c \in Conns, r \in Requests :
               Owed(c, r)' => r \in baseline'[c] \/ Told(c, r)' \/ Todo(c, r)'
      PROVE  TellInv'
  BY <1>g DEF TellInv, ToldOrTodo
<1>1. ASSUME NEW r \in Requests, Announce(r) PROVE TellInv'
  <2>1. /\ UNCHANGED <<baseline, clients, adder, peer, frames, todo, writing>>
        /\ caster' = [caster EXCEPT ![r] = "locking"] /\ caster[r] = "none"
    BY <1>1 DEF Announce, L!Broadcast, L!connVars
  <2>2. \A c \in Conns, q \in Requests :
          (Owed(c, q)' => Owed(c, q)) /\ (Todo(c, q) => Todo(c, q)')
    BY <2>1, PartTypes
  <2> QED BY <1>0, <1>g, <2>1, <2>2
<1>2. ASSUME UNCHANGED feedVars PROVE TellInv'
  BY <1>0, <1>g, <1>2 DEF feedVars
<1>3. ASSUME NEW r \in Requests, Feed(L!LockBroadcast(r)) PROVE TellInv'
  <2>1. /\ UNCHANGED <<baseline, clients, adder, peer, frames, writing>>
        /\ caster' = [caster EXCEPT ![r] = "sending"]
        /\ todo' = [todo EXCEPT ![r] = clients]
    BY <1>3 DEF Feed, L!LockBroadcast, L!connVars
  <2>2. \A c \in Conns, q \in Requests \ {r} :
          (Owed(c, q)' => Owed(c, q)) /\ (Todo(c, q) => Todo(c, q)')
    BY <2>1, PartTypes
  <2>3. \A c \in Conns : Owed(c, r)' => Todo(c, r)'
    BY <2>1, PartTypes
  <2> QED BY <1>0, <1>g, <2>1, <2>2, <2>3
<1>4. ASSUME NEW r \in Requests, Feed(L!Visit(r)) PROVE TellInv'
  <2>1. PICK d \in todo[r] : /\ writing' = [writing EXCEPT ![r] = d]
                             /\ todo' = [todo EXCEPT ![r] = @ \ {d}]
    BY <1>4 DEF Feed, L!Visit
  <2>2. UNCHANGED <<baseline, clients, adder, peer, frames, caster>> /\ writing[r] = Nobody
    BY <1>4 DEF Feed, L!Visit, L!connVars
  <2>3. \A c \in Conns, q \in Requests :
          (Owed(c, q)' => Owed(c, q)) /\ (Todo(c, q) => Todo(c, q)')
    BY <2>1, <2>2, PartTypes, HyperfoxAssumption
  <2> QED BY <1>0, <1>g, <2>2, <2>3
<1>5. ASSUME NEW r \in Requests, Feed(L!Send(r)) PROVE TellInv'
  <2>0. PICK d \in Conns : d = writing[r]
    BY <1>5, PartTypes DEF Feed, L!Send
  <2>1. /\ UNCHANGED <<baseline, clients, adder, peer, caster>>
        /\ caster[r] = "sending"
        /\ writing' = [writing EXCEPT ![r] = Nobody]
        /\ \A q \in Requests : todo'[q] = todo[q]
    BY <1>5, PartTypes DEF Feed, L!Send, L!TodoAfter
  <2>2. \A c \in Conns, q \in Requests :
          (Owed(c, q)' => Owed(c, q)) /\ (Todo(c, q) /\ ~(c = d /\ q = r) => Todo(c, q)')
    BY <2>0, <2>1, PartTypes
  <2>3. CASE frames' = frames /\ (d \in closed \/ peer[d] = "gone")
    <3>1. ~Owed(d, r)
      BY <2>3 DEF IInv, LP!FrameInv, LP!IInv, LP!LifeInv
    <3> QED BY <1>0, <1>g, <2>1, <2>2, <2>3, <3>1
  <2>4. CASE frames' = [frames EXCEPT ![d] = Append(@, r)]
    <3>1. /\ R!Range(frames'[d]) = R!Range(frames[d]) \cup {r}
          /\ \A c \in Conns \ {d} : frames'[c] = frames[c]
      BY <2>4, WriteTells
    <3>2. \A c \in Conns, q \in Requests : Told(c, q) => Told(c, q)'
      BY <3>1
    <3>3. Told(d, r)'
      BY <3>1
    <3> HIDE DEF Owed, Told
    <3> QED BY <1>0, <1>g, <2>1, <2>2, <3>2, <3>3
  <2> QED BY <1>5, <2>0, <2>3, <2>4 DEF Feed, L!Send, L!Write
<1>6. ASSUME NEW r \in Requests, Feed(L!EndBroadcast(r)) PROVE TellInv'
  <2>1. /\ UNCHANGED <<baseline, clients, adder, peer, frames, todo, writing>>
        /\ caster[r] = "sending" /\ todo[r] = {} /\ writing[r] = Nobody
        /\ \A q \in Requests \ {r} : caster'[q] = caster[q]
    BY <1>6, PartTypes DEF Feed, L!EndBroadcast, L!LoopOver, L!connVars
  <2>2. \A c \in Conns, q \in Requests : (Owed(c, q)' => Owed(c, q))
    BY <2>1
  <2>3. \A c \in Conns, q \in Requests : (Todo(c, q) => Todo(c, q)')
    BY <2>1, HyperfoxAssumption
  <2> QED BY <1>0, <1>g, <2>1, <2>2, <2>3
<1>7. ASSUME NEW r \in Requests, Feed(L!CastRemoves(r)) PROVE TellInv'
  <2>1. /\ UNCHANGED <<baseline, adder, peer, frames, todo, writing>>
        /\ clients' \subseteq clients /\ caster[r] = "removing"
        /\ \A q \in Requests \ {r} : caster'[q] = caster[q]
    BY <1>7, PartTypes DEF Feed, L!CastRemoves, L!RemoveConn
  <2>2. \A c \in Conns, q \in Requests : (Owed(c, q)' => Owed(c, q))
    BY <2>1
  <2>3. \A c \in Conns, q \in Requests : (Todo(c, q) => Todo(c, q)')
    BY <2>1
  <2> QED BY <1>0, <1>g, <2>1, <2>2, <2>3
<1>8. ASSUME NEW c \in Conns,
             \/ Feed(L!ReadError(c)) \/ Feed(L!ReaderRemoves(c)) \/ Feed(L!Leave(c))
             \/ Feed(L!Connect(c)) \/ Feed(L!AddConn(c))
      PROVE  TellInv'
  <2>1. UNCHANGED <<baseline, frames, caster, todo, writing>>
    BY <1>8 DEF Feed, L!ReadError, L!ReaderRemoves, L!Leave, L!Connect, L!AddConn,
                L!castVars, L!connVars
  <2>2. clients' \subseteq Conns
    BY <1>8, <1>0 DEF Feed, L!ReadError, L!ReaderRemoves, L!RemoveConn, L!Leave, L!Connect,
                L!AddConn, L!castVars, L!connVars
  <2>3. \A d \in Conns : d \in clients' /\ adder'[d] = "done" /\ peer'[d] = "there"
          => d \in clients /\ adder[d] = "done" /\ peer[d] = "there"
    <3>1. CASE Feed(L!ReadError(c)) \/ Feed(L!ReaderRemoves(c)) \/ Feed(L!Leave(c))
      BY <3>1, PartTypes DEF Feed, L!ReadError, L!ReaderRemoves, L!RemoveConn, L!Leave,
                             L!castVars, L!connVars
    <3>2. CASE Feed(L!Connect(c)) \/ Feed(L!AddConn(c))
      BY <3>2, PartTypes DEF Feed, L!Connect, L!AddConn, L!castVars, L!connVars
    <3> QED BY <1>8, <3>1, <3>2
  <2> QED BY <1>0, <1>g, <2>1, <2>2, <2>3
<1>9. ASSUME NEW c \in Conns, Greet(c) PROVE TellInv'
  <2>1. /\ UNCHANGED <<clients, caster, todo, writing, peer>>
        /\ adder' = [adder EXCEPT ![c] = "done"]
        /\ baseline' = [baseline EXCEPT ![c] = R!Stored]
    BY <1>9 DEF Greet, L!Greet, L!castVars
  <2>2. R!Stored \subseteq Requests
    BY PartTypes DEF R!Stored, R!Range
  <2>3. \A d \in Conns, q \in Requests : Told(d, q) => Told(d, q)'
    <3>1. frames' = frames \/ frames' = [frames EXCEPT ![c] = Append(@, Hello)]
      BY <1>9 DEF Greet, L!Greet, L!Write
    <3> QED BY <3>1, WriteTells
  <2>4. \A q \in Requests : Owed(c, q)' => q \in baseline'[c]
    BY <1>0, <2>1 DEF IInv, CastInv
  <2>5. \A d \in Conns \ {c}, q \in Requests :
          (Owed(d, q)' => Owed(d, q)) /\ baseline'[d] = baseline[d]
    BY <1>0, <2>1, PartTypes
  <2> QED BY <1>0, <1>g, <2>1, <2>2, <2>3, <2>4, <2>5
<1>10. ASSUME NEW r \in Requests,
              \/ Record(R!Serve(r)) \/ Record(R!Refuse(r)) \/ Record(R!Close(r))
              \/ Record(R!SendRecord(r)) \/ Record(R!Insert(r)) \/ Record(R!InsertFails(r))
              \/ Announced(r)
       PROVE  UNCHANGED feedVars
  BY <1>10 DEF Record, Announced
<1>11. ASSUME Record(R!Receive) PROVE UNCHANGED feedVars
  BY <1>11 DEF Record
<1>12. ASSUME UNCHANGED vars PROVE UNCHANGED feedVars
  BY <1>12 DEF vars
<1> HIDE DEF Owed, Told, Todo
<1> QED
  BY <1>1, <1>2, <1>3, <1>4, <1>5, <1>6, <1>7, <1>8, <1>9, <1>10, <1>11, <1>12 DEF Next

\* Every step keeps the inductive invariant.
LEMMA StepIInv == IInv /\ [Next]_vars => IInv'
<1> SUFFICES ASSUME IInv, [Next]_vars PROVE IInv'
  OBVIOUS
<1>1. RP!IInv'
  BY StepRecorder, RP!StepIInv, HyperfoxAssumption DEF IInv, RP!RecorderAssumption
<1>2. LP!FrameInv'
  BY StepFeed, LP!StepFrameInv, HyperfoxAssumption DEF IInv, LP!LiveFeedAssumption
<1> QED BY <1>1, <1>2, StepSaved, StepCast, StepTell DEF IInv

\* The inductive invariant of the process.
LEMMA Inductive == Spec => []IInv
BY InitIInv, StepIInv, PTL DEF Spec

-----------------------------------------------------------------------------
(* What follows                                                            *)

\* A client is told only of records that can be read back: the goroutine that
\* broadcasts an id has inserted its row.
THEOREM ToldAreStored == Spec => []ToldIsStored
<1>1. IInv => ToldIsStored
  <2> SUFFICES ASSUME IInv, NEW c \in Conns, NEW r \in Requests, r \in R!Range(frames[c])
               PROVE  r \in R!Stored
    BY DEF ToldIsStored
  <2>1. PICK i \in DOMAIN frames[c] : frames[c][i] = r
    BY DEF R!Range
  <2>2. caster[r] # "none"
    BY <2>1 DEF IInv, LP!FrameInv, LP!VisitedInv
  <2> QED BY <2>2 DEF IInv, CastInv
<1> QED BY <1>1, Inductive, PTL

\* No order of connecting, storing, broadcasting, failing and removing leaves a
\* connected client without a record that is not in the list it reads.
THEOREM NoRecordMissed == Spec => []NoMissedRecord
<1>1. IInv => NoMissedRecord
  <2> SUFFICES ASSUME IInv, NEW c \in clients, process = "up", adder[c] = "done",
                      peer[c] = "there", NEW r \in R!Stored
               PROVE  r \in baseline[c] \/ r \in R!Range(frames[c]) \/ WillBeTold(c, r)
    BY DEF NoMissedRecord
  <2>1. r \in Requests /\ saving[r] \in {"notify", "done"}
    BY PartTypes DEF IInv, SavedInv, R!Stored, R!Range
  <2>2. CASE caster[r] \in {"none", "locking"}
    BY <2>1, <2>2 DEF IInv, CastInv, WillBeTold
  <2>3. CASE caster[r] \in {"sending", "removing", "done"}
    BY <2>1, <2>3 DEF IInv, TellInv, ToldOrTodo, WillBeTold
  <2> QED BY <2>1, <2>2, <2>3, PartTypes
<1> QED BY <1>1, Inductive, PTL

=============================================================================
