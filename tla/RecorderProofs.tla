--------------------------- MODULE RecorderProofs ---------------------------
(***************************************************************************)
(* Proofs about Recorder, for any set of exchanges and any capacity of the *)
(* channel.                                                                *)
(***************************************************************************)
EXTENDS Recorder, FiniteSetTheorems, TLAPS

-----------------------------------------------------------------------------
(* Sequences without repetition                                            *)

\* Appending adds one element.
LEMMA RangeAppend ==
  ASSUME NEW S, NEW s \in Seq(S), NEW x \in S
  PROVE  Range(Append(s, x)) = Range(s) \cup {x}
<1> DEFINE t == Append(s, x)
<1>1. /\ DOMAIN s = 1..Len(s) /\ DOMAIN t = 1..(Len(s) + 1) /\ Len(s) \in Nat
      /\ \A i \in 1..Len(s) : t[i] = s[i]
      /\ t[Len(s) + 1] = x
  OBVIOUS
<1> HIDE DEF t
<1>2. Range(t) \subseteq Range(s) \cup {x} BY <1>1 DEF Range
<1>3. Range(s) \subseteq Range(t) BY <1>1 DEF Range
<1>4. x \in Range(t) BY <1>1 DEF Range
<1> QED BY <1>2, <1>3, <1>4 DEF t

\* Appending a new element keeps the elements distinct.
LEMMA InjectiveAppend ==
  ASSUME NEW S, NEW s \in Seq(S), NEW x \in S, IsInjective(s), x \notin Range(s)
  PROVE  IsInjective(Append(s, x))
<1> DEFINE t == Append(s, x)
<1>1. /\ DOMAIN s = 1..Len(s) /\ DOMAIN t = 1..(Len(s) + 1) /\ Len(s) \in Nat
      /\ \A i \in 1..Len(s) : t[i] = s[i]
      /\ t[Len(s) + 1] = x
  OBVIOUS
<1>2. \A i \in 1..Len(s) : s[i] # x BY <1>1 DEF Range
<1> HIDE DEF t
<1>3. IsInjective(t) BY <1>1, <1>2 DEF IsInjective
<1> QED BY <1>3 DEF t

\* Taking the head away takes one element, and leaves the others distinct.
LEMMA TailOfInjective ==
  ASSUME NEW S, NEW s \in Seq(S), s # <<>>, IsInjective(s)
  PROVE  /\ Head(s) \in Range(s)
         /\ Range(Tail(s)) = Range(s) \ {Head(s)}
         /\ IsInjective(Tail(s))
<1> DEFINE t == Tail(s)
           x == Head(s)
<1>1. /\ DOMAIN s = 1..Len(s) /\ Len(s) \in Nat /\ Len(s) > 0
      /\ DOMAIN t = 1..(Len(s) - 1)
      /\ \A i \in 1..(Len(s) - 1) : t[i] = s[i + 1]
      /\ x = s[1]
  OBVIOUS
<1> HIDE DEF t, x
<1>2. x \in Range(s) BY <1>1 DEF Range
<1>3. Range(t) \subseteq Range(s) \ {x} BY <1>1 DEF Range, IsInjective
<1>4. Range(s) \ {x} \subseteq Range(t)
  <2> SUFFICES ASSUME NEW i \in 1..Len(s), s[i] # x PROVE s[i] \in Range(t)
    BY <1>1 DEF Range
  <2>1. i - 1 \in 1..(Len(s) - 1) /\ t[i - 1] = s[i] BY <1>1
  <2> QED BY <1>1, <2>1 DEF Range
<1>5. IsInjective(t)
  <2> SUFFICES ASSUME NEW i \in 1..(Len(s) - 1), NEW j \in 1..(Len(s) - 1), t[i] = t[j]
               PROVE  i = j
    BY <1>1 DEF IsInjective
  <2>1. i + 1 = j + 1 BY <1>1 DEF IsInjective
  <2> QED BY <2>1
<1> QED BY <1>2, <1>3, <1>4, <1>5 DEF t, x

-----------------------------------------------------------------------------
(* Type correctness                                                        *)

\* The initial state is well typed.
LEMMA InitTypeOK == Init => TypeOK
BY RecorderAssumption DEF Init, TypeOK

\* The end of the process, however it comes, keeps the types.
LEMMA DieTypeOK ==
  ASSUME TypeOK, NEW how \in {"exited", "panicked"}, Die(how)
  PROVE  TypeOK'
BY RecorderAssumption DEF TypeOK, Die

\* Every step keeps the types, and the channel within its capacity.
LEMMA StepTypeOK == TypeOK /\ [Next]_vars => TypeOK'
<1> SUFFICES ASSUME TypeOK, [Next]_vars PROVE TypeOK'
  OBVIOUS
<1> USE RecorderAssumption
<1>1. ASSUME NEW r \in Requests, Serve(r) \/ Refuse(r) \/ Close(r) PROVE TypeOK'
  BY <1>1 DEF TypeOK, Serve, Refuse, Close
<1>2. ASSUME NEW r \in Requests, SendRecord(r) PROVE TypeOK'
  <2>1. ch' \in Seq(Requests) /\ Len(ch') = Len(ch) + 1
    BY <1>2 DEF TypeOK, SendRecord, Enqueue
  <2> QED BY <1>2, <2>1 DEF TypeOK, SendRecord, Enqueue
<1>3. ASSUME NEW r \in Requests, Insert(r) PROVE TypeOK'
  BY <1>3 DEF TypeOK, Insert, AfterInsert
<1>4. ASSUME NEW r \in Requests, InsertFails(r) PROVE TypeOK'
  BY <1>4, DieTypeOK DEF InsertFails
<1>5. ASSUME NEW r \in Requests, Notify(r) PROVE TypeOK'
  BY <1>5 DEF TypeOK, Notify
<1>6. ASSUME Receive PROVE TypeOK'
  <2>1. /\ ch' \in Seq(Requests) /\ Len(ch') = Len(ch) - 1 /\ Len(ch) \in Nat
        /\ Head(ch) \in Requests
    BY <1>6 DEF TypeOK, Receive, Dequeue, InsertFirst
  <2> QED BY <1>6, <2>1 DEF TypeOK, Receive, Dequeue, InsertFirst
<1>7. ASSUME Exit PROVE TypeOK'
  BY <1>7, DieTypeOK DEF Exit
<1>8. ASSUME Restart PROVE TypeOK'
  BY <1>8 DEF TypeOK, Restart
<1>9. ASSUME UNCHANGED vars PROVE TypeOK'
  BY <1>9 DEF TypeOK, vars
<1> QED
  BY <1>1, <1>2, <1>3, <1>4, <1>5, <1>6, <1>7, <1>8, <1>9 DEF Next

\* The type invariant of Recorder.
THEOREM TypeCorrect == Spec => []TypeOK
BY InitTypeOK, StepTypeOK, PTL DEF Spec

-----------------------------------------------------------------------------
(* Where a record is                                                       *)

\* The channel, the goroutines about to insert and the table hold no record
\* twice, hold only records that were sent, and between them hold all of these.
PlaceInv ==
  /\ IsInjective(ch) /\ IsInjective(db)
  /\ \A r \in Requests :
       /\ r \in Range(ch) => exchange[r] = "sent" /\ saving[r] = "none" /\ r \notin Stored
       /\ saving[r] = "insert" => exchange[r] = "sent" /\ r \notin Stored
       /\ saving[r] \in {"notify", "done"} => r \in Stored
       /\ r \in Stored => exchange[r] = "sent"
       /\ exchange[r] = "sent" => r \in Range(ch) \/ saving[r] = "insert" \/ r \in Stored

IInv == TypeOK /\ PlaceInv

\* There is nothing in the initial state.
LEMMA InitIInv == Init => IInv
<1>1. Range(<<>>) = {} /\ IsInjective(<<>>)
  BY DEF Range, IsInjective
<1> QED BY <1>1, InitTypeOK DEF Init, IInv, PlaceInv, Stored

\* The end of the process leaves what is in the table, and nothing else.
LEMMA DiePlaceInv ==
  ASSUME IInv, NEW how \in {"exited", "panicked"}, Die(how)
  PROVE  PlaceInv'
<1>1. Range(<<>>) = {} /\ IsInjective(<<>>)
  BY DEF Range, IsInjective
<1>2. /\ ch' = <<>> /\ db' = db /\ Stored' = Stored
      /\ \A r \in Requests : saving'[r] = "none"
  BY DEF Die, Stored
<1>3. \A r \in Requests : exchange'[r] = "sent" <=> exchange[r] = "sent" /\ r \in Stored
  BY DEF Die, IInv, TypeOK
<1> QED BY <1>1, <1>2, <1>3 DEF IInv, PlaceInv

\* Every step moves a record from one place to the next, or none.
LEMMA StepIInv == IInv /\ [Next]_vars => IInv'
<1> SUFFICES ASSUME IInv, [Next]_vars PROVE IInv'
  OBVIOUS
<1>0. TypeOK' BY StepTypeOK DEF IInv
<1>1. ASSUME NEW r \in Requests, Serve(r) \/ Refuse(r) \/ Close(r) PROVE PlaceInv'
  BY <1>1 DEF IInv, TypeOK, PlaceInv, Stored, Serve, Refuse, Close
<1>2. ASSUME NEW r \in Requests, SendRecord(r) PROVE PlaceInv'
  <2>1. /\ exchange[r] = "closing" /\ ch' = Append(ch, r)
        /\ \A q \in Requests : exchange'[q] = IF q = r THEN "sent" ELSE exchange[q]
        /\ saving' = saving /\ db' = db /\ Stored' = Stored
        /\ ch \in Seq(Requests)
        /\ saving[r] \in {"none", "insert", "notify", "done"}
    BY <1>2 DEF SendRecord, Enqueue, Stored, IInv, TypeOK
  <2>2. r \notin Range(ch) /\ r \notin Stored /\ saving[r] = "none"
    BY <2>1 DEF IInv, PlaceInv
  <2>3. Range(ch') = Range(ch) \cup {r} /\ IsInjective(ch')
    BY <2>1, <2>2, RangeAppend, InjectiveAppend DEF IInv, PlaceInv
  <2> QED BY <2>1, <2>2, <2>3 DEF IInv, PlaceInv
<1>3. ASSUME NEW r \in Requests, Insert(r) PROVE PlaceInv'
  <2>1. /\ saving[r] = "insert" /\ db' = Append(db, r)
        /\ \A q \in Requests : saving'[q] = IF q = r THEN "notify" ELSE saving[q]
        /\ exchange' = exchange /\ ch' = ch
        /\ db \in Seq(Requests)
    BY <1>3 DEF Insert, AfterInsert, IInv, TypeOK
  <2>2. r \notin Range(ch) /\ r \notin Stored /\ exchange[r] = "sent"
    BY <2>1 DEF IInv, PlaceInv
  <2>3. Stored' = Stored \cup {r} /\ IsInjective(db')
    BY <2>1, <2>2, RangeAppend, InjectiveAppend DEF IInv, PlaceInv, Stored
  <2> QED BY <2>1, <2>2, <2>3 DEF IInv, PlaceInv
<1>4. ASSUME NEW r \in Requests, InsertFails(r) PROVE PlaceInv'
  BY <1>4, DiePlaceInv DEF InsertFails
<1>5. ASSUME NEW r \in Requests, Notify(r) PROVE PlaceInv'
  BY <1>5 DEF IInv, TypeOK, PlaceInv, Stored, Notify
<1>6. ASSUME Receive PROVE PlaceInv'
  <2> DEFINE h == Head(ch)
  <2>1. /\ ch # <<>> /\ ch \in Seq(Requests) /\ ch' = Tail(ch) /\ h \in Requests
        /\ \A q \in Requests : saving'[q] = IF q = h THEN "insert" ELSE saving[q]
        /\ exchange' = exchange /\ db' = db /\ Stored' = Stored
    BY <1>6 DEF Receive, Dequeue, InsertFirst, Stored, IInv, TypeOK
  <2>2. h \in Range(ch) /\ Range(ch') = Range(ch) \ {h} /\ IsInjective(ch')
    BY <2>1, TailOfInjective DEF IInv, PlaceInv
  <2> HIDE DEF h
  <2> QED BY <2>1, <2>2 DEF IInv, PlaceInv
<1>7. ASSUME Exit PROVE PlaceInv'
  BY <1>7, DiePlaceInv DEF Exit
<1>8. ASSUME Restart PROVE PlaceInv'
  BY <1>8 DEF IInv, PlaceInv, Stored, Restart
<1>9. ASSUME UNCHANGED vars PROVE PlaceInv'
  BY <1>9 DEF IInv, PlaceInv, Stored, vars
<1> QED
  BY <1>0, <1>1, <1>2, <1>3, <1>4, <1>5, <1>6, <1>7, <1>8, <1>9 DEF Next, IInv

\* The inductive invariant of Recorder.
LEMMA Inductive == Spec => []IInv
BY InitIInv, StepIInv, PTL DEF Spec

-----------------------------------------------------------------------------
(* What follows                                                            *)

\* A record that was handed over is in exactly one place: neither the channel,
\* nor the goroutine per record, nor the insert loses or doubles it.
THEOREM RecordsAccounted == Spec => []Accounted
<1>1. IInv => Accounted
  <2> SUFFICES ASSUME IInv, NEW r \in Requests, exchange[r] = "sent"
               PROVE  Cardinality(Places(r)) = 1
    BY DEF Accounted
  <2>1. PICK p \in {"channel", "goroutine", "table"} : Places(r) = {p}
    <3>1. CASE r \in Range(ch)
      <4>1. Places(r) = {"channel"}
        BY <3>1 DEF IInv, PlaceInv, Places, Inserting
      <4> QED BY <4>1
    <3>2. CASE saving[r] = "insert"
      <4>1. Places(r) = {"goroutine"}
        BY <3>2 DEF IInv, PlaceInv, Places, Inserting
      <4> QED BY <4>1
    <3>3. CASE r \in Stored
      <4>1. Places(r) = {"table"}
        BY <3>3 DEF IInv, PlaceInv, Places, Inserting
      <4> QED BY <4>1
    <3> QED BY <3>1, <3>2, <3>3 DEF IInv, PlaceInv
  <2> QED BY <2>1, FS_Singleton
<1> QED BY <1>1, Inductive, PTL

\* No row is written twice or without a relayed exchange, across restarts.
THEOREM RowsStoredOnce == Spec => []StoredOnce
<1>1. IInv => StoredOnce
  <2>1. IInv => Stored \subseteq Requests
    BY DEF IInv, TypeOK, Stored, Range
  <2> QED BY <2>1 DEF IInv, PlaceInv, StoredOnce
<1> QED BY <1>1, Inductive, PTL

\* wsBroadcast is called for a record only when its row is there.
THEOREM AnnouncedAreStored == Spec => []AnnouncedIsStored
<1>1. IInv => AnnouncedIsStored
  BY DEF IInv, PlaceInv, AnnouncedIsStored
<1> QED BY <1>1, Inductive, PTL

-----------------------------------------------------------------------------
(* The recorder implements the traffic log                                 *)

\* What the three variables of the log stand for.
Taken   == {r \in Requests : exchange[r] \in {"sent", "lost"}}
Pending == Range(ch) \cup Inserting

\* An empty recorder is an empty log.
LEMMA InitImplementsLog == Init => Log!Init
<1>1. Range(<<>>) = {} BY DEF Range
<1> QED BY <1>1 DEF Init, Log!Init, Inserting

\* The end of the process drops what is pending.
LEMMA DieImplementsLog ==
  ASSUME IInv, NEW how \in {"exited", "panicked"}, Die(how)
  PROVE  Log!Drop \/ UNCHANGED Log!vars
<1>1. Taken' = Taken
  BY DEF Taken, Die, IInv, TypeOK
<1>2. Pending' = {}
  <2>1. Range(<<>>) = {} BY DEF Range
  <2> QED BY <2>1 DEF Pending, Inserting, Die
<1>3. db' = db BY DEF Die
<1> QED BY <1>1, <1>2, <1>3 DEF Log!Drop, Log!vars, Taken, Pending

\* Every step of the recorder is a step of the log, or leaves the log as it is.
LEMMA StepImplementsLog == IInv /\ [Next]_vars => [Log!Next]_(Log!vars)
<1> SUFFICES ASSUME IInv, [Next]_vars PROVE Log!Next \/ UNCHANGED Log!vars
  OBVIOUS
<1>1. ASSUME NEW r \in Requests, Serve(r) \/ Refuse(r) \/ Close(r)
      PROVE  UNCHANGED Log!vars
  <2>1. Taken' = Taken
    BY <1>1 DEF Serve, Refuse, Close, Taken, IInv, TypeOK
  <2>2. Pending' = Pending /\ db' = db
    BY <1>1 DEF Serve, Refuse, Close, Pending, Inserting
  <2> QED BY <2>1, <2>2 DEF Log!vars, Taken, Pending
<1>2. ASSUME NEW r \in Requests, SendRecord(r) PROVE Log!Take(r)
  <2>1. Taken' = Taken \cup {r} /\ r \notin Taken
    BY <1>2 DEF SendRecord, Enqueue, Taken, IInv, TypeOK
  <2>2. Range(ch') = Range(ch) \cup {r}
    BY <1>2, RangeAppend DEF SendRecord, Enqueue, IInv, TypeOK
  <2>3. Pending' = Pending \cup {r} /\ db' = db
    BY <1>2, <2>2 DEF SendRecord, Enqueue, Pending, Inserting
  <2> QED BY <2>1, <2>3 DEF Log!Take, Taken, Pending
<1>3. ASSUME NEW r \in Requests, Insert(r) PROVE Log!Store(r)
  <2>1. r \in Pending /\ r \notin Range(ch)
    BY <1>3 DEF Insert, AfterInsert, Pending, Inserting, IInv, PlaceInv
  <2>2. Inserting' = Inserting \ {r}
    BY <1>3 DEF Insert, AfterInsert, Inserting, IInv, TypeOK
  <2>3. Pending' = Pending \ {r} /\ Taken' = Taken /\ db' = Append(db, r)
    BY <1>3, <2>1, <2>2 DEF Insert, AfterInsert, Pending, Taken
  <2> QED BY <2>1, <2>3 DEF Log!Store, Taken, Pending
<1>4. ASSUME NEW r \in Requests, InsertFails(r) PROVE Log!Drop \/ UNCHANGED Log!vars
  BY <1>4, DieImplementsLog DEF InsertFails
<1>5. ASSUME NEW r \in Requests, Notify(r) PROVE UNCHANGED Log!vars
  <2>1. Inserting' = Inserting
    BY <1>5 DEF Notify, Inserting, IInv, TypeOK
  <2> QED BY <1>5, <2>1 DEF Notify, Log!vars
<1>6. ASSUME Receive PROVE UNCHANGED Log!vars
  <2> DEFINE h == Head(ch)
  <2>1. ch \in Seq(Requests) /\ ch # <<>> /\ h \in Requests /\ ch' = Tail(ch)
    BY <1>6 DEF Receive, Dequeue, InsertFirst, IInv, TypeOK
  <2>2. h \in Range(ch) /\ Range(ch') = Range(ch) \ {h}
    BY <2>1, TailOfInjective DEF IInv, PlaceInv
  <2>3. Inserting' = Inserting \cup {h}
    BY <1>6, <2>1 DEF Receive, Dequeue, InsertFirst, Inserting, IInv, TypeOK
  <2>4. Pending' = Pending
    <3> HIDE DEF h
    <3> QED BY <2>2, <2>3 DEF Pending
  <2> QED BY <1>6, <2>4 DEF Receive, Dequeue, InsertFirst, Log!vars, Pending
<1>7. ASSUME Exit PROVE Log!Drop \/ UNCHANGED Log!vars
  BY <1>7, DieImplementsLog DEF Exit
<1>8. ASSUME Restart PROVE UNCHANGED Log!vars
  BY <1>8 DEF Restart, Log!vars, Inserting
<1>9. ASSUME UNCHANGED vars PROVE UNCHANGED Log!vars
  BY <1>9 DEF vars, Log!vars, Inserting
<1> QED
  BY <1>1, <1>2, <1>3, <1>4, <1>5, <1>6, <1>7, <1>8, <1>9 DEF Next, Log!Next

\* The recorder implements the traffic log, but for its liveness: a record that
\* was sent is stored at most once or dropped with the process, no other is
\* stored, and nothing touches a row once it is there.
THEOREM RecorderImplementsLog == Spec => Log!Spec
<1>1. Spec => []IInv BY Inductive
<1> QED BY <1>1, InitImplementsLog, StepImplementsLog, PTL DEF Spec, Log!Spec
=============================================================================
