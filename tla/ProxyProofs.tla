---------------------------- MODULE ProxyProofs ----------------------------
(***************************************************************************)
(* Proofs about Proxy, for any requests, writers, bodies and capacity.     *)
(***************************************************************************)
EXTENDS Proxy, WellFoundedInduction, TLAPS

-----------------------------------------------------------------------------
(* The inductive invariant                                                 *)

Before == {"idle", "buffering", "sending", "responding"}

\* What ServeHTTP has made and written, by where it is.
PlaceInv ==
  \A r \in Requests :
    /\ at[r] \in Before => reply[r] = "none" /\ ws[r] = {}
    /\ at[r] \in {"copying", "closing"} =>
         reply[r] = "origin" /\ Capture \in ws[r] /\ outBody[r] = "bodyCopy"
    /\ at[r] \in Before \cup {"copying"} => shut[r] = {}

\* The capture writer is closed when its record is made, and only then.
CloseInv ==
  \A r \in Requests :
    /\ shut[r] \subseteq ws[r]
    /\ Recorded(r) <=> Capture \in shut[r]

\* bodyCopy holds the whole request body until the record is made.
BodyInv ==
  \A r \in Requests :
    at[r] \in {"sending", "responding", "copying", "closing"} /\ ~Recorded(r) =>
      bodyCopy[r] = sent[r]

\* No writer is ahead of the client, and the client not ahead of the origin.
CopyInv ==
  \A r \in Requests :
    /\ given[r] <= origin[r]
    /\ \A w \in Writers : copied[r][w] <= given[r]
    /\ at[r] \in Before => given[r] = 0

\* The capture writer has what the client has, until another writer fails.
SameInv ==
  \A r \in Requests :
    \/ copied[r][Capture] = given[r]
    \/ /\ at[r] \notin Before \cup {"copying"}
       /\ copied[r][Capture] = given[r] - 1
       /\ \E w \in ws[r] : w < Capture

\* The record is of the copy, which is over by then.
RecordInv ==
  \A r \in Requests : Recorded(r) => record[r].down = copied[r][Capture]

IInv ==
  /\ TypeOK /\ PlaceInv /\ CloseInv /\ BodyInv /\ CopyInv /\ SameInv /\ RecordInv
  /\ RequestBodyWhole /\ NothingLeftBehind

\* The initial state satisfies the inductive invariant.
LEMMA InitIInv == Init => IInv
<1> SUFFICES ASSUME Init PROVE IInv OBVIOUS
<1> USE ProxyAssumption DEF Init, Writers
<1>1. TypeOK
  <2>1. ch \in Seq(Requests) /\ Len(ch) <= Cap OBVIOUS
  <2>2. NoRecord \in {NoRecord} \cup [up : 0..MaxUp, down : 0..MaxDown] OBVIOUS
  <2>3. record \in [Requests -> {NoRecord} \cup [up : 0..MaxUp, down : 0..MaxDown]]
    BY <2>2
  <2>4. copied \in [Requests -> [Writers -> 0..MaxDown]] OBVIOUS
  <2>5. /\ body \in [Requests -> 0..MaxUp] /\ bodyCopy \in [Requests -> 0..MaxUp]
        /\ sent \in [Requests -> 0..MaxUp]
        /\ origin \in [Requests -> 0..MaxDown] /\ given \in [Requests -> 0..MaxDown]
    OBVIOUS
  <2>6. /\ ws \in [Requests -> SUBSET Writers] /\ shut \in [Requests -> SUBSET Writers]
        /\ rt \in BOOLEAN /\ received \subseteq Requests
    OBVIOUS
  <2>7. /\ at \in [Requests -> {"idle", "buffering", "sending", "responding",
                               "copying", "closing", "done"}]
        /\ reply \in [Requests -> {"none", "500", "empty", "origin"}]
        /\ outBody \in [Requests -> {"client", "body", "bodyCopy"}]
    OBVIOUS
  <2> QED BY <2>1, <2>3, <2>4, <2>5, <2>6, <2>7 DEF TypeOK
<1>2. PlaceInv /\ BodyInv /\ SameInv BY DEF PlaceInv, BodyInv, SameInv, Before
<1>3. CloseInv /\ RecordInv /\ RequestBodyWhole /\ NothingLeftBehind
  BY DEF CloseInv, RecordInv, RequestBodyWhole, NothingLeftBehind, Recorded, NoRecord
<1>4. CopyInv BY DEF CopyInv
<1> QED BY <1>1, <1>2, <1>3, <1>4 DEF IInv

\* A set of numbers that is not empty has a least element.
LEMMA LeastNumber ==
  ASSUME NEW T \in SUBSET Nat, T # {}
  PROVE  \E x \in T : \A y \in T : x <= y
<1> DEFINE Less == {ss \in Nat \X Nat : ss[1] < ss[2]}
<1>1. IsWellFoundedOn(Less, Nat)
  BY NatLessThanWellFounded DEF OpToRel
<1>2. \A x, y \in Nat : y < x => <<y, x>> \in Less
  OBVIOUS
<1> HIDE DEF Less
<1>3. PICK x \in T : \A y \in T : ~(<<y, x>> \in Less)
  BY <1>1, WFMin
<1>4. ASSUME NEW y \in T PROVE x <= y
  <2>1. x \in Nat /\ y \in Nat OBVIOUS
  <2>2. ~(y < x) BY <1>2, <1>3, <2>1
  <2> QED BY <2>1, <2>2
<1> QED BY <1>4

\* The writer that ServeHTTP closes next was made and is not closed yet.
LEMMA NextIsOpen ==
  ASSUME TypeOK, CloseInv, NEW r \in Requests, ws[r] # shut[r]
  PROVE  NextToClose(r) \in ws[r] \ shut[r]
<1>1. ws[r] \ shut[r] # {} BY DEF CloseInv
<1>2. ws[r] \ shut[r] \in SUBSET Nat BY ProxyAssumption DEF TypeOK, Writers
<1>3. \E w \in ws[r] \ shut[r] : \A v \in ws[r] \ shut[r] : w <= v
  BY <1>1, <1>2, LeastNumber
<1> QED BY <1>3 DEF NextToClose

\* What one chunk does: the client and the capture tool get it both, or neither,
\* or the client alone, when a writer before the capture tool refuses it.
LEMMA ChunkEffect ==
  ASSUME TypeOK, PlaceInv, NEW r \in Requests, CopyChunk(r)
  PROVE  /\ at[r] = "copying" /\ at'[r] \in {"copying", "closing"}
         /\ given[r] < origin[r] /\ given'[r] \in {given[r], given[r] + 1}
         /\ \A w \in Writers :
              /\ copied'[r][w] \in {copied[r][w], copied[r][w] + 1}
              /\ given'[r] = given[r] => copied'[r][w] = copied[r][w]
         /\ \/ given'[r] - copied'[r][Capture] = given[r] - copied[r][Capture]
            \/ /\ given'[r] = given[r] + 1 /\ copied'[r][Capture] = copied[r][Capture]
               /\ at'[r] = "closing" /\ \E w \in ws[r] : w < Capture
<1> USE ProxyAssumption DEF TypeOK, ClientPlace, Writers
<1>1. PICK bad \in (ws[r] \ {Capture}) \cup {ClientPlace, NWriters + 2} :
        /\ given' = [given EXCEPT ![r] = IF ClientPlace < bad THEN @ + 1 ELSE @]
        /\ copied' = [copied EXCEPT ![r] = [w \in Writers |->
             IF w \in ws[r] /\ w < bad THEN @[w] + 1 ELSE @[w]]]
        /\ at' = [at EXCEPT ![r] = IF bad = NWriters + 2 THEN @ ELSE "closing"]
  BY DEF CopyChunk
<1>2. bad \in Nat BY <1>1
<1>3. /\ at[r] = "copying" /\ given[r] < origin[r]
      /\ at'[r] \in {"copying", "closing"}
  BY <1>1 DEF CopyChunk
<1>4. given'[r] = IF 0 < bad THEN given[r] + 1 ELSE given[r]
  BY <1>1
<1>5. \A w \in Writers :
        copied'[r][w] = IF w \in ws[r] /\ w < bad THEN copied[r][w] + 1 ELSE copied[r][w]
  BY <1>1
<1>6. given[r] \in Nat /\ \A w \in Writers : copied[r][w] \in Nat
  OBVIOUS
<1> HIDE ProxyAssumption DEF TypeOK, ClientPlace
<1>7. ASSUME NEW w \in Writers
      PROVE  /\ copied'[r][w] \in {copied[r][w], copied[r][w] + 1}
             /\ given'[r] = given[r] => copied'[r][w] = copied[r][w]
  <2>1. CASE bad = 0
    <3>1. ~(w < bad) BY <2>1
    <3> QED BY <1>5, <3>1
  <2>2. CASE bad # 0
    <3>1. given'[r] = given[r] + 1 BY <1>2, <1>4, <2>2
    <3> QED BY <1>5, <1>6, <3>1
  <2> QED BY <2>1, <2>2
<1>8. /\ Capture \in Nat \ {0} /\ NWriters \in Nat /\ Capture <= NWriters
      /\ Capture \in Writers /\ Capture \in ws[r] /\ bad # Capture
  BY <1>1, <1>3, ProxyAssumption DEF PlaceInv, ClientPlace
<1>9. CASE bad = 0 \/ Capture < bad
  <2>1. given'[r] - copied'[r][Capture] = given[r] - copied[r][Capture]
    <3>1. CASE bad = 0
      <4>1. ~(Capture < bad) /\ ~(0 < bad) BY <1>8, <3>1
      <4> QED BY <1>4, <1>5, <1>8, <4>1
    <3>2. CASE Capture < bad
      <4>1. 0 < bad BY <1>2, <1>8, <3>2
      <4> QED BY <1>4, <1>5, <1>6, <1>8, <3>2, <4>1
    <3> QED BY <1>9, <3>1, <3>2
  <2> QED BY <1>3, <1>4, <1>6, <1>7, <2>1
<1>10. CASE bad # 0 /\ ~(Capture < bad)
  <2>1. given'[r] = given[r] + 1 /\ copied'[r][Capture] = copied[r][Capture]
    BY <1>2, <1>4, <1>5, <1>8, <1>10
  <2>2. bad < Capture /\ bad # NWriters + 2
    BY <1>2, <1>8, <1>10
  <2>3. bad \in ws[r] BY <1>1, <1>10, <2>2 DEF ClientPlace
  <2>4. at'[r] = "closing" BY <1>1, <2>2 DEF TypeOK
  <2> QED BY <1>3, <1>4, <1>6, <1>7, <2>1, <2>2, <2>3, <2>4
<1> QED BY <1>9, <1>10

\* Every step keeps the types: a copy is never longer than the body.
LEMMA StepTypeOK == TypeOK /\ PlaceInv /\ CloseInv /\ CopyInv /\ [Next]_vars => TypeOK'
<1> SUFFICES ASSUME TypeOK, PlaceInv, CloseInv, CopyInv, [Next]_vars PROVE TypeOK'
  OBVIOUS
<1> USE DEF vars, reqVars, resVars, capVars
<1>1. ASSUME NEW r \in Requests, Accept(r) \/ OriginAnswers(r) PROVE TypeOK'
  <2>1. CASE Accept(r) BY <2>1 DEF TypeOK, Accept
  <2>2. CASE OriginAnswers(r) BY <2>2 DEF TypeOK, OriginAnswers
  <2> QED BY <1>1, <2>1, <2>2
<1>2. ASSUME NEW r \in Requests, BufferBody(r) PROVE TypeOK'
  BY <1>2 DEF TypeOK, BufferBody
<1>3. ASSUME NEW r \in Requests, BodyFails(r) \/ NoTransport(r) \/ OriginFails(r)
      PROVE  TypeOK'
  <2>1. \E answer \in {"500", "empty"} : Return(r, answer)
    BY <1>3 DEF BodyFails, NoTransport, OriginFails
  <2> QED BY <2>1 DEF TypeOK, Return
<1>4. ASSUME NEW r \in Requests, Upload(r) PROVE TypeOK'
  <2>1. body' \in [Requests -> 0..MaxUp]
    BY <1>4, ProxyAssumption DEF TypeOK, Upload
  <2> QED BY <1>4, <2>1 DEF TypeOK, Upload
<1>5. ASSUME NEW r \in Requests, Respond(r) PROVE TypeOK'
  BY <1>5 DEF TypeOK, Respond, ResetBody
<1>6. ASSUME NEW r \in Requests, CopyChunk(r) PROVE TypeOK'
  <2>1. PICK bad \in (ws[r] \ {Capture}) \cup {ClientPlace, NWriters + 2} :
          copied' = [copied EXCEPT ![r] = [w \in Writers |->
            IF w \in ws[r] /\ w < bad THEN @[w] + 1 ELSE @[w]]]
    BY <1>6 DEF CopyChunk
  <2> DEFINE row == [w \in Writers |->
               IF w \in ws[r] /\ w < bad THEN copied[r][w] + 1 ELSE copied[r][w]]
  <2>2. copied' = [copied EXCEPT ![r] = row] BY <2>1 DEF TypeOK
  <2>3. /\ given[r] < origin[r] /\ given'[r] \in {given[r], given[r] + 1}
        /\ \A w \in Writers :
             /\ copied'[r][w] \in {copied[r][w], copied[r][w] + 1}
             /\ given'[r] = given[r] => copied'[r][w] = copied[r][w]
    BY <1>6, ChunkEffect
  <2>4. /\ given[r] \in 0..MaxDown /\ origin[r] \in 0..MaxDown /\ MaxDown \in Nat
        /\ \A w \in Writers : copied[r][w] \in 0..MaxDown /\ copied[r][w] <= given[r]
    BY ProxyAssumption DEF TypeOK, CopyInv
  <2>5. given'[r] \in 0..MaxDown BY <2>3, <2>4
  <2>6. \A w \in Writers : copied'[r][w] \in 0..MaxDown BY <2>3, <2>4
  <2>7. given' \in [Requests -> 0..MaxDown]
    BY <1>6, <2>5 DEF TypeOK, CopyChunk
  <2>8. \A w \in Writers : row[w] = copied'[r][w] BY <2>2 DEF TypeOK
  <2>9. row \in [Writers -> 0..MaxDown] BY <2>6, <2>8
  <2> HIDE DEF row
  <2>10. copied' \in [Requests -> [Writers -> 0..MaxDown]]
    BY <2>2, <2>9 DEF TypeOK
  <2> QED BY <1>6, <2>7, <2>10 DEF TypeOK, CopyChunk
<1>7. ASSUME NEW r \in Requests, CopyEnds(r) \/ Finish(r) PROVE TypeOK'
  BY <1>7 DEF TypeOK, CopyEnds, Finish
<1>8. ASSUME NEW r \in Requests, CloseOther(r) PROVE TypeOK'
  <2>1. NextToClose(r) \in Writers BY <1>8, NextIsOpen DEF TypeOK, CloseOther
  <2> QED BY <1>8, <2>1 DEF TypeOK, CloseOther
<1>9. ASSUME NEW r \in Requests, CloseCapture(r) PROVE TypeOK'
  <2> DEFINE new == [up |-> Unread(r), down |-> copied[r][Capture]]
  <2>1. Capture \in Writers BY ProxyAssumption DEF Writers
  <2>2. new \in [up : 0..MaxUp, down : 0..MaxDown]
    BY <2>1 DEF TypeOK, Unread
  <2>3. record' = [record EXCEPT ![r] = new] BY <1>9 DEF CloseCapture
  <2> HIDE DEF new
  <2>4. record' \in [Requests -> {NoRecord} \cup [up : 0..MaxUp, down : 0..MaxDown]]
    BY <2>2, <2>3 DEF TypeOK
  <2>5. ch' \in Seq(Requests) /\ Len(ch') <= Cap
    BY <1>9, ProxyAssumption DEF TypeOK, CloseCapture, Room
  <2>6. /\ bodyCopy' \in [Requests -> 0..MaxUp]
        /\ body' \in [Requests -> 0..MaxUp]
    BY <1>9, ProxyAssumption DEF TypeOK, CloseCapture, Drain
  <2>7. shut' \in [Requests -> SUBSET Writers]
    BY <1>9, <2>1 DEF TypeOK, CloseCapture
  <2> QED BY <1>9, <2>4, <2>5, <2>6, <2>7 DEF TypeOK, CloseCapture
<1>10. CASE SetTransport BY <1>10 DEF TypeOK, SetTransport
<1>11. CASE Receive
  <2>1. ch' \in Seq(Requests) /\ Len(ch') <= Cap /\ Head(ch) \in Requests
    BY <1>11, ProxyAssumption DEF TypeOK, Receive
  <2> QED BY <1>11, <2>1 DEF TypeOK, Receive
<1>12. CASE UNCHANGED vars BY <1>12 DEF TypeOK
<1> QED
  BY <1>1, <1>2, <1>3, <1>4, <1>5, <1>6, <1>7, <1>8, <1>9, <1>10, <1>11, <1>12 DEF Next

\* Every step keeps what is made at each place of ServeHTTP.
LEMMA StepPlace == TypeOK /\ PlaceInv /\ [Next]_vars => PlaceInv'
<1> SUFFICES ASSUME TypeOK, PlaceInv, [Next]_vars PROVE PlaceInv'
  OBVIOUS
<1> USE ProxyAssumption DEF reqVars, resVars, capVars
<1>1. ASSUME NEW r \in Requests, Accept(r) PROVE PlaceInv'
  BY <1>1 DEF TypeOK, PlaceInv, Before, Accept
<1>2. ASSUME NEW r \in Requests, BufferBody(r) PROVE PlaceInv'
  BY <1>2 DEF TypeOK, PlaceInv, Before, BufferBody
<1>3. ASSUME NEW r \in Requests, BodyFails(r) \/ NoTransport(r) \/ OriginFails(r) PROVE PlaceInv'
  BY <1>3 DEF TypeOK, PlaceInv, Before, BodyFails, NoTransport, OriginFails, Return
<1>4. ASSUME NEW r \in Requests, OriginAnswers(r) PROVE PlaceInv'
  BY <1>4 DEF TypeOK, PlaceInv, Before, OriginAnswers
<1>5. ASSUME NEW r \in Requests, Upload(r) PROVE PlaceInv'
  BY <1>5 DEF TypeOK, PlaceInv, Before, Upload
<1>6. ASSUME NEW r \in Requests, Respond(r) PROVE PlaceInv'
  BY <1>6 DEF TypeOK, PlaceInv, Before, Respond, ResetBody
<1>7. ASSUME NEW r \in Requests, CopyChunk(r) PROVE PlaceInv'
  BY <1>7 DEF TypeOK, PlaceInv, Before, CopyChunk
<1>8. ASSUME NEW r \in Requests, CopyEnds(r) PROVE PlaceInv'
  BY <1>8 DEF TypeOK, PlaceInv, Before, CopyEnds
<1>9. ASSUME NEW r \in Requests, CloseOther(r) PROVE PlaceInv'
  BY <1>9 DEF TypeOK, PlaceInv, Before, CloseOther
<1>10. ASSUME NEW r \in Requests, CloseCapture(r) PROVE PlaceInv'
  BY <1>10 DEF TypeOK, PlaceInv, Before, CloseCapture
<1>11. ASSUME NEW r \in Requests, Finish(r) PROVE PlaceInv'
  BY <1>11 DEF TypeOK, PlaceInv, Before, Finish, AllShut
<1>12. ASSUME SetTransport PROVE PlaceInv'
  BY <1>12 DEF TypeOK, PlaceInv, Before, SetTransport
<1>13. ASSUME Receive PROVE PlaceInv'
  BY <1>13 DEF TypeOK, PlaceInv, Before, Receive
<1>14. ASSUME UNCHANGED vars PROVE PlaceInv'
  BY <1>14 DEF TypeOK, PlaceInv, Before, vars
<1> QED
  BY <1>1, <1>2, <1>3, <1>4, <1>5, <1>6, <1>7, <1>8, <1>9, <1>10, <1>11, <1>12, <1>13, <1>14
     DEF Next

\* Every step keeps: the capture writer is closed when its record is made.
LEMMA StepClose == TypeOK /\ PlaceInv /\ CloseInv /\ [Next]_vars => CloseInv'
<1> SUFFICES ASSUME TypeOK, PlaceInv, CloseInv, [Next]_vars PROVE CloseInv'
  OBVIOUS
<1> USE ProxyAssumption DEF reqVars, resVars, capVars
<1>1. ASSUME NEW r \in Requests, Accept(r) PROVE CloseInv'
  BY <1>1 DEF TypeOK, CloseInv, Recorded, Accept
<1>2. ASSUME NEW r \in Requests, BufferBody(r) PROVE CloseInv'
  BY <1>2 DEF TypeOK, CloseInv, Recorded, BufferBody
<1>3. ASSUME NEW r \in Requests, BodyFails(r) \/ NoTransport(r) \/ OriginFails(r) PROVE CloseInv'
  BY <1>3 DEF TypeOK, CloseInv, Recorded, BodyFails, NoTransport, OriginFails, Return
<1>4. ASSUME NEW r \in Requests, OriginAnswers(r) PROVE CloseInv'
  BY <1>4 DEF TypeOK, CloseInv, Recorded, OriginAnswers
<1>5. ASSUME NEW r \in Requests, Upload(r) PROVE CloseInv'
  BY <1>5 DEF TypeOK, CloseInv, Recorded, Upload
<1>6. ASSUME NEW r \in Requests, Respond(r) PROVE CloseInv'
  <2>1. shut[r] = {} BY <1>6 DEF PlaceInv, Before, Respond
  <2> QED BY <1>6, <2>1 DEF TypeOK, CloseInv, Recorded, Respond
<1>7. ASSUME NEW r \in Requests, CopyChunk(r) PROVE CloseInv'
  BY <1>7 DEF TypeOK, CloseInv, Recorded, CopyChunk
<1>8. ASSUME NEW r \in Requests, CopyEnds(r) PROVE CloseInv'
  BY <1>8 DEF TypeOK, CloseInv, Recorded, CopyEnds
<1>9. ASSUME NEW r \in Requests, CloseOther(r) PROVE CloseInv'
  <2>1. NextToClose(r) \in ws[r] /\ NextToClose(r) # Capture
    BY <1>9, NextIsOpen DEF CloseOther
  <2> QED BY <1>9, <2>1 DEF TypeOK, CloseInv, Recorded, CloseOther
<1>10. ASSUME NEW r \in Requests, CloseCapture(r) PROVE CloseInv'
  <2>1. Capture \in ws[r] BY <1>10, NextIsOpen DEF CloseCapture
  <2>2. Unread(r) \in 0..MaxUp BY DEF TypeOK, Unread
  <2>3. [up |-> Unread(r), down |-> copied[r][Capture]] # NoRecord
    BY <2>2 DEF NoRecord
  <2> HIDE DEF Unread
  <2> QED BY <1>10, <2>1, <2>3 DEF TypeOK, CloseInv, Recorded, CloseCapture
<1>11. ASSUME NEW r \in Requests, Finish(r) PROVE CloseInv'
  BY <1>11 DEF TypeOK, CloseInv, Recorded, Finish, AllShut
<1>12. ASSUME SetTransport PROVE CloseInv'
  BY <1>12 DEF TypeOK, CloseInv, Recorded, SetTransport
<1>13. ASSUME Receive PROVE CloseInv'
  BY <1>13 DEF TypeOK, CloseInv, Recorded, Receive
<1>14. ASSUME UNCHANGED vars PROVE CloseInv'
  BY <1>14 DEF TypeOK, CloseInv, Recorded, vars
<1> QED
  BY <1>1, <1>2, <1>3, <1>4, <1>5, <1>6, <1>7, <1>8, <1>9, <1>10, <1>11, <1>12, <1>13, <1>14
     DEF Next

\* Every step keeps bodyCopy whole until the record is made, and the record.
LEMMA StepBody ==
  TypeOK /\ PlaceInv /\ CloseInv /\ BodyInv /\ RequestBodyWhole /\ [Next]_vars
    => BodyInv' /\ RequestBodyWhole'
<1> SUFFICES ASSUME TypeOK, PlaceInv, CloseInv, BodyInv, RequestBodyWhole, [Next]_vars
             PROVE  BodyInv' /\ RequestBodyWhole'
  OBVIOUS
<1> USE ProxyAssumption DEF reqVars, resVars, capVars
<1>1. ASSUME NEW r \in Requests, Accept(r) PROVE BodyInv' /\ RequestBodyWhole'
  BY <1>1 DEF TypeOK, BodyInv, RequestBodyWhole, Recorded, Accept
<1>2. ASSUME NEW r \in Requests, BufferBody(r) PROVE BodyInv' /\ RequestBodyWhole'
  <2>1. ~Recorded(r) BY <1>2 DEF PlaceInv, CloseInv, Before, BufferBody
  <2> QED BY <1>2, <2>1 DEF TypeOK, BodyInv, RequestBodyWhole, Recorded, BufferBody
<1>3. ASSUME NEW r \in Requests, BodyFails(r) \/ NoTransport(r) \/ OriginFails(r)
      PROVE  BodyInv' /\ RequestBodyWhole'
  BY <1>3 DEF TypeOK, BodyInv, RequestBodyWhole, Recorded, BodyFails, NoTransport,
              OriginFails, Return
<1>4. ASSUME NEW r \in Requests, OriginAnswers(r) PROVE BodyInv' /\ RequestBodyWhole'
  BY <1>4 DEF TypeOK, BodyInv, RequestBodyWhole, Recorded, OriginAnswers
<1>5. ASSUME NEW r \in Requests, Upload(r) PROVE BodyInv' /\ RequestBodyWhole'
  BY <1>5 DEF TypeOK, BodyInv, RequestBodyWhole, Recorded, Upload
<1>6. ASSUME NEW r \in Requests, Respond(r) PROVE BodyInv' /\ RequestBodyWhole'
  BY <1>6 DEF TypeOK, BodyInv, RequestBodyWhole, Recorded, Respond, ResetBody
<1>7. ASSUME NEW r \in Requests, CopyChunk(r) PROVE BodyInv' /\ RequestBodyWhole'
  BY <1>7 DEF TypeOK, BodyInv, RequestBodyWhole, Recorded, CopyChunk
<1>8. ASSUME NEW r \in Requests, CopyEnds(r) PROVE BodyInv' /\ RequestBodyWhole'
  BY <1>8 DEF TypeOK, BodyInv, RequestBodyWhole, Recorded, CopyEnds
<1>9. ASSUME NEW r \in Requests, CloseOther(r) PROVE BodyInv' /\ RequestBodyWhole'
  BY <1>9 DEF TypeOK, BodyInv, RequestBodyWhole, Recorded, CloseOther
<1>10. ASSUME NEW r \in Requests, CloseCapture(r) PROVE BodyInv' /\ RequestBodyWhole'
  <2>1. Unread(r) = sent[r]
    <3>1. Capture \in ws[r] \ shut[r] BY <1>10, NextIsOpen DEF CloseCapture
    <3> QED BY <1>10, <3>1 DEF PlaceInv, CloseInv, BodyInv, Unread, CloseCapture
  <2>2. Unread(r) \in 0..MaxUp BY DEF TypeOK, Unread
  <2>3. record' = [record EXCEPT ![r] = [up |-> Unread(r), down |-> copied[r][Capture]]]
        /\ sent' = sent /\ at' = at
        /\ \A q \in Requests \ {r} : bodyCopy'[q] = bodyCopy[q]
    BY <1>10 DEF TypeOK, CloseCapture, Drain
  <2>4. Recorded(r)' /\ record'[r].up = sent[r]
    BY <2>1, <2>2, <2>3 DEF TypeOK, Recorded, NoRecord
  <2>5. \A q \in Requests \ {r} : record'[q] = record[q] BY <2>3 DEF TypeOK
  <2> QED BY <2>3, <2>4, <2>5 DEF BodyInv, RequestBodyWhole, Recorded
<1>11. ASSUME NEW r \in Requests, Finish(r) PROVE BodyInv' /\ RequestBodyWhole'
  BY <1>11 DEF TypeOK, BodyInv, RequestBodyWhole, Recorded, Finish, AllShut
<1>12. ASSUME SetTransport PROVE BodyInv' /\ RequestBodyWhole'
  BY <1>12 DEF TypeOK, BodyInv, RequestBodyWhole, Recorded, SetTransport
<1>13. ASSUME Receive PROVE BodyInv' /\ RequestBodyWhole'
  BY <1>13 DEF TypeOK, BodyInv, RequestBodyWhole, Recorded, Receive
<1>14. ASSUME UNCHANGED vars PROVE BodyInv' /\ RequestBodyWhole'
  BY <1>14 DEF TypeOK, BodyInv, RequestBodyWhole, Recorded, vars
<1> QED
  BY <1>1, <1>2, <1>3, <1>4, <1>5, <1>6, <1>7, <1>8, <1>9, <1>10, <1>11, <1>12, <1>13, <1>14
     DEF Next

\* Every step keeps: nobody has more of the body than who is before it.
LEMMA StepCopy == TypeOK /\ PlaceInv /\ CopyInv /\ [Next]_vars => CopyInv'
<1> SUFFICES ASSUME TypeOK, PlaceInv, CopyInv, [Next]_vars PROVE CopyInv'
  OBVIOUS
<1> USE ProxyAssumption DEF reqVars, resVars, capVars
<1>1. ASSUME NEW r \in Requests, Accept(r) PROVE CopyInv'
  BY <1>1 DEF TypeOK, CopyInv, Before, Accept
<1>2. ASSUME NEW r \in Requests, BufferBody(r) PROVE CopyInv'
  BY <1>2 DEF TypeOK, CopyInv, Before, BufferBody
<1>3. ASSUME NEW r \in Requests, BodyFails(r) \/ NoTransport(r) \/ OriginFails(r) PROVE CopyInv'
  BY <1>3 DEF TypeOK, CopyInv, Before, BodyFails, NoTransport, OriginFails, Return
<1>4. ASSUME NEW r \in Requests, OriginAnswers(r) PROVE CopyInv'
  BY <1>4 DEF TypeOK, CopyInv, Before, OriginAnswers
<1>5. ASSUME NEW r \in Requests, Upload(r) PROVE CopyInv'
  BY <1>5 DEF TypeOK, CopyInv, Before, Upload
<1>6. ASSUME NEW r \in Requests, Respond(r) PROVE CopyInv'
  BY <1>6 DEF TypeOK, CopyInv, Before, Respond, ResetBody
<1>7. ASSUME NEW r \in Requests, CopyChunk(r) PROVE CopyInv'
  <2>1. /\ given[r] < origin[r] /\ given'[r] \in {given[r], given[r] + 1}
        /\ at'[r] \notin Before
        /\ \A w \in Writers :
             /\ copied'[r][w] \in {copied[r][w], copied[r][w] + 1}
             /\ given'[r] = given[r] => copied'[r][w] = copied[r][w]
    BY <1>7, ChunkEffect DEF Before
  <2>2. /\ given[r] \in Nat /\ origin[r] \in Nat
        /\ \A w \in Writers : copied[r][w] \in Nat /\ copied[r][w] <= given[r]
    BY DEF TypeOK, CopyInv
  <2>3. given'[r] <= origin[r] /\ \A w \in Writers : copied'[r][w] <= given'[r]
    BY <2>1, <2>2
  <2>4. /\ origin' = origin
        /\ \A q \in Requests \ {r} :
             at'[q] = at[q] /\ given'[q] = given[q] /\ copied'[q] = copied[q]
    BY <1>7 DEF TypeOK, CopyChunk
  <2> QED BY <2>1, <2>3, <2>4 DEF CopyInv
<1>8. ASSUME NEW r \in Requests, CopyEnds(r) PROVE CopyInv'
  BY <1>8 DEF TypeOK, CopyInv, Before, CopyEnds
<1>9. ASSUME NEW r \in Requests, CloseOther(r) PROVE CopyInv'
  BY <1>9 DEF TypeOK, CopyInv, Before, CloseOther
<1>10. ASSUME NEW r \in Requests, CloseCapture(r) PROVE CopyInv'
  BY <1>10 DEF TypeOK, CopyInv, Before, CloseCapture
<1>11. ASSUME NEW r \in Requests, Finish(r) PROVE CopyInv'
  BY <1>11 DEF TypeOK, CopyInv, Before, Finish, AllShut
<1>12. ASSUME SetTransport PROVE CopyInv'
  BY <1>12 DEF TypeOK, CopyInv, Before, SetTransport
<1>13. ASSUME Receive PROVE CopyInv'
  BY <1>13 DEF TypeOK, CopyInv, Before, Receive
<1>14. ASSUME UNCHANGED vars PROVE CopyInv'
  BY <1>14 DEF TypeOK, CopyInv, Before, vars
<1> QED
  BY <1>1, <1>2, <1>3, <1>4, <1>5, <1>6, <1>7, <1>8, <1>9, <1>10, <1>11, <1>12, <1>13, <1>14
     DEF Next

\* Every step keeps the copy of the capture tool the one of the client.
LEMMA StepSame == TypeOK /\ PlaceInv /\ CopyInv /\ SameInv /\ [Next]_vars => SameInv'
<1> SUFFICES ASSUME TypeOK, PlaceInv, CopyInv, SameInv, [Next]_vars PROVE SameInv'
  OBVIOUS
<1> USE ProxyAssumption DEF reqVars, resVars, capVars
<1>1. ASSUME NEW r \in Requests, Accept(r) PROVE SameInv'
  BY <1>1 DEF TypeOK, SameInv, Before, Accept
<1>2. ASSUME NEW r \in Requests, BufferBody(r) PROVE SameInv'
  BY <1>2 DEF TypeOK, SameInv, Before, BufferBody
<1>3. ASSUME NEW r \in Requests, BodyFails(r) \/ NoTransport(r) \/ OriginFails(r) PROVE SameInv'
  BY <1>3 DEF TypeOK, SameInv, Before, BodyFails, NoTransport, OriginFails, Return
<1>4. ASSUME NEW r \in Requests, OriginAnswers(r) PROVE SameInv'
  BY <1>4 DEF TypeOK, SameInv, Before, OriginAnswers
<1>5. ASSUME NEW r \in Requests, Upload(r) PROVE SameInv'
  BY <1>5 DEF TypeOK, SameInv, Before, Upload
<1>6. ASSUME NEW r \in Requests, Respond(r) PROVE SameInv'
  <2>1. copied[r][Capture] = given[r] BY <1>6 DEF SameInv, Before, Respond
  <2> QED BY <1>6, <2>1 DEF TypeOK, SameInv, Before, Respond
<1>7. ASSUME NEW r \in Requests, CopyChunk(r) PROVE SameInv'
  <2>1. /\ at[r] = "copying" /\ at'[r] \in {"copying", "closing"}
        /\ \/ given'[r] - copied'[r][Capture] = given[r] - copied[r][Capture]
           \/ /\ given'[r] = given[r] + 1 /\ copied'[r][Capture] = copied[r][Capture]
              /\ at'[r] = "closing" /\ \E w \in ws[r] : w < Capture
        /\ given'[r] \in {given[r], given[r] + 1}
        /\ copied'[r][Capture] \in {copied[r][Capture], copied[r][Capture] + 1}
    BY <1>7, ChunkEffect DEF Writers
  <2>2. given[r] \in Nat /\ copied[r][Capture] \in Nat BY DEF TypeOK, Writers
  <2>3. copied[r][Capture] = given[r] BY <2>1 DEF SameInv
  <2>4. \/ copied'[r][Capture] = given'[r]
        \/ /\ at'[r] = "closing" /\ copied'[r][Capture] = given'[r] - 1
           /\ \E w \in ws[r] : w < Capture
    BY <2>1, <2>2, <2>3
  <2>5. /\ ws' = ws
        /\ \A q \in Requests \ {r} :
             at'[q] = at[q] /\ given'[q] = given[q] /\ copied'[q] = copied[q]
    BY <1>7 DEF TypeOK, CopyChunk
  <2> QED BY <2>4, <2>5 DEF SameInv, Before
<1>8. ASSUME NEW r \in Requests, CopyEnds(r) PROVE SameInv'
  BY <1>8 DEF TypeOK, SameInv, Before, CopyEnds
<1>9. ASSUME NEW r \in Requests, CloseOther(r) PROVE SameInv'
  BY <1>9 DEF TypeOK, SameInv, Before, CloseOther
<1>10. ASSUME NEW r \in Requests, CloseCapture(r) PROVE SameInv'
  BY <1>10 DEF TypeOK, SameInv, Before, CloseCapture
<1>11. ASSUME NEW r \in Requests, Finish(r) PROVE SameInv'
  BY <1>11 DEF TypeOK, SameInv, Before, Finish, AllShut
<1>12. ASSUME SetTransport PROVE SameInv'
  BY <1>12 DEF TypeOK, SameInv, Before, SetTransport
<1>13. ASSUME Receive PROVE SameInv'
  BY <1>13 DEF TypeOK, SameInv, Before, Receive
<1>14. ASSUME UNCHANGED vars PROVE SameInv'
  BY <1>14 DEF TypeOK, SameInv, Before, vars
<1> QED
  BY <1>1, <1>2, <1>3, <1>4, <1>5, <1>6, <1>7, <1>8, <1>9, <1>10, <1>11, <1>12, <1>13, <1>14
     DEF Next

\* Every step keeps the record the copy that the capture tool has.
LEMMA StepRecord == TypeOK /\ PlaceInv /\ CloseInv /\ RecordInv /\ [Next]_vars => RecordInv'
<1> SUFFICES ASSUME TypeOK, PlaceInv, CloseInv, RecordInv, [Next]_vars PROVE RecordInv'
  OBVIOUS
<1> USE ProxyAssumption DEF reqVars, resVars, capVars
<1>1. ASSUME NEW r \in Requests, Accept(r) PROVE RecordInv'
  BY <1>1 DEF TypeOK, RecordInv, Recorded, Accept
<1>2. ASSUME NEW r \in Requests, BufferBody(r) PROVE RecordInv'
  BY <1>2 DEF TypeOK, RecordInv, Recorded, BufferBody
<1>3. ASSUME NEW r \in Requests, BodyFails(r) \/ NoTransport(r) \/ OriginFails(r)
      PROVE  RecordInv'
  BY <1>3 DEF TypeOK, RecordInv, Recorded, BodyFails, NoTransport, OriginFails, Return
<1>4. ASSUME NEW r \in Requests, OriginAnswers(r) PROVE RecordInv'
  BY <1>4 DEF TypeOK, RecordInv, Recorded, OriginAnswers
<1>5. ASSUME NEW r \in Requests, Upload(r) PROVE RecordInv'
  BY <1>5 DEF TypeOK, RecordInv, Recorded, Upload
<1>6. ASSUME NEW r \in Requests, Respond(r) PROVE RecordInv'
  BY <1>6 DEF TypeOK, RecordInv, Recorded, Respond, ResetBody
<1>7. ASSUME NEW r \in Requests, CopyChunk(r) PROVE RecordInv'
  <2>1. ~Recorded(r) BY <1>7 DEF PlaceInv, CloseInv, CopyChunk
  <2>2. /\ record' = record
        /\ \A q \in Requests \ {r} : copied'[q] = copied[q]
    BY <1>7 DEF TypeOK, CopyChunk
  <2> QED BY <2>1, <2>2 DEF RecordInv, Recorded
<1>8. ASSUME NEW r \in Requests, CopyEnds(r) PROVE RecordInv'
  BY <1>8 DEF TypeOK, RecordInv, Recorded, CopyEnds
<1>9. ASSUME NEW r \in Requests, CloseOther(r) PROVE RecordInv'
  BY <1>9 DEF TypeOK, RecordInv, Recorded, CloseOther
<1>10. ASSUME NEW r \in Requests, CloseCapture(r) PROVE RecordInv'
  BY <1>10 DEF TypeOK, RecordInv, Recorded, CloseCapture
<1>11. ASSUME NEW r \in Requests, Finish(r) PROVE RecordInv'
  BY <1>11 DEF TypeOK, RecordInv, Recorded, Finish, AllShut
<1>12. ASSUME SetTransport PROVE RecordInv'
  BY <1>12 DEF TypeOK, RecordInv, Recorded, SetTransport
<1>13. ASSUME Receive PROVE RecordInv'
  BY <1>13 DEF TypeOK, RecordInv, Recorded, Receive
<1>14. ASSUME UNCHANGED vars PROVE RecordInv'
  BY <1>14 DEF TypeOK, RecordInv, Recorded, vars
<1> QED
  BY <1>1, <1>2, <1>3, <1>4, <1>5, <1>6, <1>7, <1>8, <1>9, <1>10, <1>11, <1>12, <1>13, <1>14
     DEF Next

\* Every step keeps: what is finished left nothing behind.
LEMMA StepNothing ==
  TypeOK /\ PlaceInv /\ CloseInv /\ NothingLeftBehind /\ [Next]_vars => NothingLeftBehind'
<1> SUFFICES ASSUME TypeOK, PlaceInv, CloseInv, NothingLeftBehind, [Next]_vars
             PROVE  NothingLeftBehind'
  OBVIOUS
<1> USE ProxyAssumption DEF reqVars, resVars, capVars
<1>1. ASSUME NEW r \in Requests, Accept(r) PROVE NothingLeftBehind'
  BY <1>1 DEF TypeOK, NothingLeftBehind, Recorded, Accept
<1>2. ASSUME NEW r \in Requests, BufferBody(r) PROVE NothingLeftBehind'
  BY <1>2 DEF TypeOK, NothingLeftBehind, Recorded, BufferBody
<1>3. ASSUME NEW r \in Requests, BodyFails(r) \/ NoTransport(r) \/ OriginFails(r)
      PROVE  NothingLeftBehind'
  <2>1. PICK answer \in {"500", "empty"} : Return(r, answer)
    BY <1>3 DEF BodyFails, NoTransport, OriginFails
  <2>2. at[r] \in Before BY <1>3 DEF BodyFails, NoTransport, OriginFails, Before
  <2>3. ws[r] = {} /\ ~Recorded(r) BY <2>2 DEF PlaceInv, CloseInv
  <2> QED BY <2>1, <2>3 DEF TypeOK, NothingLeftBehind, Recorded, Return
<1>4. ASSUME NEW r \in Requests, OriginAnswers(r) PROVE NothingLeftBehind'
  BY <1>4 DEF TypeOK, NothingLeftBehind, Recorded, OriginAnswers
<1>5. ASSUME NEW r \in Requests, Upload(r) PROVE NothingLeftBehind'
  BY <1>5 DEF TypeOK, NothingLeftBehind, Recorded, Upload
<1>6. ASSUME NEW r \in Requests, Respond(r) PROVE NothingLeftBehind'
  BY <1>6 DEF TypeOK, NothingLeftBehind, Recorded, Respond, ResetBody
<1>7. ASSUME NEW r \in Requests, CopyChunk(r) PROVE NothingLeftBehind'
  BY <1>7 DEF TypeOK, NothingLeftBehind, Recorded, CopyChunk
<1>8. ASSUME NEW r \in Requests, CopyEnds(r) PROVE NothingLeftBehind'
  BY <1>8 DEF TypeOK, NothingLeftBehind, Recorded, CopyEnds
<1>9. ASSUME NEW r \in Requests, CloseOther(r) PROVE NothingLeftBehind'
  BY <1>9 DEF TypeOK, NothingLeftBehind, Recorded, CloseOther
<1>10. ASSUME NEW r \in Requests, CloseCapture(r) PROVE NothingLeftBehind'
  BY <1>10 DEF TypeOK, NothingLeftBehind, Recorded, CloseCapture
<1>11. ASSUME NEW r \in Requests, Finish(r) PROVE NothingLeftBehind'
  <2>1. reply[r] = "origin" /\ shut[r] = ws[r] /\ Recorded(r)
    BY <1>11 DEF PlaceInv, CloseInv, Finish, AllShut
  <2> QED BY <1>11, <2>1 DEF TypeOK, NothingLeftBehind, Recorded, Finish
<1>12. ASSUME SetTransport PROVE NothingLeftBehind'
  BY <1>12 DEF TypeOK, NothingLeftBehind, Recorded, SetTransport
<1>13. ASSUME Receive PROVE NothingLeftBehind'
  BY <1>13 DEF TypeOK, NothingLeftBehind, Recorded, Receive
<1>14. ASSUME UNCHANGED vars PROVE NothingLeftBehind'
  BY <1>14 DEF TypeOK, NothingLeftBehind, Recorded, vars
<1> QED
  BY <1>1, <1>2, <1>3, <1>4, <1>5, <1>6, <1>7, <1>8, <1>9, <1>10, <1>11, <1>12, <1>13, <1>14
     DEF Next

\* The inductive invariant holds in every reachable state.
LEMMA Inductive == Spec => []IInv
<1>1. IInv /\ [Next]_vars => IInv'
  BY StepTypeOK, StepPlace, StepClose, StepBody, StepCopy, StepSame, StepRecord,
     StepNothing DEF IInv
<1> QED BY <1>1, InitIInv, PTL DEF Spec

-----------------------------------------------------------------------------
(* Proxy implements Recorder                                               *)

\* ServeHTTP begins where the recorder does.
LEMMA InitRecorder == Init => Rec!Init
BY DEF Init, Rec!Init, ExchangeOf, SavingOf

\* What is kept of a request keeps its exchange where it is.
LEMMA SameExchange ==
  ASSUME TypeOK, NEW r \in Requests, record' = record,
         \/ at' = at
         \/ \E pc \in {"buffering", "sending", "responding", "copying"} :
              /\ at[r] \in {"buffering", "sending", "responding", "copying"}
              /\ at' = [at EXCEPT ![r] = pc]
         \/ /\ at[r] = "closing" /\ Recorded(r)
            /\ at' = [at EXCEPT ![r] = "done"]
  PROVE  \A q \in Requests : ExchangeOf(q)' = ExchangeOf(q)
BY DEF TypeOK, ExchangeOf, Recorded

\* A step of Proxy is a step of the recorder, or one that it does not see.
LEMMA StepRecorder == IInv /\ [Next]_vars => [Rec!Next]_(Rec!vars)
<1> SUFFICES ASSUME IInv, [Next]_vars PROVE [Rec!Next]_(Rec!vars)
  OBVIOUS
<1> USE DEF IInv, reqVars, resVars, capVars
<1>0. ASSUME ch' = ch, received' = received,
             \A q \in Requests : ExchangeOf(q)' = ExchangeOf(q)
      PROVE  UNCHANGED Rec!vars
  BY <1>0 DEF Rec!vars, SavingOf
<1>1. ASSUME NEW r \in Requests, Accept(r) PROVE Rec!Serve(r)
  <2>1. ExchangeOf(r) = "idle" /\ ExchangeOf(r)' = "serving"
    BY <1>1 DEF TypeOK, Accept, ExchangeOf
  <2>2. \A q \in Requests \ {r} : ExchangeOf(q)' = ExchangeOf(q)
    BY <1>1 DEF TypeOK, Accept, ExchangeOf, Recorded
  <2>3. ch' = ch /\ received' = received BY <1>1 DEF Accept
  <2> QED BY <2>1, <2>2, <2>3 DEF Rec!Serve, SavingOf
<1>2. ASSUME NEW r \in Requests,
             BodyFails(r) \/ NoTransport(r) \/ OriginFails(r)
      PROVE  Rec!Refuse(r)
  <2>1. PICK answer \in {"500", "empty"} : Return(r, answer)
    BY <1>2 DEF BodyFails, NoTransport, OriginFails
  <2>2. at[r] \in {"buffering", "sending"}
    BY <1>2 DEF BodyFails, NoTransport, OriginFails
  <2>3. ~Recorded(r) BY <2>2 DEF PlaceInv, CloseInv, Before
  <2>4. ExchangeOf(r) = "serving" /\ ExchangeOf(r)' = "refused"
    BY <2>1, <2>2, <2>3 DEF TypeOK, Return, ExchangeOf, Recorded
  <2>5. \A q \in Requests \ {r} : ExchangeOf(q)' = ExchangeOf(q)
    BY <2>1 DEF TypeOK, Return, ExchangeOf, Recorded
  <2>6. ch' = ch /\ received' = received BY <2>1 DEF Return
  <2> QED BY <2>4, <2>5, <2>6 DEF Rec!Refuse, SavingOf
<1>3. ASSUME NEW r \in Requests, CopyChunk(r) \/ CopyEnds(r), at'[r] = "closing"
      PROVE  Rec!Close(r)
  <2>1. /\ at[r] = "copying" /\ record' = record /\ ch' = ch /\ received' = received
        /\ \A q \in Requests \ {r} : at'[q] = at[q]
    BY <1>3 DEF TypeOK, CopyChunk, CopyEnds
  <2>2. ~Recorded(r) BY <2>1 DEF PlaceInv, CloseInv
  <2>3. ExchangeOf(r) = "serving" /\ ExchangeOf(r)' = "closing"
    BY <1>3, <2>1, <2>2 DEF ExchangeOf, Recorded
  <2>4. \A q \in Requests \ {r} : ExchangeOf(q)' = ExchangeOf(q)
    BY <2>1 DEF ExchangeOf, Recorded
  <2> QED BY <2>1, <2>3, <2>4 DEF Rec!Close, SavingOf
<1>4. ASSUME NEW r \in Requests, CloseCapture(r) PROVE Rec!SendRecord(r)
  <2>1. Capture \in ws[r] \ shut[r] BY <1>4, NextIsOpen DEF CloseCapture
  <2>2. at[r] = "closing" /\ at' = at /\ ~Recorded(r)
    BY <1>4, <2>1 DEF CloseInv, CloseCapture
  <2>3. Unread(r) \in 0..MaxUp BY DEF TypeOK, Unread
  <2>4. record' = [record EXCEPT ![r] = [up |-> Unread(r), down |-> copied[r][Capture]]]
    BY <1>4 DEF CloseCapture
  <2>5. Recorded(r)' BY <2>3, <2>4 DEF TypeOK, Recorded, NoRecord
  <2>6. ExchangeOf(r) = "closing" /\ ExchangeOf(r)' = "sent"
    BY <2>2, <2>5 DEF ExchangeOf
  <2>7. \A q \in Requests \ {r} : ExchangeOf(q)' = ExchangeOf(q)
    BY <2>2, <2>4 DEF TypeOK, ExchangeOf, Recorded
  <2>8. received' = received /\ Len(ch) < Cap /\ ch' = Append(ch, r)
    BY <1>4 DEF CloseCapture, Room
  <2> QED BY <2>6, <2>7, <2>8 DEF Rec!SendRecord, Rec!Enqueue, SavingOf
<1>5. CASE Receive
  <2>1. /\ ch # <<>> /\ ch' = Tail(ch) /\ received' = received \cup {Head(ch)}
        /\ at' = at /\ record' = record
    BY <1>5 DEF Receive
  <2>2. Head(ch) \in Requests BY <2>1 DEF TypeOK
  <2>3. \A q \in Requests : ExchangeOf(q)' = ExchangeOf(q)
    BY <2>1 DEF ExchangeOf, Recorded
  <2>4. [q \in Requests |-> SavingOf(q)'] =
          [[q \in Requests |-> SavingOf(q)] EXCEPT ![Head(ch)] = "insert"]
    BY <2>1, <2>2 DEF SavingOf
  <2>5. Rec!Receive
    BY <2>1, <2>3, <2>4 DEF Rec!Receive, Rec!Dequeue, Rec!InsertFirst
  <2> QED BY <2>5 DEF Rec!Next
<1>6. ASSUME NEW r \in Requests,
             \/ BufferBody(r) \/ OriginAnswers(r) \/ Upload(r) \/ Respond(r)
             \/ CloseOther(r) \/ Finish(r)
             \/ (CopyChunk(r) \/ CopyEnds(r)) /\ at'[r] # "closing"
      PROVE  UNCHANGED Rec!vars
  <2>1. record' = record /\ ch' = ch /\ received' = received
    BY <1>6 DEF BufferBody, OriginAnswers, Upload, Respond, CloseOther, Finish,
                CopyChunk, CopyEnds
  <2>2. at[r] = "closing" /\ AllShut(r) => Recorded(r)
    BY DEF PlaceInv, CloseInv, AllShut
  <2>3. \/ at' = at
        \/ \E pc \in {"buffering", "sending", "responding", "copying"} :
             /\ at[r] \in {"buffering", "sending", "responding", "copying"}
             /\ at' = [at EXCEPT ![r] = pc]
        \/ at[r] = "closing" /\ Recorded(r) /\ at' = [at EXCEPT ![r] = "done"]
    <3>1. CASE BufferBody(r) \/ OriginAnswers(r) \/ Upload(r) \/ Respond(r) \/ CloseOther(r)
      BY <3>1 DEF BufferBody, OriginAnswers, Upload, Respond, CloseOther
    <3>2. CASE Finish(r) BY <2>2, <3>2 DEF Finish
    <3>3. CASE (CopyChunk(r) \/ CopyEnds(r)) /\ at'[r] # "closing"
      BY <3>3 DEF TypeOK, CopyChunk, CopyEnds
    <3> QED BY <1>6, <3>1, <3>2, <3>3
  <2> QED BY <1>0, <2>1, <2>3, SameExchange
<1>7. CASE SetTransport \/ UNCHANGED vars
  <2>1. at' = at /\ record' = record /\ ch' = ch /\ received' = received
    BY <1>7 DEF SetTransport, vars
  <2> QED BY <1>0, <2>1 DEF ExchangeOf, Recorded
<1> QED
  BY <1>1, <1>2, <1>3, <1>4, <1>5, <1>6, <1>7 DEF Next, Rec!Next

-----------------------------------------------------------------------------
(* Theorems                                                                *)

\* Every variable holds values of its kind, and the channel has room for what
\* is in it.
THEOREM TypeCorrect == Spec => []TypeOK
<1>1. IInv => TypeOK BY DEF IInv
<1> QED BY <1>1, Inductive, PTL

\* The record holds the response as the client got it.
THEOREM RecordIsOfClient == Spec => []RecordIsWhatClientGot
<1>1. IInv => RecordIsWhatClientGot
  BY DEF IInv, SameInv, RecordInv, RecordIsWhatClientGot
<1> QED BY <1>1, Inductive, PTL

\* The record holds the whole request body, however early the origin answers.
THEOREM RecordHasRequestBody == Spec => []RequestBodyWhole
<1>1. IInv => RequestBodyWhole BY DEF IInv
<1> QED BY <1>1, Inductive, PTL

\* A finished request is recorded and its writers closed, or left no trace.
THEOREM FinishedIsClean == Spec => []NothingLeftBehind
<1>1. IInv => NothingLeftBehind BY DEF IInv
<1> QED BY <1>1, Inductive, PTL

\* ServeHTTP does to the recorder only what Recorder expects of an exchange.
THEOREM ProxyImplementsRecorder == Spec => ImplementsRecorder
BY InitRecorder, StepRecorder, Inductive, PTL DEF Spec, ImplementsRecorder, Rec!Spec
=============================================================================
