------------------------------- MODULE Proxy -------------------------------
(***************************************************************************)
(* proxy.go 189-308 (ServeHTTP) with capture.go 60-107: one goroutine per  *)
(* request buffers the request body, asks the origin, relays the response  *)
(* to the client and to every writer, closes the writers (the capture      *)
(* writer sends its record on the channel of main.go) and logs.            *)
(*                                                                         *)
(* net/http is external: the transport sends the request body in its own   *)
(* goroutine, also after RoundTrip has returned when the origin answers    *)
(* early; it can fail, and so can the client and the origin at any chunk.  *)
(* A body is the number of its chunks: what the code copies, it copies in  *)
(* order and unchanged.                                                    *)
(***************************************************************************)
EXTENDS Integers, Sequences, FiniteSets, Functions

CONSTANTS
  Requests,
  NWriters,  \* how many BodyWriteClosers were added
  Capture,   \* the place of the capture tool among them
  Cap,       \* capacity of the channel
  MaxUp,     \* chunks of the longest request body
  MaxDown    \* chunks of the longest response body

ASSUME ProxyAssumption ==
  /\ NWriters \in Nat \ {0} /\ Capture \in 1..NWriters
  /\ Cap \in Nat \ {0} /\ MaxUp \in Nat /\ MaxDown \in Nat

Writers  == 1..NWriters
NoRecord == [up |-> -1, down |-> -1]

VARIABLES
  rt,       \* p.rt is set, by Start or StartTLS
  at,       \* at[r]: where ServeHTTP is
  reply,    \* reply[r]: what the client was answered
  sent,     \* sent[r]: chunks of the request body the client sent
  body,     \* body[r]: unread chunks of the buffer `body`
  bodyCopy, \* bodyCopy[r]: unread chunks of the buffer `bodyCopy`
  outBody,  \* outBody[r]: what out.Body reads
  origin,   \* origin[r]: chunks of the response body
  given,    \* given[r]: chunks written to the client
  ws,       \* ws[r]: the writers that NewWriteCloser made
  copied,   \* copied[r][w]: chunks written to the writer w
  shut,     \* shut[r]: the writers whose Close has returned
  ch,       \* the channel of the capture tool, as the requests recorded
  record,   \* record[r]: the bodies that the record of r holds
  received  \* the records that main.go has received

reqVars  == <<sent, body, bodyCopy, outBody>>
resVars  == <<origin, given, ws, copied>>
capVars  == <<ch, record, received>>
vars     == <<rt, at, reply, reqVars, resVars, shut, capVars>>

Init ==
  /\ rt       = FALSE
  /\ at       = [r \in Requests |-> "idle"]
  /\ reply    = [r \in Requests |-> "none"]
  /\ sent     = [r \in Requests |-> 0]
  /\ body     = [r \in Requests |-> 0]
  /\ bodyCopy = [r \in Requests |-> 0]
  /\ outBody  = [r \in Requests |-> "client"]
  /\ origin   = [r \in Requests |-> 0]
  /\ given    = [r \in Requests |-> 0]
  /\ ws       = [r \in Requests |-> {}]
  /\ copied   = [r \in Requests |-> [w \in Writers |-> 0]]
  /\ shut     = [r \in Requests |-> {}]
  /\ ch       = <<>>
  /\ record   = [r \in Requests |-> NoRecord]
  /\ received = {}

-----------------------------------------------------------------------------
(* The request                                                             *)

\* Start and StartTLS set the transport before they serve.
SetTransport ==
  /\ ~rt
  /\ rt' = TRUE
  /\ UNCHANGED <<at, reply, reqVars, resVars, shut, capVars>>

\* The request is copied, given the scheme and host of its destination, and
\* shown to the directors, whose errors are only logged.
Accept(r) ==
  /\ at[r] = "idle"
  /\ at' = [at EXCEPT ![r] = "buffering"]
  /\ UNCHANGED <<rt, reply, reqVars, resVars, shut, capVars>>

\* The whole body is copied to `body` and `bodyCopy`.
BufferBody(r) ==
  /\ at[r] = "buffering"
  /\ \E n \in 0..MaxUp :
       /\ sent' = [sent EXCEPT ![r] = n]
       /\ body' = [body EXCEPT ![r] = n]
       /\ bodyCopy' = [bodyCopy EXCEPT ![r] = n]
  /\ outBody' = [outBody EXCEPT ![r] = "body"]
  /\ at' = [at EXCEPT ![r] = "sending"]
  /\ UNCHANGED <<rt, reply, resVars, shut, capVars>>

\* ServeHTTP returns before there is a response.
Return(r, answer) ==
  /\ reply' = [reply EXCEPT ![r] = answer]
  /\ at'    = [at EXCEPT ![r] = "done"]
  /\ UNCHANGED <<rt, reqVars, resVars, shut, capVars>>

BodyFails(r) == at[r] = "buffering" /\ Return(r, "500")

\* Nothing was written: the server answers an empty 200.
NoTransport(r) == at[r] = "sending" /\ ~rt /\ Return(r, "empty")

OriginFails(r) == at[r] = "sending" /\ rt /\ Return(r, "500")

\* The transport reads `body`, which it took from out.Body, until the exchange
\* with the origin is over.
Upload(r) ==
  /\ rt
  /\ at[r] \in {"sending", "responding", "copying", "closing"}
  /\ body[r] > 0
  /\ body' = [body EXCEPT ![r] = @ - 1]
  /\ UNCHANGED <<rt, at, reply, sent, bodyCopy, outBody, resVars, shut, capVars>>

\* RoundTrip returns a response, perhaps before the body was all sent.
OriginAnswers(r) ==
  /\ at[r] = "sending"
  /\ rt
  /\ \E n \in 0..MaxDown : origin' = [origin EXCEPT ![r] = n]
  /\ at' = [at EXCEPT ![r] = "responding"]
  /\ UNCHANGED <<rt, reply, reqVars, given, ws, copied, shut, capVars>>

-----------------------------------------------------------------------------
(* The response                                                            *)

\* Fault: out.Body is not reset after RoundTrip.
KeepBody(r) == outBody' = outBody

ResetBody(r) == outBody' = [outBody EXCEPT ![r] = "bodyCopy"]

\* out.Body is reset to `bodyCopy`; interceptors, header, status; then the
\* writers are made.  One whose NewWriteCloser fails is left out; that of the
\* capture tool never does.
Respond(r) ==
  /\ at[r] = "responding"
  /\ ResetBody(r)
  /\ reply' = [reply EXCEPT ![r] = "origin"]
  /\ \E W \in SUBSET Writers :
       /\ Capture \in W
       /\ ws' = [ws EXCEPT ![r] = W]
  /\ at' = [at EXCEPT ![r] = "copying"]
  /\ UNCHANGED <<rt, sent, body, bodyCopy, origin, given, copied, shut, capVars>>

\* Fault: the writers get the chunk before the client.
ClientPlaceLast == NWriters + 1

\* The place of the client among what io.MultiWriter writes to.
ClientPlace == 0

\* io.Copy reads a chunk; io.MultiWriter writes it to the client and to each
\* writer in order, and stops for good at the first that fails (a place beyond
\* them all stands for none).  The capture tool's buffer never fails.
CopyChunk(r) ==
  /\ at[r] = "copying"
  /\ given[r] < origin[r]
  /\ \E bad \in (ws[r] \ {Capture}) \cup {ClientPlace, NWriters + 2} :
       /\ given' = [given EXCEPT ![r] = IF ClientPlace < bad THEN @ + 1 ELSE @]
       /\ copied' = [copied EXCEPT ![r] = [w \in Writers |->
            IF w \in ws[r] /\ w < bad THEN @[w] + 1 ELSE @[w]]]
       /\ at' = [at EXCEPT ![r] = IF bad = NWriters + 2 THEN @ ELSE "closing"]
  /\ UNCHANGED <<rt, reply, reqVars, origin, ws, shut, capVars>>

\* The body ends, or the origin breaks off: io.Copy returns.
CopyEnds(r) ==
  /\ at[r] = "copying"
  /\ at' = [at EXCEPT ![r] = "closing"]
  /\ UNCHANGED <<rt, reply, reqVars, resVars, shut, capVars>>

-----------------------------------------------------------------------------
(* The end of the exchange                                                 *)

\* Close is called on the writers in order.
NextToClose(r) ==
  CHOOSE w \in ws[r] \ shut[r] : \A v \in ws[r] \ shut[r] : w <= v

\* Any other writer's Close returns, perhaps with an error, which is logged.
CloseOther(r) ==
  /\ at[r] = "closing"
  /\ ws[r] # shut[r]
  /\ NextToClose(r) # Capture
  /\ shut' = [shut EXCEPT ![r] = @ \cup {NextToClose(r)}]
  /\ UNCHANGED <<rt, at, reply, reqVars, resVars, capVars>>

\* What is left to read of out.Body, and reading it to its end.
Unread(r) == IF outBody[r] = "bodyCopy" THEN bodyCopy[r] ELSE body[r]

Drain(r) ==
  /\ bodyCopy' = [bodyCopy EXCEPT ![r] = IF outBody[r] = "bodyCopy" THEN 0 ELSE @]
  /\ body'     = [body EXCEPT ![r] = IF outBody[r] = "body" THEN 0 ELSE @]

\* Fault: the record is sent without waiting for room.
NoRoomNeeded == TRUE

Room == Len(ch) < Cap

\* The capture writer's Close reads all of the request's body, makes the record
\* with what was written to it, and sends it, waiting while the channel is full.
CloseCapture(r) ==
  /\ at[r] = "closing"
  /\ ws[r] # shut[r]
  /\ NextToClose(r) = Capture
  /\ Room
  /\ shut'   = [shut EXCEPT ![r] = @ \cup {Capture}]
  /\ record' = [record EXCEPT ![r] = [up |-> Unread(r), down |-> copied[r][Capture]]]
  /\ Drain(r)
  /\ ch'     = Append(ch, r)
  /\ UNCHANGED <<rt, at, reply, sent, outBody, resVars, received>>

\* Fault: ServeHTTP returns at the first error of a Close.
FirstErrorEnds(r) == ws[r] = shut[r] \/ shut[r] \ {Capture} # {}

AllShut(r) == ws[r] = shut[r]

\* The loggers run, then the deferred Close of the origin's body.
Finish(r) ==
  /\ at[r] = "closing"
  /\ AllShut(r)
  /\ at' = [at EXCEPT ![r] = "done"]
  /\ UNCHANGED <<rt, reply, reqVars, resVars, shut, capVars>>

\* Fault: the goroutine is started with the services only, which are off.
ReceiveNever == FALSE /\ UNCHANGED vars

\* The goroutine of main.go that ranges over the channel.
Receive ==
  /\ ch # <<>>
  /\ received' = received \cup {Head(ch)}
  /\ ch' = Tail(ch)
  /\ UNCHANGED <<rt, at, reply, reqVars, resVars, shut, record>>

-----------------------------------------------------------------------------
Next ==
  \/ \E r \in Requests :
       \/ Accept(r) \/ BufferBody(r) \/ BodyFails(r)
       \/ NoTransport(r) \/ OriginFails(r) \/ OriginAnswers(r) \/ Upload(r)
       \/ Respond(r) \/ CopyChunk(r) \/ CopyEnds(r)
       \/ CloseOther(r) \/ CloseCapture(r) \/ Finish(r)
  \/ SetTransport \/ Receive

\* The steps that wait for nobody outside.  Neither a client nor an origin is
\* assumed to do anything.
Fairness ==
  /\ WF_vars(Receive)
  /\ \A r \in Requests :
       WF_vars(CloseOther(r)) /\ WF_vars(CloseCapture(r)) /\ WF_vars(Finish(r))

Spec     == Init /\ [][Next]_vars
FairSpec == Spec /\ Fairness

-----------------------------------------------------------------------------
(* Properties                                                              *)

\* Every variable holds values of its kind; the channel keeps to its capacity.
TypeOK ==
  /\ rt \in BOOLEAN
  /\ at \in [Requests -> {"idle", "buffering", "sending", "responding",
                          "copying", "closing", "done"}]
  /\ reply \in [Requests -> {"none", "500", "empty", "origin"}]
  /\ sent \in [Requests -> 0..MaxUp] /\ body \in [Requests -> 0..MaxUp]
  /\ bodyCopy \in [Requests -> 0..MaxUp]
  /\ outBody \in [Requests -> {"client", "body", "bodyCopy"}]
  /\ origin \in [Requests -> 0..MaxDown] /\ given \in [Requests -> 0..MaxDown]
  /\ ws \in [Requests -> SUBSET Writers] /\ shut \in [Requests -> SUBSET Writers]
  /\ copied \in [Requests -> [Writers -> 0..MaxDown]]
  /\ ch \in Seq(Requests) /\ Len(ch) <= Cap
  /\ record \in [Requests -> {NoRecord} \cup [up : 0..MaxUp, down : 0..MaxDown]]
  /\ received \subseteq Requests

Recorded(r) == record[r] # NoRecord

\* The record holds the response as the client got it: when the copy broke off,
\* both have the chunks before the break, but for the one that the client got
\* and a writer before the capture tool refused.
RecordIsWhatClientGot ==
  \A r \in Requests : Recorded(r) =>
    \/ record[r].down = given[r]
    \/ /\ record[r].down = given[r] - 1
       /\ \E w \in ws[r] : w < Capture

\* The record holds the whole request body, also when the origin answered, or
\* the client left, while the transport was still sending it.
RequestBodyWhole == \A r \in Requests : Recorded(r) => record[r].up = sent[r]

\* A finished request either was answered without an origin, and left nothing
\* behind, or was relayed: then it is recorded and every writer that was made is
\* closed, whatever failed.
NothingLeftBehind ==
  \A r \in Requests : at[r] = "done" =>
    IF reply[r] = "origin"
    THEN Recorded(r) /\ shut[r] = ws[r]
    ELSE ~Recorded(r) /\ ws[r] = {} /\ reply[r] # "none"

\* Once the copy is over, ServeHTTP returns: the channel is always emptied.
CloseEnds == \A r \in Requests : at[r] = "closing" ~> at[r] = "done"

\* Where the recorder sees an exchange, and the goroutine of its record.
ExchangeOf(r) ==
  CASE at[r] = "idle" -> "idle"
    [] at[r] \in {"buffering", "sending", "responding", "copying"} -> "serving"
    [] at[r] \in {"closing", "done"} /\ Recorded(r) -> "sent"
    [] at[r] = "closing" /\ ~Recorded(r) -> "closing"
    [] OTHER -> "refused"

SavingOf(r) == IF r \in received THEN "insert" ELSE "none"

\* ServeHTTP drives the recorder: what it does to the channel, and when, is what
\* Recorder assumes of an exchange.
Rec == INSTANCE Recorder WITH
  exchange <- [r \in Requests |-> ExchangeOf(r)],
  saving   <- [r \in Requests |-> SavingOf(r)],
  db       <- <<>>,
  process  <- "up"

ImplementsRecorder == Rec!Spec

\* proxy.go 54-56: Close "will be called after the body has been written
\* entirely" to the writer.  (It is also called after a copy that failed.)
CloseAfterWholeBody ==
  \A r \in Requests : \A w \in shut[r] : copied[r][w] = origin[r]
=============================================================================
