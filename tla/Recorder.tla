------------------------------ MODULE Recorder ------------------------------
(***************************************************************************)
(* main.go 126-147 with capture.go 60-107: how the record of a proxied     *)
(* exchange travels from the goroutine that serves the request, through    *)
(* the channel res, to a goroutine of its own that inserts it in the       *)
(* database and tells the live clients.                                    *)
(*                                                                         *)
(* The database is external (SQLite, through upper.io/db): one insert is   *)
(* one atomic append, which may fail.  It outlives the process; with the   *)
(* flag -db the next process uses it again.                                *)
(***************************************************************************)
EXTENDS Naturals, Sequences, FiniteSets, Functions

CONSTANTS
  Requests,  \* the exchanges the proxy serves
  Cap        \* capacity of the channel res (256 in main.go)

ASSUME RecorderAssumption == Cap \in Nat \ {0}

VARIABLES
  exchange,  \* exchange[r]: where ServeHTTP is with r
  ch,        \* the channel res
  saving,    \* saving[r]: where the goroutine that saves the record of r is
  db,        \* the records table: its rows in the order of their ids
  process    \* "up", or how it ended

vars == <<exchange, ch, saving, db, process>>

Stored == Range(db)

Init ==
  /\ exchange = [r \in Requests |-> "idle"]
  /\ ch       = <<>>
  /\ saving   = [r \in Requests |-> "none"]
  /\ db       = <<>>
  /\ process  = "up"

-----------------------------------------------------------------------------
(* ServeHTTP and the capture writer                                        *)

Serve(r) ==
  /\ process = "up"
  /\ exchange[r] = "idle"
  /\ exchange' = [exchange EXCEPT ![r] = "serving"]
  /\ UNCHANGED <<ch, saving, db, process>>

\* ServeHTTP answers without an origin response: nothing is captured.
Refuse(r) ==
  /\ process = "up"
  /\ exchange[r] = "serving"
  /\ exchange' = [exchange EXCEPT ![r] = "refused"]
  /\ UNCHANGED <<ch, saving, db, process>>

\* The response was relayed; Close of its capture writer starts.
Close(r) ==
  /\ process = "up"
  /\ exchange[r] = "serving"
  /\ exchange' = [exchange EXCEPT ![r] = "closing"]
  /\ UNCHANGED <<ch, saving, db, process>>

\* Fault: a full channel drops the record, or takes it all the same.
EnqueueOrDrop(r) == ch' = IF Len(ch) < Cap THEN Append(ch, r) ELSE ch
EnqueueAnyway(r) == ch' = Append(ch, r)

\* cwc.resp <- resp, which blocks while the channel is full.
Enqueue(r) == Len(ch) < Cap /\ ch' = Append(ch, r)

SendRecord(r) ==
  /\ process = "up"
  /\ exchange[r] = "closing"
  /\ exchange' = [exchange EXCEPT ![r] = "sent"]
  /\ Enqueue(r)
  /\ UNCHANGED <<saving, db, process>>

-----------------------------------------------------------------------------
(* The goroutine of main and the one it starts for each record             *)

\* Fault: no goroutine per record: the loop waits for the announcement.
DequeueSerially ==
  /\ ch # <<>> /\ ch' = Tail(ch)
  /\ \A r \in Requests : saving[r] \in {"none", "done"}

Dequeue == ch # <<>> /\ ch' = Tail(ch)

\* Fault: the goroutine announces the record before it inserts it.
AnnounceFirst == "notify"

\* Where the goroutine of a record begins.
InsertFirst == "insert"

Receive ==
  /\ process = "up"
  /\ Dequeue
  /\ saving' = [saving EXCEPT ![Head(ch)] = InsertFirst]
  /\ UNCHANGED <<exchange, db, process>>

\* Fault: the insert is tried a second time although it had written the row.
AfterInsertRetry(r) == IF r \in Stored THEN "notify" ELSE "insert"

AfterInsert(r) == "notify"

\* storage.Insert succeeds; its id is the new length of the table.
Insert(r) ==
  /\ process = "up"
  /\ saving[r] = "insert"
  /\ db' = Append(db, r)
  /\ saving' = [saving EXCEPT ![r] = AfterInsert(r)]
  /\ UNCHANGED <<exchange, ch, process>>

\* wsBroadcast has returned.
Notify(r) ==
  /\ process = "up"
  /\ saving[r] = "notify"
  /\ saving' = [saving EXCEPT ![r] = "done"]
  /\ UNCHANGED <<exchange, ch, db, process>>

-----------------------------------------------------------------------------
(* The end of the process                                                  *)

\* What is not in the database is lost, with every goroutine.
Die(how) ==
  /\ process = "up"
  /\ process' = how
  /\ exchange' = [r \in Requests |->
       CASE exchange[r] \in {"serving", "closing"} -> "cut"
         [] exchange[r] = "sent" /\ r \notin Stored -> "lost"
         [] OTHER -> exchange[r]]
  /\ ch' = <<>>
  /\ saving' = [r \in Requests |-> "none"]
  /\ UNCHANGED db

\* A signal, or log.Fatalf when one of the two servers ends.
Exit == Die("exited")

\* storage.Insert returns a nil id with its error.  The error is logged and the
\* next statement, id.(int64), panics: the whole process ends.
InsertFails(r) ==
  /\ saving[r] = "insert"
  /\ Die("panicked")

\* Fault: the new process starts from an empty table.
RestartEmpty ==
  /\ process # "up"
  /\ process' = "up"
  /\ db' = <<>>
  /\ UNCHANGED <<exchange, ch, saving>>

\* The next process opens the same database.
Restart ==
  /\ process # "up"
  /\ process' = "up"
  /\ UNCHANGED <<exchange, ch, saving, db>>

-----------------------------------------------------------------------------
Next ==
  \/ \E r \in Requests :
       \/ Serve(r) \/ Refuse(r) \/ Close(r) \/ SendRecord(r)
       \/ Insert(r) \/ InsertFails(r) \/ Notify(r)
  \/ Receive \/ Exit \/ Restart

\* A goroutine that can run runs.  A sender waits for room: each record is sent
\* once, so the channel, always emptied, has room for ever in the end.  Nothing
\* makes a request come, an origin answer or a process start again.
Fairness ==
  /\ WF_vars(Receive)
  /\ \A r \in Requests :
       WF_vars(SendRecord(r)) /\ WF_vars(Insert(r)) /\ WF_vars(Notify(r))

Spec     == Init /\ [][Next]_vars
FairSpec == Spec /\ Fairness

-----------------------------------------------------------------------------
(* Properties                                                              *)

\* Every variable holds values of its kind; the channel keeps to its capacity.
TypeOK ==
  /\ exchange \in [Requests ->
       {"idle", "serving", "closing", "sent", "refused", "cut", "lost"}]
  /\ ch \in Seq(Requests)
  /\ Len(ch) <= Cap
  /\ saving \in [Requests -> {"none", "insert", "notify", "done"}]
  /\ db \in Seq(Requests)
  /\ process \in {"up", "exited", "panicked"}

Inserting == {r \in Requests : saving[r] = "insert"}

Places(r) == {p \in {"channel", "goroutine", "table"} :
                \/ p = "channel"   /\ r \in Range(ch)
                \/ p = "goroutine" /\ r \in Inserting
                \/ p = "table"     /\ r \in Stored}

\* A record that was handed over is in exactly one place while the process
\* lives: the channel, a goroutine about to insert it, or the table.
Accounted ==
  \A r \in Requests : exchange[r] = "sent" => Cardinality(Places(r)) = 1

\* No row is written twice, and every row comes from an exchange that was
\* relayed: a refused, cut or unfinished one leaves none, whatever restarts
\* there were.
StoredOnce ==
  /\ IsInjective(db)
  /\ \A r \in Stored : exchange[r] = "sent"

\* The live clients are told of a record only once it can be read back.
AnnouncedIsStored ==
  \A r \in Requests : saving[r] \in {"notify", "done"} => r \in Stored

\* The recorder implements the traffic log: what was taken is stored once
\* unless the process dies, and neither a crash nor a restart touches a row.
Log == INSTANCE TrafficLog WITH
         taken   <- {r \in Requests : exchange[r] \in {"sent", "lost"}},
         pending <- Range(ch) \cup Inserting,
         log     <- db

ImplementsLog == Log!FairSpec

\* A relayed exchange ends up in the table, unless the process dies before.
RelayedIsStored ==
  \A r \in Requests :
    exchange[r] = "closing" ~> r \in Stored \/ exchange[r] \in {"cut", "lost"}

\* A failed insert costs one record, not the process: main.go 137 logs the
\* error with log.Printf and goes on, where every fatal error of main.go is
\* reported with log.Fatal.  (The code does not do this: see InsertFails.)
InsertFailureSurvived == process # "panicked"
=============================================================================
