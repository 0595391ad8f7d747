------------------------------ MODULE Database ------------------------------
(***************************************************************************)
(* database.go 39-77 (initDB) and main.go 79-90: how a starting process    *)
(* chooses its database and makes the table.  Several processes may start  *)
(* in the same directory, at once or after one another.                    *)
(*                                                                         *)
(* SQLite is external: a file comes into being, without a table, when it   *)
(* is first used; CREATE TABLE fails when the table is there.              *)
(***************************************************************************)
EXTENDS Naturals, FiniteSets

CONSTANTS
  Procs,      \* the processes, each started once
  OtherNames  \* files that are not called hyperfox-%05d.db

\* Names hyperfox-%05d.db, one for each process; with -db any file may be named,
\* one of these as well.
Numbers == 0..(Cardinality(Procs) - 1)
Names   == Numbers \cup OtherNames

ASSUME DatabaseAssumption ==
  IsFiniteSet(Procs) /\ OtherNames \cap Nat = {}

VARIABLES
  at,      \* at[p]: where main is
  flag,    \* flag[p]: the process was started with -db
  name,    \* name[p]: databaseName
  file,    \* file[n]: "absent", "empty" (no table) or "table"
  ran,     \* history: the processes that have run on their file
  over     \* history: over[p] are those that had done so when p started

vars == <<at, flag, name, file, ran, over>>

Starting == {p \in Procs : at[p] \in {"probe", "open", "exists", "create", "check"}}

Init ==
  /\ at   = [p \in Procs |-> "none"]
  /\ flag = [p \in Procs |-> FALSE]
  /\ name = [p \in Procs |-> 0]
  /\ file = [n \in Names |-> "absent"]
  /\ ran  = {}
  /\ over = [p \in Procs |-> {}]

-----------------------------------------------------------------------------
Goto(p, from, to) == at[p] = from /\ at' = [at EXCEPT ![p] = to]

\* The process starts, without -db ...
Start(p) ==
  /\ \/ /\ Goto(p, "none", "probe")
        /\ UNCHANGED <<flag, name>>
     \* ... or with it, for any file.
     \/ /\ Goto(p, "none", "open")
        /\ flag' = [flag EXCEPT ![p] = TRUE]
        /\ \E n \in Names : name' = [name EXCEPT ![p] = n]
  /\ over' = [over EXCEPT ![p] = ran]
  /\ UNCHANGED <<file, ran>>

\* Faults: os.Stat's error is read the wrong way round; it is not looked at.
TakenInverted(n) == file[n] = "absent"
NeverTaken(n)    == FALSE

Taken(n) == file[n] # "absent"

\* Fault: the number is not incremented.
SameName(n) == n

NextName(n) == n + 1

\* os.Stat: the next number, or this one when there is no such file.
Probe(p) ==
  /\ Goto(p, "probe", IF Taken(name[p]) THEN "probe" ELSE "open")
  /\ name' = [name EXCEPT ![p] = IF Taken(@) THEN NextName(@) ELSE @]
  /\ UNCHANGED <<flag, file, ran, over>>

\* sqlite.Open.
Open(p) ==
  /\ Goto(p, "open", "exists")
  /\ file' = [file EXCEPT ![name[p]] = IF @ = "absent" THEN "empty" ELSE @]
  /\ UNCHANGED <<flag, name, ran, over>>

\* col.Exists(): a file that has the table is taken as it is.  A query that fails
\* counts as none.
Exists(p) ==
  /\ \/ file[name[p]] = "table" /\ Goto(p, "exists", "check")
     \/ Goto(p, "exists", "create")
  /\ UNCHANGED <<flag, name, file, ran, over>>

\* Fault: the statement is prepared and not executed.
NotCreated(n) == file[n]

Created(n) == "table"

CreateTable(p) ==
  /\ file[name[p]] = "empty"
  /\ Goto(p, "create", "check")
  /\ file' = [file EXCEPT ![name[p]] = Created(name[p])]
  /\ UNCHANGED <<flag, name, ran, over>>

\* The database cannot be opened; CREATE TABLE fails, for instance because
\* another process made it first; the query of main for the table fails:
\* log.Fatal.
Fail(p) ==
  /\ \/ Goto(p, "open", "ended")
     \/ Goto(p, "create", "ended")
     \/ Goto(p, "check", "ended")
  /\ UNCHANGED <<flag, name, file, ran, over>>

\* storage.Exists(), and the process goes on to serve and store.
Run(p) ==
  /\ file[name[p]] = "table"
  /\ Goto(p, "check", "running")
  /\ ran' = ran \cup {p}
  /\ UNCHANGED <<flag, name, file, over>>

\* The process ends or is killed, at any point; its file stays as it is.
End(p) ==
  /\ p \in Starting \/ at[p] = "running"
  /\ at' = [at EXCEPT ![p] = "ended"]
  /\ UNCHANGED <<flag, name, file, ran, over>>

Next ==
  \E p \in Procs :
    \/ Start(p) \/ Probe(p) \/ Open(p) \/ Exists(p) \/ CreateTable(p)
    \/ Fail(p) \/ Run(p) \/ End(p)

\* A process that is starting goes on.
Fairness ==
  \A p \in Procs :
    WF_vars(Probe(p) \/ Open(p) \/ Exists(p) \/ CreateTable(p) \/ Fail(p) \/ Run(p))

Spec     == Init /\ [][Next]_vars
FairSpec == Spec /\ Fairness

-----------------------------------------------------------------------------
(* Properties                                                              *)

\* Every variable holds values of its kind; the search stays among the names.
TypeOK ==
  /\ at \in [Procs -> {"none", "probe", "open", "exists", "create", "check",
                       "running", "ended"}]
  /\ flag \in [Procs -> BOOLEAN]
  /\ name \in [Procs -> Names]
  /\ file \in [Names -> {"absent", "empty", "table"}]
  /\ ran \subseteq Procs
  /\ over \in [Procs -> SUBSET Procs]

\* initDB succeeds only with a table, so that every Insert finds it, although
\* another process may have made it, or died between making the file and the table.
TableIsThere ==
  \A p \in Procs : at[p] \in {"check", "running"} => file[name[p]] = "table"

\* Without -db, a process never stores in the database of one that was there
\* before it, and its own is nobody else's, unless one is sent to it by -db.  (Two
\* whose starts overlap may share a file: each looks for a name before the other
\* has made it.)
NewDatabase ==
  \A p, q \in ran : p # q /\ ~flag[p] /\ name[q] = name[p] =>
    /\ q \notin over[p]
    /\ p \in over[q] => flag[q]

\* A start ends: the search finds an unused name, and nothing waits for another
\* process.
StartEnds ==
  \A p \in Procs : at[p] = "probe" ~> at[p] \in {"running", "ended"}
=============================================================================
