--------------------------- MODULE DatabaseProofs ---------------------------
(***************************************************************************)
(* Proofs about Database, for any finite set of processes.                 *)
(***************************************************************************)
EXTENDS Database, FiniteSetTheorems, TLAPS

-----------------------------------------------------------------------------
(* The inductive invariant                                                 *)

\* A file that is there was made by a process that took its name; the search
\* has passed only files that are there.
MakerInv ==
  /\ \A n \in Names : file[n] # "absent" =>
       \E q \in Procs : name[q] = n /\ at[q] \notin {"none", "probe", "open"}
  /\ \A p \in Procs : at[p] = "probe" =>
       name[p] \in Nat /\ \A m \in 0..name[p] - 1 : file[m] # "absent"

\* A process that has not searched begins at the first number.
FirstInv == \A p \in Procs : at[p] = "none" => name[p] = 0

\* What a process has opened is there; what it has run on has the table.
OpenedInv ==
  /\ \A p \in Procs : at[p] \in {"exists", "create"} => file[name[p]] # "absent"
  /\ \A p \in ran : file[name[p]] = "table" /\ at[p] \in {"running", "ended"}

\* A process that has its database, or is about to have it.
Took(p) == p \in ran \/ at[p] \in {"open", "exists", "create", "check"}

\* Nobody has run before a process that has not started.
OverInv == \A p, q \in Procs : q \in over[p] => q \in ran /\ at[p] # "none"

\* NewDatabase holds of every process from when it takes its name.
TakenInv ==
  \A p, q \in Procs : p # q /\ ~flag[p] /\ Took(p) /\ Took(q) /\ name[q] = name[p] =>
    /\ q \notin over[p]
    /\ p \in over[q] => flag[q]

\* A process that searches, or has not started, was not given a name.
SearchInv == \A p \in Procs : at[p] \in {"none", "probe"} => ~flag[p] /\ p \notin ran

IInv ==
  /\ TypeOK /\ MakerInv /\ FirstInv /\ OpenedInv /\ TableIsThere
  /\ OverInv /\ TakenInv /\ SearchInv

\* The initial state satisfies the inductive invariant.
LEMMA InitIInv == Init => IInv
<1> SUFFICES ASSUME Init PROVE IInv OBVIOUS
<1> USE DEF Init
<1>1. \A p \in Procs : Cardinality(Procs) \in Nat \ {0}
  BY FS_CardinalityType, FS_EmptySet, DatabaseAssumption
<1>2. TypeOK BY <1>1 DEF TypeOK, Names, Numbers
<1>3. MakerInv /\ FirstInv BY DEF MakerInv, FirstInv
<1>4. OpenedInv /\ TableIsThere BY DEF OpenedInv, TableIsThere
<1>5. OverInv /\ TakenInv /\ SearchInv BY DEF OverInv, TakenInv, SearchInv, Took
<1> QED BY <1>2, <1>3, <1>4, <1>5 DEF IInv

\* The search stops before the names run out: each file that it passes was made
\* by another process.
LEMMA NamesSuffice ==
  ASSUME TypeOK, MakerInv, NEW p \in Procs, at[p] = "probe", file[name[p]] # "absent"
  PROVE  name[p] + 1 \in Numbers
<1> DEFINE n == name[p]
           others == Procs \ {p}
           passed == 0..n
           maker == [m \in passed |->
             CHOOSE q \in Procs : name[q] = m /\ at[q] \notin {"none", "probe", "open"}]
<1>1. n \in Nat /\ n \in Names BY DEF TypeOK, MakerInv
<1>2. /\ Cardinality(Procs) \in Nat /\ IsFiniteSet(others)
      /\ Cardinality(others) = Cardinality(Procs) - 1
  BY FS_CardinalityType, FS_RemoveElement, DatabaseAssumption
<1>3. n \in Numbers BY <1>1, DatabaseAssumption DEF Names
<1>4. passed \subseteq Names BY <1>1, <1>2, <1>3 DEF Names, Numbers
<1>5. ASSUME NEW m \in passed PROVE file[m] # "absent"
  BY <1>1, <1>5 DEF MakerInv
<1>6. ASSUME NEW m \in passed
      PROVE  maker[m] \in others /\ name[maker[m]] = m
  <2>1. \E q \in Procs : name[q] = m /\ at[q] \notin {"none", "probe", "open"}
    BY <1>4, <1>5 DEF MakerInv
  <2> QED BY <2>1
<1>7. maker \in [passed -> others] BY <1>6
<1>8. IsFiniteSet(passed) /\ Cardinality(passed) = n + 1
  BY <1>1, FS_Interval
<1>9. ~(Cardinality(others) < Cardinality(passed))
  <2> SUFFICES ASSUME Cardinality(others) < Cardinality(passed) PROVE FALSE
    OBVIOUS
  <2> HIDE DEF maker, passed, others
  <2>1. \E x, y \in passed : x # y /\ maker[x] = maker[y]
    BY <1>2, <1>7, <1>8, FS_PigeonHole
  <2> QED BY <1>6, <2>1
<1> QED BY <1>1, <1>2, <1>8, <1>9 DEF Numbers

\* Every step keeps the types.
LEMMA StepTypeOK == TypeOK /\ MakerInv /\ [Next]_vars => TypeOK'
<1> SUFFICES ASSUME TypeOK, MakerInv, [Next]_vars PROVE TypeOK'
  OBVIOUS
<1> USE DEF TypeOK, Goto
<1>1. ASSUME NEW p \in Procs, Start(p) PROVE TypeOK'
  <2>1. over' \in [Procs -> SUBSET Procs] /\ file' = file /\ ran' = ran BY <1>1 DEF Start
  <2>2. CASE Goto(p, "none", "probe") /\ UNCHANGED <<flag, name>> BY <2>1, <2>2
  <2>3. ASSUME NEW n \in Names, Goto(p, "none", "open"),
               flag' = [flag EXCEPT ![p] = TRUE], name' = [name EXCEPT ![p] = n]
        PROVE  TypeOK'
    BY <2>1, <2>3
  <2> QED BY <1>1, <2>2, <2>3 DEF Start
<1>2. ASSUME NEW p \in Procs, Probe(p) PROVE TypeOK'
  <2>1. file[name[p]] # "absent" => name[p] + 1 \in Names
    BY <1>2, NamesSuffice DEF Probe, Names
  <2> QED BY <1>2, <2>1 DEF Probe, Taken, NextName
<1>3. ASSUME NEW p \in Procs, Open(p) PROVE TypeOK' BY <1>3 DEF Open
<1>4. ASSUME NEW p \in Procs, Exists(p) PROVE TypeOK' BY <1>4 DEF Exists
<1>5. ASSUME NEW p \in Procs, CreateTable(p) PROVE TypeOK'
  BY <1>5 DEF CreateTable, Created
<1>6. ASSUME NEW p \in Procs, Fail(p) PROVE TypeOK' BY <1>6 DEF Fail
<1>7. ASSUME NEW p \in Procs, Run(p) PROVE TypeOK' BY <1>7 DEF Run
<1>8. ASSUME NEW p \in Procs, End(p) PROVE TypeOK' BY <1>8 DEF End
<1>9. CASE UNCHANGED vars BY <1>9 DEF vars
<1> QED BY <1>1, <1>2, <1>3, <1>4, <1>5, <1>6, <1>7, <1>8, <1>9 DEF Next

\* A file that is there stays there, and a table stays in it.
LEMMA FilesStay ==
  ASSUME TypeOK, [Next]_vars, NEW n \in Names
  PROVE  /\ file[n] # "absent" => file'[n] # "absent"
         /\ file[n] = "table" => file'[n] = "table"
<1>1. CASE \E p \in Procs : Open(p) BY <1>1 DEF TypeOK, Open
<1>2. CASE \E p \in Procs : CreateTable(p)
  BY <1>2 DEF TypeOK, CreateTable, Created
<1>3. CASE \E p \in Procs : Start(p) \/ Probe(p) \/ Exists(p) \/ Fail(p) \/ Run(p) \/ End(p)
  BY <1>3 DEF Start, Probe, Exists, Fail, Run, End
<1>4. CASE UNCHANGED vars BY <1>4 DEF vars
<1> QED BY <1>1, <1>2, <1>3, <1>4 DEF Next

\* Every step keeps: what is there was made by a process that took its name.
LEMMA StepMaker == TypeOK /\ MakerInv /\ FirstInv /\ [Next]_vars => MakerInv' /\ FirstInv'
<1> SUFFICES ASSUME TypeOK, MakerInv, FirstInv, [Next]_vars PROVE MakerInv' /\ FirstInv'
  OBVIOUS
<1> USE DEF MakerInv, FirstInv, Goto
<1>1. ASSUME NEW p \in Procs, Start(p) PROVE MakerInv' /\ FirstInv'
  BY <1>1 DEF TypeOK, Start
<1>2. ASSUME NEW p \in Procs, Probe(p) PROVE MakerInv' /\ FirstInv'
  BY <1>2 DEF TypeOK, Probe, Taken, NextName
<1>3. ASSUME NEW p \in Procs, Open(p) PROVE MakerInv' /\ FirstInv'
  BY <1>3 DEF TypeOK, Open
<1>4. ASSUME NEW p \in Procs, Exists(p) PROVE MakerInv' /\ FirstInv'
  BY <1>4 DEF TypeOK, Exists
<1>5. ASSUME NEW p \in Procs, CreateTable(p) PROVE MakerInv' /\ FirstInv'
  BY <1>5 DEF TypeOK, CreateTable, Created
<1>6. ASSUME NEW p \in Procs, Fail(p) PROVE MakerInv' /\ FirstInv'
  BY <1>6 DEF TypeOK, Fail
<1>7. ASSUME NEW p \in Procs, Run(p) PROVE MakerInv' /\ FirstInv'
  BY <1>7 DEF TypeOK, Run
<1>8. ASSUME NEW p \in Procs, End(p) PROVE MakerInv' /\ FirstInv'
  BY <1>8 DEF TypeOK, End, Starting
<1>9. CASE UNCHANGED vars BY <1>9 DEF vars
<1> QED BY <1>1, <1>2, <1>3, <1>4, <1>5, <1>6, <1>7, <1>8, <1>9 DEF Next

\* Every step keeps: what is opened is there, what is run on has the table.
LEMMA StepOpened ==
  TypeOK /\ OpenedInv /\ TableIsThere /\ [Next]_vars => OpenedInv' /\ TableIsThere'
<1> SUFFICES ASSUME TypeOK, OpenedInv, TableIsThere, [Next]_vars
             PROVE  OpenedInv' /\ TableIsThere'
  OBVIOUS
<1> USE DEF OpenedInv, TableIsThere, Goto
<1>0. \A p \in Procs : name[p] \in Names BY DEF TypeOK
<1>1. ASSUME NEW p \in Procs, Start(p) PROVE OpenedInv' /\ TableIsThere'
  BY <1>1 DEF TypeOK, Start
<1>2. ASSUME NEW p \in Procs, Probe(p) PROVE OpenedInv' /\ TableIsThere'
  BY <1>2 DEF TypeOK, Probe
<1>3. ASSUME NEW p \in Procs, Open(p) PROVE OpenedInv' /\ TableIsThere'
  BY <1>0, <1>3 DEF TypeOK, Open
<1>4. ASSUME NEW p \in Procs, Exists(p) PROVE OpenedInv' /\ TableIsThere'
  BY <1>4 DEF TypeOK, Exists
<1>5. ASSUME NEW p \in Procs, CreateTable(p) PROVE OpenedInv' /\ TableIsThere'
  BY <1>0, <1>5 DEF TypeOK, CreateTable, Created
<1>6. ASSUME NEW p \in Procs, Fail(p) PROVE OpenedInv' /\ TableIsThere'
  BY <1>6 DEF TypeOK, Fail
<1>7. ASSUME NEW p \in Procs, Run(p) PROVE OpenedInv' /\ TableIsThere'
  BY <1>0, <1>7 DEF TypeOK, Run
<1>8. ASSUME NEW p \in Procs, End(p) PROVE OpenedInv' /\ TableIsThere'
  BY <1>8 DEF TypeOK, End
<1>9. CASE UNCHANGED vars BY <1>9 DEF vars
<1> QED BY <1>1, <1>2, <1>3, <1>4, <1>5, <1>6, <1>7, <1>8, <1>9 DEF Next

\* Every step keeps: who has run before a start had run, and is not searching.
LEMMA StepOver == TypeOK /\ OverInv /\ SearchInv /\ [Next]_vars => OverInv' /\ SearchInv'
<1> SUFFICES ASSUME TypeOK, OverInv, SearchInv, [Next]_vars PROVE OverInv' /\ SearchInv'
  OBVIOUS
<1> USE DEF TypeOK, OverInv, SearchInv, Goto
<1>1. ASSUME NEW p \in Procs, Start(p) PROVE OverInv' /\ SearchInv'
  BY <1>1 DEF Start
<1>2. ASSUME NEW p \in Procs, Probe(p) \/ Open(p) \/ Exists(p) \/ CreateTable(p) \/ Fail(p)
      PROVE  OverInv' /\ SearchInv'
  BY <1>2 DEF Probe, Open, Exists, CreateTable, Fail
<1>3. ASSUME NEW p \in Procs, Run(p) \/ End(p) PROVE OverInv' /\ SearchInv'
  BY <1>3 DEF Run, End, Starting
<1>4. CASE UNCHANGED vars BY <1>4 DEF vars
<1> QED BY <1>1, <1>2, <1>3, <1>4 DEF Next

\* Every step keeps: whoever finds a name free is after nobody who had run on it,
\* and had not run when anybody on the way to it started.
LEMMA StepTaken ==
  TypeOK /\ OpenedInv /\ OverInv /\ SearchInv /\ TakenInv /\ [Next]_vars => TakenInv'
<1> SUFFICES ASSUME TypeOK, OpenedInv, OverInv, SearchInv, TakenInv, [Next]_vars
             PROVE  TakenInv'
  OBVIOUS
<1> USE DEF TypeOK, TakenInv, Took, Goto
<1>1. ASSUME NEW p \in Procs, Start(p) PROVE TakenInv'
  <2>1. p \notin ran /\ \A q \in Procs : p \notin over[q]
    BY <1>1 DEF Start, OverInv, SearchInv
  <2>2. Took(p)' => flag'[p]
    BY <1>1, <2>1 DEF Start
  <2>3. /\ ran' = ran
        /\ \A q \in Procs \ {p} : /\ at'[q] = at[q] /\ name'[q] = name[q]
                                  /\ flag'[q] = flag[q] /\ over'[q] = over[q]
    BY <1>1 DEF Start
  <2> QED BY <2>1, <2>2, <2>3
<1>2. ASSUME NEW p \in Procs, Probe(p) PROVE TakenInv'
  <2>1. /\ flag' = flag /\ ran' = ran /\ over' = over
        /\ \A q \in Procs \ {p} : at'[q] = at[q] /\ name'[q] = name[q]
    BY <1>2 DEF Probe
  <2>2. p \notin ran /\ \A q \in Procs : p \notin over[q]
    BY <1>2 DEF Probe, OverInv, SearchInv
  <2>3. Took(p)' => name'[p] = name[p] /\ \A q \in ran : name[q] # name[p]
    BY <1>2, <2>1, <2>2 DEF Probe, Taken, OpenedInv
  <2>4. \A q \in over[p] : q \in ran
    BY DEF OverInv
  <2> QED BY <2>1, <2>2, <2>3, <2>4
<1>3. ASSUME NEW p \in Procs, Open(p) \/ Exists(p) \/ CreateTable(p) \/ Fail(p)
      PROVE  TakenInv'
  BY <1>3 DEF Open, Exists, CreateTable, Fail
<1>4. ASSUME NEW p \in Procs, Run(p) \/ End(p) PROVE TakenInv'
  BY <1>4 DEF Run, End, Starting
<1>5. CASE UNCHANGED vars BY <1>5 DEF vars
<1> QED BY <1>1, <1>2, <1>3, <1>4, <1>5 DEF Next

\* The inductive invariant holds in every reachable state.
LEMMA Inductive == Spec => []IInv
<1>1. IInv /\ [Next]_vars => IInv'
  BY StepTypeOK, StepMaker, StepOpened, StepOver, StepTaken DEF IInv
<1> QED BY <1>1, InitIInv, PTL DEF Spec

-----------------------------------------------------------------------------
(* Theorems                                                                *)

\* Every variable holds values of its kind; however many processes search at
\* once, none runs past one number for each of them.
THEOREM TypeCorrect == Spec => []TypeOK
<1>1. IInv => TypeOK BY DEF IInv
<1> QED BY <1>1, Inductive, PTL

\* A process that comes out of initDB has its table, whoever made it.
THEOREM TableIsAlwaysThere == Spec => []TableIsThere
<1>1. IInv => TableIsThere BY DEF IInv
<1> QED BY <1>1, Inductive, PTL

\* No capture is mixed into the database of an earlier process, nor into that of a
\* later one, unless -db says so: what a search finds free, nobody had run on.
THEOREM DatabaseIsNew == Spec => []NewDatabase
<1>1. IInv => NewDatabase
  BY DEF IInv, TypeOK, TakenInv, Took, NewDatabase
<1> QED BY <1>1, Inductive, PTL
=============================================================================
