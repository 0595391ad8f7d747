--------------------------- MODULE GencertProofs ---------------------------
(***************************************************************************)
(* Proofs about Gencert, for any handshakes, hosts and root CAs.           *)
(***************************************************************************)
EXTENDS Gencert, TLAPS

-----------------------------------------------------------------------------
(* The inductive invariant                                                 *)

Making == {"generating", "cert", "open key", "key"}

\* A handshake that is under way has a running server; a crash cuts them all.
RunningInv ==
  \A h \in Handshakes :
    at[h] \notin {"idle", "served", "failed", "broken", "cut"} => root # Nobody

\* A file names only a handshake that has come to write it: what a handshake
\* is about to write is in no file yet.
FreshInv ==
  \A h \in Handshakes, n \in Hosts :
    /\ cert[n] \in Pairs /\ cert[n].by = h =>
         at[h] \notin {"idle", "locking", "checking", "generating", "cert"}
    /\ key[n] \in Pairs /\ key[n].by = h =>
         at[h] \notin {"idle", "locking", "checking"} \cup Making

\* The certificate of a handshake that goes on to the key is in its file.
MakingInv ==
  \A h \in Handshakes : at[h] \in {"open key", "key"} =>
    cert[HostOf[h]] = [by |-> h, root |-> root]

\* Only a pair that does not load is made anew.
NeededInv ==
  ~readError => \A h \in Handshakes :
    at[h] \in Making => ~Loadable(HostOf[h])

\* The pair that CreateKeyPair found or made is there until certificateLookup
\* has read both of its files.
LookupInv ==
  ~readError => \A h \in Handshakes :
    /\ at[h] \in {"lookup", "lookup key"} => Loadable(HostOf[h])
    /\ at[h] = "lookup key" => got[h] = cert[HostOf[h]]

IInv ==
  /\ TypeOK /\ RunningInv /\ FreshInv /\ MakingInv /\ NeededInv
  /\ LookupInv /\ LookupSucceeds

\* The initial state satisfies the inductive invariant.
LEMMA InitIInv == Init => IInv
BY GencertAssumption
   DEF Init, IInv, TypeOK, RunningInv, FreshInv, MakingInv, NeededInv, LookupInv,
       LookupSucceeds, Making, Files

\* What a handshake writes into a file is a pair: there is a root CA.
LEMMA OwnPair ==
  ASSUME TypeOK, RunningInv, NEW h \in Handshakes, at[h] \in {"cert", "key"}
  PROVE  [by |-> h, root |-> root] \in Pairs
<1>1. root \in Roots BY DEF TypeOK, RunningInv
<1> QED BY <1>1 DEF Pairs

\* Two handshakes are never both inside CreateKeyPair.
LEMMA OneMaker ==
  ASSUME TypeOK, NEW h \in Handshakes, NEW g \in Handshakes,
         at[h] \in Making \cup {"checking"}, at[g] \in Making \cup {"checking"}
  PROVE  g = h
<1>1. mu = h BY DEF TypeOK, Making
<1>2. mu = g BY DEF TypeOK, Making
<1> QED BY <1>1, <1>2

\* Every step keeps the types and the owner of the mutex.
LEMMA StepTypeOK == TypeOK /\ RunningInv /\ [Next]_vars => TypeOK'
<1> SUFFICES ASSUME TypeOK, RunningInv, [Next]_vars PROVE TypeOK'
  OBVIOUS
<1> USE GencertAssumption DEF TypeOK, Goto, Leave, files, Files
<1>0. ASSUME NEW h \in Handshakes, NotFound(h) PROVE TypeOK'
  <2>1. readError' \in BOOLEAN BY <1>0 DEF NotFound
  <2> QED BY <1>0, <2>1 DEF NotFound
<1>1. ASSUME NEW h \in Handshakes,
             ClientHello(h) \/ Lock(h) \/ RefuseName(h) \/ Found(h)
      PROVE  TypeOK'
  <2>1. CASE ClientHello(h) BY <2>1 DEF ClientHello
  <2>2. CASE Lock(h) BY <2>2 DEF Lock
  <2>3. CASE RefuseName(h) \/ Found(h) BY <2>3 DEF RefuseName, Found
  <2> QED BY <1>1, <2>1, <2>2, <2>3
<1>2. ASSUME NEW h \in Handshakes, Fail(h) \/ CreateCert(h) \/ OpenKey(h)
      PROVE  TypeOK'
  BY <1>2 DEF Fail, CreateCert, OpenKey
<1>3. ASSUME NEW h \in Handshakes, WriteCert(h) \/ WriteKey(h) PROVE TypeOK'
  <2>1. [by |-> h, root |-> root] \in Pairs
    BY <1>3, OwnPair DEF WriteCert, WriteKey
  <2>2. CASE WriteCert(h) BY <2>1, <2>2 DEF WriteCert
  <2>3. CASE WriteKey(h) BY <2>1, <2>3 DEF WriteKey
  <2> QED BY <1>3, <2>2, <2>3
<1>4. ASSUME NEW h \in Handshakes, ReadCert(h) \/ ReadKey(h) \/ ReadFails(h)
      PROVE  TypeOK'
  BY <1>4 DEF ReadCert, ReadKey, ReadFails
<1>5. CASE Crash BY <1>5 DEF Crash
<1>6. CASE Restart BY <1>6 DEF Restart
<1>7. CASE UNCHANGED vars BY <1>7 DEF vars
<1> QED BY <1>0, <1>1, <1>2, <1>3, <1>4, <1>5, <1>6, <1>7 DEF Next

\* Every step keeps: what is under way has a running server.
LEMMA StepRunning == TypeOK /\ RunningInv /\ [Next]_vars => RunningInv'
<1> SUFFICES ASSUME TypeOK, RunningInv, [Next]_vars PROVE RunningInv'
  OBVIOUS
<1> USE DEF TypeOK, RunningInv, Goto, Leave
<1>1. ASSUME NEW h \in Handshakes,
             ClientHello(h) \/ Lock(h) \/ RefuseName(h) \/ Found(h) \/ NotFound(h)
      PROVE  RunningInv'
  BY <1>1 DEF ClientHello, Lock, RefuseName, Found, NotFound
<1>2. ASSUME NEW h \in Handshakes,
             Fail(h) \/ CreateCert(h) \/ WriteCert(h) \/ OpenKey(h) \/ WriteKey(h)
      PROVE  RunningInv'
  BY <1>2 DEF Fail, CreateCert, WriteCert, OpenKey, WriteKey
<1>3. ASSUME NEW h \in Handshakes, ReadCert(h) \/ ReadKey(h) \/ ReadFails(h)
      PROVE  RunningInv'
  BY <1>3 DEF ReadCert, ReadKey, ReadFails
<1>4. CASE Crash BY <1>4 DEF Crash
<1>5. CASE Restart BY <1>5 DEF Restart
<1>6. CASE UNCHANGED vars BY <1>6 DEF vars
<1> QED BY <1>1, <1>2, <1>3, <1>4, <1>5, <1>6 DEF Next

\* Every step keeps: what a handshake is about to write is in no file yet.
LEMMA StepFresh == TypeOK /\ FreshInv /\ [Next]_vars => FreshInv'
<1> SUFFICES ASSUME TypeOK, FreshInv, [Next]_vars PROVE FreshInv'
  OBVIOUS
<1> USE GencertAssumption DEF TypeOK, FreshInv, Making, Goto, Leave, files
<1>1. ASSUME NEW h \in Handshakes,
             ClientHello(h) \/ Lock(h) \/ RefuseName(h) \/ Found(h) \/ NotFound(h)
      PROVE  FreshInv'
  BY <1>1 DEF ClientHello, Lock, RefuseName, Found, NotFound
<1>2. ASSUME NEW h \in Handshakes, Fail(h) \/ CreateCert(h) \/ OpenKey(h)
      PROVE  FreshInv'
  BY <1>2 DEF Fail, CreateCert, OpenKey
<1>3. ASSUME NEW h \in Handshakes, WriteCert(h) PROVE FreshInv'
  BY <1>3 DEF WriteCert
<1>4. ASSUME NEW h \in Handshakes, WriteKey(h) PROVE FreshInv'
  BY <1>4 DEF WriteKey
<1>5. ASSUME NEW h \in Handshakes, ReadCert(h) \/ ReadKey(h) \/ ReadFails(h)
      PROVE  FreshInv'
  BY <1>5 DEF ReadCert, ReadKey, ReadFails
<1>6. CASE Crash BY <1>6 DEF Crash
<1>7. CASE Restart BY <1>7 DEF Restart
<1>8. CASE UNCHANGED vars BY <1>8 DEF vars
<1> QED BY <1>1, <1>2, <1>3, <1>4, <1>5, <1>6, <1>7, <1>8 DEF Next

\* Every step keeps the certificate of a handshake that goes on to the key.
LEMMA StepMaking == TypeOK /\ RunningInv /\ MakingInv /\ [Next]_vars => MakingInv'
<1> SUFFICES ASSUME TypeOK, RunningInv, MakingInv, [Next]_vars PROVE MakingInv'
  OBVIOUS
<1> USE GencertAssumption DEF MakingInv, Goto, Leave, files
<1>1. ASSUME NEW h \in Handshakes,
             ClientHello(h) \/ Lock(h) \/ RefuseName(h) \/ Found(h) \/ NotFound(h)
      PROVE  MakingInv'
  BY <1>1 DEF TypeOK, ClientHello, Lock, RefuseName, Found, NotFound
<1>2. ASSUME NEW h \in Handshakes, Fail(h) \/ OpenKey(h) \/ WriteKey(h)
      PROVE  MakingInv'
  BY <1>2 DEF TypeOK, Fail, OpenKey, WriteKey
<1>3. ASSUME NEW h \in Handshakes, CreateCert(h) \/ WriteCert(h) PROVE MakingInv'
  <2>1. \A g \in Handshakes : at[g] \in {"open key", "key"} => g = h
    BY <1>3, OneMaker DEF Making, CreateCert, WriteCert
  <2>2. CASE CreateCert(h) BY <2>1, <2>2 DEF TypeOK, CreateCert
  <2>3. CASE WriteCert(h) BY <2>1, <2>3 DEF TypeOK, WriteCert
  <2> QED BY <1>3, <2>2, <2>3
<1>4. ASSUME NEW h \in Handshakes, ReadCert(h) \/ ReadKey(h) \/ ReadFails(h)
      PROVE  MakingInv'
  BY <1>4 DEF TypeOK, ReadCert, ReadKey, ReadFails
<1>5. CASE Crash BY <1>5 DEF TypeOK, Crash
<1>6. CASE Restart BY <1>6 DEF TypeOK, Restart, RunningInv
<1>7. CASE UNCHANGED vars BY <1>7 DEF vars
<1> QED BY <1>1, <1>2, <1>3, <1>4, <1>5, <1>6, <1>7 DEF Next

\* A loadable pair is written to by nobody: every writer has found its own
\* pair unfit to load, and is the one that holds the mutex.
LEMMA StepKeepsPairs ==
  ASSUME TypeOK, NeededInv, [Next]_vars, ~readError,
         NEW n \in Hosts, Loadable(n)
  PROVE  cert'[n] = cert[n] /\ key'[n] = key[n]
<1> USE GencertAssumption DEF TypeOK, files
<1>1. ASSUME NEW h \in Handshakes,
             CreateCert(h) \/ WriteCert(h) \/ OpenKey(h) \/ WriteKey(h)
      PROVE  cert'[n] = cert[n] /\ key'[n] = key[n]
  <2>1. HostOf[h] # n
    BY <1>1 DEF NeededInv, Making, CreateCert, WriteCert, OpenKey, WriteKey
  <2> QED BY <1>1, <2>1 DEF CreateCert, WriteCert, OpenKey, WriteKey
<1>2. ASSUME NEW h \in Handshakes,
             \/ ClientHello(h) \/ Lock(h) \/ RefuseName(h) \/ Found(h) \/ NotFound(h)
             \/ Fail(h) \/ ReadCert(h) \/ ReadKey(h) \/ ReadFails(h)
      PROVE  files' = files
  BY <1>2 DEF ClientHello, Lock, RefuseName, Found, NotFound, Fail, ReadCert,
              ReadKey, ReadFails
<1>3. ASSUME Crash \/ Restart \/ UNCHANGED vars PROVE files' = files
  BY <1>3 DEF Crash, Restart, vars
<1> QED BY <1>1, <1>2, <1>3 DEF Next

\* An error that is in the history stays there.
LEMMA ErrorStays == [Next]_vars /\ ~readError' => ~readError
BY DEF Next, vars, ClientHello, Lock, RefuseName, Found, NotFound, Fail, CreateCert,
       WriteCert, OpenKey, WriteKey, ReadCert, ReadKey, ReadFails, Crash, Restart

\* Every step keeps: only a pair that does not load is made anew.
LEMMA StepNeeded ==
  TypeOK /\ RunningInv /\ FreshInv /\ NeededInv /\ [Next]_vars => NeededInv'
<1> SUFFICES ASSUME TypeOK, RunningInv, FreshInv, NeededInv, [Next]_vars, ~readError'
             PROVE  \A h \in Handshakes : at'[h] \in Making => ~Loadable(HostOf[h])'
  BY DEF NeededInv
<1>0. ~readError BY ErrorStays
<1>1. \A h \in Handshakes : at[h] \in Making => ~Loadable(HostOf[h])
  BY <1>0 DEF NeededInv
<1> USE <1>1, GencertAssumption DEF Loadable, Making, Goto, Leave, files
<1> DEFINE Goal == \A h \in Handshakes : at'[h] \in Making => ~Loadable(HostOf[h])'
<1>2. ASSUME NEW h \in Handshakes,
             ClientHello(h) \/ Lock(h) \/ RefuseName(h) \/ Found(h) \/ Fail(h)
      PROVE  Goal
  BY <1>2 DEF TypeOK, ClientHello, Lock, RefuseName, Found, Fail
<1>3. ASSUME NEW h \in Handshakes, NotFound(h) PROVE Goal
  <2>1. ~Loadable(HostOf[h]) BY <1>3 DEF NotFound, Usable
  <2> QED BY <1>3, <2>1 DEF TypeOK, NotFound
<1>4. ASSUME NEW h \in Handshakes,
             CreateCert(h) \/ WriteCert(h) \/ OpenKey(h) \/ WriteKey(h)
      PROVE  Goal
  <2>1. at[h] \in Making /\ \A g \in Handshakes : at[g] \in Making => g = h
    BY <1>4, OneMaker DEF CreateCert, WriteCert, OpenKey, WriteKey
  <2>2. at'[h] \in Making => ~Loadable(HostOf[h])'
    <3>1. CASE CreateCert(h) BY <3>1 DEF TypeOK, CreateCert
    <3>2. CASE WriteCert(h)
      <4>1. key[HostOf[h]] # [by |-> h, root |-> root]
        <5>1. [by |-> h, root |-> root] \in Pairs BY <3>2, OwnPair DEF WriteCert
        <5>2. [by |-> h, root |-> root].by = h OBVIOUS
        <5>3. HostOf[h] \in Hosts /\ at[h] = "cert" BY <3>2 DEF WriteCert
        <5> QED BY <5>1, <5>2, <5>3 DEF FreshInv
      <4> QED BY <3>2, <4>1 DEF TypeOK, WriteCert
    <3>3. CASE OpenKey(h) BY <3>3 DEF TypeOK, OpenKey
    <3>4. CASE WriteKey(h) BY <3>4 DEF TypeOK, WriteKey
    <3> QED BY <1>4, <3>1, <3>2, <3>3, <3>4
  <2>3. \A g \in Handshakes : g # h => at'[g] = at[g]
    BY <1>4 DEF TypeOK, CreateCert, WriteCert, OpenKey, WriteKey
  <2> QED BY <2>1, <2>2, <2>3
<1>5. ASSUME NEW h \in Handshakes, ReadCert(h) \/ ReadKey(h) \/ ReadFails(h)
      PROVE  Goal
  BY <1>5 DEF TypeOK, ReadCert, ReadKey, ReadFails
<1>6. CASE Crash BY <1>6 DEF TypeOK, Crash
<1>7. CASE Restart BY <1>7 DEF Restart
<1>8. CASE UNCHANGED vars BY <1>8 DEF vars
<1> QED BY <1>2, <1>3, <1>4, <1>5, <1>6, <1>7, <1>8 DEF Next

\* Every step keeps: the pair a handshake looks up is there.
LEMMA StepLookup ==
  /\ TypeOK /\ RunningInv /\ MakingInv /\ NeededInv /\ LookupInv
  /\ [Next]_vars
  => LookupInv'
<1> SUFFICES ASSUME TypeOK, RunningInv, MakingInv, NeededInv, LookupInv,
                    [Next]_vars, ~readError', NEW g \in Handshakes
             PROVE  /\ at'[g] \in {"lookup", "lookup key"} => Loadable(HostOf[g])'
                    /\ at'[g] = "lookup key" => got'[g] = cert'[HostOf[g]]
  BY DEF LookupInv
<1> DEFINE Goal == /\ at'[g] \in {"lookup", "lookup key"} => Loadable(HostOf[g])'
                   /\ at'[g] = "lookup key" => got'[g] = cert'[HostOf[g]]
<1>1. ~readError BY ErrorStays
<1>2. /\ at[g] \in {"lookup", "lookup key"} => Loadable(HostOf[g])
      /\ at[g] = "lookup key" => got[g] = cert[HostOf[g]]
  BY <1>1 DEF LookupInv
<1>3. HostOf[g] \in Hosts BY GencertAssumption
<1>4. Loadable(HostOf[g]) =>
        /\ Loadable(HostOf[g])'
        /\ cert'[HostOf[g]] = cert[HostOf[g]]
  BY <1>1, <1>3, StepKeepsPairs DEF Loadable
<1>5. ASSUME at'[g] = at[g], got'[g] = got[g] PROVE Goal
  BY <1>2, <1>4, <1>5
<1>6. ASSUME NEW h \in Handshakes, Found(h) PROVE Goal
  <2>1. Loadable(HostOf[h]) BY <1>6 DEF Found, Usable
  <2> QED BY <1>2, <1>4, <1>5, <1>6, <2>1 DEF TypeOK, Found, Leave
<1>7. ASSUME NEW h \in Handshakes, WriteKey(h) PROVE Goal
  <2>1. cert[HostOf[h]] = [by |-> h, root |-> root] /\ cert[HostOf[h]] \in Pairs
    BY <1>7, OwnPair DEF MakingInv, WriteKey
  <2>2. Loadable(HostOf[h])'
    BY <1>7, <2>1, GencertAssumption DEF TypeOK, Loadable, WriteKey
  <2> QED BY <1>2, <1>4, <1>5, <1>7, <2>2 DEF TypeOK, WriteKey, Leave
<1>8. ASSUME NEW h \in Handshakes, ReadCert(h) PROVE Goal
  BY <1>2, <1>4, <1>5, <1>8 DEF TypeOK, ReadCert, files
<1>9. ASSUME NEW h \in Handshakes,
             \/ ClientHello(h) \/ Lock(h) \/ RefuseName(h) \/ NotFound(h) \/ Fail(h)
             \/ CreateCert(h) \/ WriteCert(h) \/ OpenKey(h)
             \/ ReadKey(h) \/ ReadFails(h)
      PROVE  Goal
  <2>1. got' = got /\ \A i \in Handshakes : i # h => at'[i] = at[i]
    BY <1>9 DEF TypeOK, Goto, Leave, ClientHello, Lock, RefuseName, NotFound, Fail,
                CreateCert, WriteCert, OpenKey, ReadKey, ReadFails
  <2>2. at'[h] \notin {"lookup", "lookup key"}
    BY <1>9 DEF TypeOK, Goto, Leave, ClientHello, Lock, RefuseName, NotFound, Fail,
                CreateCert, WriteCert, OpenKey, ReadKey, ReadFails
  <2> QED BY <1>5, <2>1, <2>2
<1>10. CASE Crash
  <2>1. at'[g] \notin {"lookup", "lookup key"} BY <1>10 DEF TypeOK, Crash
  <2> QED BY <2>1
<1>11. CASE Restart \/ UNCHANGED vars BY <1>5, <1>11 DEF Restart, vars
<1> QED BY <1>6, <1>7, <1>8, <1>9, <1>10, <1>11 DEF Next

\* Every step keeps: without a read error, no lookup has failed.
LEMMA StepSucceeds ==
  TypeOK /\ LookupInv /\ LookupSucceeds /\ [Next]_vars => LookupSucceeds'
<1> SUFFICES ASSUME TypeOK, LookupInv, LookupSucceeds, [Next]_vars, ~readError',
                    NEW g \in Handshakes
             PROVE  at'[g] # "broken"
  BY DEF LookupSucceeds
<1>1. ~readError /\ at[g] # "broken" BY ErrorStays DEF LookupSucceeds
<1>2. ASSUME NEW h \in Handshakes,
             \/ ClientHello(h) \/ Lock(h) \/ RefuseName(h) \/ Found(h) \/ NotFound(h)
             \/ Fail(h) \/ CreateCert(h) \/ WriteCert(h) \/ OpenKey(h) \/ WriteKey(h)
             \/ ReadCert(h)
      PROVE  at'[g] # "broken"
  BY <1>1, <1>2 DEF TypeOK, Goto, Leave, ClientHello, Lock, RefuseName, Found, NotFound,
       Fail, CreateCert, WriteCert, OpenKey, WriteKey, ReadCert
<1>3. ASSUME NEW h \in Handshakes, ReadKey(h) PROVE at'[g] # "broken"
  <2>1. Loadable(HostOf[h]) /\ got[h] = cert[HostOf[h]]
    BY <1>1, <1>3 DEF LookupInv, ReadKey
  <2> QED BY <1>1, <1>3, <2>1 DEF TypeOK, Loadable, ReadKey
<1>4. ASSUME NEW h \in Handshakes, ReadFails(h) PROVE FALSE
  BY <1>4 DEF ReadFails
<1>5. ASSUME Crash \/ Restart \/ UNCHANGED vars PROVE at'[g] # "broken"
  BY <1>1, <1>5 DEF TypeOK, Crash, Restart, vars
<1> QED BY <1>2, <1>3, <1>4, <1>5 DEF Next

\* The inductive invariant holds in every reachable state.
LEMMA Inductive == Spec => []IInv
<1>1. IInv /\ [Next]_vars => IInv'
  BY StepTypeOK, StepRunning, StepFresh, StepMaking, StepNeeded, StepLookup,
     StepSucceeds DEF IInv
<1> QED BY <1>1, InitIInv, PTL DEF Spec

-----------------------------------------------------------------------------
(* Theorems                                                                *)

\* Every variable holds values of its kind, and a handshake is inside
\* CreateKeyPair only with the mutex mu.
THEOREM TypeCorrect == Spec => []TypeOK
<1>1. IInv => TypeOK BY DEF IInv
<1> QED BY <1>1, Inductive, PTL

\* certificateLookup loads what CreateKeyPair has named, although it reads the
\* two files after mu was given back.
THEOREM LookupFindsPair == Spec => []LookupSucceeds
<1>1. IInv => LookupSucceeds BY DEF IInv
<1> QED BY <1>1, Inductive, PTL

\* No step of CreateKeyPair, and no crash, replaces a pair that loads.
THEOREM LoadablePairIsKept == Spec => PairKept
<1>1. IInv /\ [Next]_vars =>
        [ \A n \in Hosts : Loadable(n) /\ ~readError' =>
            cert'[n] = cert[n] /\ key'[n] = key[n] ]_vars
  BY ErrorStays, StepKeepsPairs DEF IInv
<1> QED BY <1>1, Inductive, PTL DEF Spec, PairKept
=============================================================================
