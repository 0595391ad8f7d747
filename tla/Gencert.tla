------------------------------ MODULE Gencert ------------------------------
(***************************************************************************)
(* gencert.go 75-174 (CreateKeyPair) and proxy.go 377-389                  *)
(* (certificateLookup): TLS handshakes, each in a goroutine of net/http,   *)
(* get a certificate for the server name the client asks for.  The pair is *)
(* made once and kept in two files per host; CreateKeyPair works on them   *)
(* under the mutex mu, certificateLookup reads them again after it.        *)
(*                                                                         *)
(* A file is absent, torn (empty or written in part) or whole.  A pair is  *)
(* named by the handshake that made it and the root CA that signed it; two *)
(* whole files load only when they are of the same pair.                   *)
(***************************************************************************)
EXTENDS FiniteSets

CONSTANTS
  Handshakes,
  Hosts,    \* the names of the directories: ASCII and lower case
  HostOf,   \* HostOf[h]: the name that h asks for, normalised
  Roots,    \* the root CAs that -ca-cert and -ca-key may name
  Absent, Torn, Nobody

Pairs == [by : Handshakes, root : Roots]
Files == Pairs \cup {Absent, Torn}

ASSUME GencertAssumption ==
  /\ HostOf \in [Handshakes -> Hosts]
  /\ Absent # Torn /\ Absent \notin Pairs /\ Torn \notin Pairs
  /\ Nobody \notin Handshakes

VARIABLES
  at,        \* at[h]: where certificateLookup is
  mu,        \* the handshake that holds the mutex, or Nobody
  cert,      \* cert[n]: the file certs/n/cert.pem
  key,       \* key[n]: the file certs/n/key.pem
  got,       \* got[h]: what certificateLookup has read of cert.pem
  served,    \* served[h]: the pair the handshake uses
  root,      \* the root CA of this process, or Nobody when it is not running
  readError  \* history: a file that was there could not be read

files == <<cert, key>>
vars  == <<at, mu, files, got, served, root, readError>>

Init ==
  /\ at        = [h \in Handshakes |-> "idle"]
  /\ mu        = Nobody
  /\ cert      = [n \in Hosts |-> Absent]
  /\ key       = [n \in Hosts |-> Absent]
  /\ got       = [h \in Handshakes |-> Absent]
  /\ served    = [h \in Handshakes |-> Absent]
  /\ root     \in Roots
  /\ readError = FALSE

Loadable(n) == cert[n] \in Pairs /\ key[n] = cert[n]

\* Faults: a pair is taken when both files are there; it is never taken.
UsableIfPresent(n) == cert[n] # Absent /\ key[n] # Absent
UsableNever(n)     == FALSE

\* CreateKeyPair takes the pair as it is, whoever signed it and however old.
Usable(n) == Loadable(n)

\* Where the handshake goes on, keeping the mutex ...
Goto(h, pc) == at' = [at EXCEPT ![h] = pc] /\ UNCHANGED <<mu, root, served, got>>

\* Fault: an error leaves the mutex locked.
LeaveLocked(h, pc) ==
  /\ at' = [at EXCEPT ![h] = pc]
  /\ mu' = IF pc = "failed" THEN mu ELSE Nobody
  /\ UNCHANGED <<root, served, got>>

\* ... or giving it back, as every return of CreateKeyPair does.
Leave(h, pc) ==
  /\ at' = [at EXCEPT ![h] = pc]
  /\ mu' = Nobody
  /\ UNCHANGED <<root, served, got>>

-----------------------------------------------------------------------------
(* CreateKeyPair                                                           *)

\* A TLS client says hello to the running server.
ClientHello(h) ==
  /\ root # Nobody
  /\ at[h] = "idle"
  /\ Goto(h, "locking")
  /\ UNCHANGED <<files, readError>>

Lock(h) ==
  /\ at[h] = "locking"
  /\ mu = Nobody
  /\ mu' = h
  /\ at' = [at EXCEPT ![h] = "checking"]
  /\ UNCHANGED <<files, got, served, root, readError>>

\* idna.ToASCII refuses the name: the handshake never comes to a file.
RefuseName(h) ==
  /\ at[h] = "checking"
  /\ Leave(h, "failed")
  /\ UNCHANGED <<files, readError>>

Found(h) ==
  /\ at[h] = "checking"
  /\ Usable(HostOf[h])
  /\ Leave(h, "lookup")
  /\ UNCHANGED <<files, readError>>

\* The pair does not load: because of what the files are, or of an error in
\* reading them, which the code does not tell apart.
NotFound(h) ==
  /\ at[h] = "checking"
  /\ readError' = (readError \/ Usable(HostOf[h]))
  /\ Goto(h, "generating")
  /\ UNCHANGED files

\* The root CA cannot be loaded, a file cannot be made or written: the files
\* stay as they are.
Fail(h) ==
  /\ at[h] \in {"generating", "cert", "open key", "key"}
  /\ Leave(h, "failed")
  /\ UNCHANGED <<files, readError>>

\* A new pair was signed with the root CA; os.Create truncates cert.pem.
CreateCert(h) ==
  /\ at[h] = "generating"
  /\ cert' = [cert EXCEPT ![HostOf[h]] = Torn]
  /\ Goto(h, "cert")
  /\ UNCHANGED <<key, readError>>

WriteCert(h) ==
  /\ at[h] = "cert"
  /\ cert' = [cert EXCEPT ![HostOf[h]] = [by |-> h, root |-> root]]
  /\ Goto(h, "open key")
  /\ UNCHANGED <<key, readError>>

\* os.OpenFile truncates key.pem.
OpenKey(h) ==
  /\ at[h] = "open key"
  /\ key' = [key EXCEPT ![HostOf[h]] = Torn]
  /\ Goto(h, "key")
  /\ UNCHANGED <<cert, readError>>

WriteKey(h) ==
  /\ at[h] = "key"
  /\ key' = [key EXCEPT ![HostOf[h]] = [by |-> h, root |-> root]]
  /\ Leave(h, "lookup")
  /\ UNCHANGED <<cert, readError>>

-----------------------------------------------------------------------------
(* certificateLookup                                                       *)

\* tls.LoadX509KeyPair, without the mutex: first the certificate ...
ReadCert(h) ==
  /\ at[h] = "lookup"
  /\ got' = [got EXCEPT ![h] = cert[HostOf[h]]]
  /\ at'  = [at EXCEPT ![h] = "lookup key"]
  /\ UNCHANGED <<mu, files, served, root, readError>>

\* ... then the key, which has to be of the same pair.
ReadKey(h) ==
  /\ at[h] = "lookup key"
  /\ IF got[h] \in Pairs /\ key[HostOf[h]] = got[h]
     THEN /\ served' = [served EXCEPT ![h] = got[h]]
          /\ at' = [at EXCEPT ![h] = "served"]
     ELSE /\ served' = served
          /\ at' = [at EXCEPT ![h] = "broken"]
  /\ UNCHANGED <<mu, files, got, root, readError>>

\* One of the two cannot be read.
ReadFails(h) ==
  /\ at[h] \in {"lookup", "lookup key"}
  /\ at' = [at EXCEPT ![h] = "broken"]
  /\ readError' = TRUE
  /\ UNCHANGED <<mu, files, got, served, root>>

-----------------------------------------------------------------------------
(* The process                                                             *)

\* It ends between any two steps; what was written of a file stays.
Crash ==
  /\ root # Nobody
  /\ root' = Nobody
  /\ mu'   = Nobody
  /\ at'   = [h \in Handshakes |->
       IF at[h] \in {"idle", "served", "failed", "broken"} THEN at[h] ELSE "cut"]
  /\ UNCHANGED <<files, got, served, readError>>

\* It starts again, perhaps with another root CA.
Restart ==
  /\ root = Nobody
  /\ root' \in Roots
  /\ UNCHANGED <<at, mu, files, got, served, readError>>

Next ==
  \/ \E h \in Handshakes :
       \/ ClientHello(h) \/ Lock(h) \/ RefuseName(h) \/ Found(h) \/ NotFound(h)
       \/ Fail(h) \/ CreateCert(h) \/ WriteCert(h) \/ OpenKey(h) \/ WriteKey(h)
       \/ ReadCert(h) \/ ReadKey(h) \/ ReadFails(h)
  \/ Crash \/ Restart

\* A handshake that can run does; the mutex is taken once per handshake, so one
\* that waits finds it free for ever in the end.
Fairness ==
  \A h \in Handshakes :
    /\ WF_vars(Lock(h))
    /\ WF_vars(RefuseName(h) \/ Found(h) \/ NotFound(h))
    /\ WF_vars(CreateCert(h) \/ WriteCert(h) \/ OpenKey(h) \/ WriteKey(h) \/ Fail(h))
    /\ WF_vars(ReadCert(h) \/ ReadKey(h) \/ ReadFails(h))

Spec     == Init /\ [][Next]_vars
FairSpec == Spec /\ Fairness

-----------------------------------------------------------------------------
(* Properties                                                              *)

\* Every variable holds values of its kind, and only the handshake that holds
\* the mutex is inside CreateKeyPair.
TypeOK ==
  /\ at \in [Handshakes -> {"idle", "locking", "checking", "generating", "cert",
       "open key", "key", "lookup", "lookup key", "served", "failed", "broken", "cut"}]
  /\ mu \in Handshakes \cup {Nobody}
  /\ cert \in [Hosts -> Files] /\ key \in [Hosts -> Files]
  /\ got \in [Handshakes -> Files] /\ served \in [Handshakes -> Files]
  /\ root \in Roots \cup {Nobody}
  /\ readError \in BOOLEAN
  /\ \A h \in Handshakes :
       mu = h <=> at[h] \in {"checking", "generating", "cert", "open key", "key"}

\* When CreateKeyPair has succeeded, the pair it named loads, although the
\* mutex was given back in between: no other handshake is rewriting the files,
\* and no crash or failed write has left a torn pair that is taken for whole.
LookupSucceeds ==
  ~readError => \A h \in Handshakes : at[h] # "broken"

\* A pair that loads is never replaced: the clients of a host see one
\* certificate, across concurrent handshakes, failures and restarts.
PairKept ==
  [][ \A n \in Hosts : Loadable(n) /\ ~readError' =>
        cert'[n] = cert[n] /\ key'[n] = key[n] ]_vars

\* A handshake that has begun ends, with a certificate or an error: no failure
\* keeps the mutex.
HandshakeEnds ==
  \A h \in Handshakes :
    at[h] = "locking" ~> at[h] \in {"served", "failed", "broken", "cut"}

\* README.md 142-144: the certificate made for a destination "is signed with the
\* providede root CA key".  (A pair kept from a process with another root CA is
\* served as it is.)
SignedByRoot ==
  \A h \in Handshakes :
    at[h] = "lookup" /\ Loadable(HostOf[h]) => cert[HostOf[h]].root = root
=============================================================================
