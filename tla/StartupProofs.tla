--------------------------- MODULE StartupProofs ---------------------------
(***************************************************************************)
(* Proofs about Startup and the Listeners in it, for any set of requests.  *)
(***************************************************************************)
EXTENDS Startup, TLAPS

-----------------------------------------------------------------------------
(* The inductive invariant                                                 *)

\* What Start and StartTLS have set on their way is never taken back.
FieldsInv ==
  /\ pc["http"] \in {"listen", "ln", "serve"} => rt # None
  /\ pc["https"] \in {"rt", "serve"} => ln # None

\* main spawns the servers that were asked for, after the DNS server is set.
SpawnInv ==
  /\ \A g \in L!Servers : pc[g] # "off" =>
       g \in flags /\ main \in {"https", "wait", "returned", "failed"}
  /\ pc["https"] # "off" => main # "https"
  /\ main \notin {"database", "dns", "failed"} => dns = ("dns" \in flags)
  /\ (\E g \in L!Servers : pc[g] # "off") => dns = ("dns" \in flags)

\* A request that was accepted came to a server with a transport.
AcceptInv ==
  /\ \A r \in Requests : conn[r] # "none" =>
       /\ rt # None
       /\ process = "up" => \E g \in L!Servers : pc[g] \in {"serve", "returned"}
  /\ TransportBeforeRequests

\* With one server, a connection unlocks the mutex that it has locked.
LockInv ==
  AskedServers # L!Servers =>
    \A r \in Requests : conn[r] = "tracking" =>
      locked /\ \A q \in Requests : conn[q] = "tracking" => q = r

\* With the HTTP server alone, every dial goes through dialContext.
DialInv ==
  "https" \notin flags =>
    /\ rt \in {None, "dialContext"}
    /\ \A r \in Requests : conn[r] = "dialing" => dialer[r] = "dialContext"

IInv ==
  /\ TypeOK /\ FieldsInv /\ SpawnInv /\ AcceptInv /\ LockInv /\ DialInv
  /\ OneServerAlone

\* The initial state satisfies the inductive invariant.
LEMMA InitIInv == Init => IInv
BY StartupAssumption
   DEF Init, L!Init, IInv, TypeOK, L!TypeOK, FieldsInv, SpawnInv, AcceptInv,
       TransportBeforeRequests, LockInv, DialInv, OneServerAlone, L!Servers, Services

\* Every step keeps what is set on the way of Start and StartTLS.
LEMMA StepFields == L!TypeOK /\ FieldsInv /\ [Next]_vars => FieldsInv'
<1> SUFFICES ASSUME L!TypeOK, FieldsInv, [Next]_vars
             PROVE  FieldsInv'
  OBVIOUS
<1> USE StartupAssumption DEF L!TypeOK, FieldsInv, L!Servers,
        vars, proxyVars, restVars, mainVars, L!serverVars, L!connVars
<1>1. CASE OpenDatabase \/ Fail \/ SetCustomDNS \/ OpenBrowser \/ Return
  BY <1>1 DEF OpenDatabase, Fail, SetCustomDNS, OpenBrowser, Return, Main
<1>2. ASSUME NEW s \in Services, StartService(s) \/ ListenAndServe(s) \/ ServiceFails(s)
      PROVE  FieldsInv'
  BY <1>2 DEF StartService, ListenAndServe, ServiceFails, Main, Exited
<1>3. ASSUME NEW g \in L!Servers, StartServer(g) \/ ServerEnds(g) PROVE FieldsInv'
  BY <1>3 DEF StartServer, ServerEnds, Main, Exited, L!Spawn, L!Step
<1>4. ASSUME NEW g \in L!Servers, UNCHANGED mainVars,
             L!SetServer(g) \/ L!SetTransport(g) \/ L!Listen(g)
      PROVE  FieldsInv'
  BY <1>4 DEF L!SetServer, L!SetTransport, L!TransportOf, L!Listen, L!Step
<1>5. ASSUME NEW g \in L!Servers, UNCHANGED mainVars,
             L!ListenFails(g) \/ L!SetListener(g) \/ L!ServeReturns(g)
      PROVE  FieldsInv'
  BY <1>5 DEF L!ListenFails, L!SetListener, L!ServeReturns, L!Step
<1>6. ASSUME L!Stop, UNCHANGED mainVars PROVE FieldsInv'
  BY <1>6 DEF L!Stop
<1>7. ASSUME NEW r \in Requests, UNCHANGED mainVars,
             L!Accept(r) \/ L!Tracked(r) \/ L!ReadTransport(r) \/ L!DialFails(r)
      PROVE  FieldsInv'
  BY <1>7 DEF L!Accept, L!Tracked, L!ReadTransport, L!DialFails
<1>8. ASSUME NEW r \in Requests, NEW answer \in {"custom", "fallback"},
             L!Dial(r, answer), UNCHANGED mainVars
      PROVE  FieldsInv'
  BY <1>8 DEF L!Dial
<1>9. CASE UNCHANGED vars BY <1>9
<1> QED
  BY <1>1, <1>2, <1>3, <1>4, <1>5, <1>6, <1>7, <1>8, <1>9
     DEF Next, Proceed, Serving, Running, L!Run, L!Serve

\* Every step keeps the types of the listeners.
LEMMA StepListeners == L!TypeOK /\ FieldsInv /\ [Next]_vars => L!TypeOK'
<1> SUFFICES ASSUME L!TypeOK, FieldsInv, [Next]_vars
             PROVE  L!TypeOK'
  OBVIOUS
<1>0. SetCustomDNS => dns' \in BOOLEAN BY DEF SetCustomDNS
<1> USE StartupAssumption DEF L!TypeOK, FieldsInv, L!Servers,
        vars, proxyVars, restVars, mainVars, L!serverVars, L!connVars
<1>1. CASE OpenDatabase \/ Fail \/ SetCustomDNS \/ OpenBrowser \/ Return
  <2>1. CASE SetCustomDNS
    BY <1>0, <2>1 DEF SetCustomDNS
  <2>2. CASE OpenDatabase \/ Fail \/ OpenBrowser \/ Return
    BY <2>2 DEF OpenDatabase, Fail, OpenBrowser, Return
  <2> QED BY <1>1, <2>1, <2>2
<1>2. ASSUME NEW s \in Services, StartService(s) \/ ListenAndServe(s) \/ ServiceFails(s)
      PROVE  L!TypeOK'
  BY <1>2 DEF StartService, ListenAndServe, ServiceFails, Main, Exited
<1>3. ASSUME NEW g \in L!Servers, StartServer(g) \/ ServerEnds(g) PROVE L!TypeOK'
  <2>1. CASE StartServer(g)
    <3>1. CASE L!Spawn(g) BY <3>1 DEF L!Spawn, L!Step
    <3>2. CASE UNCHANGED proxyVars BY <3>2
    <3> QED BY <2>1, <3>1, <3>2 DEF StartServer
  <2>2. CASE ServerEnds(g) BY <2>2 DEF ServerEnds, Exited, L!Step
  <2> QED BY <1>3, <2>1, <2>2
<1>4. ASSUME NEW g \in L!Servers, UNCHANGED mainVars,
             L!SetServer(g) \/ L!SetTransport(g) \/ L!Listen(g)
      PROVE  L!TypeOK'
  <2>1. CASE L!SetServer(g) BY <2>1 DEF L!SetServer, L!Step
  <2>2. CASE L!SetTransport(g) BY <2>2 DEF L!SetTransport, L!TransportOf, L!Step
  <2>3. CASE L!Listen(g) BY <2>3 DEF L!Listen, L!Step
  <2> QED BY <1>4, <2>1, <2>2, <2>3
<1>5. ASSUME NEW g \in L!Servers, UNCHANGED mainVars,
             L!ListenFails(g) \/ L!SetListener(g) \/ L!ServeReturns(g)
      PROVE  L!TypeOK'
  <2>1. CASE L!ListenFails(g) BY <2>1 DEF L!ListenFails, L!Step
  <2>2. CASE L!SetListener(g) BY <2>2 DEF L!SetListener, L!Step
  <2>3. CASE L!ServeReturns(g) BY <2>3 DEF L!ServeReturns, L!Step
  <2> QED BY <1>5, <2>1, <2>2, <2>3
<1>6. ASSUME L!Stop, UNCHANGED mainVars PROVE L!TypeOK'
  BY <1>6 DEF L!Stop
<1>7. ASSUME NEW r \in Requests, UNCHANGED mainVars,
             L!Accept(r) \/ L!Tracked(r) \/ L!ReadTransport(r) \/ L!DialFails(r)
      PROVE  L!TypeOK'
  <2>1. CASE L!Accept(r) BY <2>1 DEF L!Accept
  <2>2. CASE L!Tracked(r) BY <2>2 DEF L!Tracked
  <2>3. CASE L!ReadTransport(r) BY <2>3 DEF L!ReadTransport
  <2>4. CASE L!DialFails(r) BY <2>4 DEF L!DialFails
  <2> QED BY <1>7, <2>1, <2>2, <2>3, <2>4
<1>8. ASSUME NEW r \in Requests, NEW answer \in {"custom", "fallback"},
             L!Dial(r, answer), UNCHANGED mainVars
      PROVE  L!TypeOK'
  BY <1>8 DEF L!Dial
<1>9. CASE UNCHANGED vars BY <1>9
<1> QED
  BY <1>1, <1>2, <1>3, <1>4, <1>5, <1>6, <1>7, <1>8, <1>9
     DEF Next, Proceed, Serving, Running, L!Run, L!Serve

\* Every step keeps: a server that runs was asked for.
LEMMA StepSpawn == TypeOK /\ SpawnInv /\ [Next]_vars => SpawnInv'
<1> SUFFICES ASSUME TypeOK, SpawnInv, [Next]_vars
             PROVE  SpawnInv'
  OBVIOUS
<1> USE StartupAssumption DEF TypeOK, L!TypeOK, SpawnInv, L!Servers, Services, AskedServers,
        AskedServices, vars, proxyVars, restVars, mainVars, L!serverVars, L!connVars
<1>1. CASE OpenDatabase \/ Fail \/ SetCustomDNS \/ OpenBrowser \/ Return
  BY <1>1 DEF OpenDatabase, Fail, SetCustomDNS, OpenBrowser, Return, Main
<1>2. ASSUME NEW s \in Services, StartService(s) \/ ListenAndServe(s) \/ ServiceFails(s)
      PROVE  SpawnInv'
  BY <1>2 DEF StartService, ListenAndServe, ServiceFails, Main, Exited
<1>3. ASSUME NEW g \in L!Servers, StartServer(g) \/ ServerEnds(g) PROVE SpawnInv'
  BY <1>3 DEF StartServer, ServerEnds, Main, Exited, L!Spawn, L!Step
<1>4. ASSUME NEW g \in L!Servers, UNCHANGED mainVars,
             L!SetServer(g) \/ L!SetTransport(g) \/ L!Listen(g)
      PROVE  SpawnInv'
  BY <1>4 DEF L!SetServer, L!SetTransport, L!TransportOf, L!Listen, L!Step
<1>5. ASSUME NEW g \in L!Servers, UNCHANGED mainVars,
             L!ListenFails(g) \/ L!SetListener(g) \/ L!ServeReturns(g)
      PROVE  SpawnInv'
  BY <1>5 DEF L!ListenFails, L!SetListener, L!ServeReturns, L!Step
<1>6. ASSUME L!Stop, UNCHANGED mainVars PROVE SpawnInv'
  BY <1>6 DEF L!Stop
<1>7. ASSUME NEW r \in Requests, UNCHANGED mainVars,
             L!Accept(r) \/ L!Tracked(r) \/ L!ReadTransport(r) \/ L!DialFails(r)
      PROVE  SpawnInv'
  BY <1>7 DEF L!Accept, L!Tracked, L!ReadTransport, L!DialFails
<1>8. ASSUME NEW r \in Requests, NEW answer \in {"custom", "fallback"},
             L!Dial(r, answer), UNCHANGED mainVars
      PROVE  SpawnInv'
  BY <1>8 DEF L!Dial
<1>9. CASE UNCHANGED vars BY <1>9
<1> QED
  BY <1>1, <1>2, <1>3, <1>4, <1>5, <1>6, <1>7, <1>8, <1>9
     DEF Next, Proceed, Serving, Running, L!Run, L!Serve

\* Every step keeps the types, and that only what was asked for runs.
LEMMA StepTypeOK == TypeOK /\ FieldsInv /\ SpawnInv /\ [Next]_vars => TypeOK'
<1> SUFFICES ASSUME TypeOK, FieldsInv, SpawnInv, [Next]_vars
             PROVE  TypeOK'
  OBVIOUS
<1>0. L!TypeOK' BY StepListeners DEF TypeOK
<1> DEFINE Rest == /\ main' \in {"database", "dns", "api", "ui", "browser", "http", "https",
                                 "wait", "returned", "failed"}
                   /\ service' \in [Services -> {"off", "listen", "serve", "ended"}]
                   /\ \A s \in Services : service'[s] # "off" => s \in AskedServices'
                   /\ bound' \subseteq AskedServers'
<1> USE StartupAssumption DEF TypeOK, Services, AskedServers, AskedServices,
        vars, proxyVars, restVars, mainVars, L!serverVars, L!connVars
<1>1. ASSUME OpenDatabase \/ Fail \/ SetCustomDNS \/ OpenBrowser \/ Return
      PROVE  Rest
  BY <1>1 DEF OpenDatabase, Fail, SetCustomDNS, OpenBrowser, Return, Main
<1>2. ASSUME NEW s \in Services, StartService(s) \/ ListenAndServe(s) \/ ServiceFails(s)
      PROVE  Rest
  BY <1>2 DEF StartService, ListenAndServe, ServiceFails, Main, Exited
<1>3. ASSUME NEW g \in L!Servers, StartServer(g) \/ ServerEnds(g) PROVE Rest
  BY <1>3 DEF StartServer, ServerEnds, Main, Exited, L!Spawn, L!Step
<1>4. ASSUME NEW g \in L!Servers, UNCHANGED mainVars,
             L!SetServer(g) \/ L!SetTransport(g) \/ L!Listen(g)
      PROVE  Rest
  BY <1>4 DEF L!SetServer, L!SetTransport, L!TransportOf, L!Listen, L!Step
<1>5. ASSUME NEW g \in L!Servers, UNCHANGED mainVars,
             L!ListenFails(g) \/ L!SetListener(g) \/ L!ServeReturns(g)
      PROVE  Rest
  BY <1>5 DEF L!ListenFails, L!SetListener, L!ServeReturns, L!Step
<1>6. ASSUME L!Stop, UNCHANGED mainVars PROVE Rest
  BY <1>6 DEF L!Stop
<1>7. ASSUME NEW r \in Requests, UNCHANGED mainVars,
             L!Accept(r) \/ L!Tracked(r) \/ L!ReadTransport(r) \/ L!DialFails(r)
      PROVE  Rest
  BY <1>7 DEF L!Accept, L!Tracked, L!ReadTransport, L!DialFails
<1>8. ASSUME NEW r \in Requests, NEW answer \in {"custom", "fallback"},
             L!Dial(r, answer), UNCHANGED mainVars
      PROVE  Rest
  BY <1>8 DEF L!Dial
<1>9. ASSUME UNCHANGED vars PROVE Rest BY <1>9
<1> HIDE DEF Rest
<1>10. Rest
  BY <1>1, <1>2, <1>3, <1>4, <1>5, <1>6, <1>7, <1>8, <1>9
     DEF Next, Proceed, Serving, Running, L!Run, L!Serve
<1> QED BY <1>0, <1>10 DEF TypeOK, Rest

\* Every step keeps: what is accepted has a transport.
LEMMA StepAccept == TypeOK /\ AcceptInv /\ [Next]_vars => AcceptInv'
<1> SUFFICES ASSUME TypeOK, AcceptInv, [Next]_vars
             PROVE  AcceptInv'
  OBVIOUS
<1> USE StartupAssumption DEF TypeOK, L!TypeOK, AcceptInv, TransportBeforeRequests, L!Servers,
        vars, proxyVars, restVars, mainVars, L!serverVars, L!connVars
<1>1. CASE OpenDatabase \/ Fail \/ SetCustomDNS \/ OpenBrowser \/ Return
  BY <1>1 DEF OpenDatabase, Fail, SetCustomDNS, OpenBrowser, Return, Main
<1>2. ASSUME NEW s \in Services, StartService(s) \/ ListenAndServe(s) \/ ServiceFails(s)
      PROVE  AcceptInv'
  BY <1>2 DEF StartService, ListenAndServe, ServiceFails, Main, Exited
<1>3. ASSUME NEW g \in L!Servers, StartServer(g) \/ ServerEnds(g) PROVE AcceptInv'
  BY <1>3 DEF StartServer, ServerEnds, Main, Exited, L!Spawn, L!Step
<1>4. ASSUME NEW g \in L!Servers, UNCHANGED mainVars,
             L!SetServer(g) \/ L!SetTransport(g) \/ L!Listen(g)
      PROVE  AcceptInv'
  BY <1>4 DEF L!SetServer, L!SetTransport, L!TransportOf, L!Listen, L!Step
<1>5. ASSUME NEW g \in L!Servers, UNCHANGED mainVars,
             L!ListenFails(g) \/ L!SetListener(g) \/ L!ServeReturns(g)
      PROVE  AcceptInv'
  BY <1>5 DEF L!ListenFails, L!SetListener, L!ServeReturns, L!Step
<1>6. ASSUME L!Stop, UNCHANGED mainVars PROVE AcceptInv'
  BY <1>6 DEF L!Stop
<1>7. ASSUME NEW r \in Requests, UNCHANGED mainVars,
             L!Accept(r) \/ L!Tracked(r) \/ L!ReadTransport(r) \/ L!DialFails(r)
      PROVE  AcceptInv'
  BY <1>7 DEF L!Accept, L!Tracked, L!ReadTransport, L!DialFails
<1>8. ASSUME NEW r \in Requests, NEW answer \in {"custom", "fallback"},
             L!Dial(r, answer), UNCHANGED mainVars
      PROVE  AcceptInv'
  BY <1>8 DEF L!Dial
<1>9. CASE UNCHANGED vars BY <1>9
<1> QED
  BY <1>1, <1>2, <1>3, <1>4, <1>5, <1>6, <1>7, <1>8, <1>9
     DEF Next, Proceed, Serving, Running, L!Run, L!Serve

\* Every step keeps: with one server, a connection unlocks what it has locked.
LEMMA StepLock == TypeOK /\ SpawnInv /\ AcceptInv /\ LockInv /\ [Next]_vars => LockInv'
<1> SUFFICES ASSUME TypeOK, SpawnInv, AcceptInv, LockInv, [Next]_vars
             PROVE  LockInv'
  OBVIOUS
<1> USE StartupAssumption DEF TypeOK, L!TypeOK, SpawnInv, AcceptInv, LockInv, L!Servers,
        AskedServers, vars, proxyVars, restVars, mainVars, L!serverVars, L!connVars
<1>1. CASE OpenDatabase \/ Fail \/ SetCustomDNS \/ OpenBrowser \/ Return
  BY <1>1 DEF OpenDatabase, Fail, SetCustomDNS, OpenBrowser, Return, Main
<1>2. ASSUME NEW s \in Services, StartService(s) \/ ListenAndServe(s) \/ ServiceFails(s)
      PROVE  LockInv'
  BY <1>2 DEF StartService, ListenAndServe, ServiceFails, Main, Exited
<1>3. ASSUME NEW g \in L!Servers, StartServer(g) \/ ServerEnds(g) PROVE LockInv'
  BY <1>3 DEF StartServer, ServerEnds, Main, Exited, L!Spawn, L!Step
<1>4. ASSUME NEW g \in L!Servers, UNCHANGED mainVars,
             L!SetServer(g) \/ L!SetTransport(g) \/ L!Listen(g)
      PROVE  LockInv'
  BY <1>4 DEF L!SetServer, L!SetTransport, L!TransportOf, L!Listen, L!Step
<1>5. ASSUME NEW g \in L!Servers, UNCHANGED mainVars,
             L!ListenFails(g) \/ L!SetListener(g) \/ L!ServeReturns(g)
      PROVE  LockInv'
  BY <1>5 DEF L!ListenFails, L!SetListener, L!ServeReturns, L!Step
<1>6. ASSUME L!Stop, UNCHANGED mainVars PROVE LockInv'
  BY <1>6 DEF L!Stop
<1>7. ASSUME NEW r \in Requests, UNCHANGED mainVars,
             L!Accept(r) \/ L!Tracked(r) \/ L!ReadTransport(r) \/ L!DialFails(r)
      PROVE  LockInv'
  BY <1>7 DEF L!Accept, L!Tracked, L!ReadTransport, L!DialFails
<1>8. ASSUME NEW r \in Requests, NEW answer \in {"custom", "fallback"},
             L!Dial(r, answer), UNCHANGED mainVars
      PROVE  LockInv'
  BY <1>8 DEF L!Dial
<1>9. CASE UNCHANGED vars BY <1>9
<1> QED
  BY <1>1, <1>2, <1>3, <1>4, <1>5, <1>6, <1>7, <1>8, <1>9
     DEF Next, Proceed, Serving, Running, L!Run, L!Serve

\* Every step keeps: without -https, requests dial through dialContext.
LEMMA StepDial == TypeOK /\ SpawnInv /\ DialInv /\ [Next]_vars => DialInv'
<1> SUFFICES ASSUME TypeOK, SpawnInv, DialInv, [Next]_vars
             PROVE  DialInv'
  OBVIOUS
<1> USE StartupAssumption DEF TypeOK, L!TypeOK, SpawnInv, DialInv, L!Servers, AskedServers,
        vars, proxyVars, restVars, mainVars, L!serverVars, L!connVars
<1>1. CASE OpenDatabase \/ Fail \/ SetCustomDNS \/ OpenBrowser \/ Return
  BY <1>1 DEF OpenDatabase, Fail, SetCustomDNS, OpenBrowser, Return, Main
<1>2. ASSUME NEW s \in Services, StartService(s) \/ ListenAndServe(s) \/ ServiceFails(s)
      PROVE  DialInv'
  BY <1>2 DEF StartService, ListenAndServe, ServiceFails, Main, Exited
<1>3. ASSUME NEW g \in L!Servers, StartServer(g) \/ ServerEnds(g) PROVE DialInv'
  BY <1>3 DEF StartServer, ServerEnds, Main, Exited, L!Spawn, L!Step
<1>4. ASSUME NEW g \in L!Servers, UNCHANGED mainVars,
             L!SetServer(g) \/ L!SetTransport(g) \/ L!Listen(g)
      PROVE  DialInv'
  BY <1>4 DEF L!SetServer, L!SetTransport, L!TransportOf, L!Listen, L!Step
<1>5. ASSUME NEW g \in L!Servers, UNCHANGED mainVars,
             L!ListenFails(g) \/ L!SetListener(g) \/ L!ServeReturns(g)
      PROVE  DialInv'
  BY <1>5 DEF L!ListenFails, L!SetListener, L!ServeReturns, L!Step
<1>6. ASSUME L!Stop, UNCHANGED mainVars PROVE DialInv'
  BY <1>6 DEF L!Stop
<1>7. ASSUME NEW r \in Requests, UNCHANGED mainVars,
             L!Accept(r) \/ L!Tracked(r) \/ L!ReadTransport(r) \/ L!DialFails(r)
      PROVE  DialInv'
  BY <1>7 DEF L!Accept, L!Tracked, L!ReadTransport, L!DialFails
<1>8. ASSUME NEW r \in Requests, NEW answer \in {"custom", "fallback"},
             L!Dial(r, answer), UNCHANGED mainVars
      PROVE  DialInv'
  BY <1>8 DEF L!Dial
<1>9. CASE UNCHANGED vars BY <1>9
<1> QED
  BY <1>1, <1>2, <1>3, <1>4, <1>5, <1>6, <1>7, <1>8, <1>9
     DEF Next, Proceed, Serving, Running, L!Run, L!Serve

\* Every step keeps: one server alone is spared what two do to each other.
LEMMA StepAloneServer ==
  /\ TypeOK /\ SpawnInv /\ AcceptInv /\ LockInv /\ DialInv /\ OneServerAlone
  /\ [Next]_vars
  => OneServerAlone'
<1> SUFFICES ASSUME TypeOK, SpawnInv, AcceptInv, LockInv, DialInv, OneServerAlone,
                    [Next]_vars
             PROVE  OneServerAlone'
  OBVIOUS
<1> USE StartupAssumption DEF TypeOK, L!TypeOK, L!Servers, AskedServers, OneServerAlone,
        vars, proxyVars, restVars, mainVars, L!serverVars, L!connVars
<1>1. CASE OpenDatabase \/ Fail \/ SetCustomDNS \/ OpenBrowser \/ Return
  BY <1>1 DEF OpenDatabase, Fail, SetCustomDNS, OpenBrowser, Return, Main
<1>2. ASSUME NEW s \in Services, StartService(s) \/ ListenAndServe(s) \/ ServiceFails(s)
      PROVE  OneServerAlone'
  BY <1>2 DEF StartService, ListenAndServe, ServiceFails, Main, Exited
<1>3. ASSUME NEW g \in L!Servers, StartServer(g) \/ ServerEnds(g) PROVE OneServerAlone'
  BY <1>3 DEF StartServer, ServerEnds, Main, Exited, L!Spawn, L!Step
<1>4. ASSUME NEW g \in L!Servers, UNCHANGED mainVars,
             L!SetServer(g) \/ L!SetTransport(g) \/ L!Listen(g)
      PROVE  OneServerAlone'
  BY <1>4 DEF L!SetServer, L!SetTransport, L!TransportOf, L!Listen, L!Step
<1>5. ASSUME NEW g \in L!Servers, UNCHANGED mainVars,
             L!ListenFails(g) \/ L!SetListener(g) \/ L!ServeReturns(g)
      PROVE  OneServerAlone'
  BY <1>5 DEF L!ListenFails, L!SetListener, L!ServeReturns, L!Step
<1>6. ASSUME L!Stop, UNCHANGED mainVars PROVE OneServerAlone'
  BY <1>6 DEF L!Stop
<1>7. ASSUME NEW r \in Requests, UNCHANGED mainVars,
             L!Accept(r) \/ L!Tracked(r) \/ L!ReadTransport(r) \/ L!DialFails(r)
      PROVE  OneServerAlone'
  BY <1>7 DEF LockInv, L!Accept, L!Tracked, L!ReadTransport, L!DialFails
<1>8. ASSUME NEW r \in Requests, NEW answer \in {"custom", "fallback"},
             L!Dial(r, answer), UNCHANGED mainVars
      PROVE  OneServerAlone'
  BY <1>8 DEF SpawnInv, AcceptInv, DialInv, L!Dial
<1>9. CASE UNCHANGED vars BY <1>9
<1> QED
  BY <1>1, <1>2, <1>3, <1>4, <1>5, <1>6, <1>7, <1>8, <1>9
     DEF Next, Proceed, Serving, Running, L!Run, L!Serve

\* The inductive invariant holds in every reachable state.
LEMMA Inductive == Spec => []IInv
<1>1. IInv /\ [Next]_vars => IInv'
  BY StepTypeOK, StepFields, StepSpawn, StepAccept, StepLock, StepDial,
     StepAloneServer DEF IInv, TypeOK
<1> QED BY <1>1, InitIInv, PTL DEF Spec

-----------------------------------------------------------------------------
(* Theorems                                                                *)

\* Every variable holds values of its kind, and only what was asked for runs.
THEOREM TypeCorrect == Spec => []TypeOK
<1>1. IInv => TypeOK BY DEF IInv
<1> QED BY <1>1, Inductive, PTL

\* No request finds p.rt unset, however Start and StartTLS interleave.
THEOREM RequestsHaveTransport == Spec => []TransportBeforeRequests
<1>1. IInv => TransportBeforeRequests BY DEF IInv, AcceptInv
<1> QED BY <1>1, Inductive, PTL

\* A process with one proxy server neither dies of a replaced p.srv nor, with
\* -http and -dns, asks the system's resolver before the custom one.
THEOREM OneServerIsSafe == Spec => []OneServerAlone
<1>1. IInv => OneServerAlone BY DEF IInv
<1> QED BY <1>1, Inductive, PTL
=============================================================================
