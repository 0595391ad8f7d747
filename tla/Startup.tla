------------------------------ MODULE Startup ------------------------------
(***************************************************************************)
(* main.go 62-180 and services.go 101-284: from the flags to a process     *)
(* that serves, and what ends it.  The goroutine of main opens the         *)
(* database, sets the DNS server, starts the API and the UI and then the   *)
(* two servers of the proxy (Listeners), each in a goroutine of its own,   *)
(* and waits for the latter.                                               *)
(***************************************************************************)
EXTENDS FiniteSets

CONSTANTS
  Requests,
  None

VARIABLES
  pc, bound, ln, rt, dns, locked, process, conn, dialer, resolved,  \* of Listeners
  flags,    \* what is asked for: "http", "https" (with a CA), "api", "ui", "dns",
            \* and "no port": a -ui-addr without one, the API at its default
  main,     \* where the goroutine of main is
  service   \* service[s]: where ListenAndServe of the API or the UI is

restVars  == <<pc, bound, ln, rt, locked, conn, dialer, resolved>>
proxyVars == <<restVars, dns, process>>
mainVars  == <<flags, main, service>>
vars      == <<proxyVars, mainVars>>

L == INSTANCE Listeners

\* None is no server, no transport and no resolver.
ASSUME StartupAssumption ==
  None \notin L!Servers \cup {"dialContext", "plain", "custom", "fallback", "system"}

Services == {"api", "ui"}

\* The proxy servers and the services that the flags ask for: the UI enables the
\* API.
AskedServers  == flags \cap L!Servers
AskedServices == (flags \cap Services) \cup {s \in {"api"} : "ui" \in flags}

Init ==
  /\ L!Init
  /\ flags \in SUBSET (L!Servers \cup Services \cup {"dns", "no port"})
  /\ "no port" \in flags => "ui" \in flags
  /\ main    = "database"
  /\ service = [s \in Services |-> "off"]

-----------------------------------------------------------------------------
(* main                                                                    *)

Main(from, to) == process = "up" /\ main = from /\ main' = to

\* initDB and the checks of the flags.
OpenDatabase ==
  /\ Main("database", "dns")
  /\ UNCHANGED <<proxyVars, flags, service>>

\* log.Fatal: the database, the flags or the address of a service are no good.
Fail ==
  /\ \E from \in {"database"} \cup AskedServices : Main(from, "failed")
  /\ process' = "exited"
  /\ UNCHANGED <<restVars, dns, flags, service>>

\* p.SetCustomDNS, if -dns was given.
SetCustomDNS ==
  /\ Main("dns", "api")
  /\ dns' = ("dns" \in flags)
  /\ UNCHANGED <<restVars, process, flags, service>>

\* startServices: first the API, then the UI, if they were asked for.
StartService(s) ==
  /\ \/ s = "api" /\ Main(s, "ui")
     \/ s = "ui"  /\ Main(s, IF "ui" \in flags THEN "browser" ELSE "http")
  /\ service' = [service EXCEPT ![s] = IF s \in AskedServices THEN "listen" ELSE @]
  /\ UNCHANGED <<proxyVars, flags>>

\* Behind the UI, browser.OpenURL runs a program and waits for its end; its error is
\* only logged.
OpenBrowser ==
  /\ Main("browser", "http")
  /\ UNCHANGED <<proxyVars, flags, service>>

\* Then the proxy servers.
StartServer(g) ==
  /\ Main(g, IF g = "http" THEN "https" ELSE "wait")
  /\ IF g \in AskedServers THEN L!Spawn(g) ELSE UNCHANGED proxyVars
  /\ UNCHANGED <<flags, service>>

\* wg.Wait returns when there is no proxy server to wait for: Start and StartTLS
\* return only errors, and log.Fatalf does not come back.
Return ==
  /\ AskedServers = {}
  /\ Main("wait", "returned")
  /\ process' = "returned"
  /\ UNCHANGED <<restVars, dns, flags, service>>

-----------------------------------------------------------------------------
(* The other goroutines                                                    *)

\* Without a port, -ui-addr is given that of the API (and not 1984).
PortTaken(s) ==
  "no port" \in flags /\ \E t \in Services \ {s} : service[t] = "serve"

ListenAndServe(s) ==
  /\ process = "up"
  /\ service[s] = "listen"
  /\ ~PortTaken(s)
  /\ service' = [service EXCEPT ![s] = "serve"]
  /\ UNCHANGED <<proxyVars, flags, main>>

\* Fault: it is only logged.
OnlyLogged == process

\* log.Fatalf
Exited == "exited"

\* The address cannot be bound, here or for a proxy server, or a proxy server
\* has ended.
ServiceFails(s) ==
  /\ process = "up"
  /\ service[s] = "listen"
  /\ service' = [service EXCEPT ![s] = "ended"]
  /\ process' = Exited
  /\ UNCHANGED <<restVars, dns, flags, main>>

ServerEnds(g) ==
  /\ L!Step(g, "returned", "off")
  /\ process' = Exited
  /\ UNCHANGED <<bound, ln, rt, dns, locked, conn, dialer, resolved, mainVars>>

-----------------------------------------------------------------------------
Proceed ==
  \/ OpenDatabase \/ Fail \/ SetCustomDNS \/ Return
  \/ \E s \in Services : StartService(s)
  \/ \E g \in L!Servers : StartServer(g)

Serving(s) == ListenAndServe(s) \/ ServiceFails(s)
Running(g) == (L!Run(g) /\ UNCHANGED mainVars) \/ ServerEnds(g)

Next ==
  \/ Proceed \/ OpenBrowser
  \/ \E s \in Services : Serving(s)
  \/ \E g \in L!Servers : Running(g)
  \/ L!Serve /\ UNCHANGED mainVars

\* The goroutines of main run; listening succeeds or fails.
Scheduling ==
  /\ WF_vars(Proceed)
  /\ \A s \in Services : WF_vars(Serving(s))
  /\ \A g \in L!Servers : WF_vars(Running(g))

\* Of the environment: the program that is to open the UI comes to its end.
BrowserEnds == WF_vars(OpenBrowser)

Spec     == Init /\ [][Next]_vars
FairSpec == Spec /\ Scheduling /\ BrowserEnds

-----------------------------------------------------------------------------
(* Properties                                                              *)

\* Every variable holds values of its kind, and only what the flags ask for runs.
TypeOK ==
  /\ L!TypeOK
  /\ main \in {"database", "dns", "api", "ui", "browser", "http", "https", "wait",
               "returned", "failed"}
  /\ service \in [Services -> {"off", "listen", "serve", "ended"}]
  /\ \A s \in Services : service[s] # "off" => s \in AskedServices
  /\ bound \subseteq AskedServers

\* No request that came through a listener is refused for want of a transport,
\* whichever of the two servers is first and wherever the other one is.
TransportBeforeRequests == \A r \in Requests : conn[r] # "refused"

\* One server alone does not suffer from what two do to the fields they share:
\* no connection unlocks another mutex than the one it locked, which would end
\* the process, and -dns holds for the HTTP server: the custom server is asked
\* about every destination before the system may be.
OneServerAlone ==
  AskedServers # L!Servers =>
    /\ process # "fatal"
    /\ "dns" \in flags /\ AskedServers = {"http"} =>
         \A r \in Requests : resolved[r] # "system"

\* Hyperfox never goes on with a part of what it was asked for.  In the end every
\* server of the flags accepts, or the process is over: because one could not be
\* started or was stopped, or because there was no proxy server to wait for.  An
\* API and a UI that compete for one port are such a case.  The proxy servers
\* start only when the program that opens the UI has ended: BrowserEnds.
AllOrNone ==
  <>[] \/ /\ process = "up"
          /\ \A g \in AskedServers : pc[g] = "serve" /\ g \in bound
          /\ \A s \in AskedServices : service[s] = "serve"
       \/ process \in {"exited", "fatal"}
       \/ process = "returned" /\ AskedServers = {}

\* README.md 182-190: "In addition to -http and -https use the -dns parameter",
\* which "will make Hyperfox skip the OS DNS resolver"; proxy.go 338: it "bypasses
\* the OS settings".  (StartTLS puts a transport without dialContext in p.rt, for
\* the requests of both servers.)
CustomDNSIsAsked ==
  "dns" \in flags => \A r \in Requests : resolved[r] # "system"
=============================================================================
