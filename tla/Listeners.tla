----------------------------- MODULE Listeners -----------------------------
(***************************************************************************)
(* proxy.go 132-138, 310-423: the HTTP and the HTTPS server of one Proxy,  *)
(* each in a goroutine; both write the fields srv, rt and ln of that       *)
(* Proxy, without a lock, while requests are served with them.  Who starts *)
(* them, and what becomes of the process when one ends, is in Startup.     *)
(*                                                                         *)
(* net/http is external: its Server has a mutex inside the struct p.srv,   *)
(* taken whenever a connection changes state; assigning p.srv puts a fresh *)
(* one in its place, and unlocking a mutex that is not locked is fatal.    *)
(***************************************************************************)
EXTENDS FiniteSets

CONSTANTS
  Requests,  \* the proxied requests, one connection each
  None       \* no server, no transport

Servers == {"http", "https"}

VARIABLES
  pc,       \* pc[g]: where Start ("http") or StartTLS ("https") is
  bound,    \* the servers whose listener is open
  ln,       \* p.ln: the server whose listener Stop closes, or None
  rt,       \* p.rt: the "dialContext" transport, the "plain" one, or None
  dns,      \* p.dnsServer is set
  locked,   \* the mutex of p.srv is locked
  process,  \* "up", "exited" by log.Fatal, "returned" from main, or ended by a
            \* "fatal" error of the Go runtime
  conn,     \* conn[r]: where the request is
  dialer,   \* dialer[r]: the transport that ServeHTTP read from p.rt
  resolved  \* resolved[r]: who resolved the host of the request: the "custom"
            \* server, the "system", or the system as a "fallback"

serverVars == <<pc, bound, ln, rt, dns>>
connVars   == <<conn, dialer, resolved>>
vars       == <<serverVars, locked, process, connVars>>

Init ==
  /\ pc       = [g \in Servers |-> "off"]
  /\ bound    = {}
  /\ ln       = None
  /\ rt       = None
  /\ dns      = FALSE
  /\ locked   = FALSE
  /\ process  = "up"
  /\ conn     = [r \in Requests |-> "none"]
  /\ dialer   = [r \in Requests |-> None]
  /\ resolved = [r \in Requests |-> None]

-----------------------------------------------------------------------------
(* Start and StartTLS, one field after the other                           *)

\* The goroutine of g goes from one statement to the next.
Step(g, from, to) ==
  /\ process = "up"
  /\ pc[g] = from
  /\ pc' = [pc EXCEPT ![g] = to]

\* Start or StartTLS is called.
Spawn(g) ==
  /\ Step(g, "off", IF g = "http" THEN "srv" ELSE "listen")
  /\ UNCHANGED <<bound, ln, rt, dns, locked, process, connVars>>

\* p.srv = http.Server{...}
SetServer(g) ==
  /\ Step(g, "srv", IF g = "http" THEN "rt" ELSE "ln")
  /\ locked' = FALSE
  /\ UNCHANGED <<bound, ln, rt, dns, process, connVars>>

\* Fault: no dialContext.  Fault: Start leaves p.rt to StartTLS.
TransportPlain(g) == "plain"
TransportLate(g)  == IF g = "http" THEN rt ELSE "plain"

\* Start: &http.Transport{DialContext: p.dialContext}; StartTLS: a plain one.
TransportOf(g) == IF g = "http" THEN "dialContext" ELSE "plain"

SetTransport(g) ==
  /\ Step(g, "rt", IF g = "http" THEN "listen" ELSE "serve")
  /\ rt' = TransportOf(g)
  /\ UNCHANGED <<bound, ln, dns, locked, process, connVars>>

Listen(g) ==
  /\ Step(g, "listen", IF g = "http" THEN "ln" ELSE "srv")
  /\ bound' = bound \cup {g}
  /\ UNCHANGED <<ln, rt, dns, locked, process, connVars>>

\* The port cannot be bound: Start or StartTLS returns the error.
ListenFails(g) ==
  /\ Step(g, "listen", "returned")
  /\ UNCHANGED <<bound, ln, rt, dns, locked, process, connVars>>

SetListener(g) ==
  /\ Step(g, "ln", IF g = "http" THEN "serve" ELSE "rt")
  /\ ln' = g
  /\ UNCHANGED <<bound, rt, dns, locked, process, connVars>>

\* p.srv.Serve returns once its listener is closed.
ServeReturns(g) ==
  /\ g \notin bound
  /\ Step(g, "serve", "returned")
  /\ UNCHANGED <<bound, ln, rt, dns, locked, process, connVars>>

\* Stop, called by whoever embeds the proxy: it closes the last listener that
\* was published, if there is one.
Stop ==
  /\ process = "up"
  /\ ln # None
  /\ bound' = bound \ {ln}
  /\ UNCHANGED <<pc, ln, rt, dns, locked, process, connVars>>

-----------------------------------------------------------------------------
(* A request                                                               *)

\* A connection is accepted; its state is noted under the mutex of p.srv.
Accept(r) ==
  /\ process = "up"
  /\ conn[r] = "none"
  /\ \E g \in bound : pc[g] = "serve"
  /\ ~locked
  /\ locked' = TRUE
  /\ conn' = [conn EXCEPT ![r] = "tracking"]
  /\ UNCHANGED <<serverVars, process, dialer, resolved>>

\* The mutex is unlocked; when p.srv was assigned in between, that is fatal.
Tracked(r) ==
  /\ process = "up"
  /\ conn[r] = "tracking"
  /\ locked' = FALSE
  /\ process' = IF locked THEN "up" ELSE "fatal"
  /\ conn' = [conn EXCEPT ![r] = "serving"]
  /\ UNCHANGED <<serverVars, dialer, resolved>>

\* ServeHTTP reads p.rt.
ReadTransport(r) ==
  /\ process = "up"
  /\ conn[r] = "serving"
  /\ dialer' = [dialer EXCEPT ![r] = rt]
  /\ conn' = [conn EXCEPT ![r] = IF rt = None THEN "refused" ELSE "dialing"]
  /\ UNCHANGED <<serverVars, locked, process, resolved>>

\* dialContext asks the custom server for an A record, and dials the name itself
\* when the answer has none; otherwise the system resolves the name.
Dial(r, answer) ==
  /\ process = "up"
  /\ conn[r] = "dialing"
  /\ resolved' = [resolved EXCEPT ![r] =
       IF dialer[r] = "dialContext" /\ dns THEN answer ELSE "system"]
  /\ conn' = [conn EXCEPT ![r] = "connected"]
  /\ UNCHANGED <<serverVars, locked, process, dialer>>

\* The custom server cannot be asked: the dial fails, the system is not asked.
DialFails(r) ==
  /\ process = "up"
  /\ conn[r] = "dialing"
  /\ dialer[r] = "dialContext" /\ dns
  /\ conn' = [conn EXCEPT ![r] = "failed"]
  /\ UNCHANGED <<serverVars, locked, process, dialer, resolved>>

-----------------------------------------------------------------------------
\* What the goroutine of a server does, and what happens to it and in it.
Run(g) ==
  \/ SetServer(g) \/ SetTransport(g) \/ Listen(g) \/ ListenFails(g)
  \/ SetListener(g) \/ ServeReturns(g)

Serve ==
  \/ Stop
  \/ \E r \in Requests :
       \/ Accept(r) \/ Tracked(r) \/ ReadTransport(r) \/ DialFails(r)
       \/ \E answer \in {"custom", "fallback"} : Dial(r, answer)

-----------------------------------------------------------------------------
\* Every variable holds values of its kind, and a server accepts only after it
\* has a listener and the fields of the Proxy are set.
TypeOK ==
  /\ pc \in [Servers -> {"off", "srv", "rt", "listen", "ln", "serve", "returned"}]
  /\ bound \subseteq Servers
  /\ ln \in Servers \cup {None}
  /\ rt \in {None, "dialContext", "plain"}
  /\ dns \in BOOLEAN /\ locked \in BOOLEAN
  /\ process \in {"up", "exited", "returned", "fatal"}
  /\ conn \in [Requests -> {"none", "tracking", "serving", "dialing",
                            "connected", "refused", "failed"}]
  /\ dialer \in [Requests -> {None, "dialContext", "plain"}]
  /\ resolved \in [Requests -> {None, "custom", "fallback", "system"}]
  /\ \A g \in Servers : pc[g] = "serve" => rt # None /\ ln # None
=============================================================================
