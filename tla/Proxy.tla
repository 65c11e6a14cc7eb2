-------------------------------- MODULE Proxy --------------------------------
(***************************************************************************)
(* handle_proxy_request, one task per public HTTP request, over the live    *)
(* control plane: the request looks its subdomain up in the Registry, keeps *)
(* the ClientEntry it found across several awaits, and relays through that  *)
(* entry's yamux driver while sessions come and go.                         *)
(*                                                                          *)
(* The rate limiter's verdict is an input here (RateLimiter.tla); so is     *)
(* what the tunnel client makes of a stream.                                *)
(***************************************************************************)
EXTENDS ControlPlane, FiniteSets

CONSTANT Requests   \* public requests, each handled once

ASSUME RequestsFinite == IsFiniteSet(Requests)

VARIABLES
    rpc,        \* rpc[r]: where handle_proxy_request of r is
    target,     \* target[r]: client_id from the Host header, NoId without one
    entry,      \* entry[r]: the connection of the ClientEntry r holds
    status,     \* status[r]: status class of the response
    activeConnections, activeStreams,    \* gauges: Metrics, ClientMetrics
    totalRequests, rateLimited, requests \* counters: Metrics, ClientMetrics

requestVars == <<rpc, target, entry, status>>
gaugeVars   == <<activeConnections, activeStreams>>
counterVars == <<totalRequests, rateLimited, requests>>
proxyVars   == <<requestVars, gaugeVars, counterVars>>
vars        == <<controlVars, proxyVars>>

(* Places between the two updates of the gauges.  In each the task awaits   *)
(* the tunnel: open_stream, the marker write and HTTP handshake,            *)
(* send_request.                                                            *)
InFlight == {"opening", "preparing", "responding"}

ProxyTypeOK ==
    /\ rpc \in [Requests -> {"new", "lookup", "counting", "answered", "dropped"}
                              \cup InFlight]
    /\ target \in [Requests -> ClientIds \cup {NoId}]
    /\ entry \in [Requests -> Conns \cup {NoConn}]
    /\ status \in [Requests -> {"none", "ok", "404", "429", "500", "502", "503"}]
    /\ activeConnections \in Nat
    /\ activeStreams \in [Conns -> Nat]
    /\ totalRequests \in Nat
    /\ rateLimited \in Nat
    /\ requests \in [Conns -> Nat]

ProxyInit ==
    /\ ControlInit
    /\ rpc = [r \in Requests |-> "new"]
    /\ target = [r \in Requests |-> NoId]
    /\ entry = [r \in Requests |-> NoConn]
    /\ status = [r \in Requests |-> "none"]
    /\ activeConnections = 0
    /\ activeStreams = [c \in Conns |-> 0]
    /\ totalRequests = 0
    /\ rateLimited = 0
    /\ requests = [c \in Conns |-> 0]

-----------------------------------------------------------------------------
Answer(r, s) ==
    /\ rpc' = [rpc EXCEPT ![r] = "answered"]
    /\ status' = [status EXCEPT ![r] = s]

MoveTo(r, place) ==
    /\ rpc' = [rpc EXCEPT ![r] = place]
    /\ UNCHANGED status

(* An error path decrements before and after it logs.                       *)
MutReleaseTwice(c) ==
    /\ activeStreams' = [activeStreams EXCEPT ![c] = @ - 2]
    /\ activeConnections' = activeConnections - 2

Release(c) ==
    /\ activeStreams' = [activeStreams EXCEPT ![c] = @ - 1]
    /\ activeConnections' = activeConnections - 1

(* A Host header under the domain names a client id; the limiter lets the   *)
(* request pass.                                                            *)
ArriveRouted(r, i) ==
    /\ rpc[r] = "new"
    /\ totalRequests' = totalRequests + 1
    /\ target' = [target EXCEPT ![r] = i]
    /\ MoveTo(r, "lookup")
    /\ UNCHANGED <<entry, gaugeVars, rateLimited, requests>>

(* The limiter comes before the lookup: a name nobody serves is limited too. *)
ArriveLimited(r, i) ==
    /\ rpc[r] = "new"
    /\ totalRequests' = totalRequests + 1
    /\ rateLimited' = rateLimited + 1
    /\ target' = [target EXCEPT ![r] = i]
    /\ Answer(r, "429")
    /\ UNCHANGED <<entry, gaugeVars, requests>>

(* Any other Host header: a hint, whose status depends on the registry.     *)
ArriveUnrouted(r) ==
    /\ rpc[r] = "new"
    /\ totalRequests' = totalRequests + 1
    /\ Answer(r, IF \A i \in ClientIds : clients[i] = NoConn THEN "503" ELSE "404")
    /\ UNCHANGED <<target, entry, gaugeVars, rateLimited, requests>>

(* The lookup takes any connected client.                                   *)
MutLookupAnyClient(r) ==
    /\ rpc[r] = "lookup"
    /\ \E i \in ClientIds :
          /\ clients[i] # NoConn
          /\ entry' = [entry EXCEPT ![r] = clients[i]]
    /\ MoveTo(r, "counting")
    /\ UNCHANGED <<target, gaugeVars, counterVars>>

Lookup(r) ==
    /\ rpc[r] = "lookup"
    /\ clients[target[r]] # NoConn
    /\ entry' = [entry EXCEPT ![r] = clients[target[r]]]
    /\ MoveTo(r, "counting")
    /\ UNCHANGED <<target, gaugeVars, counterVars>>

LookupFails(r) ==
    /\ rpc[r] = "lookup"
    /\ clients[target[r]] = NoConn
    /\ Answer(r, "502")
    /\ UNCHANGED <<target, entry, gaugeVars, counterVars>>

(* By now the session of the entry may already be unregistered.             *)
Count(r) ==
    /\ rpc[r] = "counting"
    /\ requests' = [requests EXCEPT ![entry[r]] = @ + 1]
    /\ activeStreams' = [activeStreams EXCEPT ![entry[r]] = @ + 1]
    /\ activeConnections' = activeConnections + 1
    /\ MoveTo(r, "opening")
    /\ UNCHANGED <<target, entry, totalRequests, rateLimited>>

(* open_stream: the driver answers with a stream.                           *)
OpenStream(r) ==
    /\ rpc[r] = "opening"
    /\ driver[entry[r]] = "running"
    /\ MoveTo(r, "preparing")
    /\ UNCHANGED <<target, entry, gaugeVars, counterVars>>

(* Marker byte written, HTTP/1.1 handshake done, forwarded request built.   *)
Prepare(r) ==
    /\ rpc[r] = "preparing"
    /\ driver[entry[r]] = "running"
    /\ MoveTo(r, "responding")
    /\ UNCHANGED <<target, entry, gaugeVars, counterVars>>

(* A request target with no path (CONNECT) does not parse back into a URI.  *)
BuildFails(r) ==
    /\ rpc[r] = "preparing"
    /\ driver[entry[r]] = "running"
    /\ Answer(r, "500")
    /\ Release(entry[r])
    /\ UNCHANGED <<target, entry, counterVars>>

(* send_request returns the head of the tunnelled response.                 *)
Respond(r) ==
    /\ rpc[r] = "responding"
    /\ Answer(r, "ok")
    /\ Release(entry[r])
    /\ UNCHANGED <<target, entry, counterVars>>

MutFailLeavesGauge(r) ==
    /\ rpc[r] \in InFlight
    /\ Answer(r, "502")
    /\ UNCHANGED <<target, entry, gaugeVars, counterVars>>

(* Nothing tells a waiting request that the driver is over.                 *)
MutDeadDriverUnnoticed(r) ==
    /\ rpc[r] \in InFlight
    /\ driver[entry[r]] = "running"
    /\ Answer(r, "502")
    /\ Release(entry[r])
    /\ UNCHANGED <<target, entry, counterVars>>

(* open_stream, the marker, the handshake or send_request fails: the driver *)
(* is gone, dropped the command, or the stream broke.  A stalled driver     *)
(* does not answer the commands in its channel.                             *)
TunnelFails(r) ==
    /\ rpc[r] \in InFlight
    /\ rpc[r] = "opening" => driver[entry[r]] # "stalled"
    /\ Answer(r, "502")
    /\ Release(entry[r])
    /\ UNCHANGED <<target, entry, counterVars>>

(* The public client closes its connection: hyper drops the future at the   *)
(* await it is suspended in, and the code after it never runs.              *)
HangUp(r) ==
    /\ rpc[r] \in InFlight
    /\ MoveTo(r, "dropped")
    /\ UNCHANGED <<target, entry, gaugeVars, counterVars>>

-----------------------------------------------------------------------------
handle_proxy_request(r) ==
    \/ ArriveUnrouted(r)
    \/ \E i \in ClientIds : ArriveRouted(r, i)
    \/ \E i \in ClientIds : ArriveLimited(r, i)
    \/ Lookup(r)
    \/ LookupFails(r)
    \/ Count(r)
    \/ OpenStream(r)
    \/ Prepare(r)
    \/ BuildFails(r)
    \/ Respond(r)
    \/ TunnelFails(r)
    \/ HangUp(r)

ProxyNext ==
    \/ ControlNext /\ UNCHANGED proxyVars
    \/ \E r \in Requests : handle_proxy_request(r) /\ UNCHANGED controlVars

(* Steps of the task between awaits, and the error a dead driver causes.    *)
(* Nothing is assumed of the tunnel client: send_request has no timeout.    *)
TaskRuns(r) ==
    /\ Lookup(r) \/ LookupFails(r) \/ Count(r)
    /\ UNCHANGED controlVars

DeadDriverNoticed(r) ==
    /\ TunnelFails(r) /\ driver[entry[r]] = "ended"
    /\ UNCHANGED controlVars

ProxyFairness ==
    /\ \A c \in Conns : /\ WF_vars(handler_steps(c) /\ UNCHANGED proxyVars)
                        /\ WF_vars(DriverSeesLoss(c) /\ UNCHANGED proxyVars)
    /\ \A r \in Requests : WF_vars(TaskRuns(r)) /\ WF_vars(DeadDriverNoticed(r))

ProxySpec == ProxyInit /\ [][ProxyNext]_vars /\ ProxyFairness

-----------------------------------------------------------------------------
(* Properties.                                                              *)

LiveRequests == {r \in Requests : rpc[r] \in InFlight}

LiveOn(c) == {r \in LiveRequests : entry[r] = c}

HungUp == {r \in Requests : rpc[r] = "dropped"}

(* As long as no public client hung up on a tunnel, its gauge is the number *)
(* of requests in flight there, and the server's gauge their total: of the  *)
(* answers that leave handle_proxy_request, the early returns included,     *)
(* none decrements twice or not at all, even for an entry whose session was *)
(* unregistered in the meantime.                                            *)
GaugesExact ==
    /\ HungUp = {} => activeConnections = Cardinality(LiveRequests)
    /\ \A c \in Conns :
          (\A r \in HungUp : entry[r] # c) => activeStreams[c] = Cardinality(LiveOn(c))

(* The gauge the dashboard shows as active connections is the number of     *)
(* requests being relayed (README.md, "Live metrics").  It is not: a        *)
(* hang-up leaves its increment behind.                                     *)
ActiveConnectionsLive == activeConnections = Cardinality(LiveRequests)

(* A request only travels over a connection that was admitted under the     *)
(* subdomain it asked for, even when that client left and another came back *)
(* under the same id between the lookup and the relay.                      *)
RightTunnel ==
    \A r \in Requests : entry[r] # NoConn =>
        LET c == entry[r] IN
            /\ claimed[c] = target[r]
            /\ validate_token(token[c])
            /\ claimed[c] \notin Reserved

(* A request over a connection whose client is lost is settled: the driver  *)
(* notices, and every await in the request turns into an error; unless the  *)
(* driver waits in poll_new_outbound, when open_stream never returns.       *)
LostTunnelSettlesRequestsUnlessStalled ==
    \A r \in Requests :
        (rpc[r] \in InFlight /\ peer[entry[r]] = "gone")
            ~> (rpc[r] \notin InFlight \/ driver[entry[r]] = "stalled")
=============================================================================
