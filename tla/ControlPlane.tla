----------------------------- MODULE ControlPlane -----------------------------
(***************************************************************************)
(* The server's control channel: accept_clients, one handle_client task per *)
(* connection, the yamux driver task each of them spawns, and the Registry  *)
(* (a concurrent map) they share.  The runtime is multi-threaded, so every  *)
(* task may be preempted between two accesses to shared state.              *)
(*                                                                          *)
(* Here a driver is only "running", "aborting" (JoinHandle::abort called,   *)
(* not in effect yet), "stalled" (waiting in poll_new_outbound for good) or *)
(* "ended"; its select loop is YamuxDriver.tla.                             *)
(***************************************************************************)
EXTENDS Naturals

CONSTANTS
    Conns,      \* TCP connections that clients may open, each used once
    ClientIds,  \* client ids a client may claim
    Reserved,   \* RESERVED_SUBDOMAINS
    Presented,  \* tokens clients present
    Tokens,     \* tokens of the configuration; {} accepts every token
    NoConn, NoId, NoToken

ASSUME ConstantsAssumption ==
    /\ Reserved \subseteq ClientIds
    /\ NoConn \notin Conns
    /\ NoId \notin ClientIds
    /\ NoToken \notin Presented

VARIABLES
    pc,         \* pc[c]: where the handle_client task of c is
    claimed,    \* claimed[c]: auth.client_id, once read
    token,      \* token[c]: auth.token, once read
    reply,      \* reply[c]: the AuthRes written to c
    driver,     \* driver[c]: the yamux driver task of c
    peer,       \* peer[c]: "gone" once the client's end is closed or lost
    clients,    \* Registry.clients: the connection behind each id
    totalConnections, failedAuth   \* Metrics

sessionVars == <<pc, claimed, token, reply, driver, peer>>
metricVars  == <<totalConnections, failedAuth>>
controlVars == <<sessionVars, clients, metricVars>>

(* Places of handle_client: "idle" before the accept; "reading" the AuthReq *)
(* under the 10 s timeout; "refusing" and "granting" an AuthRes is being    *)
(* written; "registering" the driver is spawned, register not called yet;   *)
(* "serving" awaits the driver; "leaving" the driver is over, unregister    *)
(* not called yet; "closed" the task returned.                              *)
Places == {"idle", "reading", "refusing", "granting", "registering",
           "serving", "leaving", "closed"}

TypeOK ==
    /\ pc \in [Conns -> Places]
    /\ claimed \in [Conns -> ClientIds \cup {NoId}]
    /\ token \in [Conns -> Presented \cup {NoToken}]
    /\ reply \in [Conns -> {"none", "failure", "success"}]
    /\ driver \in [Conns -> {"none", "running", "aborting", "stalled", "ended"}]
    /\ peer \in [Conns -> {"open", "gone"}]
    /\ clients \in [ClientIds -> Conns \cup {NoConn}]
    /\ totalConnections \in Nat
    /\ failedAuth \in Nat

ControlInit ==
    /\ pc = [c \in Conns |-> "idle"]
    /\ claimed = [c \in Conns |-> NoId]
    /\ token = [c \in Conns |-> NoToken]
    /\ reply = [c \in Conns |-> "none"]
    /\ driver = [c \in Conns |-> "none"]
    /\ peer = [c \in Conns |-> "open"]
    /\ clients = [i \in ClientIds |-> NoConn]
    /\ totalConnections = 0
    /\ failedAuth = 0

-----------------------------------------------------------------------------
(* Accept and authentication.                                               *)

Accept(c) ==
    /\ pc[c] = "idle"
    /\ pc' = [pc EXCEPT ![c] = "reading"]
    /\ totalConnections' = totalConnections + 1
    /\ UNCHANGED <<claimed, token, reply, driver, peer, clients, failedAuth>>

validate_token(t) == Tokens = {} \/ t \in Tokens

MutAcceptEveryToken(c, i, t) ==
    /\ pc[c] = "reading"
    /\ claimed' = [claimed EXCEPT ![c] = i]
    /\ token' = [token EXCEPT ![c] = t]
    /\ pc' = [pc EXCEPT ![c] = "granting"]
    /\ UNCHANGED <<reply, driver, peer, clients, metricVars>>

ReadAuthReq(c, i, t) ==
    /\ pc[c] = "reading"
    /\ claimed' = [claimed EXCEPT ![c] = i]
    /\ token' = [token EXCEPT ![c] = t]
    /\ pc' = [pc EXCEPT ![c] = IF validate_token(t) THEN "granting" ELSE "refusing"]
    /\ UNCHANGED <<reply, driver, peer, clients, metricVars>>

(* The 10 s timeout, a read error, or a message that is not an AuthReq.     *)
AuthAbandoned(c) ==
    /\ pc[c] = "reading"
    /\ pc' = [pc EXCEPT ![c] = "closed"]
    /\ UNCHANGED <<claimed, token, reply, driver, peer, clients, metricVars>>

(* write_message(..).await? of either AuthRes fails: the task returns, and  *)
(* a refusal that cannot be written is not counted in failed_auth.          *)
WriteReplyFails(c) ==
    /\ pc[c] \in {"refusing", "granting"}
    /\ peer[c] = "gone"
    /\ pc' = [pc EXCEPT ![c] = "closed"]
    /\ UNCHANGED <<claimed, token, reply, driver, peer, clients, metricVars>>

WriteRefusal(c) ==
    /\ pc[c] = "refusing"
    /\ reply' = [reply EXCEPT ![c] = "failure"]
    /\ failedAuth' = failedAuth + 1
    /\ pc' = [pc EXCEPT ![c] = "closed"]
    /\ UNCHANGED <<claimed, token, driver, peer, clients, totalConnections>>

(* AuthRes success goes out, and the driver is spawned, before the id is    *)
(* known to be free.                                                        *)
WriteGrant(c) ==
    /\ pc[c] = "granting"
    /\ reply' = [reply EXCEPT ![c] = "success"]
    /\ driver' = [driver EXCEPT ![c] = "running"]
    /\ pc' = [pc EXCEPT ![c] = "registering"]
    /\ UNCHANGED <<claimed, token, peer, clients, metricVars>>

-----------------------------------------------------------------------------
(* Registration, service, end of the session.                               *)

Registrable(i) == i \notin Reserved /\ clients[i] = NoConn

(* insert in place of entry: an occupied name is taken over.                *)
MutInsertAlways(c) ==
    /\ pc[c] = "registering"
    /\ claimed[c] \notin Reserved
    /\ clients' = [clients EXCEPT ![claimed[c]] = c]
    /\ pc' = [pc EXCEPT ![c] = "serving"]
    /\ UNCHANGED <<claimed, token, reply, driver, peer, metricVars>>

Register(c) ==
    /\ pc[c] = "registering"
    /\ Registrable(claimed[c])
    /\ clients' = [clients EXCEPT ![claimed[c]] = c]
    /\ pc' = [pc EXCEPT ![c] = "serving"]
    /\ UNCHANGED <<claimed, token, reply, driver, peer, metricVars>>

(* The early return after a rejected registration is lost: the task goes on *)
(* to await its driver and then unregisters an id it never held.            *)
MutRejectedFallsThrough(c) ==
    /\ pc[c] = "registering"
    /\ ~ Registrable(claimed[c])
    /\ pc' = [pc EXCEPT ![c] = "serving"]
    /\ UNCHANGED <<claimed, token, reply, driver, peer, clients, metricVars>>

(* register fails: abort the driver and return.  abort() only takes effect  *)
(* once the driver yields; on a finished task it does nothing.              *)
RegisterRejected(c) ==
    /\ pc[c] = "registering"
    /\ ~ Registrable(claimed[c])
    /\ driver' = [driver EXCEPT ![c] = IF @ = "running" THEN "aborting" ELSE @]
    /\ pc' = [pc EXCEPT ![c] = "closed"]
    /\ UNCHANGED <<claimed, token, reply, peer, clients, metricVars>>

(* The handler does not wait for the driver to finish.                      *)
MutDriverNotAwaited(c) ==
    /\ pc[c] = "serving"
    /\ pc' = [pc EXCEPT ![c] = "leaving"]
    /\ UNCHANGED <<claimed, token, reply, driver, peer, clients, metricVars>>

DriverJoined(c) ==
    /\ pc[c] = "serving"
    /\ driver[c] = "ended"
    /\ pc' = [pc EXCEPT ![c] = "leaving"]
    /\ UNCHANGED <<claimed, token, reply, driver, peer, clients, metricVars>>

MutNeverUnregistered(c) ==
    /\ pc[c] = "leaving"
    /\ pc' = [pc EXCEPT ![c] = "closed"]
    /\ UNCHANGED <<claimed, token, reply, driver, peer, clients, metricVars>>

(* unregister removes whatever entry has this client id.                    *)
Unregister(c) ==
    /\ pc[c] = "leaving"
    /\ clients' = [clients EXCEPT ![claimed[c]] = NoConn]
    /\ pc' = [pc EXCEPT ![c] = "closed"]
    /\ UNCHANGED <<claimed, token, reply, driver, peer, metricVars>>

-----------------------------------------------------------------------------
(* The driver task, as its handler and the client see it.                   *)

DriverEnds(c) ==
    /\ driver' = [driver EXCEPT ![c] = "ended"]
    /\ UNCHANGED <<pc, claimed, token, reply, peer, clients, metricVars>>

MutLossNotNoticed(c) ==
    /\ driver[c] = "aborting"
    /\ peer[c] = "gone"
    /\ DriverEnds(c)

(* The driver takes an OpenStream and waits in poll_new_outbound, the       *)
(* client acknowledging none of its streams.  Only the connection's own     *)
(* polling could free a place, which the driver does not come back to: the  *)
(* await has no timeout, and nothing but an abort would end the task.       *)
(* Commands reach a driver only once its handle is in the registry.         *)
DriverStalls(c) ==
    /\ driver[c] = "running"
    /\ pc[c] = "serving"
    /\ driver' = [driver EXCEPT ![c] = "stalled"]
    /\ UNCHANGED <<pc, claimed, token, reply, peer, clients, metricVars>>

(* poll_next_inbound returns an error or None.                              *)
DriverSeesLoss(c) ==
    /\ driver[c] \in {"running", "aborting"}
    /\ peer[c] = "gone"
    /\ DriverEnds(c)

(* A yamux protocol error, or five missed heartbeats, with the client there. *)
DriverGivesUp(c) ==
    /\ driver[c] \in {"running", "aborting"}
    /\ peer[c] = "open"
    /\ DriverEnds(c)

DriverAborted(c) ==
    /\ driver[c] = "aborting"
    /\ DriverEnds(c)

(* Every YamuxHandle is dropped and cmd_rx yields None.  The handler and    *)
(* the registry hold one each until the handler has returned, so this only  *)
(* happens to a driver that is being aborted.                               *)
DriverOutOfHandles(c) ==
    /\ driver[c] \in {"running", "aborting"}
    /\ pc[c] = "closed"
    /\ DriverEnds(c)

(* The client closes the connection, crashes, or the network drops it.      *)
ClientVanishes(c) ==
    /\ pc[c] # "idle"
    /\ peer[c] = "open"
    /\ peer' = [peer EXCEPT ![c] = "gone"]
    /\ UNCHANGED <<pc, claimed, token, reply, driver, clients, metricVars>>

-----------------------------------------------------------------------------
(* The steps of the task that need nothing more from the client.            *)
handler_steps(c) ==
    \/ AuthAbandoned(c)
    \/ WriteReplyFails(c)
    \/ WriteRefusal(c)
    \/ WriteGrant(c)
    \/ Register(c)
    \/ RegisterRejected(c)
    \/ DriverJoined(c)
    \/ Unregister(c)

handle_client(c) ==
    \/ \E i \in ClientIds, t \in Presented : ReadAuthReq(c, i, t)
    \/ handler_steps(c)

yamux_driver(c) ==
    \/ DriverStalls(c)
    \/ DriverSeesLoss(c)
    \/ DriverGivesUp(c)
    \/ DriverAborted(c)
    \/ DriverOutOfHandles(c)

ControlNext ==
    \E c \in Conns :
        Accept(c) \/ handle_client(c) \/ yamux_driver(c) \/ ClientVanishes(c)

(* Nothing is left to do once every connection is lost, and over unless its *)
(* driver stalled.                                                          *)
SessionOver(c) ==
    /\ peer[c] = "gone"
    /\ \/ pc[c] = "closed" /\ driver[c] \in {"none", "ended"}
       \/ driver[c] = "stalled"

ControlDone ==
    /\ \A c \in Conns : SessionOver(c)
    /\ UNCHANGED controlVars

(* The runtime schedules every ready task (a timeout makes "reading" ready, *)
(* a socket write ends); a lost connection reaches a driver that polls it   *)
(* through TCP (keepalive, see configure_tcp_keepalive), and never one that *)
(* is stalled.  Clients promise nothing.                                    *)
ControlFairness ==
    \A c \in Conns : /\ WF_controlVars(handler_steps(c))
                     /\ WF_controlVars(DriverSeesLoss(c))
                     /\ WF_controlVars(DriverAborted(c))

ControlSpec ==
    ControlInit /\ [][ControlNext]_controlVars /\ ControlFairness

-----------------------------------------------------------------------------
(* Properties.                                                              *)

Holding(c) == pc[c] \in {"serving", "leaving"}

(* The registry routes an id to exactly the session that is between its     *)
(* successful register and its unregister.  Unregister goes by id, so this  *)
(* is what keeps an old or a rejected session from removing a live one's    *)
(* entry (registry.rs, server.rs handle_client).                            *)
RegistryMatchesSessions ==
    \A i \in ClientIds, c \in Conns :
        clients[i] = c <=> (Holding(c) /\ claimed[c] = i)

(* Whoever is routed presented an accepted token, was told so, and asked    *)
(* for a name that is not the server's own.                                 *)
OnlyAdmittedAreRouted ==
    \A i \in ClientIds : clients[i] # NoConn =>
        LET c == clients[i] IN
            /\ i \notin Reserved
            /\ validate_token(token[c])
            /\ reply[c] = "success"

(* An entry never passes from one connection to another, and disappears     *)
(* only when its own driver is over: no request is refused because another  *)
(* session of the same client came or went.                                 *)
EntryLeavesWithItsDriver ==
    [][\A i \in ClientIds :
          clients[i] # NoConn /\ clients'[i] # clients[i] =>
              /\ clients'[i] = NoConn
              /\ driver[clients[i]] = "ended"]_controlVars

(* The lease each session holds, and the sessions that are over.            *)
leaseOf == [c \in Conns |-> IF Holding(c) THEN claimed[c] ELSE NoId]
overConns == {c \in Conns : pc[c] = "closed"}

Lease == INSTANCE SubdomainLease WITH lease <- leaseOf, over <- overConns

(* The sessions implement the subdomain lease: one holder per id, one lease *)
(* per connection, although register and unregister only see the map.       *)
ImplementsLease == Lease!Spec

(* The server still holds its end of the connection.                        *)
ServerEndOpen(c) ==
    \/ pc[c] \in {"reading", "refusing", "granting"}
    \/ driver[c] \in {"running", "aborting", "stalled"}

(* A client that was told success, which happens before its id is looked    *)
(* up, is not left believing it for ever: the registry routes to it, or the *)
(* server closes its end.                                                   *)
RoutedOrCutOff ==
    \A c \in Conns :
        (reply[c] = "success")
            ~> ((\E i \in ClientIds : clients[i] = c) \/ ~ ServerEndOpen(c))

(* A session whose client is lost gives its id back, so that the client can *)
(* reconnect under the same id; all but the session of a driver that waits  *)
(* in poll_new_outbound, which keeps the id until the server restarts.      *)
LostClientsFreeTheirIdUnlessStalled ==
    \A c \in Conns, i \in ClientIds :
        (clients[i] = c /\ peer[c] = "gone")
            ~> (clients[i] # c \/ driver[c] = "stalled")
=============================================================================
