----------------------------- MODULE ClientSession -----------------------------
(***************************************************************************)
(* The reconnect loop of the client's tunnels (start_tunnel_internal in     *)
(* tunnel_manager.rs) around one session of client.rs, against a server of  *)
(* which only the outcome is kept: it answers the AuthReq before it looks   *)
(* the name up, closes a connection whose name is taken, and notices late   *)
(* that a client is gone, or never (ControlPlane.tla has its steps).        *)
(*                                                                          *)
(* The tunnels here all claim one name, as clients on several machines do;  *)
(* tunnels of other names do not interfere.                                 *)
(***************************************************************************)
EXTENDS Naturals

CONSTANTS
    Tunnels,        \* the tunnels' tasks
    Ghost,          \* a connection in the registry that has no client
    Nobody,         \* the name is free
    MaxBackoff,     \* max_backoff
    MaxTroubles     \* bound: losses, failed connects, mute servers, restarts

ASSUME SessionAssumption ==
    /\ Ghost \notin Tunnels /\ Nobody \notin Tunnels /\ Ghost # Nobody
    /\ MaxBackoff \in Nat \ {0}
    /\ MaxTroubles \in Nat

VARIABLES
    at,         \* at[t]: where the task of t is
    status,     \* status[t]: the last TunnelStatus it sent
    backoff,    \* backoff[t]: backoff_secs
    link,       \* link[t]: its connection, as the server sees it
    reply,      \* reply[t]: the AuthRes the server has written to it
    hung,       \* tunnels with streams their local service never answers
    valid,      \* tunnels whose token the server accepts
    holder,     \* the connection the registry has for the name
    stalled,    \* the driver of that connection waits in poll_new_outbound
    late,       \* lost connections whose name the server has yet to register
    troubles    \* how much of MaxTroubles is used up

clientVars == <<at, status, backoff>>
serverVars == <<valid, holder, stalled, late>>
vars == <<clientVars, link, reply, hung, serverVars, troubles>>

(* "connecting" is the TCP connect, "authenticating" the TLS handshake and  *)
(* the AuthReq and AuthRes, "connected" the loop over inbound streams,      *)
(* "ended" the end of run_cancellable.                                      *)
TypeOK ==
    /\ at \in [Tunnels -> {"connecting", "authenticating", "connected", "ended",
                           "backing_off", "over"}]
    /\ status \in [Tunnels -> {"Stopped", "Connecting", "Connected", "Error"}]
    /\ backoff \in [Tunnels -> 1 .. MaxBackoff]
    /\ link \in [Tunnels -> {"none", "open", "mute", "granted", "registered", "cut"}]
    /\ reply \in [Tunnels -> {"none", "success", "failure"}]
    /\ hung \subseteq Tunnels
    /\ valid \subseteq Tunnels
    /\ holder \in Tunnels \cup {Ghost, Nobody}
    /\ stalled \in BOOLEAN
    /\ late \in Nat
    /\ troubles \in 0 .. MaxTroubles

Init ==
    /\ at = [t \in Tunnels |-> "connecting"]
    /\ status = [t \in Tunnels |-> "Connecting"]
    /\ backoff = [t \in Tunnels |-> 1]
    /\ link = [t \in Tunnels |-> "none"]
    /\ reply = [t \in Tunnels |-> "none"]
    /\ hung = {}
    /\ valid \in SUBSET Tunnels
    /\ holder = Nobody
    /\ stalled = FALSE
    /\ late = 0
    /\ troubles = 0

-----------------------------------------------------------------------------
Trouble ==
    /\ troubles < MaxTroubles
    /\ troubles' = troubles + 1

(* The server's end of a connection whose other end is gone: an entry stays *)
(* for a while, and a name that was asked for may still be registered.      *)
ServerLeftAlone(t) ==
    /\ holder' = IF holder = t THEN Ghost ELSE holder
    /\ \/ link[t] # "granted" /\ UNCHANGED late
       \/ link[t] \in {"open", "granted"} /\ t \in valid /\ late' = late + 1
    /\ UNCHANGED <<valid, stalled>>

(* The session's future is dropped, and its connection and streams with it. *)
HangsUp(t) ==
    /\ link' = [link EXCEPT ![t] = "none"]
    /\ reply' = [reply EXCEPT ![t] = "none"]
    /\ hung' = hung \ {t}

Becomes(t, place, shown) ==
    /\ at' = [at EXCEPT ![t] = place]
    /\ status' = [status EXCEPT ![t] = shown]

-----------------------------------------------------------------------------
(* The session: run_with_status and run_session_with_status.                *)

Connects(t) ==
    /\ at[t] = "connecting"
    /\ Becomes(t, "authenticating", "Connecting")
    /\ link' = [link EXCEPT ![t] = "open"]
    /\ UNCHANGED <<backoff, reply, hung, serverVars, troubles>>

ConnectFails(t) ==
    /\ at[t] = "connecting"
    /\ Trouble
    /\ Becomes(t, "ended", "Error")
    /\ UNCHANGED <<backoff, link, reply, hung, serverVars>>

Authenticated(t) ==
    /\ at[t] = "authenticating"
    /\ reply[t] = "success"
    /\ Becomes(t, "connected", "Connected")
    /\ UNCHANGED <<backoff, link, reply, hung, serverVars, troubles>>

(* A refusal, or the connection is over before an answer.                   *)
AuthenticationFails(t) ==
    /\ at[t] = "authenticating"
    /\ reply[t] = "failure" \/ (reply[t] = "none" /\ link[t] = "cut")
    /\ Becomes(t, "ended", "Error")
    /\ HangsUp(t)
    /\ UNCHANGED <<backoff, serverVars, troubles>>

(* Mutant: streams are served in the loop, one after the other, and what    *)
(* the local service never answers keeps it from its connection.            *)
MutServedInline(t) ==
    /\ at[t] = "connected"
    /\ link[t] = "cut"
    /\ t \notin hung
    /\ Becomes(t, "ended", "Stopped")
    /\ backoff' = [backoff EXCEPT ![t] = 1]
    /\ HangsUp(t)
    /\ UNCHANGED <<serverVars, troubles>>

(* An error or None from yamux, which the loop notices whatever its streams *)
(* wait for: each has a task of its own.  Either is an Ok of the session,   *)
(* which resets the backoff, also when the server closed at once because    *)
(* the name is taken.                                                       *)
SessionEnds(t) ==
    /\ at[t] = "connected"
    /\ link[t] = "cut"
    /\ Becomes(t, "ended", "Stopped")
    /\ backoff' = [backoff EXCEPT ![t] = 1]
    /\ HangsUp(t)
    /\ UNCHANGED <<serverVars, troubles>>

-----------------------------------------------------------------------------
(* The loop around it, and the calls of the manager.                        *)

(* Mutant: only a session that ended is followed by another attempt.        *)
MutNoRetry(t) ==
    /\ at[t] = "ended" /\ status[t] = "Stopped"
    /\ Becomes(t, "backing_off", "Connecting")
    /\ UNCHANGED <<backoff, link, reply, hung, serverVars, troubles>>

BacksOff(t) ==
    /\ at[t] = "ended"
    /\ Becomes(t, "backing_off", "Connecting")
    /\ UNCHANGED <<backoff, link, reply, hung, serverVars, troubles>>

(* Mutant: the wait is always the same.                                     *)
MutConstantBackoff(t) ==
    /\ at[t] = "backing_off"
    /\ Becomes(t, "connecting", "Connecting")
    /\ UNCHANGED <<backoff, link, reply, hung, serverVars, troubles>>

Wakes(t) ==
    /\ at[t] = "backing_off"
    /\ Becomes(t, "connecting", "Connecting")
    /\ backoff' = [backoff EXCEPT ![t] = IF 2 * @ <= MaxBackoff THEN 2 * @ ELSE MaxBackoff]
    /\ UNCHANGED <<link, reply, hung, serverVars, troubles>>

(* stop_tunnel: cancelled and aborted, at whatever await.  Without a handle *)
(* list_tunnels shows Stopped.                                              *)
Stops(t) ==
    /\ at[t] # "over"
    /\ Becomes(t, "over", "Stopped")
    /\ ServerLeftAlone(t)
    /\ HangsUp(t)
    /\ UNCHANGED <<backoff, troubles>>

(* start_tunnel, or 200 ms after it was stopped restart_tunnel: a new task, *)
(* while the server may still have the old connection.                      *)
Starts(t) ==
    /\ at[t] = "over"
    /\ Trouble
    /\ Becomes(t, "connecting", "Connecting")
    /\ backoff' = [backoff EXCEPT ![t] = 1]
    /\ UNCHANGED <<link, reply, hung, serverVars>>

-----------------------------------------------------------------------------
(* The server and the network.                                              *)

Answers(t) ==
    /\ link[t] = "open"
    /\ reply' = [reply EXCEPT ![t] = IF t \in valid THEN "success" ELSE "failure"]
    /\ link' = [link EXCEPT ![t] = IF t \in valid THEN "granted" ELSE "cut"]
    /\ UNCHANGED <<clientVars, hung, serverVars, troubles>>

Registers(t) ==
    /\ link[t] = "granted"
    /\ holder' = IF holder = Nobody THEN t ELSE holder
    /\ link' = [link EXCEPT ![t] = IF holder = Nobody THEN "registered" ELSE "cut"]
    /\ UNCHANGED <<clientVars, reply, hung, valid, stalled, late, troubles>>

(* The same for a connection whose client is gone.                          *)
RegistersLate ==
    /\ late > 0
    /\ late' = late - 1
    /\ holder' = IF holder = Nobody THEN Ghost ELSE holder
    /\ UNCHANGED <<clientVars, link, reply, hung, valid, stalled, troubles>>

(* The driver notices, ends, and its handler unregisters.                   *)
GhostLeaves ==
    /\ holder = Ghost
    /\ ~ stalled
    /\ holder' = Nobody
    /\ UNCHANGED <<clientVars, link, reply, hung, valid, stalled, late, troubles>>

(* The server closes the connection, dies, or the network loses it, which   *)
(* keepalive tells the client.                                              *)
LinkLost(t) ==
    /\ link[t] \notin {"none", "cut"}
    /\ Trouble
    /\ link' = [link EXCEPT ![t] = "cut"]
    /\ ServerLeftAlone(t)
    /\ UNCHANGED <<clientVars, reply, hung>>

(* It accepts and never answers.                                            *)
GoesMute(t) ==
    /\ link[t] = "open"
    /\ Trouble
    /\ link' = [link EXCEPT ![t] = "mute"]
    /\ UNCHANGED <<clientVars, reply, hung, serverVars>>

(* A request comes through the tunnel, and the local service never answers. *)
ServiceHangs(t) ==
    /\ link[t] = "registered"
    /\ t \notin hung
    /\ hung' = hung \cup {t}
    /\ UNCHANGED <<clientVars, link, reply, serverVars, troubles>>

(* Streams are acknowledged with the first byte that answers them, if there *)
(* is still a client.  When too many are not, the driver that is to open    *)
(* the next one waits for good.                                             *)
DriverStalls ==
    /\ holder \in hung \cup {Ghost}
    /\ ~ stalled
    /\ stalled' = TRUE
    /\ UNCHANGED <<clientVars, link, reply, hung, valid, holder, late, troubles>>

-----------------------------------------------------------------------------
tunnel_task(t) ==
    \/ Connects(t)
    \/ Authenticated(t)
    \/ AuthenticationFails(t)
    \/ SessionEnds(t)
    \/ BacksOff(t)
    \/ Wakes(t)

server(t) == Answers(t) \/ Registers(t)

Next ==
    \/ \E t \in Tunnels :
          \/ tunnel_task(t)
          \/ ConnectFails(t)
          \/ Stops(t)
          \/ Starts(t)
          \/ server(t)
          \/ LinkLost(t)
          \/ GoesMute(t)
          \/ ServiceHangs(t)
    \/ RegistersLate
    \/ GhostLeaves
    \/ DriverStalls

(* Tasks run, sleeps end, and a server that is not mute answers; its driver *)
(* notices a lost connection unless it is stalled (ControlPlane's fairness  *)
(* and its liveness properties).                                            *)
SessionFairness ==
    /\ \A t \in Tunnels : WF_vars(tunnel_task(t)) /\ WF_vars(server(t))
    /\ WF_vars(RegistersLate)
    /\ WF_vars(GhostLeaves)

Spec == Init /\ [][Next]_vars /\ SessionFairness

-----------------------------------------------------------------------------
(* Properties.                                                              *)

(* The web UI says Connected before the server has looked the name up.  It  *)
(* does not stay wrong: the name is routed to the tunnel, or the status is  *)
(* withdrawn, also when a local service never answers what came before the  *)
(* connection was cut (client.rs run_session_with_status, tokio::spawn).    *)
ConnectedComesTrue ==
    \A t \in Tunnels : (status[t] = "Connected") ~> (holder = t \/ status[t] # "Connected")

Trying(t) == t \in valid /\ at[t] # "over" /\ link[t] # "mute"

(* Over lost connections, failed connects, restarts that come before the    *)
(* server has noticed the end of the old connection, and other clients with *)
(* the same name, the name ends up with a tunnel that wants it, as long as  *)
(* the server is not mute (AuthRes is read without a timeout) and no driver *)
(* stalls on the name: that one keeps it, its client being gone or not.     *)
NameGetsServedUnlessStalled ==
    (\E t \in Tunnels : Trying(t))
        ~> (holder \in Tunnels \/ stalled \/ \A t \in Tunnels : ~ Trying(t))

(* A tunnel whose token is refused ends up trying at the longest interval   *)
(* only (tunnel_manager.rs backoff_secs).                                   *)
RefusedBacksOff ==
    \A t \in Tunnels :
        <>[](t \in valid \/ at[t] = "over" \/ link[t] = "mute" \/ backoff[t] = MaxBackoff)
=============================================================================
