----------------------------- MODULE YamuxDriver -----------------------------
(***************************************************************************)
(* spawn_yamux_driver: the select loop that owns one client's yamux         *)
(* connection.  Requests send it OpenStream commands over a bounded channel *)
(* and await a oneshot reply; a heartbeat opens a stream of its own.        *)
(*                                                                          *)
(* yamux (external, 0.13) moves bytes only while the connection is polled:  *)
(* poll_next_inbound flushes what streams have written, delivers what the   *)
(* client sent and forgets dropped streams; poll_new_outbound only creates  *)
(* a stream, and waits while too many of them are unacknowledged.  The loop *)
(* polls the connection in its select, not inside a branch.                 *)
(*                                                                          *)
(* Time advances in ticks; steps of ready tasks take none.                  *)
(***************************************************************************)
EXTENDS Integers, Sequences, FiniteSets

CONSTANTS
    Callers,            \* requests that call open_stream, once each
    Ping,               \* the heartbeat's stream
    HeartbeatInterval,  \* ticks between heartbeats
    PingTimeout,        \* ticks a heartbeat may take
    MaxMissed,          \* MAX_MISSED
    SilenceLimit,       \* HEARTBEAT_TIMEOUT_SECS, in ticks
    QueueCap,           \* capacity of the command channel
    MaxBacklog,         \* yamux: unacknowledged outbound streams
    MaxStreams          \* yamux: streams of a connection

ASSUME DriverAssumption ==
    /\ Ping \notin Callers
    /\ {HeartbeatInterval, PingTimeout, MaxMissed, QueueCap, MaxBacklog, MaxStreams}
          \subseteq Nat \ {0}
    /\ SilenceLimit \in Nat
    /\ PingTimeout < HeartbeatInterval
    /\ MaxMissed * HeartbeatInterval + PingTimeout <= SilenceLimit

VARIABLES
    mode,       \* "select", in the body of a branch, or "ended"
    why,        \* what ended the loop
    hb,         \* supports_heartbeat
    missed,     \* missed_heartbeats
    tick,       \* ticks until heartbeat_interval is due
    pingLeft,   \* ticks left to the heartbeat under way
    cmds,       \* the command channel
    caller,     \* caller[r]: where r is in open_stream
    stream,     \* stream[s]: how far the stream opened for s has got
    conn,       \* "down": the next poll of the connection reports its end
    client,     \* "frozen": the connection stays up, nobody answers
    frozenFor   \* ticks since the client froze (history)

loopVars   == <<mode, why, hb, missed>>
timeVars   == <<tick, pingLeft, frozenFor>>
streamVars == <<cmds, caller, stream>>
worldVars  == <<conn, client>>
vars == <<loopVars, timeVars, streamVars, worldVars>>

Streams == Callers \cup {Ping}

TypeOK ==
    /\ mode \in {"select", "opening", "heartbeat", "ended"}
    /\ why \in {"none", "yamux", "dead"}
    /\ hb \in BOOLEAN
    /\ missed \in 0 .. MaxMissed
    /\ tick \in 0 .. HeartbeatInterval
    /\ pingLeft \in 0 .. PingTimeout
    /\ cmds \in Seq(Callers) /\ Len(cmds) <= QueueCap
    /\ caller \in [Callers -> {"idle", "sending", "waiting", "stream", "error", "done", "gone"}]
    /\ stream \in [Streams -> {"none", "opened", "flushed", "answered", "acked"}]
    /\ conn \in {"up", "down"}
    /\ client \in {"alive", "frozen"}
    /\ frozenFor \in 0 .. SilenceLimit + 1

Init ==
    /\ mode = "select"
    /\ why = "none"
    /\ hb \in BOOLEAN
    /\ missed = 0
    /\ tick = HeartbeatInterval     \* the first immediate tick is skipped
    /\ pingLeft = 0
    /\ cmds = <<>>
    /\ caller = [r \in Callers |-> "idle"]
    /\ stream = [s \in Streams |-> "none"]
    /\ conn = "up"
    /\ client = "alive"
    /\ frozenFor = 0

-----------------------------------------------------------------------------
(* yamux streams.                                                           *)

Unacked == {s \in Streams : stream[s] \in {"opened", "flushed", "answered"}}
Open    == {s \in Streams : stream[s] # "none"}

BacklogFull == Cardinality(Unacked) >= MaxBacklog
TooMany     == Cardinality(Open) >= MaxStreams

(* The stream of a reply that nobody awaits any more is kept for later.      *)
MutDroppedStreamsKept(s) ==
    IF s = Ping THEN mode = "heartbeat" ELSE caller[s] # "done"

(* The heartbeat drops its stream when it is over; a reply that nobody      *)
(* awaits any more is dropped with the stream in it.                        *)
Owned(s) ==
    IF s = Ping THEN mode = "heartbeat" ELSE caller[s] \in {"waiting", "stream"}

Moved(s) ==
    CASE stream[s] = "opened"    -> "flushed"
      [] stream[s] = "answered"  -> "acked"
      [] OTHER                   -> stream[s]

(* yamux drains what a dropped stream still has queued, its SYN and a ping  *)
(* included, sends a reset behind it and forgets the stream: what the       *)
(* client answers to it reaches nobody.                                     *)
Polled(s) == IF Owned(s) THEN Moved(s) ELSE "none"

-----------------------------------------------------------------------------
(* Branch 1 of the select: the connection is polled.                        *)

PollConnection ==
    /\ mode = "select"
    /\ conn = "up"
    /\ \E s \in Streams : Polled(s) # stream[s]
    /\ stream' = [s \in Streams |-> Polled(s)]
    /\ UNCHANGED <<loopVars, timeVars, cmds, caller, worldVars>>

(* Some(Err(e)) is logged and the loop goes on.                             *)
MutErrorIgnored ==
    /\ mode = "select"
    /\ conn = "down"
    /\ UNCHANGED vars

ConnectionOver ==
    /\ mode = "select"
    /\ conn = "down"
    /\ mode' = "ended"
    /\ why' = "yamux"
    /\ UNCHANGED <<hb, missed, timeVars, streamVars, worldVars>>

(* Branch 2: an OpenStream command.  Its body awaits poll_new_outbound with *)
(* no timeout, and replies.                                                 *)

RecvCommand ==
    /\ mode = "select"
    /\ cmds # <<>>
    /\ mode' = "opening"
    /\ UNCHANGED <<why, hb, missed, timeVars, streamVars, worldVars>>

OpenOutbound ==
    LET r == Head(cmds) IN
    /\ mode = "opening"
    /\ ~ TooMany
    /\ ~ BacklogFull
    /\ stream' = [stream EXCEPT ![r] = "opened"]
    /\ caller' = [caller EXCEPT ![r] = IF @ = "waiting" THEN "stream" ELSE @]
    /\ cmds' = Tail(cmds)
    /\ mode' = "select"
    /\ UNCHANGED <<why, hb, missed, timeVars, worldVars>>

(* TooManyStreams is answered with an error, and closes the connection.     *)
OpenTooMany ==
    LET r == Head(cmds) IN
    /\ mode = "opening"
    /\ TooMany
    /\ caller' = [caller EXCEPT ![r] = IF @ = "waiting" THEN "error" ELSE @]
    /\ cmds' = Tail(cmds)
    /\ conn' = "down"
    /\ mode' = "select"
    /\ UNCHANGED <<why, hb, missed, timeVars, stream, client>>

-----------------------------------------------------------------------------
(* Branch 3: the heartbeat.                                                 *)

HeartbeatDue ==
    /\ mode = "select"
    /\ hb
    /\ tick = 0
    /\ mode' = "heartbeat"
    /\ tick' = HeartbeatInterval
    /\ pingLeft' = PingTimeout
    /\ UNCHANGED <<why, hb, missed, frozenFor, streamVars, worldVars>>

OpenPing ==
    /\ mode = "heartbeat"
    /\ stream[Ping] = "none"
    /\ ~ TooMany
    /\ ~ BacklogFull
    /\ stream' = [stream EXCEPT ![Ping] = "opened"]
    /\ UNCHANGED <<loopVars, timeVars, cmds, caller, worldVars>>

(* The pong was read, an error came up, or the 10 s are over.               *)
PingSettled ==
    \/ stream[Ping] = "acked"
    \/ stream[Ping] = "none" /\ TooMany
    \/ pingLeft = 0

(* The arm for the timeout forgets to count.                                *)
MutTimeoutNotCounted ==
    IF stream[Ping] = "acked" THEN 0 ELSE IF pingLeft = 0 THEN missed ELSE missed + 1

MissedAfterPing == IF stream[Ping] = "acked" THEN 0 ELSE missed + 1

MutOneMore(n) == n > MaxMissed

TooManyMissed(n) == n >= MaxMissed

HeartbeatOver ==
    /\ mode = "heartbeat"
    /\ PingSettled
    /\ missed' = MissedAfterPing
    /\ mode' = IF TooManyMissed(missed') THEN "ended" ELSE "select"
    /\ why' = IF TooManyMissed(missed') THEN "dead" ELSE why
    /\ conn' = IF stream[Ping] = "none" /\ TooMany THEN "down" ELSE conn
    /\ UNCHANGED <<hb, timeVars, streamVars, client>>

-----------------------------------------------------------------------------
(* YamuxHandle::open_stream and what becomes of the stream.                 *)

CallOpen(r) ==
    /\ caller[r] = "idle"
    /\ caller' = [caller EXCEPT ![r] = "sending"]
    /\ UNCHANGED <<loopVars, timeVars, cmds, stream, worldVars>>

SendCommand(r) ==
    /\ caller[r] = "sending"
    /\ mode # "ended"
    /\ Len(cmds) < QueueCap
    /\ cmds' = Append(cmds, r)
    /\ caller' = [caller EXCEPT ![r] = "waiting"]
    /\ UNCHANGED <<loopVars, timeVars, stream, worldVars>>

(* Commands still in the channel keep their reply senders alive.            *)
MutQueuedNotDropped(r) ==
    /\ caller[r] = "sending"
    /\ mode = "ended"
    /\ caller' = [caller EXCEPT ![r] = "error"]
    /\ UNCHANGED <<loopVars, timeVars, cmds, stream, worldVars>>

(* The receiver is dropped with the driver: "yamux driver gone" to senders, *)
(* "yamux driver dropped" to those whose command was still queued.          *)
CallFails(r) ==
    /\ caller[r] \in {"sending", "waiting"}
    /\ mode = "ended"
    /\ caller' = [caller EXCEPT ![r] = "error"]
    /\ UNCHANGED <<loopVars, timeVars, cmds, stream, worldVars>>

(* The request is done with its stream, or is cancelled in open_stream (its *)
(* command stays in the channel).                                           *)
CallerLeaves(r) ==
    /\ caller[r] \in {"sending", "waiting", "stream"}
    /\ caller' = [caller EXCEPT ![r] = IF @ = "stream" THEN "done" ELSE "gone"]
    /\ UNCHANGED <<loopVars, timeVars, cmds, stream, worldVars>>

-----------------------------------------------------------------------------
(* The client and the network.                                              *)

(* The first frame the client sends on a stream acknowledges it.            *)
ClientAnswers(s) ==
    /\ client = "alive"
    /\ conn = "up"
    /\ stream[s] = "flushed"
    /\ stream' = [stream EXCEPT ![s] = "answered"]
    /\ UNCHANGED <<loopVars, timeVars, cmds, caller, worldVars>>

ClientFreezes ==
    /\ client = "alive"
    /\ client' = "frozen"
    /\ UNCHANGED <<loopVars, timeVars, streamVars, conn>>

ConnectionLost ==
    /\ conn = "up"
    /\ conn' = "down"
    /\ UNCHANGED <<loopVars, timeVars, streamVars, client>>

-----------------------------------------------------------------------------
(* Time.  It does not pass while the driver has something ready, nor while  *)
(* a live client has a ping to answer.                                      *)

Stalled == mode = "opening" /\ BacklogFull /\ ~ TooMany

DriverReady ==
    \/ mode = "select" /\ \/ conn = "down"
                          \/ cmds # <<>>
                          \/ hb /\ tick = 0
                          \/ \E s \in Streams : Polled(s) # stream[s]
    \/ mode = "opening" /\ ~ Stalled
    \/ mode = "heartbeat" /\ \/ PingSettled
                             \/ stream[Ping] = "none" /\ ~ BacklogFull

PongOwed == client = "alive" /\ conn = "up" /\ stream[Ping] = "flushed"

Minus1(n) == IF n = 0 THEN 0 ELSE n - 1

TimePasses ==
    /\ mode # "ended"
    /\ ~ DriverReady
    /\ ~ PongOwed
    /\ tick' = IF hb THEN Minus1(tick) ELSE tick
    /\ pingLeft' = Minus1(pingLeft)
    /\ frozenFor' = IF client = "frozen" /\ frozenFor <= SilenceLimit
                    THEN frozenFor + 1 ELSE frozenFor
    /\ UNCHANGED <<loopVars, streamVars, worldVars>>

-----------------------------------------------------------------------------
DriverStep ==
    \/ PollConnection
    \/ ConnectionOver
    \/ RecvCommand
    \/ OpenOutbound
    \/ OpenTooMany
    \/ HeartbeatDue
    \/ OpenPing
    \/ HeartbeatOver

CallerStep(r) == SendCommand(r) \/ CallFails(r)

Next ==
    \/ DriverStep
    \/ \E r \in Callers : CallerStep(r) \/ CallOpen(r) \/ CallerLeaves(r)
    \/ \E s \in Streams : ClientAnswers(s)
    \/ ClientFreezes
    \/ ConnectionLost
    \/ TimePasses

Fairness ==
    /\ WF_vars(DriverStep)
    /\ \A r \in Callers : WF_vars(CallerStep(r))
    /\ WF_vars(TimePasses)

Spec == Init /\ [][Next]_vars /\ Fairness

-----------------------------------------------------------------------------
(* Properties.                                                              *)

(* A client that supports heartbeats and stops answering while its          *)
(* connection stays up is given up within HEARTBEAT_TIMEOUT_SECS, unless    *)
(* the driver is stuck opening a stream.                                    *)
FrozenClientDroppedInTime ==
    hb /\ frozenFor > SilenceLimit => Stalled

(* The end of the connection ends the driver, unless it is stuck opening a  *)
(* stream: only polling would notice, and only polling would unstick it.    *)
LossEndsDriverUnlessStalled ==
    (conn = "down") ~> (mode = "ended" \/ Stalled)

(* open_stream returns: with a stream, or with an error once the driver is  *)
(* over, whether the command was in the channel, being sent or being        *)
(* handled.  Only a stuck driver leaves callers waiting.                    *)
OpenReturnsUnlessStalled ==
    \A r \in Callers :
        (caller[r] \in {"sending", "waiting"}) ~> (caller[r] \notin {"sending", "waiting"} \/ Stalled)

(* A stream whose request has left, even before it was opened, does not     *)
(* stay in yamux, where it would count against its limits.                  *)
AbandonedStreamsGo ==
    \A r \in Callers :
        (caller[r] \in {"gone", "done"} /\ stream[r] # "none")
            ~> (stream[r] = "none" \/ mode = "ended" \/ Stalled)

(* server.rs:119 "Wait for pong reply to confirm client is alive": the      *)
(* driver only declares a connection dead when its client stopped           *)
(* answering.  The code does not keep this.                                 *)
DeadMeansSilent == (why = "dead") => (client = "frozen")
=============================================================================
