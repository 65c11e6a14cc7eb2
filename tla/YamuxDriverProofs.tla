---------------------------- MODULE YamuxDriverProofs ----------------------------
(* Theorems about the yamux driver, for any callers, limits and intervals.  *)
EXTENDS YamuxDriver, TLAPS

(* The type invariant, by what changes together.  A command is opened while *)
(* it is at the head of the channel, and the loop is over when MAX_MISSED   *)
(* heartbeats were missed.                                                  *)
LoopTypes ==
    /\ mode \in {"select", "opening", "heartbeat", "ended"}
    /\ why \in {"none", "yamux", "dead"}
    /\ hb \in BOOLEAN
    /\ missed \in 0 .. MaxMissed
    /\ mode # "ended" => missed < MaxMissed

TimeTypes ==
    /\ tick \in 0 .. HeartbeatInterval
    /\ pingLeft \in 0 .. PingTimeout
    /\ frozenFor \in 0 .. SilenceLimit + 1

QueueTypes ==
    /\ cmds \in Seq(Callers) /\ Len(cmds) <= QueueCap
    /\ caller \in [Callers -> {"idle", "sending", "waiting", "stream", "error", "done", "gone"}]
    /\ mode = "opening" => cmds # <<>>

StreamTypes == stream \in [Streams -> {"none", "opened", "flushed", "answered", "acked"}]

WorldTypes == conn \in {"up", "down"} /\ client \in {"alive", "frozen"}

TypeInv == LoopTypes /\ TimeTypes /\ QueueTypes /\ StreamTypes /\ WorldTypes

(* The connection is not polled while a heartbeat owns its stream, so that  *)
(* stream is never more than opened.                                        *)
PingUnanswered == stream[Ping] \in {"none", "opened"}

(* Ticks until enough heartbeats are missed: the one under way or the next  *)
(* one ends it, or an interval later the one after.                         *)
Left ==
    IF mode = "ended" THEN 0
    ELSE (MaxMissed - missed - 1) * HeartbeatInterval
            + IF mode = "heartbeat" THEN pingLeft ELSE tick + PingTimeout

Countdown ==
    /\ mode = "heartbeat" => hb /\ tick = HeartbeatInterval - PingTimeout + pingLeft
    /\ hb /\ ~ Stalled => frozenFor + Left <= SilenceLimit

Inv == TypeInv /\ PingUnanswered /\ Countdown

-----------------------------------------------------------------------------
(* Types.                                                                   *)

(* What is unchanged keeps its type.                                        *)
LEMMA TypesStay ==
    /\ LoopTypes /\ UNCHANGED loopVars => LoopTypes'
    /\ TimeTypes /\ UNCHANGED timeVars => TimeTypes'
    /\ QueueTypes /\ UNCHANGED <<mode, cmds, caller>> => QueueTypes'
    /\ StreamTypes /\ UNCHANGED stream => StreamTypes'
    /\ WorldTypes /\ UNCHANGED worldVars => WorldTypes'
  BY DEF LoopTypes, TimeTypes, QueueTypes, StreamTypes, WorldTypes, loopVars, timeVars, worldVars

(* The loop goes from branch to branch.                                     *)
LEMMA LoopGoesOn ==
    ASSUME LoopTypes, mode # "ended", mode' \in {"select", "opening", "heartbeat", "ended"},
           why' \in {why, "yamux"}, UNCHANGED <<hb, missed>>
    PROVE  LoopTypes'
  BY DEF LoopTypes

(* The channel loses its first command, and its caller has the reply.       *)
LEMMA CommandAnswered ==
    ASSUME QueueTypes, mode = "opening", mode' = "select", cmds' = Tail(cmds),
           \E r \in {"stream", "error"} :
              caller' = [caller EXCEPT ![Head(cmds)] = IF @ = "waiting" THEN r ELSE @]
    PROVE  QueueTypes' /\ Head(cmds) \in Callers
<1>1. cmds \in Seq(Callers) /\ cmds # <<>>
  BY DEF QueueTypes
<1>2. Head(cmds) \in Callers /\ Tail(cmds) \in Seq(Callers) /\ Len(Tail(cmds)) = Len(cmds) - 1
  BY <1>1
<1>3. Len(cmds) \in Nat
  BY <1>1
<1>4. Len(cmds') <= QueueCap
  BY <1>2, <1>3, DriverAssumption DEF QueueTypes
<1>5. caller' \in [Callers -> {"idle", "sending", "waiting", "stream", "error", "done", "gone"}]
  BY <1>2 DEF QueueTypes
<1> QED
  BY <1>2, <1>4, <1>5 DEF QueueTypes

(* A caller moves.                                                          *)
LEMMA CallerMoves ==
    ASSUME QueueTypes, NEW r \in Callers, UNCHANGED <<mode, cmds>>,
           \E p \in {"sending", "error", "done", "gone"} : caller' = [caller EXCEPT ![r] = p]
    PROVE  QueueTypes'
  BY DEF QueueTypes

(* Every step keeps the types.                                              *)
LEMMA TypeStep == TypeInv /\ [Next]_vars => TypeInv'
<1> SUFFICES ASSUME TypeInv, [Next]_vars PROVE TypeInv'
  OBVIOUS
<1>1. ASSUME PollConnection PROVE TypeInv'
  <2>1. StreamTypes'
    BY <1>1 DEF PollConnection, Polled, Moved, StreamTypes, TypeInv
  <2> QED
    BY <1>1, <2>1, TypesStay DEF PollConnection, TypeInv, loopVars
<1>2. ASSUME ConnectionOver PROVE TypeInv'
  <2>1. LoopTypes' /\ QueueTypes'
    BY <1>2, LoopGoesOn DEF ConnectionOver, TypeInv, QueueTypes, streamVars
  <2> QED
    BY <1>2, <2>1, TypesStay DEF ConnectionOver, TypeInv, streamVars
<1>3. ASSUME RecvCommand PROVE TypeInv'
  <2>1. LoopTypes' /\ QueueTypes'
    BY <1>3, LoopGoesOn DEF RecvCommand, TypeInv, QueueTypes, streamVars
  <2> QED
    BY <1>3, <2>1, TypesStay DEF RecvCommand, TypeInv, streamVars
<1>4. ASSUME OpenOutbound PROVE TypeInv'
  <2>1. LoopTypes' /\ QueueTypes' /\ Head(cmds) \in Callers
    BY <1>4, LoopGoesOn, CommandAnswered DEF OpenOutbound, TypeInv
  <2>2. StreamTypes'
    BY <1>4, <2>1 DEF OpenOutbound, TypeInv, StreamTypes
  <2> QED
    BY <1>4, <2>1, <2>2, TypesStay DEF OpenOutbound, TypeInv
<1>5. ASSUME OpenTooMany PROVE TypeInv'
  <2>1. LoopTypes' /\ QueueTypes'
    BY <1>5, LoopGoesOn, CommandAnswered DEF OpenTooMany, TypeInv
  <2> QED
    BY <1>5, <2>1, TypesStay DEF OpenTooMany, TypeInv, WorldTypes
<1>6. ASSUME HeartbeatDue PROVE TypeInv'
  <2>1. LoopTypes' /\ QueueTypes'
    BY <1>6, LoopGoesOn DEF HeartbeatDue, TypeInv, QueueTypes, streamVars
  <2>2. TimeTypes'
    BY <1>6, DriverAssumption DEF HeartbeatDue, TypeInv, TimeTypes
  <2> QED
    BY <1>6, <2>1, <2>2, TypesStay DEF HeartbeatDue, TypeInv, streamVars
<1>7. ASSUME OpenPing PROVE TypeInv'
  <2>1. StreamTypes'
    BY <1>7 DEF OpenPing, StreamTypes, TypeInv
  <2> QED
    BY <1>7, <2>1, TypesStay DEF OpenPing, TypeInv, loopVars
<1>8. ASSUME HeartbeatOver PROVE TypeInv'
  <2>1. missed' \in {0, missed + 1} /\ mode' = (IF missed' >= MaxMissed THEN "ended" ELSE "select")
    BY <1>8 DEF HeartbeatOver, MissedAfterPing, TooManyMissed
  <2>2. missed \in Nat /\ missed < MaxMissed
    BY <1>8 DEF HeartbeatOver, TypeInv, LoopTypes
  <2>3. LoopTypes'
    BY <1>8, <2>1, <2>2, DriverAssumption DEF HeartbeatOver, TypeInv, LoopTypes
  <2>4. QueueTypes'
    BY <1>8, <2>1 DEF HeartbeatOver, TypeInv, QueueTypes, streamVars
  <2> QED
    BY <1>8, <2>3, <2>4, TypesStay DEF HeartbeatOver, TypeInv, WorldTypes, streamVars
<1>9. ASSUME NEW r \in Callers, SendCommand(r) PROVE TypeInv'
  <2>1. cmds \in Seq(Callers) /\ cmds' = Append(cmds, r)
    BY <1>9 DEF SendCommand, TypeInv, QueueTypes
  <2>2. cmds' \in Seq(Callers) /\ Len(cmds') = Len(cmds) + 1 /\ cmds' # <<>> /\ Len(cmds) \in Nat
    BY <2>1
  <2>3. QueueTypes'
    BY <1>9, <2>2, DriverAssumption DEF SendCommand, TypeInv, QueueTypes, loopVars
  <2> QED
    BY <1>9, <2>3, TypesStay DEF SendCommand, TypeInv
<1>10. ASSUME NEW r \in Callers, CallFails(r) PROVE TypeInv'
  BY <1>10, TypesStay, CallerMoves DEF CallFails, TypeInv, loopVars
<1>11. ASSUME NEW r \in Callers, CallOpen(r) PROVE TypeInv'
  BY <1>11, TypesStay, CallerMoves DEF CallOpen, TypeInv, loopVars
<1>12. ASSUME NEW r \in Callers, CallerLeaves(r) PROVE TypeInv'
  <2>1. caller' = [caller EXCEPT ![r] = "done"] \/ caller' = [caller EXCEPT ![r] = "gone"]
    BY <1>12 DEF CallerLeaves
  <2> QED
    BY <1>12, <2>1, TypesStay, CallerMoves DEF CallerLeaves, TypeInv, loopVars
<1>13. ASSUME NEW s \in Streams, ClientAnswers(s) PROVE TypeInv'
  <2>1. StreamTypes'
    BY <1>13 DEF ClientAnswers, StreamTypes, TypeInv
  <2> QED
    BY <1>13, <2>1, TypesStay DEF ClientAnswers, TypeInv, loopVars
<1>14. ASSUME ClientFreezes PROVE TypeInv'
  BY <1>14, TypesStay DEF ClientFreezes, TypeInv, WorldTypes, loopVars, streamVars
<1>15. ASSUME ConnectionLost PROVE TypeInv'
  BY <1>15, TypesStay DEF ConnectionLost, TypeInv, WorldTypes, loopVars, streamVars
<1>16. ASSUME TimePasses PROVE TypeInv'
  <2>1. TimeTypes'
    BY <1>16, DriverAssumption DEF TimePasses, Minus1, TypeInv, TimeTypes
  <2> QED
    BY <1>16, <2>1, TypesStay DEF TimePasses, TypeInv, loopVars, streamVars
<1>17. CASE UNCHANGED vars
  BY <1>17, TypesStay DEF vars, TypeInv, loopVars, streamVars
<1> QED
  BY <1>1, <1>2, <1>3, <1>4, <1>5, <1>6, <1>7, <1>8, <1>9, <1>10, <1>11, <1>12,
     <1>13, <1>14, <1>15, <1>16, <1>17 DEF Next, DriverStep, CallerStep

-----------------------------------------------------------------------------
(* Every step leaves the heartbeat's stream unsent.                         *)
LEMMA PingStep == TypeInv /\ PingUnanswered /\ [Next]_vars => PingUnanswered'
<1> SUFFICES ASSUME TypeInv, PingUnanswered, [Next]_vars PROVE PingUnanswered'
  OBVIOUS
<1>1. ASSUME PollConnection PROVE PingUnanswered'
  BY <1>1 DEF PollConnection, PingUnanswered, Polled, Owned, Streams
<1>2. ASSUME ConnectionOver PROVE PingUnanswered'
  BY <1>2 DEF ConnectionOver, PingUnanswered, streamVars
<1>3. ASSUME RecvCommand PROVE PingUnanswered'
  BY <1>3 DEF RecvCommand, PingUnanswered, streamVars
<1>4. ASSUME OpenOutbound PROVE PingUnanswered'
  <2>1. Head(cmds) # Ping
    BY <1>4, CommandAnswered, DriverAssumption DEF OpenOutbound, TypeInv
  <2> QED
    BY <1>4, <2>1 DEF OpenOutbound, PingUnanswered, TypeInv, StreamTypes, Streams
<1>5. ASSUME OpenTooMany PROVE PingUnanswered'
  BY <1>5 DEF OpenTooMany, PingUnanswered, streamVars
<1>6. ASSUME HeartbeatDue PROVE PingUnanswered'
  BY <1>6 DEF HeartbeatDue, PingUnanswered, streamVars
<1>7. ASSUME OpenPing PROVE PingUnanswered'
  BY <1>7 DEF OpenPing, PingUnanswered, TypeInv, StreamTypes, Streams
<1>8. ASSUME HeartbeatOver PROVE PingUnanswered'
  BY <1>8 DEF HeartbeatOver, PingUnanswered, streamVars
<1>9. ASSUME NEW r \in Callers, SendCommand(r) PROVE PingUnanswered'
  BY <1>9 DEF SendCommand, PingUnanswered, streamVars
<1>10. ASSUME NEW r \in Callers, CallFails(r) PROVE PingUnanswered'
  BY <1>10 DEF CallFails, PingUnanswered, streamVars
<1>11. ASSUME NEW r \in Callers, CallOpen(r) PROVE PingUnanswered'
  BY <1>11 DEF CallOpen, PingUnanswered, streamVars
<1>12. ASSUME NEW r \in Callers, CallerLeaves(r) PROVE PingUnanswered'
  BY <1>12 DEF CallerLeaves, PingUnanswered, streamVars
<1>13. ASSUME NEW s \in Streams, ClientAnswers(s) PROVE PingUnanswered'
  BY <1>13 DEF ClientAnswers, PingUnanswered, TypeInv, StreamTypes, Streams
<1>14. ASSUME ClientFreezes PROVE PingUnanswered'
  BY <1>14 DEF ClientFreezes, PingUnanswered, streamVars
<1>15. ASSUME ConnectionLost PROVE PingUnanswered'
  BY <1>15 DEF ConnectionLost, PingUnanswered, streamVars
<1>16. ASSUME TimePasses PROVE PingUnanswered'
  BY <1>16 DEF TimePasses, PingUnanswered, streamVars
<1>17. CASE UNCHANGED vars
  BY <1>17 DEF vars, PingUnanswered, streamVars
<1> QED
  BY <1>1, <1>2, <1>3, <1>4, <1>5, <1>6, <1>7, <1>8, <1>9, <1>10, <1>11, <1>12,
     <1>13, <1>14, <1>15, <1>16, <1>17 DEF Next, DriverStep, CallerStep

(* Nothing gets a driver going that is stuck opening a stream: only polling  *)
(* the connection would.                                                    *)
LEMMA StallStep == TypeInv /\ Stalled /\ [Next]_vars => Stalled'
<1> SUFFICES ASSUME TypeInv, Stalled, [Next]_vars PROVE Stalled'
  OBVIOUS
<1>1. ASSUME PollConnection PROVE Stalled'
  BY <1>1 DEF PollConnection, Stalled
<1>2. ASSUME ConnectionOver PROVE Stalled'
  BY <1>2 DEF ConnectionOver, Stalled
<1>3. ASSUME RecvCommand PROVE Stalled'
  BY <1>3 DEF RecvCommand, Stalled
<1>4. ASSUME OpenOutbound PROVE Stalled'
  BY <1>4 DEF OpenOutbound, Stalled
<1>5. ASSUME OpenTooMany PROVE Stalled'
  BY <1>5 DEF OpenTooMany, Stalled
<1>6. ASSUME HeartbeatDue PROVE Stalled'
  BY <1>6 DEF HeartbeatDue, Stalled
<1>7. ASSUME OpenPing PROVE Stalled'
  BY <1>7 DEF OpenPing, Stalled
<1>8. ASSUME HeartbeatOver PROVE Stalled'
  BY <1>8 DEF HeartbeatOver, Stalled
<1>9. ASSUME NEW r \in Callers, SendCommand(r) PROVE Stalled'
  BY <1>9 DEF SendCommand, Stalled, BacklogFull, TooMany, Unacked, Open, loopVars
<1>10. ASSUME NEW r \in Callers, CallFails(r) PROVE Stalled'
  BY <1>10 DEF CallFails, Stalled, BacklogFull, TooMany, Unacked, Open, loopVars
<1>11. ASSUME NEW r \in Callers, CallOpen(r) PROVE Stalled'
  BY <1>11 DEF CallOpen, Stalled, BacklogFull, TooMany, Unacked, Open, loopVars
<1>12. ASSUME NEW r \in Callers, CallerLeaves(r) PROVE Stalled'
  BY <1>12 DEF CallerLeaves, Stalled, BacklogFull, TooMany, Unacked, Open, loopVars
<1>13. ASSUME NEW s \in Streams, ClientAnswers(s) PROVE Stalled'
  <2>1. Unacked' = Unacked /\ Open' = Open
    BY <1>13 DEF ClientAnswers, Unacked, Open, TypeInv, StreamTypes
  <2> QED
    BY <1>13, <2>1 DEF ClientAnswers, Stalled, BacklogFull, TooMany, loopVars
<1>14. ASSUME ClientFreezes PROVE Stalled'
  BY <1>14 DEF ClientFreezes, Stalled, BacklogFull, TooMany, Unacked, Open, loopVars,
     streamVars
<1>15. ASSUME ConnectionLost PROVE Stalled'
  BY <1>15 DEF ConnectionLost, Stalled, BacklogFull, TooMany, Unacked, Open, loopVars,
     streamVars
<1>16. ASSUME TimePasses PROVE Stalled'
  BY <1>16 DEF TimePasses, Stalled, BacklogFull, TooMany, Unacked, Open, loopVars,
     streamVars
<1>17. CASE UNCHANGED vars
  BY <1>17 DEF vars, Stalled, BacklogFull, TooMany, Unacked, Open, loopVars, streamVars
<1> QED
  BY <1>1, <1>2, <1>3, <1>4, <1>5, <1>6, <1>7, <1>8, <1>9, <1>10, <1>11, <1>12,
     <1>13, <1>14, <1>15, <1>16, <1>17 DEF Next, DriverStep, CallerStep

-----------------------------------------------------------------------------
(* What is left is a number of ticks.                                       *)
LEMMA LeftIsNat == TypeInv => Left \in Nat
<1> SUFFICES ASSUME TypeInv PROVE Left \in Nat
  OBVIOUS
<1>1. CASE mode # "ended"
  <2>1. MaxMissed - missed - 1 \in Nat /\ HeartbeatInterval \in Nat
    BY <1>1, DriverAssumption DEF TypeInv, LoopTypes
  <2>2. (MaxMissed - missed - 1) * HeartbeatInterval \in Nat
    BY <2>1
  <2> QED
    BY <1>1, <2>2, DriverAssumption DEF Left, TypeInv, TimeTypes
<1> QED
  BY <1>1 DEF Left

(* Steps that take no time and leave the heartbeat alone.                   *)
LEMMA CountdownStays ==
    ASSUME TypeInv, Countdown, ~ Stalled, mode \in {"select", "opening"},
           mode' \in {"select", "opening"}, UNCHANGED <<hb, missed, timeVars>>
    PROVE  Countdown'
<1>1. Left' = Left /\ UNCHANGED frozenFor
  BY DEF Left, timeVars
<1> QED
  BY <1>1 DEF Countdown

(* Steps that leave the loop and the time alone.                            *)
LEMMA StallsAside ==
    ASSUME TypeInv, Countdown, [Next]_vars, UNCHANGED <<loopVars, timeVars>>
    PROVE  Countdown'
<1>1. UNCHANGED <<mode, hb, missed, tick, pingLeft, frozenFor>>
  BY DEF loopVars, timeVars
<1>2. Left' = Left
  BY <1>1 DEF Left
<1>3. Stalled => Stalled'
  BY StallStep
<1> QED
  BY <1>1, <1>2, <1>3 DEF Countdown

(* Every step keeps the countdown.                                          *)
LEMMA CountdownStep == TypeInv /\ PingUnanswered /\ Countdown /\ [Next]_vars => Countdown'
<1> SUFFICES ASSUME TypeInv, PingUnanswered, Countdown, [Next]_vars PROVE Countdown'
  OBVIOUS
<1>1. ASSUME PollConnection PROVE Countdown'
  BY <1>1, StallsAside DEF PollConnection, loopVars, timeVars
<1>2. ASSUME ConnectionOver PROVE Countdown'
  <2>1. Left' = 0 /\ UNCHANGED <<hb, frozenFor>> /\ ~ Stalled /\ mode' = "ended"
    BY <1>2 DEF ConnectionOver, Left, timeVars, Stalled
  <2>2. hb => frozenFor + Left <= SilenceLimit
    BY <2>1 DEF Countdown
  <2>3. hb => frozenFor <= SilenceLimit
    BY <2>2, LeftIsNat, DriverAssumption DEF TypeInv, TimeTypes
  <2>4. frozenFor + 0 = frozenFor
    BY DEF TypeInv, TimeTypes
  <2> QED
    BY <2>1, <2>3, <2>4 DEF Countdown
<1>3. ASSUME RecvCommand PROVE Countdown'
  BY <1>3, CountdownStays DEF RecvCommand, Stalled
<1>4. ASSUME OpenOutbound PROVE Countdown'
  BY <1>4, CountdownStays DEF OpenOutbound, Stalled
<1>5. ASSUME OpenTooMany PROVE Countdown'
  BY <1>5, CountdownStays DEF OpenTooMany, Stalled
<1>6. ASSUME HeartbeatDue PROVE Countdown'
  <2>1. /\ hb /\ ~ Stalled /\ mode' = "heartbeat" /\ UNCHANGED <<hb, frozenFor>>
        /\ tick' = HeartbeatInterval /\ pingLeft' = PingTimeout
    BY <1>6 DEF HeartbeatDue, Stalled
  <2>2. Left' = Left
    BY <1>6, DriverAssumption DEF HeartbeatDue, Left
  <2>3. tick' = HeartbeatInterval - PingTimeout + pingLeft'
    BY <2>1, DriverAssumption
  <2> QED
    BY <2>1, <2>2, <2>3 DEF Countdown
<1>7. ASSUME OpenPing PROVE Countdown'
  BY <1>7, StallsAside DEF OpenPing, loopVars, timeVars
<1>8. ASSUME HeartbeatOver PROVE Countdown'
  <2>1. /\ mode = "heartbeat" /\ ~ Stalled /\ UNCHANGED <<hb, tick, pingLeft, frozenFor>>
        /\ missed' = missed + 1
        /\ mode' = IF missed + 1 >= MaxMissed THEN "ended" ELSE "select"
    BY <1>8 DEF HeartbeatOver, MissedAfterPing, TooManyMissed, PingUnanswered, Stalled, timeVars
  <2>2. hb /\ tick = HeartbeatInterval - PingTimeout + pingLeft
    BY <2>1 DEF Countdown
  <2>3. missed \in Nat /\ MaxMissed \in Nat /\ HeartbeatInterval \in Nat /\ PingTimeout \in Nat /\ pingLeft \in Nat
    BY DriverAssumption DEF TypeInv, LoopTypes, TimeTypes
  <2>4. (MaxMissed - missed - 1) * HeartbeatInterval
           = (MaxMissed - (missed + 1) - 1) * HeartbeatInterval + HeartbeatInterval
    BY <2>3
  <2>5. CASE missed + 1 >= MaxMissed
    <3>1. Left' = 0
      BY <2>1, <2>5 DEF Left
    <3>2. frozenFor + Left' <= frozenFor + Left /\ frozenFor + Left' \in Int
      BY <3>1, LeftIsNat DEF TypeInv, TimeTypes
    <3> QED
      BY <2>1, <2>5, <3>1, <3>2, LeftIsNat, DriverAssumption DEF Countdown, TypeInv, TimeTypes
  <2>6. CASE ~ missed + 1 >= MaxMissed
    <3>1. Left = (MaxMissed - missed - 1) * HeartbeatInterval + pingLeft
      BY <2>1 DEF Left
    <3>2. Left' = (MaxMissed - (missed + 1) - 1) * HeartbeatInterval + (tick + PingTimeout)
      BY <2>1, <2>6 DEF Left
    <3>3. (MaxMissed - (missed + 1) - 1) * HeartbeatInterval \in Int
      BY <2>3
    <3>4. Left' = Left
      BY <2>2, <2>3, <2>4, <3>1, <3>2, <3>3
    <3> QED
      BY <2>1, <2>6, <3>4 DEF Countdown
  <2> QED
    BY <2>5, <2>6
<1>9. ASSUME NEW r \in Callers, SendCommand(r) PROVE Countdown'
  BY <1>9, StallsAside DEF SendCommand, loopVars, timeVars
<1>10. ASSUME NEW r \in Callers, CallFails(r) PROVE Countdown'
  BY <1>10, StallsAside DEF CallFails, loopVars, timeVars
<1>11. ASSUME NEW r \in Callers, CallOpen(r) PROVE Countdown'
  BY <1>11, StallsAside DEF CallOpen, loopVars, timeVars
<1>12. ASSUME NEW r \in Callers, CallerLeaves(r) PROVE Countdown'
  BY <1>12, StallsAside DEF CallerLeaves, loopVars, timeVars
<1>13. ASSUME NEW s \in Streams, ClientAnswers(s) PROVE Countdown'
  BY <1>13, StallsAside DEF ClientAnswers, loopVars, timeVars
<1>14. ASSUME ClientFreezes PROVE Countdown'
  BY <1>14, StallsAside DEF ClientFreezes, loopVars, timeVars
<1>15. ASSUME ConnectionLost PROVE Countdown'
  BY <1>15, StallsAside DEF ConnectionLost, loopVars, timeVars
<1>16. ASSUME TimePasses PROVE Countdown'
  <2>1. CASE Stalled
    BY <1>16, <2>1, StallStep DEF Next, Countdown, Stalled
  <2>2. CASE ~ Stalled
    <3>1. /\ UNCHANGED <<mode, hb, missed>> /\ mode # "ended" /\ ~ DriverReady
          /\ tick' = (IF hb THEN Minus1(tick) ELSE tick) /\ pingLeft' = Minus1(pingLeft)
          /\ frozenFor' \in {frozenFor, frozenFor + 1}
      BY <1>16 DEF TimePasses, loopVars
    <3>2. SUFFICES ASSUME hb PROVE Countdown'
      BY <3>1 DEF Countdown
    <3>3. mode \in {"select", "heartbeat"}
      BY <2>2, <3>1 DEF DriverReady, TypeInv, LoopTypes
    <3>4. (MaxMissed - missed - 1) * HeartbeatInterval \in Int
      BY DriverAssumption DEF TypeInv, LoopTypes
    <3>5. CASE mode = "select"
      <4>1. tick # 0
        BY <3>1, <3>2, <3>5 DEF DriverReady
      <4>2. tick' = tick - 1
        BY <3>1, <3>2, <4>1 DEF Minus1
      <4>3. Left' = Left - 1
        BY <3>1, <3>4, <3>5, <4>2, DriverAssumption DEF Left, TypeInv, TimeTypes
      <4> QED
        BY <2>2, <3>1, <3>2, <3>5, <4>3, LeftIsNat, DriverAssumption DEF Countdown, TypeInv, TimeTypes
    <3>6. CASE mode = "heartbeat"
      <4>1. pingLeft # 0
        BY <3>1, <3>6 DEF DriverReady, PingSettled
      <4>2. pingLeft' = pingLeft - 1
        BY <3>1, <4>1 DEF Minus1
      <4>3. tick = HeartbeatInterval - PingTimeout + pingLeft
        BY <3>6 DEF Countdown
      <4>4. tick' = HeartbeatInterval - PingTimeout + pingLeft'
        BY <3>1, <3>2, <4>1, <4>2, <4>3, DriverAssumption DEF Minus1, TypeInv, TimeTypes
      <4>5. Left' = Left - 1
        BY <3>1, <3>4, <3>6, <4>2, DriverAssumption DEF Left, TypeInv, TimeTypes
      <4> QED
        BY <2>2, <3>1, <3>2, <3>6, <4>4, <4>5, LeftIsNat, DriverAssumption DEF Countdown, TypeInv, TimeTypes
    <3> QED
      BY <3>3, <3>5, <3>6
  <2> QED
    BY <2>1, <2>2
<1>17. CASE UNCHANGED vars
  BY <1>17, StallsAside DEF vars, loopVars, timeVars
<1> QED
  BY <1>1, <1>2, <1>3, <1>4, <1>5, <1>6, <1>7, <1>8, <1>9, <1>10, <1>11, <1>12,
     <1>13, <1>14, <1>15, <1>16, <1>17 DEF Next, DriverStep, CallerStep

-----------------------------------------------------------------------------
(* The initial states satisfy the invariant.                                *)
LEMMA InitInv == Init => Inv
<1> SUFFICES ASSUME Init PROVE Inv
  OBVIOUS
<1>1. TypeInv
  BY DriverAssumption DEF Init, TypeInv, LoopTypes, TimeTypes, QueueTypes, StreamTypes, WorldTypes
<1>2. PingUnanswered
  BY DEF Init, PingUnanswered, Streams
<1>3. Left = (MaxMissed - 0 - 1) * HeartbeatInterval + (HeartbeatInterval + PingTimeout)
  BY DEF Init, Left
<1>4. Left = MaxMissed * HeartbeatInterval + PingTimeout
  BY <1>3, DriverAssumption
<1>5. Countdown
  BY <1>4, DriverAssumption DEF Init, Countdown
<1> QED
  BY <1>1, <1>2, <1>5 DEF Inv

(* The inductive invariant is one.                                          *)
THEOREM Invariance == Spec => []Inv
<1>1. Inv /\ [Next]_vars => Inv'
  BY TypeStep, PingStep, CountdownStep DEF Inv
<1> QED
  BY <1>1, InitInv, PTL DEF Spec

(* The variables keep their types for any callers, limits and intervals:    *)
(* the channel holds what it may, and the loop counts up to MAX_MISSED.     *)
THEOREM TypeCorrect == Spec => []TypeOK
<1>1. Inv => TypeOK
  BY DEF Inv, TypeInv, TypeOK, LoopTypes, TimeTypes, QueueTypes, StreamTypes, WorldTypes
<1> QED
  BY <1>1, Invariance, PTL

(* A client that freezes is given up within HEARTBEAT_TIMEOUT_SECS, for all *)
(* intervals and timeouts where MAX_MISSED heartbeats and the last one's    *)
(* timeout fit into it (spawn_yamux_driver, heartbeat branch).              *)
THEOREM FrozenIsDropped == Spec => []FrozenClientDroppedInTime
<1>1. Inv => FrozenClientDroppedInTime
  <2>1. SUFFICES ASSUME Inv, hb, ~ Stalled PROVE ~ frozenFor > SilenceLimit
    BY DEF FrozenClientDroppedInTime
  <2> QED
    BY <2>1, LeftIsNat, DriverAssumption DEF Inv, Countdown, TypeInv, TimeTypes
<1> QED
  BY <1>1, Invariance, PTL

(* A driver that is stuck opening a stream is stuck for ever, whatever the  *)
(* callers, the client and the clock do: the branch that would flush and    *)
(* acknowledge streams is not polled in the body of another one.            *)
THEOREM StallIsForEver == Spec => [][Stalled => Stalled']_vars
<1>1. Inv /\ [Next]_vars => [Stalled => Stalled']_vars
  BY StallStep DEF Inv
<1> QED
  BY <1>1, Invariance, PTL DEF Spec

(* Every heartbeat that ends counts as missed, whatever the client does:    *)
(* while the loop waits for the pong nothing polls the connection, so the   *)
(* ping waits in yamux until its stream is given up (server.rs:113-149).    *)
THEOREM EveryHeartbeatIsMissed == Spec => [][HeartbeatOver => missed' = missed + 1]_vars
<1>1. Inv => [HeartbeatOver => missed' = missed + 1]_vars
  BY DEF Inv, PingUnanswered, HeartbeatOver, MissedAfterPing
<1> QED
  BY <1>1, Invariance, PTL
=============================================================================
