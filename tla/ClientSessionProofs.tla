------------------------- MODULE ClientSessionProofs -------------------------
(* Theorems about the client's sessions, for any tunnels and bounds.        *)
EXTENDS ClientSession, TLAPS

(* The state of a connection and its two ends.                              *)
LinkShape ==
    \A t \in Tunnels :
        /\ link[t] # "none" <=> at[t] \in {"authenticating", "connected"}
        /\ link[t] \in {"none", "open", "mute"} => reply[t] = "none"
        /\ link[t] \in {"granted", "registered"} => reply[t] = "success"
        /\ reply[t] = "success" => t \in valid
        /\ at[t] = "connected" => reply[t] = "success"
        /\ t \in hung => link[t] \in {"registered", "cut"} /\ reply[t] = "success"

(* The server routes the name over the connection that is registered.       *)
HolderKnown ==
    /\ \A t \in Tunnels : link[t] = "registered" <=> holder = t
    /\ stalled => holder # Nobody

(* What the tunnels show is what they do.                                   *)
StatusShape ==
    \A t \in Tunnels :
        /\ status[t] = "Connected" <=> at[t] = "connected"
        /\ at[t] \in {"connecting", "authenticating", "backing_off"} => status[t] = "Connecting"

(* The inductive invariant.                                                 *)
Inv == TypeOK /\ LinkShape /\ HolderKnown /\ StatusShape

(* A request for the name goes to a tunnel that has a session, whose token  *)
(* was accepted and whose AuthRes is on its way or read, or to a connection *)
(* nobody is behind: never to a tunnel that was stopped or is between two   *)
(* sessions.                                                                *)
RoutedToASession ==
    \A t \in Tunnels :
        holder = t => /\ at[t] \in {"authenticating", "connected"}
                      /\ reply[t] = "success" /\ t \in valid

(* A tunnel whose token the server refuses never shows Connected.           *)
ConnectedIsAccepted ==
    \A t \in Tunnels : status[t] = "Connected" => t \in valid

(* Every step keeps the types.                                              *)
LEMMA TypeStep ==
    ASSUME TypeOK, [Next]_vars
    PROVE  TypeOK'
<1>1. ASSUME NEW t \in Tunnels, Connects(t) PROVE TypeOK'
  BY <1>1, SessionAssumption DEF Connects, Becomes, serverVars, TypeOK
<1>2. ASSUME NEW t \in Tunnels, Authenticated(t) PROVE TypeOK'
  BY <1>2, SessionAssumption DEF Authenticated, Becomes, serverVars, TypeOK
<1>3. ASSUME NEW t \in Tunnels, AuthenticationFails(t) PROVE TypeOK'
  BY <1>3, SessionAssumption DEF AuthenticationFails, Becomes, HangsUp, serverVars,
     TypeOK
<1>4. ASSUME NEW t \in Tunnels, SessionEnds(t) PROVE TypeOK'
  BY <1>4, SessionAssumption DEF SessionEnds, Becomes, HangsUp, serverVars, TypeOK
<1>5. ASSUME NEW t \in Tunnels, BacksOff(t) PROVE TypeOK'
  BY <1>5, SessionAssumption DEF BacksOff, Becomes, serverVars, TypeOK
<1>6. ASSUME NEW t \in Tunnels, Wakes(t) PROVE TypeOK'
  BY <1>6, SessionAssumption DEF Wakes, Becomes, serverVars, TypeOK
<1>7. ASSUME DriverStalls PROVE TypeOK'
  BY <1>7, SessionAssumption DEF DriverStalls, clientVars, TypeOK
<1>8. ASSUME NEW t \in Tunnels, ConnectFails(t) PROVE TypeOK'
  BY <1>8, SessionAssumption DEF ConnectFails, Trouble, Becomes, serverVars,
     TypeOK
<1>9. ASSUME NEW t \in Tunnels, Stops(t) PROVE TypeOK'
  BY <1>9, SessionAssumption DEF Stops, Becomes, ServerLeftAlone, HangsUp, TypeOK
<1>10. ASSUME NEW t \in Tunnels, Starts(t) PROVE TypeOK'
  BY <1>10, SessionAssumption DEF Starts, Trouble, Becomes, serverVars,
     TypeOK
<1>11. ASSUME NEW t \in Tunnels, Answers(t) PROVE TypeOK'
  BY <1>11, SessionAssumption DEF Answers, clientVars, serverVars, TypeOK
<1>12. ASSUME NEW t \in Tunnels, Registers(t) PROVE TypeOK'
  BY <1>12, SessionAssumption DEF Registers, clientVars, TypeOK
<1>13. ASSUME NEW t \in Tunnels, LinkLost(t) PROVE TypeOK'
  BY <1>13, SessionAssumption DEF LinkLost, Trouble, ServerLeftAlone, clientVars,
     TypeOK
<1>14. ASSUME NEW t \in Tunnels, GoesMute(t) PROVE TypeOK'
  BY <1>14, SessionAssumption DEF GoesMute, Trouble, clientVars, serverVars,
     TypeOK
<1>15. ASSUME NEW t \in Tunnels, ServiceHangs(t) PROVE TypeOK'
  BY <1>15, SessionAssumption DEF ServiceHangs, clientVars, serverVars, TypeOK
<1>16. ASSUME RegistersLate PROVE TypeOK'
  BY <1>16, SessionAssumption DEF RegistersLate, clientVars, TypeOK
<1>17. ASSUME GhostLeaves PROVE TypeOK'
  BY <1>17, SessionAssumption DEF GhostLeaves, clientVars, TypeOK
<1>18. CASE UNCHANGED vars
  BY <1>18 DEF vars, clientVars, serverVars, TypeOK
<1> QED
  BY <1>1, <1>2, <1>3, <1>4, <1>5, <1>6, <1>7, <1>8, <1>9, <1>10, <1>11, <1>12,
     <1>13, <1>14, <1>15, <1>16, <1>17, <1>18 DEF Next, tunnel_task, server

(* A connection and its two ends stay in step.                              *)
LEMMA LinkStep ==
    ASSUME TypeOK, LinkShape, [Next]_vars
    PROVE  LinkShape'
<1>1. ASSUME NEW t \in Tunnels, Connects(t) PROVE LinkShape'
  BY <1>1, SessionAssumption DEF Connects, Becomes, serverVars, TypeOK,
     LinkShape
<1>2. ASSUME NEW t \in Tunnels, Authenticated(t) PROVE LinkShape'
  BY <1>2, SessionAssumption DEF Authenticated, Becomes, serverVars, TypeOK,
     LinkShape
<1>3. ASSUME NEW t \in Tunnels, AuthenticationFails(t) PROVE LinkShape'
  BY <1>3, SessionAssumption DEF AuthenticationFails, Becomes, HangsUp, serverVars,
     TypeOK, LinkShape
<1>4. ASSUME NEW t \in Tunnels, SessionEnds(t) PROVE LinkShape'
  BY <1>4, SessionAssumption DEF SessionEnds, Becomes, HangsUp, serverVars, TypeOK,
     LinkShape
<1>5. ASSUME NEW t \in Tunnels, BacksOff(t) PROVE LinkShape'
  BY <1>5, SessionAssumption DEF BacksOff, Becomes, serverVars, TypeOK,
     LinkShape
<1>6. ASSUME NEW t \in Tunnels, Wakes(t) PROVE LinkShape'
  BY <1>6, SessionAssumption DEF Wakes, Becomes, serverVars, TypeOK,
     LinkShape
<1>7. ASSUME DriverStalls PROVE LinkShape'
  BY <1>7, SessionAssumption DEF DriverStalls, clientVars, TypeOK, LinkShape
<1>8. ASSUME NEW t \in Tunnels, ConnectFails(t) PROVE LinkShape'
  BY <1>8, SessionAssumption DEF ConnectFails, Trouble, Becomes, serverVars,
     TypeOK, LinkShape
<1>9. ASSUME NEW t \in Tunnels, Stops(t) PROVE LinkShape'
  BY <1>9, SessionAssumption DEF Stops, Becomes, ServerLeftAlone, HangsUp, TypeOK,
     LinkShape
<1>10. ASSUME NEW t \in Tunnels, Starts(t) PROVE LinkShape'
  BY <1>10, SessionAssumption DEF Starts, Trouble, Becomes, serverVars,
     TypeOK, LinkShape
<1>11. ASSUME NEW t \in Tunnels, Answers(t) PROVE LinkShape'
  BY <1>11, SessionAssumption DEF Answers, clientVars, serverVars, TypeOK,
     LinkShape
<1>12. ASSUME NEW t \in Tunnels, Registers(t) PROVE LinkShape'
  BY <1>12, SessionAssumption DEF Registers, clientVars, TypeOK, LinkShape
<1>13. ASSUME NEW t \in Tunnels, LinkLost(t) PROVE LinkShape'
  BY <1>13, SessionAssumption DEF LinkLost, Trouble, ServerLeftAlone, clientVars,
     TypeOK, LinkShape
<1>14. ASSUME NEW t \in Tunnels, GoesMute(t) PROVE LinkShape'
  BY <1>14, SessionAssumption DEF GoesMute, Trouble, clientVars, serverVars,
     TypeOK, LinkShape
<1>15. ASSUME NEW t \in Tunnels, ServiceHangs(t) PROVE LinkShape'
  BY <1>15, SessionAssumption DEF ServiceHangs, clientVars, serverVars, TypeOK, LinkShape
<1>16. ASSUME RegistersLate PROVE LinkShape'
  BY <1>16, SessionAssumption DEF RegistersLate, clientVars, TypeOK,
     LinkShape
<1>17. ASSUME GhostLeaves PROVE LinkShape'
  BY <1>17, SessionAssumption DEF GhostLeaves, clientVars, TypeOK, LinkShape
<1>18. CASE UNCHANGED vars
  BY <1>18 DEF vars, clientVars, serverVars, TypeOK, LinkShape
<1> QED
  BY <1>1, <1>2, <1>3, <1>4, <1>5, <1>6, <1>7, <1>8, <1>9, <1>10, <1>11, <1>12,
     <1>13, <1>14, <1>15, <1>16, <1>17, <1>18 DEF Next, tunnel_task, server

(* At most one connection has the name, and the registry knows which.       *)
LEMMA HolderStep ==
    ASSUME TypeOK, LinkShape, HolderKnown, [Next]_vars
    PROVE  HolderKnown'
<1>1. ASSUME NEW t \in Tunnels, Connects(t) PROVE HolderKnown'
  BY <1>1, SessionAssumption DEF Connects, Becomes, serverVars, TypeOK,
     LinkShape, HolderKnown
<1>2. ASSUME NEW t \in Tunnels, Authenticated(t) PROVE HolderKnown'
  BY <1>2, SessionAssumption DEF Authenticated, Becomes, serverVars, TypeOK,
     LinkShape, HolderKnown
<1>3. ASSUME NEW t \in Tunnels, AuthenticationFails(t) PROVE HolderKnown'
  BY <1>3, SessionAssumption DEF AuthenticationFails, Becomes, HangsUp, serverVars,
     TypeOK, LinkShape, HolderKnown
<1>4. ASSUME NEW t \in Tunnels, SessionEnds(t) PROVE HolderKnown'
  BY <1>4, SessionAssumption DEF SessionEnds, Becomes, HangsUp, serverVars, TypeOK,
     LinkShape, HolderKnown
<1>5. ASSUME NEW t \in Tunnels, BacksOff(t) PROVE HolderKnown'
  BY <1>5, SessionAssumption DEF BacksOff, Becomes, serverVars, TypeOK,
     LinkShape, HolderKnown
<1>6. ASSUME NEW t \in Tunnels, Wakes(t) PROVE HolderKnown'
  BY <1>6, SessionAssumption DEF Wakes, Becomes, serverVars, TypeOK,
     LinkShape, HolderKnown
<1>7. ASSUME DriverStalls PROVE HolderKnown'
  BY <1>7, SessionAssumption DEF DriverStalls, clientVars, TypeOK, LinkShape,
     HolderKnown
<1>8. ASSUME NEW t \in Tunnels, ConnectFails(t) PROVE HolderKnown'
  BY <1>8, SessionAssumption DEF ConnectFails, Trouble, Becomes, serverVars,
     TypeOK, LinkShape, HolderKnown
<1>9. ASSUME NEW t \in Tunnels, Stops(t) PROVE HolderKnown'
  BY <1>9, SessionAssumption DEF Stops, Becomes, ServerLeftAlone, HangsUp, TypeOK,
     LinkShape, HolderKnown
<1>10. ASSUME NEW t \in Tunnels, Starts(t) PROVE HolderKnown'
  BY <1>10, SessionAssumption DEF Starts, Trouble, Becomes, serverVars,
     TypeOK, LinkShape, HolderKnown
<1>11. ASSUME NEW t \in Tunnels, Answers(t) PROVE HolderKnown'
  BY <1>11, SessionAssumption DEF Answers, clientVars, serverVars, TypeOK,
     LinkShape, HolderKnown
<1>12. ASSUME NEW t \in Tunnels, Registers(t) PROVE HolderKnown'
  BY <1>12, SessionAssumption DEF Registers, clientVars, TypeOK, LinkShape,
     HolderKnown
<1>13. ASSUME NEW t \in Tunnels, LinkLost(t) PROVE HolderKnown'
  BY <1>13, SessionAssumption DEF LinkLost, Trouble, ServerLeftAlone, clientVars,
     TypeOK, LinkShape, HolderKnown
<1>14. ASSUME NEW t \in Tunnels, GoesMute(t) PROVE HolderKnown'
  BY <1>14, SessionAssumption DEF GoesMute, Trouble, clientVars, serverVars,
     TypeOK, LinkShape, HolderKnown
<1>15. ASSUME NEW t \in Tunnels, ServiceHangs(t) PROVE HolderKnown'
  BY <1>15, SessionAssumption DEF ServiceHangs, clientVars, serverVars, TypeOK,
     LinkShape, HolderKnown
<1>16. ASSUME RegistersLate PROVE HolderKnown'
  BY <1>16, SessionAssumption DEF RegistersLate, clientVars, TypeOK,
     LinkShape, HolderKnown
<1>17. ASSUME GhostLeaves PROVE HolderKnown'
  BY <1>17, SessionAssumption DEF GhostLeaves, clientVars, TypeOK,
     LinkShape, HolderKnown
<1>18. CASE UNCHANGED vars
  BY <1>18 DEF vars, clientVars, serverVars, TypeOK, LinkShape, HolderKnown
<1> QED
  BY <1>1, <1>2, <1>3, <1>4, <1>5, <1>6, <1>7, <1>8, <1>9, <1>10, <1>11, <1>12,
     <1>13, <1>14, <1>15, <1>16, <1>17, <1>18 DEF Next, tunnel_task, server

(* What is shown follows what is done.                                      *)
LEMMA StatusStep ==
    ASSUME TypeOK, StatusShape, [Next]_vars
    PROVE  StatusShape'
<1>1. ASSUME NEW t \in Tunnels, Connects(t) PROVE StatusShape'
  BY <1>1, SessionAssumption DEF Connects, Becomes, serverVars, TypeOK,
     StatusShape
<1>2. ASSUME NEW t \in Tunnels, Authenticated(t) PROVE StatusShape'
  BY <1>2, SessionAssumption DEF Authenticated, Becomes, serverVars, TypeOK,
     StatusShape
<1>3. ASSUME NEW t \in Tunnels, AuthenticationFails(t) PROVE StatusShape'
  BY <1>3, SessionAssumption DEF AuthenticationFails, Becomes, HangsUp, serverVars,
     TypeOK, StatusShape
<1>4. ASSUME NEW t \in Tunnels, SessionEnds(t) PROVE StatusShape'
  BY <1>4, SessionAssumption DEF SessionEnds, Becomes, HangsUp, serverVars, TypeOK,
     StatusShape
<1>5. ASSUME NEW t \in Tunnels, BacksOff(t) PROVE StatusShape'
  BY <1>5, SessionAssumption DEF BacksOff, Becomes, serverVars, TypeOK,
     StatusShape
<1>6. ASSUME NEW t \in Tunnels, Wakes(t) PROVE StatusShape'
  BY <1>6, SessionAssumption DEF Wakes, Becomes, serverVars, TypeOK,
     StatusShape
<1>7. ASSUME DriverStalls PROVE StatusShape'
  BY <1>7, SessionAssumption DEF DriverStalls, clientVars, TypeOK, StatusShape
<1>8. ASSUME NEW t \in Tunnels, ConnectFails(t) PROVE StatusShape'
  BY <1>8, SessionAssumption DEF ConnectFails, Trouble, Becomes, serverVars,
     TypeOK, StatusShape
<1>9. ASSUME NEW t \in Tunnels, Stops(t) PROVE StatusShape'
  BY <1>9, SessionAssumption DEF Stops, Becomes, ServerLeftAlone, HangsUp, TypeOK,
     StatusShape
<1>10. ASSUME NEW t \in Tunnels, Starts(t) PROVE StatusShape'
  BY <1>10, SessionAssumption DEF Starts, Trouble, Becomes, serverVars,
     TypeOK, StatusShape
<1>11. ASSUME NEW t \in Tunnels, Answers(t) PROVE StatusShape'
  BY <1>11, SessionAssumption DEF Answers, clientVars, serverVars, TypeOK,
     StatusShape
<1>12. ASSUME NEW t \in Tunnels, Registers(t) PROVE StatusShape'
  BY <1>12, SessionAssumption DEF Registers, clientVars, TypeOK, StatusShape
<1>13. ASSUME NEW t \in Tunnels, LinkLost(t) PROVE StatusShape'
  BY <1>13, SessionAssumption DEF LinkLost, Trouble, ServerLeftAlone, clientVars,
     TypeOK, StatusShape
<1>14. ASSUME NEW t \in Tunnels, GoesMute(t) PROVE StatusShape'
  BY <1>14, SessionAssumption DEF GoesMute, Trouble, clientVars, serverVars,
     TypeOK, StatusShape
<1>15. ASSUME NEW t \in Tunnels, ServiceHangs(t) PROVE StatusShape'
  BY <1>15, SessionAssumption DEF ServiceHangs, clientVars, serverVars, TypeOK,
     StatusShape
<1>16. ASSUME RegistersLate PROVE StatusShape'
  BY <1>16, SessionAssumption DEF RegistersLate, clientVars, TypeOK,
     StatusShape
<1>17. ASSUME GhostLeaves PROVE StatusShape'
  BY <1>17, SessionAssumption DEF GhostLeaves, clientVars, TypeOK,
     StatusShape
<1>18. CASE UNCHANGED vars
  BY <1>18 DEF vars, clientVars, serverVars, TypeOK, StatusShape
<1> QED
  BY <1>1, <1>2, <1>3, <1>4, <1>5, <1>6, <1>7, <1>8, <1>9, <1>10, <1>11, <1>12,
     <1>13, <1>14, <1>15, <1>16, <1>17, <1>18 DEF Next, tunnel_task, server

(* The invariant holds when the tunnels are started.                        *)
LEMMA InitInv ==
    ASSUME Init
    PROVE  Inv
<1>0. stalled \in BOOLEAN
  BY Zenon DEF Init
<1>1. TypeOK
  BY <1>0, SessionAssumption DEF Init, TypeOK
<1>2. LinkShape /\ StatusShape
  BY DEF Init, LinkShape, StatusShape
<1>3. HolderKnown
  BY SessionAssumption DEF Init, HolderKnown
<1> QED
  BY <1>1, <1>2, <1>3 DEF Inv

(* The inductive invariant is one.                                          *)
THEOREM Invariance == Spec => []Inv
<1>1. Inv /\ [Next]_vars => Inv'
  BY TypeStep, LinkStep, HolderStep, StatusStep DEF Inv
<1> QED
  BY <1>1, InitInv, PTL DEF Spec

(* The variables keep their types for any tunnels and bounds: the backoff   *)
(* never leaves 1 .. MaxBackoff (tunnel_manager.rs backoff_secs).           *)
THEOREM TypeCorrect == Spec => []TypeOK
<1>1. Inv => TypeOK
  BY DEF Inv
<1> QED
  BY <1>1, Invariance, PTL

(* Traffic for the name never goes to a stopped or reconnecting tunnel      *)
(* (client.rs run_cancellable, which drops the session's connection).       *)
THEOREM RoutedHasASession == Spec => []RoutedToASession
<1>1. Inv => RoutedToASession
  BY DEF Inv, LinkShape, HolderKnown, RoutedToASession
<1> QED
  BY <1>1, Invariance, PTL

(* Connected is shown only for an accepted token (client.rs                 *)
(* run_session_with_status).                                                *)
THEOREM ShownIsAccepted == Spec => []ConnectedIsAccepted
<1>1. Inv => ConnectedIsAccepted
  BY DEF Inv, LinkShape, StatusShape, ConnectedIsAccepted
<1> QED
  BY <1>1, Invariance, PTL
=============================================================================
