----------------------------- MODULE ServerProofs -----------------------------
(***************************************************************************)
(* Proofs about ControlPlane, for every set of connections, ids and tokens, *)
(* and about Proxy on top of it, for any finite set of requests.            *)
(*                                                                          *)
(* RegistryMatchesSessions is not inductive on its own: to know that the    *)
(* unregister of c removes c's entry one must know what a session's place   *)
(* says about its claim, and to know that a routed session was admitted one *)
(* must follow the token and the reply from place to place.  SessionShape   *)
(* records that; ControlInv is the inductive invariant.                     *)
(*                                                                          *)
(* Every step of Proxy is a step of ControlPlane or leaves its variables    *)
(* alone, so ControlInv carries over.  RequestShape adds what a request's   *)
(* place says of the entry it holds: that there is one, and that its        *)
(* session is past its handshake, so that its claim and token can no longer *)
(* change.  With it the right tunnel is inductive, and so are the gauges    *)
(* once they are compared with a count that hang-ups do not leave:          *)
(* GaugesCounted.  GaugesExact follows where nobody hung up.                *)
(***************************************************************************)
EXTENDS Proxy, FiniteSetTheorems, TLAPS

Claiming == {"refusing", "granting", "registering", "serving", "leaving"}
Accepted == {"granting", "registering", "serving", "leaving"}
Told     == {"registering", "serving", "leaving"}

SessionShape ==
    \A c \in Conns :
        /\ pc[c] \in Claiming => claimed[c] \in ClientIds /\ token[c] \in Presented
        /\ pc[c] \in Accepted => validate_token(token[c])
        /\ pc[c] \in Told => reply[c] = "success"
        /\ Holding(c) => claimed[c] \notin Reserved
        /\ pc[c] = "leaving" => driver[c] = "ended"

ControlInv == TypeOK /\ SessionShape /\ RegistryMatchesSessions

-----------------------------------------------------------------------------
(* The invariant holds initially.                                           *)
LEMMA InitInv == ControlInit => ControlInv
  <1> USE ConstantsAssumption
  <1> SUFFICES ASSUME ControlInit PROVE ControlInv
    OBVIOUS
  <1>1. TypeOK
    BY DEF ControlInit, TypeOK, Places
  <1>2. SessionShape
    BY DEF ControlInit, SessionShape, Claiming, Accepted, Told, Holding
  <1>3. RegistryMatchesSessions
    BY DEF ControlInit, RegistryMatchesSessions, Holding
  <1> QED BY <1>1, <1>2, <1>3 DEF ControlInv

(* Every step of the control plane preserves the types.                     *)
LEMMA StepType == TypeOK /\ [ControlNext]_controlVars => TypeOK'
  <1> USE ConstantsAssumption DEF TypeOK, Places
  <1> SUFFICES ASSUME TypeOK, [ControlNext]_controlVars PROVE TypeOK'
    OBVIOUS
  <1>1. ASSUME NEW c \in Conns, Accept(c) PROVE TypeOK'
    BY <1>1 DEF Accept
  <1>2. ASSUME NEW c \in Conns, NEW i \in ClientIds, NEW t \in Presented,
               ReadAuthReq(c, i, t)
        PROVE  TypeOK'
    BY <1>2 DEF ReadAuthReq, metricVars
  <1>3. ASSUME NEW c \in Conns, AuthAbandoned(c) PROVE TypeOK'
    BY <1>3 DEF AuthAbandoned, metricVars
  <1>4. ASSUME NEW c \in Conns, WriteReplyFails(c) PROVE TypeOK'
    BY <1>4 DEF WriteReplyFails, metricVars
  <1>5. ASSUME NEW c \in Conns, WriteRefusal(c) PROVE TypeOK'
    BY <1>5 DEF WriteRefusal
  <1>6. ASSUME NEW c \in Conns, WriteGrant(c) PROVE TypeOK'
    BY <1>6 DEF WriteGrant, metricVars
  <1>7. ASSUME NEW c \in Conns, Register(c) PROVE TypeOK'
    BY <1>7 DEF Register, Registrable, metricVars
  <1>8. ASSUME NEW c \in Conns, RegisterRejected(c) PROVE TypeOK'
    BY <1>8 DEF RegisterRejected, metricVars
  <1>9. ASSUME NEW c \in Conns, DriverJoined(c) PROVE TypeOK'
    BY <1>9 DEF DriverJoined, metricVars
  <1>10. ASSUME NEW c \in Conns, Unregister(c) PROVE TypeOK'
    BY <1>10 DEF Unregister, metricVars
  <1>11. ASSUME NEW c \in Conns, yamux_driver(c) PROVE TypeOK'
    BY <1>11 DEF yamux_driver, DriverStalls, DriverSeesLoss, DriverGivesUp, DriverAborted,
                 DriverOutOfHandles, DriverEnds, metricVars
  <1>12. ASSUME NEW c \in Conns, ClientVanishes(c) PROVE TypeOK'
    BY <1>12 DEF ClientVanishes, metricVars
  <1>13. CASE UNCHANGED controlVars
    BY <1>13 DEF controlVars, sessionVars, metricVars
  <1> QED
    BY <1>1, <1>2, <1>3, <1>4, <1>5, <1>6, <1>7, <1>8, <1>9, <1>10, <1>11, <1>12, <1>13
       DEF ControlNext, handle_client, handler_steps

(* Every step preserves what a session's place says of its data.            *)
LEMMA StepShape == ControlInv /\ [ControlNext]_controlVars => SessionShape'
  <1> USE ConstantsAssumption
      DEF ControlInv, TypeOK, Places, SessionShape, Claiming, Accepted, Told, Holding,
          validate_token
  <1> SUFFICES ASSUME ControlInv, [ControlNext]_controlVars PROVE SessionShape'
    OBVIOUS
  <1>1. ASSUME NEW c \in Conns, Accept(c) PROVE SessionShape'
    BY <1>1 DEF Accept
  <1>2. ASSUME NEW c \in Conns, NEW i \in ClientIds, NEW t \in Presented,
               ReadAuthReq(c, i, t)
        PROVE  SessionShape'
    BY <1>2 DEF ReadAuthReq
  <1>3. ASSUME NEW c \in Conns, AuthAbandoned(c) PROVE SessionShape'
    BY <1>3 DEF AuthAbandoned
  <1>4. ASSUME NEW c \in Conns, WriteReplyFails(c) PROVE SessionShape'
    BY <1>4 DEF WriteReplyFails
  <1>5. ASSUME NEW c \in Conns, WriteRefusal(c) PROVE SessionShape'
    BY <1>5 DEF WriteRefusal
  <1>6. ASSUME NEW c \in Conns, WriteGrant(c) PROVE SessionShape'
    BY <1>6 DEF WriteGrant
  <1>7. ASSUME NEW c \in Conns, Register(c) PROVE SessionShape'
    BY <1>7 DEF Register, Registrable
  <1>8. ASSUME NEW c \in Conns, RegisterRejected(c) PROVE SessionShape'
    BY <1>8 DEF RegisterRejected
  <1>9. ASSUME NEW c \in Conns, DriverJoined(c) PROVE SessionShape'
    BY <1>9 DEF DriverJoined
  <1>10. ASSUME NEW c \in Conns, Unregister(c) PROVE SessionShape'
    BY <1>10 DEF Unregister
  <1>11. ASSUME NEW c \in Conns, yamux_driver(c) PROVE SessionShape'
    BY <1>11 DEF yamux_driver, DriverStalls, DriverSeesLoss, DriverGivesUp, DriverAborted,
                 DriverOutOfHandles, DriverEnds
  <1>12. ASSUME NEW c \in Conns, ClientVanishes(c) PROVE SessionShape'
    BY <1>12 DEF ClientVanishes
  <1>13. CASE UNCHANGED controlVars
    BY <1>13 DEF controlVars, sessionVars, metricVars
  <1> QED
    BY <1>1, <1>2, <1>3, <1>4, <1>5, <1>6, <1>7, <1>8, <1>9, <1>10, <1>11, <1>12, <1>13
       DEF ControlNext, handle_client, handler_steps

(* Every step keeps the registry equal to what the sessions hold.  Only     *)
(* Register and Unregister change the map; each needs the invariant on the  *)
(* other sessions: Register that nobody holds a vacant id, Unregister that  *)
(* the entry it removes is its own.                                         *)
LEMMA StepRegistry == ControlInv /\ [ControlNext]_controlVars => RegistryMatchesSessions'
  <1> USE ConstantsAssumption
      DEF ControlInv, TypeOK, Places, SessionShape, Claiming, Holding, RegistryMatchesSessions
  <1> SUFFICES ASSUME ControlInv, [ControlNext]_controlVars PROVE RegistryMatchesSessions'
    OBVIOUS
  <1>1. ASSUME NEW c \in Conns, Accept(c) PROVE RegistryMatchesSessions'
    BY <1>1 DEF Accept
  <1>2. ASSUME NEW c \in Conns, NEW i \in ClientIds, NEW t \in Presented,
               ReadAuthReq(c, i, t)
        PROVE  RegistryMatchesSessions'
    BY <1>2 DEF ReadAuthReq
  <1>3. ASSUME NEW c \in Conns, AuthAbandoned(c) PROVE RegistryMatchesSessions'
    BY <1>3 DEF AuthAbandoned
  <1>4. ASSUME NEW c \in Conns, WriteReplyFails(c) PROVE RegistryMatchesSessions'
    BY <1>4 DEF WriteReplyFails
  <1>5. ASSUME NEW c \in Conns, WriteRefusal(c) PROVE RegistryMatchesSessions'
    BY <1>5 DEF WriteRefusal
  <1>6. ASSUME NEW c \in Conns, WriteGrant(c) PROVE RegistryMatchesSessions'
    BY <1>6 DEF WriteGrant
  <1>7. ASSUME NEW c \in Conns, Register(c) PROVE RegistryMatchesSessions'
    <2>1. ASSUME NEW i \in ClientIds, NEW d \in Conns
          PROVE  clients'[i] = d <=> (Holding(d)' /\ claimed'[d] = i)
      <3>1. CASE i = claimed[c] BY <1>7, <3>1 DEF Register, Registrable
      <3>2. CASE i # claimed[c] BY <1>7, <3>2 DEF Register, Registrable
      <3> QED BY <3>1, <3>2
    <2> QED BY <2>1
  <1>8. ASSUME NEW c \in Conns, RegisterRejected(c) PROVE RegistryMatchesSessions'
    BY <1>8 DEF RegisterRejected
  <1>9. ASSUME NEW c \in Conns, DriverJoined(c) PROVE RegistryMatchesSessions'
    BY <1>9 DEF DriverJoined
  <1>10. ASSUME NEW c \in Conns, Unregister(c) PROVE RegistryMatchesSessions'
    <2>1. clients[claimed[c]] = c
      BY <1>10 DEF Unregister
    <2>2. ASSUME NEW i \in ClientIds, NEW d \in Conns
          PROVE  clients'[i] = d <=> (Holding(d)' /\ claimed'[d] = i)
      <3>1. CASE i = claimed[c] BY <1>10, <2>1, <3>1 DEF Unregister
      <3>2. CASE i # claimed[c] BY <1>10, <2>1, <3>2 DEF Unregister
      <3> QED BY <3>1, <3>2
    <2> QED BY <2>2
  <1>11. ASSUME NEW c \in Conns, yamux_driver(c) PROVE RegistryMatchesSessions'
    BY <1>11 DEF yamux_driver, DriverStalls, DriverSeesLoss, DriverGivesUp, DriverAborted,
                 DriverOutOfHandles, DriverEnds
  <1>12. ASSUME NEW c \in Conns, ClientVanishes(c) PROVE RegistryMatchesSessions'
    BY <1>12 DEF ClientVanishes
  <1>13. CASE UNCHANGED controlVars
    BY <1>13 DEF controlVars, sessionVars
  <1> QED
    BY <1>1, <1>2, <1>3, <1>4, <1>5, <1>6, <1>7, <1>8, <1>9, <1>10, <1>11, <1>12, <1>13
       DEF ControlNext, handle_client, handler_steps

LEMMA StepInv == ControlInv /\ [ControlNext]_controlVars => ControlInv'
  BY StepType, StepShape, StepRegistry DEF ControlInv

LEMMA Safety == ControlSpec => []ControlInv
  BY InitInv, StepInv, PTL DEF ControlSpec

-----------------------------------------------------------------------------
(* Every behaviour of the control plane keeps its types.                    *)
THEOREM TypeCorrect == ControlSpec => []TypeOK
  <1>1. ControlInv => TypeOK
    BY DEF ControlInv
  <1> QED BY <1>1, Safety, PTL

(* The registry routes an id to exactly the session that holds it.          *)
THEOREM RegistryExact == ControlSpec => []RegistryMatchesSessions
  <1>1. ControlInv => RegistryMatchesSessions
    BY DEF ControlInv
  <1> QED BY <1>1, Safety, PTL

(* Only authenticated, non-reserved sessions that were told so are routed.  *)
THEOREM RoutedAreAdmitted == ControlSpec => []OnlyAdmittedAreRouted
  <1>1. ControlInv => OnlyAdmittedAreRouted
    <2> SUFFICES ASSUME ControlInv, NEW i \in ClientIds, clients[i] # NoConn
                 PROVE  /\ i \notin Reserved
                        /\ validate_token(token[clients[i]])
                        /\ reply[clients[i]] = "success"
      BY DEF OnlyAdmittedAreRouted
    <2>1. clients[i] \in Conns
      BY DEF ControlInv, TypeOK
    <2>2. Holding(clients[i]) /\ claimed[clients[i]] = i
      BY <2>1 DEF ControlInv, RegistryMatchesSessions
    <2> QED
      BY <2>1, <2>2 DEF ControlInv, SessionShape, Accepted, Told, Holding
  <1> QED BY <1>1, Safety, PTL

EntryStep ==
    \A i \in ClientIds :
        clients[i] # NoConn /\ clients'[i] # clients[i] =>
            /\ clients'[i] = NoConn
            /\ driver[clients[i]] = "ended"

(* Only an ended driver's own handler takes an entry out of the registry.   *)
THEOREM EntriesLeaveWithTheirDriver == ControlSpec => EntryLeavesWithItsDriver
  <1>1. ControlInv /\ [ControlNext]_controlVars => [EntryStep]_controlVars
    <2> SUFFICES ASSUME ControlInv, [ControlNext]_controlVars PROVE EntryStep
      OBVIOUS
    <2> USE ConstantsAssumption DEF ControlInv, TypeOK, EntryStep
    <2>1. CASE UNCHANGED clients
      BY <2>1
    <2>2. ASSUME NEW c \in Conns, Register(c) PROVE EntryStep
      BY <2>2 DEF Register, Registrable, SessionShape, Claiming
    <2>3. ASSUME NEW c \in Conns, Unregister(c) PROVE EntryStep
      <3>1. clients[claimed[c]] = c /\ driver[c] = "ended"
        BY <2>3 DEF Unregister, SessionShape, Claiming, RegistryMatchesSessions, Holding
      <3>2. ASSUME NEW i \in ClientIds, clients'[i] # clients[i]
            PROVE  clients[i] = c /\ clients'[i] = NoConn
        BY <2>3, <3>1, <3>2 DEF Unregister
      <3> QED BY <3>1, <3>2
    <2>4. UNCHANGED clients \/ \E c \in Conns : Register(c) \/ Unregister(c)
      BY DEF ControlNext, handle_client, handler_steps, yamux_driver, Accept, ReadAuthReq,
             AuthAbandoned, WriteReplyFails, WriteRefusal, WriteGrant, RegisterRejected,
             DriverJoined, DriverStalls, DriverSeesLoss, DriverGivesUp, DriverAborted,
             DriverOutOfHandles, DriverEnds, ClientVanishes, controlVars
    <2> QED BY <2>1, <2>2, <2>3, <2>4
  <1>2. ControlSpec => [][EntryStep]_controlVars
    BY <1>1, Safety, PTL DEF ControlSpec
  <1> QED BY <1>2 DEF EntryLeavesWithItsDriver, EntryStep

-----------------------------------------------------------------------------
(* Implementation of the subdomain lease.                                   *)

LEMMA LeaseInit == ControlInit => Lease!Init
  BY DEF ControlInit, Lease!Init, leaseOf, overConns, Holding

LEMMA LeaseStep == ControlInv /\ [ControlNext]_controlVars => [Lease!Next]_(Lease!leaseVars)
  <1> SUFFICES ASSUME ControlInv, [ControlNext]_controlVars
               PROVE  Lease!Next \/ UNCHANGED Lease!leaseVars
    OBVIOUS
  <1> USE ConstantsAssumption
      DEF ControlInv, TypeOK, Places, SessionShape, Claiming, Holding,
          Lease!leaseVars, leaseOf, overConns
  <1>1. ASSUME NEW c \in Conns, pc[c] \notin {"serving", "leaving"},
               pc[c] # "closed",
               pc' = [pc EXCEPT ![c] = "closed"],
               claimed' = claimed
        PROVE  Lease!End(c)
    BY <1>1 DEF Lease!End
  <1>2. ASSUME NEW c \in Conns, Register(c)
        PROVE  \E i \in ClientIds : Lease!Grant(c, i)
    <2>1. \A d \in Conns : leaseOf[d] # claimed[c]
      BY <1>2 DEF Register, Registrable, RegistryMatchesSessions
    <2>2. leaseOf' = [leaseOf EXCEPT ![c] = claimed[c]]
      BY <1>2 DEF Register
    <2>3. Lease!Grant(c, claimed[c])
      BY <1>2, <2>1, <2>2 DEF Register, Registrable, Lease!Grant
    <2>4. claimed[c] \in ClientIds
      BY <1>2 DEF Register
    <2> HIDE DEF leaseOf, overConns
    <2> QED BY <2>3, <2>4, Zenon
  <1>3. ASSUME NEW c \in Conns, Unregister(c) PROVE Lease!End(c)
    BY <1>3 DEF Unregister, Lease!End
  <1>4. ASSUME NEW c \in Conns,
               Accept(c) \/ WriteGrant(c) \/ DriverJoined(c)
        PROVE  UNCHANGED Lease!leaseVars
    BY <1>4 DEF Accept, WriteGrant, DriverJoined
  <1>5. ASSUME NEW c \in Conns, NEW i \in ClientIds, NEW t \in Presented,
               ReadAuthReq(c, i, t)
        PROVE  UNCHANGED Lease!leaseVars
    BY <1>5 DEF ReadAuthReq
  <1>6. ASSUME NEW c \in Conns,
               AuthAbandoned(c) \/ WriteReplyFails(c) \/ WriteRefusal(c) \/ RegisterRejected(c)
        PROVE  Lease!End(c)
    BY <1>1, <1>6 DEF AuthAbandoned, WriteReplyFails, WriteRefusal, RegisterRejected
  <1>7. ASSUME NEW c \in Conns, yamux_driver(c) \/ ClientVanishes(c)
        PROVE  UNCHANGED Lease!leaseVars
    BY <1>7 DEF yamux_driver, DriverStalls, DriverSeesLoss, DriverGivesUp, DriverAborted,
                DriverOutOfHandles, DriverEnds, ClientVanishes
  <1>8. CASE UNCHANGED controlVars
    BY <1>8 DEF controlVars, sessionVars
  <1> QED
    BY <1>2, <1>3, <1>4, <1>5, <1>6, <1>7, <1>8
       DEF ControlNext, handle_client, handler_steps, Lease!Next

(* The control plane implements the subdomain lease: every grant in the     *)
(* abstraction is a register, every end a session that returned.            *)
THEOREM LeaseImplemented == ControlSpec => ImplementsLease
  <1>1. ControlSpec => Lease!Init
    BY LeaseInit DEF ControlSpec
  <1>2. ControlSpec => [][Lease!Next]_(Lease!leaseVars)
    BY LeaseStep, Safety, PTL DEF ControlSpec
  <1> QED BY <1>1, <1>2 DEF ImplementsLease, Lease!Spec

-----------------------------------------------------------------------------
(* The proxy.                                                               *)

(* Requests that incremented the gauges of c and have not decremented them, *)
(* those a hang-up cut short included.                                      *)
CountedOn(c) == {r \in Requests : rpc[r] \in InFlight \cup {"dropped"} /\ entry[r] = c}

Counted == {r \in Requests : rpc[r] \in InFlight \cup {"dropped"}}

GaugesCounted ==
    /\ activeConnections = Cardinality(Counted)
    /\ \A c \in Conns : activeStreams[c] = Cardinality(CountedOn(c))

Holds == InFlight \cup {"counting", "dropped"}

RequestShape ==
    \A r \in Requests :
        /\ rpc[r] \in Holds => entry[r] # NoConn
        /\ rpc[r] = "lookup" => target[r] \in ClientIds
        /\ rpc[r] \in {"new", "lookup"} => entry[r] = NoConn
        /\ entry[r] # NoConn => pc[entry[r]] \in {"serving", "leaving", "closed"}

ProxyInv == ControlInv /\ ProxyTypeOK /\ RequestShape /\ GaugesCounted /\ RightTunnel

-----------------------------------------------------------------------------
(* Each gauge counts a finite set of requests.                              *)
LEMMA CountedFinite ==
    /\ IsFiniteSet(Counted)
    /\ \A c \in Conns : IsFiniteSet(CountedOn(c))
  BY RequestsFinite, FS_Subset DEF Counted, CountedOn

LEMMA ProxyInitInv == ProxyInit => ProxyInv
  <1> USE ConstantsAssumption
  <1> SUFFICES ASSUME ProxyInit PROVE ProxyInv
    OBVIOUS
  <1>1. ControlInv
    BY InitInv DEF ProxyInit
  <1>2. ProxyTypeOK
    BY DEF ProxyInit, ProxyTypeOK
  <1>3. RequestShape
    BY DEF ProxyInit, RequestShape, Holds, InFlight
  <1>4. GaugesCounted
    <2>1. Counted = {} /\ \A c \in Conns : CountedOn(c) = {}
      BY DEF ProxyInit, Counted, CountedOn, InFlight
    <2> QED BY <2>1, FS_EmptySet DEF ProxyInit, GaugesCounted
  <1>5. RightTunnel
    BY DEF ProxyInit, RightTunnel
  <1> QED BY <1>1, <1>2, <1>3, <1>4, <1>5 DEF ProxyInv

(* Every step of the proxy is one of the control plane, or none of it.      *)
LEMMA ProxyStepIsControlStep == [ProxyNext]_vars => [ControlNext]_controlVars
  BY DEF ProxyNext, vars

(* A gauge goes up by one with a request that starts being counted on c.    *)
LEMMA GaugesUp ==
    ASSUME ProxyInv, NEW r \in Requests, entry[r] \in Conns,
           rpc[r] \notin InFlight \cup {"dropped"},
           NEW place \in InFlight \cup {"dropped"},
           rpc' = [rpc EXCEPT ![r] = place], entry' = entry,
           activeConnections' = activeConnections + 1,
           activeStreams' = [activeStreams EXCEPT ![entry[r]] = @ + 1]
    PROVE  GaugesCounted'
  <1> USE DEF ProxyInv, ProxyTypeOK
  <1>1. Counted' = Counted \cup {r} /\ r \notin Counted
    BY DEF Counted
  <1>2. ASSUME NEW c \in Conns
        PROVE  CountedOn(c)' = IF c = entry[r] THEN CountedOn(c) \cup {r} ELSE CountedOn(c)
    BY DEF CountedOn
  <1>3. \A c \in Conns : r \notin CountedOn(c)
    BY DEF CountedOn
  <1>4. activeConnections' = Cardinality(Counted')
    BY <1>1, CountedFinite, FS_AddElement DEF GaugesCounted
  <1>5. ASSUME NEW c \in Conns PROVE activeStreams'[c] = Cardinality(CountedOn(c)')
    <2>1. CASE c = entry[r]
      <3>1. Cardinality(CountedOn(c) \cup {r}) = Cardinality(CountedOn(c)) + 1
        BY <1>3, CountedFinite, FS_AddElement
      <3>2. CountedOn(c)' = CountedOn(c) \cup {r}
        BY <1>2, <2>1
      <3> QED BY <2>1, <3>1, <3>2 DEF GaugesCounted
    <2>2. CASE c # entry[r]
      <3>1. activeStreams'[c] = activeStreams[c]
        BY <2>2
      <3>2. CountedOn(c)' = CountedOn(c)
        BY <1>2, <2>2
      <3> QED BY <3>1, <3>2 DEF GaugesCounted
    <2> QED BY <2>1, <2>2
  <1> QED BY <1>4, <1>5 DEF GaugesCounted

(* A gauge goes down by one, and was positive, with a request that stops    *)
(* being counted.                                                           *)
LEMMA GaugesDown ==
    ASSUME ProxyInv, NEW r \in Requests, rpc[r] \in InFlight \cup {"dropped"},
           NEW place, place \notin InFlight \cup {"dropped"},
           rpc' = [rpc EXCEPT ![r] = place], entry' = entry,
           Release(entry[r])
    PROVE  /\ GaugesCounted'
           /\ activeConnections - 1 \in Nat
           /\ activeStreams[entry[r]] - 1 \in Nat
  <1> USE DEF ProxyInv, ProxyTypeOK
  <1>0. entry[r] \in Conns
    BY DEF RequestShape, Holds
  <1>1. Counted' = Counted \ {r} /\ r \in Counted
    BY DEF Counted
  <1>2. ASSUME NEW c \in Conns
        PROVE  CountedOn(c)' = IF c = entry[r] THEN CountedOn(c) \ {r} ELSE CountedOn(c)
    BY DEF CountedOn
  <1>3. r \in CountedOn(entry[r])
    BY DEF CountedOn
  <1>4. activeConnections' = Cardinality(Counted') /\ activeConnections' \in Nat
    <2>1. Cardinality(Counted \ {r}) = Cardinality(Counted) - 1
      BY <1>1, CountedFinite, FS_RemoveElement
    <2>2. Cardinality(Counted') \in Nat
      BY <1>1, CountedFinite, FS_RemoveElement, FS_CardinalityType
    <2> QED BY <1>1, <2>1, <2>2 DEF GaugesCounted, Release
  <1>5. ASSUME NEW c \in Conns
        PROVE  activeStreams'[c] = Cardinality(CountedOn(c)') /\ activeStreams'[c] \in Nat
    <2>1. CASE c = entry[r]
      <3>1. Cardinality(CountedOn(c) \ {r}) = Cardinality(CountedOn(c)) - 1
        BY <1>3, <2>1, CountedFinite, FS_RemoveElement
      <3>2. Cardinality(CountedOn(c)') \in Nat
        BY <1>2, <2>1, CountedFinite, FS_RemoveElement, FS_CardinalityType
      <3> QED BY <1>2, <2>1, <3>1, <3>2 DEF GaugesCounted, Release
    <2>2. CASE c # entry[r]
      BY <1>2, <2>2 DEF GaugesCounted, Release
    <2> QED BY <2>1, <2>2
  <1> QED BY <1>0, <1>4, <1>5 DEF GaugesCounted, Release

(* A step that leaves a request's being counted alone, leaves the gauges    *)
(* exact.                                                                   *)
LEMMA GaugesSame ==
    ASSUME ProxyInv, UNCHANGED gaugeVars,
           \A r \in Requests :
              /\ rpc'[r] \in InFlight \cup {"dropped"} <=> rpc[r] \in InFlight \cup {"dropped"}
              /\ rpc[r] \in InFlight \cup {"dropped"} => entry'[r] = entry[r]
    PROVE  GaugesCounted'
  <1>1. Counted' = Counted
    BY DEF Counted
  <1>2. \A c \in Conns : CountedOn(c)' = CountedOn(c)
    BY DEF CountedOn
  <1> QED BY <1>1, <1>2 DEF ProxyInv, GaugesCounted, gaugeVars

-----------------------------------------------------------------------------
(* A control-plane step: the claim of a session past its handshake stays.   *)
LEMMA ControlStep ==
    ASSUME ProxyInv, ControlNext, UNCHANGED proxyVars
    PROVE  ProxyTypeOK' /\ RequestShape' /\ GaugesCounted' /\ RightTunnel'
  <1> USE DEF proxyVars, requestVars, gaugeVars, counterVars
  <1>1. ProxyTypeOK'
    BY DEF ProxyInv, ProxyTypeOK
  <1>2. GaugesCounted'
    BY GaugesSame
  <1>3. ASSUME NEW c \in Conns, pc[c] \in {"serving", "leaving", "closed"}
        PROVE  /\ pc'[c] \in {"serving", "leaving", "closed"}
               /\ claimed'[c] = claimed[c]
               /\ token'[c] = token[c]
    BY <1>3 DEF ProxyInv, ControlInv, TypeOK, Places,
           ControlNext, handle_client, handler_steps, yamux_driver, Accept, ReadAuthReq,
           AuthAbandoned, WriteReplyFails, WriteRefusal, WriteGrant, Register, RegisterRejected,
           DriverJoined, Unregister, DriverStalls, DriverSeesLoss, DriverGivesUp, DriverAborted,
           DriverOutOfHandles, DriverEnds, ClientVanishes
  <1>4. RequestShape'
    BY <1>3 DEF ProxyInv, ProxyTypeOK, RequestShape
  <1>5. RightTunnel'
    BY <1>3 DEF ProxyInv, ProxyTypeOK, RequestShape, RightTunnel, validate_token
  <1> QED BY <1>1, <1>2, <1>4, <1>5

(* A request's step: one case per place of the task.                        *)
LEMMA RequestStep ==
    ASSUME ProxyInv, NEW r \in Requests, handle_proxy_request(r), UNCHANGED controlVars
    PROVE  ProxyTypeOK' /\ RequestShape' /\ GaugesCounted' /\ RightTunnel'
  <1> USE DEF requestVars, gaugeVars, counterVars, controlVars, sessionVars, MoveTo, Answer
  <1>0. /\ ProxyTypeOK /\ RequestShape /\ GaugesCounted /\ RightTunnel
        /\ ControlInv
    BY DEF ProxyInv
  (* Arrivals: the request held nothing and holds nothing.                  *)
  <1>1. ASSUME ArriveUnrouted(r) \/ \E i \in ClientIds : ArriveRouted(r, i) \/ ArriveLimited(r, i)
        PROVE  ProxyTypeOK' /\ RequestShape' /\ GaugesCounted' /\ RightTunnel'
    <2> USE DEF ArriveUnrouted, ArriveRouted, ArriveLimited
    <2>1. ProxyTypeOK'
      BY <1>0, <1>1 DEF ProxyTypeOK
    <2>2. GaugesCounted'
      BY <1>0, <1>1, GaugesSame DEF ProxyTypeOK, InFlight
    <2>3. RequestShape' /\ RightTunnel'
      BY <1>0, <1>1 DEF ProxyTypeOK, RequestShape, RightTunnel, Holds, InFlight, validate_token
    <2> QED BY <2>1, <2>2, <2>3
  <1>2. CASE LookupFails(r)
    <2> USE DEF LookupFails
    <2>1. ProxyTypeOK'
      BY <1>0, <1>2 DEF ProxyTypeOK
    <2>2. GaugesCounted'
      BY <1>0, <1>2, GaugesSame DEF ProxyTypeOK, InFlight
    <2>3. RequestShape' /\ RightTunnel'
      BY <1>0, <1>2 DEF ProxyTypeOK, RequestShape, RightTunnel, Holds, InFlight, validate_token
    <2> QED BY <2>1, <2>2, <2>3
  (* Lookup: the registry's entry is the session that holds the id.         *)
  <1>3. CASE Lookup(r)
    <2> USE DEF Lookup
    <2> DEFINE c == clients[target[r]]
    <2>1. target[r] \in ClientIds /\ c \in Conns
      BY <1>0, <1>3 DEF RequestShape, ControlInv, TypeOK
    <2>2. Holding(c) /\ claimed[c] = target[r]
      BY <1>0, <2>1 DEF ControlInv, RegistryMatchesSessions
    <2>3. pc[c] \in {"serving", "leaving"} /\ validate_token(token[c]) /\ claimed[c] \notin Reserved
      BY <1>0, <2>1, <2>2 DEF ControlInv, SessionShape, Accepted, Holding
    <2>4. ProxyTypeOK'
      BY <1>0, <1>3, <2>1 DEF ProxyTypeOK
    <2>5. GaugesCounted'
      BY <1>0, <1>3, GaugesSame DEF ProxyTypeOK, InFlight
    <2>6. entry' = [entry EXCEPT ![r] = c]
      BY <1>3
    <2>7. RequestShape'
      BY <1>0, <1>3, <2>1, <2>3, <2>6, ConstantsAssumption
         DEF ProxyTypeOK, RequestShape, Holds, InFlight
    <2>8. RightTunnel'
      BY <1>0, <1>3, <2>2, <2>3, <2>6 DEF ProxyTypeOK, RightTunnel, validate_token
    <2> QED BY <2>4, <2>5, <2>7, <2>8
  <1>4. CASE Count(r)
    <2> USE DEF Count
    <2>1. entry[r] \in Conns
      BY <1>0, <1>4 DEF ProxyTypeOK, RequestShape, Holds
    <2>2. ProxyTypeOK'
      BY <1>0, <1>4, <2>1 DEF ProxyTypeOK, InFlight
    <2>3. GaugesCounted'
      BY <1>4, <2>1, GaugesUp DEF InFlight
    <2>4. RequestShape' /\ RightTunnel'
      BY <1>0, <1>4 DEF ProxyTypeOK, RequestShape, RightTunnel, Holds, InFlight, validate_token
    <2> QED BY <2>2, <2>3, <2>4
  (* In flight before and after, or hung up.                                *)
  <1>5. CASE OpenStream(r) \/ Prepare(r) \/ HangUp(r)
    <2> USE DEF OpenStream, Prepare, HangUp
    <2>1. ProxyTypeOK'
      BY <1>0, <1>5 DEF ProxyTypeOK, InFlight
    <2>2. GaugesCounted'
      BY <1>0, <1>5, GaugesSame DEF ProxyTypeOK, InFlight
    <2>3. RequestShape' /\ RightTunnel'
      BY <1>0, <1>5 DEF ProxyTypeOK, RequestShape, RightTunnel, Holds, InFlight, validate_token
    <2> QED BY <2>1, <2>2, <2>3
  (* The ways out that give the gauges back.                                *)
  <1>6. CASE BuildFails(r) \/ Respond(r) \/ TunnelFails(r)
    <2> USE DEF BuildFails, Respond, TunnelFails
    <2>1. /\ GaugesCounted'
          /\ activeConnections - 1 \in Nat
          /\ activeStreams[entry[r]] - 1 \in Nat
      BY <1>6, GaugesDown DEF InFlight
    <2>2. ProxyTypeOK'
      BY <1>0, <1>6, <2>1 DEF ProxyTypeOK, Release
    <2>3. RequestShape' /\ RightTunnel'
      BY <1>0, <1>6 DEF ProxyTypeOK, RequestShape, RightTunnel, Holds, InFlight, validate_token
    <2> QED BY <2>1, <2>2, <2>3
  <1> QED
    BY <1>1, <1>2, <1>3, <1>4, <1>5, <1>6 DEF handle_proxy_request

LEMMA ProxyStepInv == ProxyInv /\ [ProxyNext]_vars => ProxyInv'
  <1> SUFFICES ASSUME ProxyInv, [ProxyNext]_vars PROVE ProxyInv'
    OBVIOUS
  <1>1. ControlInv'
    BY ProxyStepIsControlStep, StepInv DEF ProxyInv
  <1>2. CASE ControlNext /\ UNCHANGED proxyVars
    BY <1>1, <1>2, ControlStep DEF ProxyInv
  <1>3. ASSUME NEW r \in Requests, handle_proxy_request(r), UNCHANGED controlVars
        PROVE  ProxyInv'
    BY <1>1, <1>3, RequestStep DEF ProxyInv
  <1>4. CASE UNCHANGED vars
    <2>1. UNCHANGED <<pc, claimed, token, rpc, target, entry, status, activeConnections,
                      activeStreams, totalRequests, rateLimited, requests>>
      BY <1>4 DEF vars, controlVars, sessionVars, proxyVars, requestVars, gaugeVars, counterVars
    <2>2. ProxyTypeOK' /\ RequestShape' /\ RightTunnel'
      BY <2>1 DEF ProxyInv, ProxyTypeOK, RequestShape, RightTunnel, validate_token
    <2>3. GaugesCounted'
      BY <2>1, GaugesSame DEF gaugeVars
    <2> QED BY <1>1, <2>2, <2>3 DEF ProxyInv
  <1> QED BY <1>2, <1>3, <1>4 DEF ProxyNext

LEMMA ProxySafety == ProxySpec => []ProxyInv
  BY ProxyInitInv, ProxyStepInv, PTL DEF ProxySpec

-----------------------------------------------------------------------------
(* The proxy keeps its types; the gauges in particular never go below zero. *)
THEOREM ProxyTypeCorrect == ProxySpec => []ProxyTypeOK
  <1>1. ProxyInv => ProxyTypeOK
    BY DEF ProxyInv
  <1> QED BY <1>1, ProxySafety, PTL

(* Each gauge is the number of requests in flight there, as long as no      *)
(* public client hung up: every answer releases what was counted, once.     *)
THEOREM GaugesAreExact == ProxySpec => []GaugesExact
  <1>1. ProxyInv => GaugesExact
    <2> SUFFICES ASSUME ProxyInv PROVE GaugesExact
      OBVIOUS
    <2>1. ASSUME HungUp = {} PROVE activeConnections = Cardinality(LiveRequests)
      <3>1. Counted = LiveRequests
        BY <2>1 DEF HungUp, Counted, LiveRequests
      <3> QED BY <3>1 DEF ProxyInv, GaugesCounted
    <2>2. ASSUME NEW c \in Conns, \A r \in HungUp : entry[r] # c
          PROVE  activeStreams[c] = Cardinality(LiveOn(c))
      <3>1. CountedOn(c) = LiveOn(c)
        BY <2>2 DEF HungUp, CountedOn, LiveOn, LiveRequests
      <3> QED BY <3>1 DEF ProxyInv, GaugesCounted
    <2> QED BY <2>1, <2>2 DEF GaugesExact
  <1> QED BY <1>1, ProxySafety, PTL

(* A request only travels over a connection admitted under its subdomain.   *)
THEOREM RequestsStayInTheirTunnel == ProxySpec => []RightTunnel
  <1>1. ProxyInv => RightTunnel
    BY DEF ProxyInv
  <1> QED BY <1>1, ProxySafety, PTL

(* Serving requests does not disturb the subdomains: with the proxy beside  *)
(* them the sessions still implement the lease (proxy.rs only reads the     *)
(* registry and keeps the entries it found).                                *)
THEOREM LeaseImplementedWithProxy == ProxySpec => ImplementsLease
  <1>1. ProxySpec => Lease!Init
    BY LeaseInit DEF ProxySpec, ProxyInit
  <1>2. ProxyInv /\ [ProxyNext]_vars => [Lease!Next]_(Lease!leaseVars)
    BY LeaseStep, ProxyStepIsControlStep DEF ProxyInv
  <1>3. ProxySpec => [][Lease!Next]_(Lease!leaseVars)
    BY <1>2, ProxySafety, PTL DEF ProxySpec
  <1> QED BY <1>1, <1>3 DEF ImplementsLease, Lease!Spec
=============================================================================
