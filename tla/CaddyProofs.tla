----------------------------- MODULE CaddyProofs -----------------------------
(* Type correctness of Caddy for any servers, and ChainKept for one server, *)
(* with any number of other applications, replacements and faults.          *)
EXTENDS Caddy, TLAPS

(* The watchdog runs beside the main task only after register.              *)
WatchAfterRegister ==
    \A s \in Servers :
        main[s] \in {"down", "stopped", "reading", "setting"} => watch[s] = "off"

(* What the watchdog is about to save is another's endpoint.                *)
LockingHasSeen ==
    \A s \in Servers : watch[s] = "locking" => seen[s] \notin {s, NoEndpoint, Failed}

TypeInv == TypeOK /\ WatchAfterRegister /\ LockingHasSeen

(* A server about to set its endpoint remembers what it read, and nobody    *)
(* sets its endpoint but the PATCH in flight; the fallback and the watchdog *)
(* go with the manager.                                                     *)
Bookkeeping ==
    \A s \in Servers :
        /\ main[s] = "setting" /\ seen[s] \in Apps => fallback[s] = seen[s]
        /\ watch[s] = "setting" /\ seen[s] \in Apps => fallback[s] = seen[s]
        /\ watch[s] \in {"locking", "setting"} => endpoint # s
        /\ watch[s] # "off" => kept[s]
        /\ main[s] = "serving" /\ ~ kept[s] => fallback[s] = NoEndpoint

ChainInv == TypeInv /\ Bookkeeping /\ ChainKept

OneServer == \A s, t \in Servers : s = t

-----------------------------------------------------------------------------
(* The answers of the admin API keep the fault counter in its bound.        *)
LEMMA RequestTypes ==
    ASSUME TypeOK,
           \/ \E r \in Endpoints \cup {Failed} : http_get(r)
           \/ \E after, value \in Endpoints, ok \in BOOLEAN : http_patch(after, value, ok)
    PROVE  faults' \in 0..MaxFaults
  BY CaddyAssumption DEF TypeOK, http_get, http_patch

(* The end of a process keeps the types.                                    *)
LEMMA ExitTypes ==
    ASSUME TypeInv, NEW s \in Servers, NEW how \in {"down", "stopped"},
           Exit(s, how), endpoint' \in Endpoints, broken' \in BOOLEAN,
           wanted' = wanted, sets' = sets, faults' \in 0..MaxFaults
    PROVE  TypeInv'
<1>1. TypeOK'
  BY CaddyAssumption DEF TypeInv, TypeOK, Exit, NoAsk, Endpoints
<1>2. WatchAfterRegister' /\ LockingHasSeen'
  BY DEF TypeInv, TypeOK, Exit, WatchAfterRegister, LockingHasSeen
<1>3. QED
  BY <1>1, <1>2 DEF TypeInv

(* Types are kept by every step.                                            *)
LEMMA TypeInvKept ==
    ASSUME TypeInv, [Next]_vars
    PROVE  TypeInv'
<1> USE CaddyAssumption
<1>1. ASSUME NEW s \in Servers, Start(s)  PROVE TypeInv'
  BY <1>1 DEF TypeInv, TypeOK, WatchAfterRegister, LockingHasSeen, Start, Up, historyVars, boundVars
<1>2. ASSUME NEW s \in Servers, RegisterRead(s)  PROVE TypeInv'
  <2>1. PICK r \in Endpoints \cup {Failed} :
          /\ http_get(r)
          /\ seen' = [seen EXCEPT ![s] = r]
          /\ fallback' = [fallback EXCEPT ![s] = IF r \in {s, NoEndpoint, Failed} THEN @ ELSE r]
    BY <1>2 DEF RegisterRead
  <2>2. faults' \in 0..MaxFaults
    BY <2>1, RequestTypes DEF TypeInv
  <2>3. QED
    BY <1>2, <2>1, <2>2 DEF TypeInv, TypeOK, WatchAfterRegister, LockingHasSeen, RegisterRead, historyVars
<1>3. ASSUME NEW s \in Servers, RegisterSet(s)  PROVE TypeInv'
  <2>1. PICK ok \in BOOLEAN, after \in Endpoints :
          /\ http_patch(after, s, ok)
          /\ endpoint' = after
          /\ kept' = [kept EXCEPT ![s] = ok]
          /\ fallback' = [fallback EXCEPT ![s] = IF ok THEN @ ELSE NoEndpoint]
          /\ watch' = [watch EXCEPT ![s] = IF ok THEN "sleeping" ELSE "off"]
          /\ broken' = (broken \/ Blind(after, seen[s]) \/ (~ ok /\ after = s))
    BY <1>3 DEF RegisterSet
  <2>2. faults' \in 0..MaxFaults
    <3>1. s \in Endpoints
      BY DEF Endpoints
    <3>2. QED
      BY <2>1, <3>1, RequestTypes DEF TypeInv
  <2>3. broken' \in BOOLEAN
    BY <2>1
  <2>4. QED
    BY <1>3, <2>1, <2>2, <2>3 DEF TypeInv, TypeOK, WatchAfterRegister, LockingHasSeen, RegisterSet, Endpoints
<1>4. ASSUME NEW s \in Servers, WatchdogRead(s)  PROVE TypeInv'
  <2>1. PICK r \in Endpoints \cup {Failed} :
          /\ http_get(r)
          /\ seen' = [seen EXCEPT ![s] = r]
          /\ watch' = [watch EXCEPT ![s] = CASE r \in {s, Failed} -> "sleeping"
                                             [] r = NoEndpoint    -> "setting"
                                             [] OTHER             -> "locking"]
    BY <1>4 DEF WatchdogRead
  <2>2. faults' \in 0..MaxFaults
    BY <2>1, RequestTypes DEF TypeInv
  <2>3. s # NoEndpoint
    OBVIOUS
  <2>4. /\ watch' \in [Servers -> {"off", "sleeping", "locking", "setting"}]
        /\ \A t \in Servers : t # s => watch'[t] = watch[t] /\ seen'[t] = seen[t]
        /\ watch'[s] = "locking" => seen'[s] \notin {s, NoEndpoint, Failed}
    BY <2>1, <2>3 DEF TypeInv, TypeOK, Endpoints
  <2>5. main[s] \notin {"down", "stopped", "reading", "setting"}
    BY <1>4 DEF TypeInv, TypeOK, WatchAfterRegister, WatchdogRead
  <2>6. QED
    BY <1>4, <2>1, <2>2, <2>4, <2>5
    DEF TypeInv, TypeOK, WatchAfterRegister, LockingHasSeen, WatchdogRead, historyVars
<1>5. ASSUME NEW s \in Servers, WatchdogSave(s)  PROVE TypeInv'
  <2>1. seen[s] \in Endpoints /\ seen[s] # s
    BY <1>5 DEF TypeInv, TypeOK, LockingHasSeen, WatchdogSave
  <2>2. ask' \in [Asks -> [server : Servers, place : {"queued", "calling", "stalled"}] \cup {NoAsk}]
    BY <1>5 DEF TypeInv, TypeOK, WatchdogSave, Granted, NoAsk
  <2>3. main[s] \notin {"down", "stopped", "reading", "setting"}
    BY <1>5 DEF TypeInv, TypeOK, WatchAfterRegister, WatchdogSave
  <2>4. QED
    BY <1>5, <2>1, <2>2, <2>3
    DEF TypeInv, TypeOK, WatchAfterRegister, LockingHasSeen, WatchdogSave, Granted, historyVars, boundVars
<1>6. ASSUME NEW s \in Servers, WatchdogSet(s)  PROVE TypeInv'
  <2>1. PICK ok \in BOOLEAN, after \in Endpoints :
          /\ http_patch(after, s, ok)
          /\ endpoint' = after
          /\ broken' = (broken \/ Blind(after, seen[s]))
    BY <1>6 DEF WatchdogSet
  <2>2. faults' \in 0..MaxFaults
    <3>1. s \in Endpoints
      BY DEF Endpoints
    <3>2. QED
      BY <2>1, <3>1, RequestTypes DEF TypeInv
  <2>3. main[s] \notin {"down", "stopped", "reading", "setting"}
    BY <1>6 DEF TypeInv, TypeOK, WatchAfterRegister, WatchdogSet
  <2>4. broken' \in BOOLEAN
    BY <2>1
  <2>5. QED
    BY <1>6, <2>1, <2>2, <2>3, <2>4 DEF TypeInv, TypeOK, WatchAfterRegister, LockingHasSeen, WatchdogSet
<1>7. ASSUME NEW s \in Servers, Shutdown(s)  PROVE TypeInv'
  <2>1. CASE Exit(s, "down") /\ endpoint' \in {endpoint, s} /\ broken' = (broken \/ endpoint' # endpoint)
    <3>1. endpoint' \in Endpoints /\ broken' \in BOOLEAN
      BY <2>1 DEF TypeInv, TypeOK, Endpoints
    <3>2. wanted' = wanted /\ sets' = sets /\ faults' \in 0..MaxFaults
      BY <1>7 DEF TypeInv, TypeOK, Shutdown, boundVars
    <3>3. QED
      BY <2>1, <3>1, <3>2, ExitTypes
  <2>2. CASE /\ main' = [main EXCEPT ![s] = IF watch[s] = "locking" THEN "queued" ELSE "restoring"]
             /\ UNCHANGED <<endpoint, kept, fallback, watch, seen, ask, broken>>
    BY <1>7, <2>2 DEF TypeInv, TypeOK, WatchAfterRegister, LockingHasSeen, Shutdown, boundVars
  <2>3. QED
    BY <1>7, <2>1, <2>2 DEF Shutdown
<1>8. ASSUME NEW s \in Servers, Restore(s)  PROVE TypeInv'
  <2>1. PICK ok \in BOOLEAN, after \in Endpoints :
          /\ http_patch(after, fallback[s], ok)
          /\ endpoint' \in {after} \cup (IF watch[s] = "setting" THEN {s} ELSE {})
          /\ broken' = (broken \/ Blind(after, s) \/ ~ ok \/ watch[s] = "setting")
          /\ Exit(s, IF ok THEN "stopped" ELSE "down")
    BY <1>8 DEF Restore
  <2>2. faults' \in 0..MaxFaults
    <3>1. fallback[s] \in Endpoints
      BY DEF TypeInv, TypeOK
    <3>2. QED
      BY <2>1, <3>1, RequestTypes DEF TypeInv
  <2>3. endpoint' \in Endpoints /\ broken' \in BOOLEAN
    BY <2>1 DEF Endpoints
  <2>4. wanted' = wanted /\ sets' = sets
    BY <1>8 DEF Restore
  <2>5. QED
    BY <2>1, <2>2, <2>3, <2>4, ExitTypes
<1>9. ASSUME NEW s \in Servers, Die(s)  PROVE TypeInv'
  <2>1. endpoint' \in Endpoints
    BY <1>9 DEF TypeInv, TypeOK, Die, Endpoints
  <2>2. broken' \in BOOLEAN
    BY <1>9 DEF Die
  <2>3. wanted' = wanted /\ sets' = sets /\ faults' \in 0..MaxFaults /\ Exit(s, "down")
    BY <1>9 DEF TypeInv, TypeOK, Die, boundVars
  <2>4. QED
    BY <2>1, <2>2, <2>3, ExitTypes
<1>10. ASSUME NEW a \in Apps, AppSets(a)  PROVE TypeInv'
  <2>1. sets' \in 0..MaxSets
    BY <1>10 DEF TypeInv, TypeOK, AppSets
  <2>2. endpoint' \in Endpoints /\ wanted' \in Apps \cup {NoEndpoint} /\ broken' \in BOOLEAN
    BY <1>10 DEF AppSets, Endpoints
  <2>3. UNCHANGED <<main, kept, fallback, watch, seen, ask, faults>>
    BY <1>10 DEF AppSets, serverVars
  <2>4. QED
    BY <2>1, <2>2, <2>3 DEF TypeInv, TypeOK, WatchAfterRegister, LockingHasSeen
<1>11. ASSUME NEW s \in Servers, NEW k \in Asks, AskArrives(s, k)  PROVE TypeInv'
  <2>1. ask' \in [Asks -> [server : Servers, place : {"queued", "calling", "stalled"}] \cup {NoAsk}]
    BY <1>11 DEF TypeInv, TypeOK, AskArrives
  <2>2. QED
    BY <1>11, <2>1 DEF TypeInv, TypeOK, WatchAfterRegister, LockingHasSeen, AskArrives, serverVars,
                       historyVars, boundVars
<1>12. ASSUME NEW k \in Asks, AskReturns(k) \/ AskStalls(k) \/ AskDropped(k)  PROVE TypeInv'
  <2>1. ask' \in [Asks -> [server : Servers, place : {"queued", "calling", "stalled"}] \cup {NoAsk}]
    BY <1>12 DEF TypeInv, TypeOK, AskReturns, AskStalls, AskDropped, NoAsk
  <2>2. UNCHANGED <<endpoint, serverVars, historyVars, boundVars>>
    BY <1>12 DEF AskReturns, AskStalls, AskDropped
  <2>3. QED
    BY <2>1, <2>2 DEF TypeInv, TypeOK, WatchAfterRegister, LockingHasSeen, serverVars, historyVars, boundVars
<1>13. ASSUME UNCHANGED vars  PROVE TypeInv'
  BY <1>13 DEF TypeInv, TypeOK, WatchAfterRegister, LockingHasSeen, vars, serverVars, historyVars, boundVars
<1>14. QED
  BY <1>1, <1>2, <1>3, <1>4, <1>5, <1>6, <1>7, <1>8, <1>9, <1>10, <1>11, <1>12, <1>13 DEF Next

(* The initial states have their types.                                     *)
LEMMA InitTypes == Init => TypeInv
<1> SUFFICES ASSUME Init  PROVE TypeInv
  OBVIOUS
<1>1. \A s \in Servers : s # NoEndpoint
  BY CaddyAssumption
<1>2. 0 \in 0..MaxSets /\ 0 \in 0..MaxFaults
  BY CaddyAssumption
<1>3. TypeOK
  BY <1>1, <1>2 DEF Init, TypeOK, Endpoints
<1>4. WatchAfterRegister /\ LockingHasSeen
  BY DEF Init, WatchAfterRegister, LockingHasSeen
<1>5. QED
  BY <1>3, <1>4 DEF TypeInv

(* The variables of the Caddy integration keep their types, and no server   *)
(* is its own fallback (register, check_and_reregister).                    *)
THEOREM CaddyTypeCorrect == Spec => []TypeOK
<1>1. Init => TypeInv
  BY InitTypes
<1>2. TypeInv /\ [Next]_vars => TypeInv'
  BY TypeInvKept
<1>3. TypeInv => TypeOK
  BY DEF TypeInv
<1>4. QED
  BY <1>1, <1>2, <1>3, PTL DEF Spec

-----------------------------------------------------------------------------
(* The end of a process that remembered nothing of use: the endpoint stays  *)
(* what another application set, or is put back to it.                      *)
LEMMA ExitKeepsChain ==
    ASSUME ChainInv, OneServer, NEW s \in Servers, NEW how \in {"down", "stopped"}, Exit(s, how),
           endpoint' \in Endpoints, wanted' = wanted, broken' \in BOOLEAN,
           ~ broken' /\ wanted # NoEndpoint => endpoint' = wanted
    PROVE  Bookkeeping' /\ ChainKept'
<1>1. \A t \in Servers : main'[t] = how /\ watch'[t] = "off" /\ seen'[t] = NoEndpoint
  BY DEF ChainInv, TypeInv, TypeOK, Exit, OneServer
<1>2. ChainKept'
  BY DEF ChainKept
<1>3. Bookkeeping'
  BY <1>1, CaddyAssumption DEF Bookkeeping
<1>4. QED
  BY <1>2, <1>3

(* A PATCH of our endpoint, applied or not, when we remember what we read.  *)
LEMMA PatchKeepsChain ==
    ASSUME ChainInv, OneServer, NEW s \in Servers, NEW ok \in BOOLEAN, NEW after \in Endpoints,
           http_patch(after, s, ok), seen[s] \in Apps => fallback[s] = seen[s],
           wanted # NoEndpoint, ~ broken, ~ Blind(after, seen[s])
    PROVE  after = wanted \/ (after = s /\ fallback[s] = wanted)
           \/ (after = endpoint /\ endpoint \in Servers /\ fallback[endpoint] = wanted)
<1>1. after \in {endpoint, s}
  BY DEF http_patch
<1>2. endpoint = wanted \/ (endpoint \in Servers /\ fallback[endpoint] = wanted)
  BY DEF ChainInv, ChainKept
<1>3. CASE after = endpoint
  BY <1>2, <1>3
<1>4. CASE after = s /\ after # endpoint
  <2>1. endpoint \in {seen[s], NoEndpoint}
    BY <1>4 DEF Blind
  <2>2. CASE endpoint = wanted
    <3>1. wanted \in Apps
      BY DEF ChainInv, TypeInv, TypeOK
    <3>2. seen[s] = wanted
      BY <2>1, <2>2
    <3>3. QED
      BY <1>4, <3>1, <3>2
  <2>3. CASE endpoint \in Servers /\ fallback[endpoint] = wanted /\ endpoint = s
    BY <1>4, <2>3
  <2>4. CASE endpoint \in Servers /\ fallback[endpoint] = wanted /\ endpoint # s
    BY <2>4 DEF OneServer
  <2>5. QED
    BY <1>2, <2>2, <2>3, <2>4
<1>5. QED
  BY <1>1, <1>3, <1>4

(* Every step keeps what ChainKept rests on.                                *)
LEMMA ChainInvKept ==
    ASSUME ChainInv, OneServer, [Next]_vars
    PROVE  ChainInv'
<1> USE CaddyAssumption
<1>a. TypeInv'
  BY TypeInvKept DEF ChainInv
<1>1. ASSUME NEW s \in Servers, Start(s)  PROVE Bookkeeping' /\ ChainKept'
  <2>1. watch[s] = "off" /\ main' = [main EXCEPT ![s] = "reading"]
    BY <1>1 DEF ChainInv, TypeInv, TypeOK, WatchAfterRegister, Start, Up
  <2>2. UNCHANGED <<endpoint, kept, fallback, watch, seen, wanted, broken>>
    BY <1>1 DEF Start, historyVars
  <2>3. QED
    BY <2>1, <2>2 DEF ChainInv, TypeInv, TypeOK, Bookkeeping, ChainKept
<1>2. ASSUME NEW s \in Servers, RegisterRead(s)  PROVE Bookkeeping' /\ ChainKept'
  <2>1. PICK r \in Endpoints \cup {Failed} :
          /\ http_get(r)
          /\ seen' = [seen EXCEPT ![s] = r]
          /\ fallback' = [fallback EXCEPT ![s] = IF r \in {s, NoEndpoint, Failed} THEN @ ELSE r]
    BY <1>2 DEF RegisterRead
  <2>2. r = endpoint \/ r = Failed \/ (r = Null /\ endpoint = NoEndpoint)
    BY <2>1 DEF http_get
  <2>3. watch[s] = "off"
    BY <1>2 DEF ChainInv, TypeInv, WatchAfterRegister, RegisterRead
  <2>4. UNCHANGED <<endpoint, kept, watch, wanted, broken>> /\ main' = [main EXCEPT ![s] = "setting"]
    BY <1>2 DEF RegisterRead, historyVars
  <2>5. \A t \in Servers : t = s
    BY DEF OneServer
  <2>6. Bookkeeping'
    <3>1. seen'[s] = r /\ (r \in Apps => fallback'[s] = r)
      BY <2>1 DEF ChainInv, TypeInv, TypeOK, Endpoints
    <3>2. QED
      BY <2>3, <2>4, <2>5, <3>1 DEF ChainInv, TypeInv, TypeOK, Bookkeeping
  <2>7. ChainKept'
    <3>1. CASE endpoint = s
      BY <2>1, <2>2, <2>4, <3>1 DEF ChainInv, TypeInv, TypeOK, ChainKept
    <3>2. CASE endpoint # s
      BY <2>4, <2>5, <3>2 DEF ChainInv, ChainKept
    <3>3. QED
      BY <3>1, <3>2
  <2>8. QED
    BY <2>6, <2>7
<1>3. ASSUME NEW s \in Servers, RegisterSet(s)  PROVE Bookkeeping' /\ ChainKept'
  <2>1. PICK ok \in BOOLEAN, after \in Endpoints :
          /\ http_patch(after, s, ok)
          /\ endpoint' = after
          /\ kept' = [kept EXCEPT ![s] = ok]
          /\ fallback' = [fallback EXCEPT ![s] = IF ok THEN @ ELSE NoEndpoint]
          /\ watch' = [watch EXCEPT ![s] = IF ok THEN "sleeping" ELSE "off"]
          /\ broken' = (broken \/ Blind(after, seen[s]) \/ (~ ok /\ after = s))
    BY <1>3 DEF RegisterSet
  <2>2. main' = [main EXCEPT ![s] = "serving"] /\ wanted' = wanted /\ main[s] = "setting" /\ seen' = seen
    BY <1>3 DEF RegisterSet
  <2>3. \A t \in Servers : t = s
    BY DEF OneServer
  <2>4. seen[s] \in Apps => fallback[s] = seen[s]
    BY <2>2 DEF ChainInv, Bookkeeping
  <2>5. Bookkeeping'
    BY <2>1, <2>2, <2>3 DEF ChainInv, TypeInv, TypeOK, Bookkeeping
  <2>6. ASSUME wanted # NoEndpoint, ~ broken'
        PROVE  endpoint' = wanted \/ (endpoint' \in Servers /\ fallback'[endpoint'] = wanted)
    <3>1. ~ broken /\ ~ Blind(after, seen[s]) /\ (ok \/ after # s)
      BY <2>1, <2>6
    <3>2. after = wanted \/ (after = s /\ fallback[s] = wanted)
          \/ (after = endpoint /\ endpoint \in Servers /\ fallback[endpoint] = wanted)
      BY <2>1, <2>4, <2>6, <3>1, PatchKeepsChain
    <3>3. CASE after = wanted
      BY <2>1, <3>3
    <3>4. CASE after = s /\ fallback[s] = wanted
      <4>1. ok
        BY <3>1, <3>4
      <4>2. fallback' = fallback
        BY <2>1, <4>1 DEF ChainInv, TypeInv, TypeOK
      <4>3. QED
        BY <2>1, <3>4, <4>2
    <3>5. QED
      BY <2>3, <3>2, <3>3, <3>4
  <2>7. QED
    BY <2>2, <2>5, <2>6 DEF ChainKept
<1>4. ASSUME NEW s \in Servers, WatchdogRead(s)  PROVE Bookkeeping' /\ ChainKept'
  <2>1. PICK r \in Endpoints \cup {Failed} :
          /\ http_get(r)
          /\ seen' = [seen EXCEPT ![s] = r]
          /\ watch' = [watch EXCEPT ![s] = CASE r \in {s, Failed} -> "sleeping"
                                             [] r = NoEndpoint    -> "setting"
                                             [] OTHER             -> "locking"]
    BY <1>4 DEF WatchdogRead
  <2>2. r = endpoint \/ r = Failed \/ (r = Null /\ endpoint = NoEndpoint)
    BY <2>1 DEF http_get
  <2>3. UNCHANGED <<endpoint, main, kept, fallback, wanted, broken>> /\ watch[s] = "sleeping"
    BY <1>4 DEF WatchdogRead, historyVars
  <2>4. \A t \in Servers : t = s
    BY DEF OneServer
  <2>5. main[s] # "setting"
    BY <2>3 DEF ChainInv, TypeInv, WatchAfterRegister
  <2>6. seen'[s] = r /\ (watch'[s] = "setting" => r = NoEndpoint)
        /\ (watch'[s] \in {"locking", "setting"} => r \notin {s, Failed})
    <3>1. NoEndpoint \notin {s, Failed}
      BY DEF Endpoints
    <3>2. seen'[s] = r
      BY <2>1 DEF ChainInv, TypeInv, TypeOK
    <3>3. watch'[s] = CASE r \in {s, Failed} -> "sleeping"
                       [] r = NoEndpoint    -> "setting"
                       [] OTHER             -> "locking"
      BY <2>1 DEF ChainInv, TypeInv, TypeOK
    <3>4. QED
      BY <3>1, <3>2, <3>3
  <2>7. kept[s]
    BY <2>3 DEF ChainInv, Bookkeeping
  <2>8. NoEndpoint \notin Apps
    OBVIOUS
  <2>9. Bookkeeping'
    BY <2>2, <2>3, <2>4, <2>5, <2>6, <2>7, <2>8 DEF Bookkeeping
  <2>10. QED
    BY <2>3, <2>9 DEF ChainInv, ChainKept
<1>5. ASSUME NEW s \in Servers, WatchdogSave(s)  PROVE Bookkeeping' /\ ChainKept'
  <2>1. /\ watch[s] = "locking" /\ watch' = [watch EXCEPT ![s] = "setting"]
        /\ fallback' = [fallback EXCEPT ![s] = seen[s]]
        /\ main' = [main EXCEPT ![s] = IF @ = "queued" THEN "restoring" ELSE @]
        /\ UNCHANGED <<endpoint, kept, seen, wanted, broken>>
    BY <1>5 DEF WatchdogSave, Granted, historyVars
  <2>2. \A t \in Servers : t = s
    BY DEF OneServer
  <2>3. endpoint # s
    BY <2>1 DEF ChainInv, Bookkeeping
  <2>4. fallback'[s] = seen'[s]
    BY <2>1 DEF ChainInv, TypeInv, TypeOK
  <2>5. Bookkeeping'
    <3>1. main'[s] # "serving" \/ main'[s] = main[s]
      BY <2>1 DEF ChainInv, TypeInv, TypeOK
    <3>2. kept[s] /\ watch'[s] = "setting"
      BY <2>1 DEF ChainInv, TypeInv, TypeOK, Bookkeeping
    <3>3. QED
      BY <2>1, <2>2, <2>3, <2>4, <3>1, <3>2 DEF Bookkeeping
  <2>6. ChainKept'
    BY <2>1, <2>2, <2>3 DEF ChainInv, ChainKept
  <2>7. QED
    BY <2>5, <2>6
<1>6. ASSUME NEW s \in Servers, WatchdogSet(s)  PROVE Bookkeeping' /\ ChainKept'
  <2>1. PICK ok \in BOOLEAN, after \in Endpoints :
          /\ http_patch(after, s, ok)
          /\ endpoint' = after
          /\ broken' = (broken \/ Blind(after, seen[s]))
    BY <1>6 DEF WatchdogSet
  <2>2. /\ watch[s] = "setting" /\ watch' = [watch EXCEPT ![s] = "sleeping"]
        /\ UNCHANGED <<main, kept, fallback, seen, wanted>>
    BY <1>6 DEF WatchdogSet
  <2>3. \A t \in Servers : t = s
    BY DEF OneServer
  <2>4. main[s] # "setting" /\ (seen[s] \in Apps => fallback[s] = seen[s])
    BY <2>2 DEF ChainInv, TypeInv, WatchAfterRegister, Bookkeeping
  <2>5. Bookkeeping'
    BY <2>2, <2>3, <2>4 DEF ChainInv, TypeInv, TypeOK, Bookkeeping
  <2>6. ASSUME wanted # NoEndpoint, ~ broken'
        PROVE  endpoint' = wanted \/ (endpoint' \in Servers /\ fallback'[endpoint'] = wanted)
    <3>1. ~ broken /\ ~ Blind(after, seen[s])
      BY <2>1, <2>6
    <3>2. QED
      BY <2>1, <2>2, <2>4, <2>6, <3>1, PatchKeepsChain
  <2>7. QED
    BY <2>2, <2>5, <2>6 DEF ChainKept
<1>7. ASSUME NEW s \in Servers, Shutdown(s)  PROVE Bookkeeping' /\ ChainKept'
  <2>1. wanted' = wanted /\ main[s] = "serving"
    BY <1>7 DEF Shutdown
  <2>2. CASE /\ ~ kept[s] \/ (watch[s] # "locking" /\ fallback[s] = NoEndpoint)
             /\ Exit(s, "down") /\ endpoint' \in {endpoint, s}
             /\ broken' = (broken \/ endpoint' # endpoint)
    <3>1. wanted # NoEndpoint /\ ~ broken => endpoint = wanted
      <4>1. endpoint \in Servers => endpoint = s
        BY DEF OneServer
      <4>2. fallback[s] = NoEndpoint
        BY <2>1, <2>2 DEF ChainInv, Bookkeeping
      <4>3. QED
        BY <4>1, <4>2 DEF ChainInv, ChainKept
    <3>2. endpoint' \in Endpoints /\ broken' \in BOOLEAN
      BY <2>2 DEF ChainInv, TypeInv, TypeOK, Endpoints
    <3>3. ~ broken' /\ wanted # NoEndpoint => endpoint' = wanted
      BY <2>2, <3>1
    <3>4. QED
      BY <2>1, <2>2, <3>2, <3>3, ExitKeepsChain
  <2>3. CASE /\ main' = [main EXCEPT ![s] = IF watch[s] = "locking" THEN "queued" ELSE "restoring"]
             /\ UNCHANGED <<endpoint, kept, fallback, watch, seen, ask, broken>>
    BY <2>1, <2>3 DEF ChainInv, TypeInv, TypeOK, Bookkeeping, ChainKept
  <2>4. QED
    BY <1>7, <2>2, <2>3 DEF Shutdown
<1>8. ASSUME NEW s \in Servers, Restore(s)  PROVE Bookkeeping' /\ ChainKept'
  <2>1. PICK ok \in BOOLEAN, after \in Endpoints :
          /\ http_patch(after, fallback[s], ok)
          /\ endpoint' \in {after} \cup (IF watch[s] = "setting" THEN {s} ELSE {})
          /\ broken' = (broken \/ Blind(after, s) \/ ~ ok \/ watch[s] = "setting")
          /\ Exit(s, IF ok THEN "stopped" ELSE "down")
    BY <1>8 DEF Restore
  <2>2. wanted' = wanted
    BY <1>8 DEF Restore
  <2>3. endpoint' \in Endpoints /\ broken' \in BOOLEAN
    BY <2>1 DEF Endpoints
  <2>4. ASSUME ~ broken', wanted # NoEndpoint  PROVE endpoint' = wanted
    <3>1. ~ broken /\ ~ Blind(after, s) /\ ok /\ endpoint' = after
      BY <2>1, <2>4
    <3>2. after = fallback[s]
      BY <2>1, <3>1 DEF http_patch
    <3>3. after = endpoint \/ endpoint = s \/ endpoint = NoEndpoint
      BY <3>1 DEF Blind
    <3>4. endpoint = wanted \/ (endpoint = s /\ fallback[s] = wanted)
      BY <2>4, <3>1 DEF ChainInv, ChainKept, OneServer
    <3>5. wanted # s
      BY DEF ChainInv, TypeInv, TypeOK
    <3>6. QED
      BY <2>4, <3>1, <3>2, <3>3, <3>4, <3>5 DEF ChainInv, TypeInv, TypeOK
  <2>5. QED
    BY <2>1, <2>2, <2>3, <2>4, ExitKeepsChain
<1>9. ASSUME NEW s \in Servers, Die(s)  PROVE Bookkeeping' /\ ChainKept'
  <2>1. endpoint' \in Endpoints
    BY <1>9 DEF ChainInv, TypeInv, TypeOK, Die, Endpoints
  <2>2. /\ broken' = (broken \/ endpoint' # endpoint \/ endpoint' = s)
        /\ wanted' = wanted /\ Exit(s, "down")
    BY <1>9 DEF Die
  <2>3. ~ broken' /\ wanted # NoEndpoint => endpoint' = wanted
    BY <2>2 DEF ChainInv, ChainKept, OneServer
  <2>4. QED
    BY <2>1, <2>2, <2>3, ExitKeepsChain
<1>10. ASSUME NEW a \in Apps, AppSets(a)  PROVE Bookkeeping' /\ ChainKept'
  <2>1. endpoint' = a /\ wanted' = a /\ UNCHANGED <<main, kept, fallback, watch, seen>>
    BY <1>10 DEF AppSets, serverVars
  <2>2. \A s \in Servers : a # s
    OBVIOUS
  <2>3. QED
    BY <2>1, <2>2 DEF ChainInv, Bookkeeping, ChainKept
<1>11. ASSUME NEW s \in Servers, NEW k \in Asks, AskArrives(s, k)
       PROVE  Bookkeeping' /\ ChainKept'
  BY <1>11 DEF ChainInv, Bookkeeping, ChainKept, AskArrives, serverVars, historyVars
<1>12. ASSUME NEW k \in Asks, AskReturns(k) \/ AskStalls(k) \/ AskDropped(k)
       PROVE  Bookkeeping' /\ ChainKept'
  <2>1. UNCHANGED <<endpoint, serverVars, historyVars>>
    BY <1>12 DEF AskReturns, AskStalls, AskDropped
  <2>2. QED
    BY <2>1 DEF ChainInv, Bookkeeping, ChainKept, serverVars, historyVars
<1>13. ASSUME UNCHANGED vars  PROVE Bookkeeping' /\ ChainKept'
  BY <1>13 DEF ChainInv, Bookkeeping, ChainKept, vars, serverVars, historyVars
<1>14. QED
  BY <1>a, <1>1, <1>2, <1>3, <1>4, <1>5, <1>6, <1>7, <1>8, <1>9, <1>10, <1>11, <1>12, <1>13
  DEF Next, ChainInv

(* With one server, what another application configured last is never lost  *)
(* outside the named ways: it is Caddy's endpoint, or the fallback of the   *)
(* server in its place (register, check_and_reregister, unregister).        *)
THEOREM ChainIsKept == OneServer /\ Spec => []ChainKept
<1>1. Init => ChainInv
  <2> SUFFICES ASSUME Init  PROVE ChainInv
    OBVIOUS
  <2>1. TypeInv
    BY InitTypes
  <2>2. Bookkeeping /\ ChainKept
    BY DEF Init, Bookkeeping, ChainKept
  <2>3. QED
    BY <2>1, <2>2 DEF ChainInv
<1>2. OneServer /\ ChainInv /\ [Next]_vars => ChainInv'
  BY ChainInvKept
<1>3. ChainInv => ChainKept
  BY DEF ChainInv
<1>4. QED
  <2>1. CASE OneServer
    <3>1. ChainInv /\ [Next]_vars => ChainInv'
      BY <1>2, <2>1
    <3>2. QED
      BY <1>1, <1>3, <3>1, PTL DEF Spec
  <2>2. QED
    BY <2>1
=============================================================================
