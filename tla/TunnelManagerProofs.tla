------------------------- MODULE TunnelManagerProofs -------------------------
(* Theorems about the client's TunnelManager, for any calls, tunnels and    *)
(* names.                                                                   *)
EXTENDS TunnelManager, TLAPS

(* What a call at its place has been asked.                                 *)
CallShape ==
    \A c \in Calls :
        /\ Active(c) => call[c] # NoCall
        /\ pc[c] = "stopping" => call[c].op \notin {"add", "start"}
        /\ pc[c] = "editing" => call[c].op \in {"add", "update", "remove"}
        /\ pc[c] \in {"pausing", "reading"} => call[c].op \in {"start", "restart"}
        /\ pc[c] = "starting" => call[c].entry # NoEntry
        /\ call[c].op \in {"add", "update"} => call[c].entry # NoEntry
        /\ call[c].op = "remove" => call[c].entry = NoEntry

(* A task that runs has an entry, and a handle in the map was inserted.     *)
TaskShape ==
    /\ \A t \in Tasks : task[t] = "running" => served[t] # NoTunnel
    /\ \A c \in Calls : pc[c] = "inserting" =>
          task[c] = "running" /\ served[c].id = call[c].id
    /\ \A i \in Ids : tunnels[i] \in Calls => pc[tunnels[i]] = "over"

(* Two calls on one tunnel are noticed.                                     *)
AloneUnlessRaced ==
    \A c, d \in Calls :
        Active(c) /\ Active(d) /\ call[c].id = call[d].id /\ c # d => call[c].id \in raced

(* Where a call of its own got with its tunnel.                             *)
Progress ==
    \A c \in Calls : call[c].id \notin raced =>
        /\ pc[c] = "inserting" => tunnels[call[c].id] = NoTask
        /\ pc[c] = "editing" =>
              \A t \in Tasks : task[t] = "running" => served[t].id # call[c].id
        /\ pc[c] = "starting" => call[c].entry = config[call[c].id]

(* Nobody but stop_all is left at work.                                     *)
AfterDisconnect ==
    ~ connected => \A i \in Ids \ raced :
        /\ \A c \in Calls : Active(c) => call[c].id # i
        /\ tunnels[i] # NoTask => i \in stopping

(* The inductive invariant.                                                 *)
Inv ==
    /\ TypeOK /\ CallShape /\ TaskShape /\ AloneUnlessRaced /\ Progress /\ AfterDisconnect
    /\ NoOrphanUnlessRaced /\ RunsWhatIsConfigured /\ NamesStayDistinct /\ SavedUnlessReported

(* What a stop changes.                                                     *)
LEMMA StopFacts ==
    ASSUME TypeOK, NEW i \in Ids, StopOrSkip(i)
    PROVE  /\ \A j \in Ids : tunnels'[j] = IF j = i THEN NoTask ELSE tunnels[j]
           /\ \A t \in Tasks : t # tunnels[i] => task'[t] = task[t] /\ served'[t] = served[t]
           /\ \A t \in Tasks : t = tunnels[i] => task'[t] = "cancelled"
           /\ \A t \in Tasks : task'[t] = "running" => task[t] = "running" /\ served'[t] = served[t]
  BY ManagerAssumption DEF StopOrSkip, Stop, TypeOK

(* Every step keeps the types.                                              *)
LEMMA TypeStep ==
    ASSUME TypeOK, CallShape, [Next]_vars
    PROVE  TypeOK'
<1>1. ASSUME NEW c \in Calls, NEW op \in Ops, NEW i \in Ids, NEW e \in Entries
   \cup {NoEntry}, op \in {"add", "update"} <=> e # NoEntry, Call(c, op, i, e)
   PROVE TypeOK'
  BY <1>1, ManagerAssumption DEF Call, GoTo, FirstPlace, Ops, managerVars, TypeOK,
     Tasks, Places, Ops, Entries, NoCall, NoTunnel, CallShape, Active
<1>2. ASSUME NEW c \in Calls, stop_tunnel(c) PROVE TypeOK'
  BY <1>2, ManagerAssumption DEF stop_tunnel, StopOrSkip, Stop, Return, uiVars, TypeOK,
     Tasks, Places, Ops, Entries, NoCall, NoTunnel, CallShape, Active
<1>3. ASSUME NEW c \in Calls, StopFirst(c) PROVE TypeOK'
  BY <1>3, ManagerAssumption DEF StopFirst, StopOrSkip, Stop, Reach, GoTo, uiVars,
     TypeOK, Tasks, Places, Ops, Entries, NoCall, NoTunnel, CallShape, Active
<1>4. ASSUME NEW c \in Calls, EditRefused(c) PROVE TypeOK'
  BY <1>4, ManagerAssumption DEF EditRefused, Return, managerVars, uiVars, TypeOK,
     Tasks, Places, Ops, Entries, NoCall, NoTunnel, CallShape, Active
<1>5. ASSUME NEW c \in Calls, Edit(c) PROVE TypeOK'
  BY <1>5, ManagerAssumption DEF Edit, Edited, Editable, Reach, GoTo, Return, uiVars,
     TypeOK, Tasks, Places, Ops, Entries, NoCall, NoTunnel, CallShape, Active
<1>6. ASSUME NEW c \in Calls, SaveFails(c) PROVE TypeOK'
  BY <1>6, ManagerAssumption DEF SaveFails, Edited, Editable, Return, uiVars, TypeOK,
     Tasks, Places, Ops, Entries, NoCall, NoTunnel, CallShape, Active
<1>7. ASSUME NEW c \in Calls, EndOfPause(c) PROVE TypeOK'
  BY <1>7, ManagerAssumption DEF EndOfPause, Reach, GoTo, managerVars, uiVars, TypeOK,
     Tasks, Places, Ops, Entries, NoCall, NoTunnel, CallShape, Active
<1>8. ASSUME NEW c \in Calls, ReadEntry(c) PROVE TypeOK'
  BY <1>8, ManagerAssumption DEF ReadEntry, GoTo, managerVars, uiVars, TypeOK, Tasks,
     Places, Ops, Entries, NoCall, NoTunnel, CallShape, Active
<1>9. ASSUME NEW c \in Calls, NoSuchTunnel(c) PROVE TypeOK'
  BY <1>9, ManagerAssumption DEF NoSuchTunnel, Return, managerVars, uiVars, TypeOK,
     Tasks, Places, Ops, Entries, NoCall, NoTunnel, CallShape, Active
<1>10. ASSUME NEW c \in Calls, AlreadyRunning(c) PROVE TypeOK'
  BY <1>10, ManagerAssumption DEF AlreadyRunning, Return, managerVars, uiVars, TypeOK,
     Tasks, Places, Ops, Entries, NoCall, NoTunnel, CallShape, Active
<1>11. ASSUME NEW c \in Calls, Spawn(c) PROVE TypeOK'
  BY <1>11, ManagerAssumption DEF Spawn, Reach, GoTo, uiVars, TypeOK, Tasks, Places,
     Ops, Entries, NoCall, NoTunnel, CallShape, Active
<1>12. ASSUME NEW c \in Calls, Insert(c) PROVE TypeOK'
  BY <1>12, ManagerAssumption DEF Insert, Return, uiVars, TypeOK, Tasks, Places, Ops,
     Entries, NoCall, NoTunnel, CallShape, Active
<1>13. ASSUME NEW c \in Calls, CallDropped(c) PROVE TypeOK'
  BY <1>13, ManagerAssumption DEF CallDropped, Return, managerVars, uiVars, TypeOK,
     Tasks, Places, Ops, Entries, NoCall, NoTunnel, CallShape, Active
<1>14. ASSUME Disconnect PROVE TypeOK'
  <2>1. raced' \subseteq Ids
    BY <1>14 DEF Disconnect, TypeOK, CallShape
  <2>2. stopping' \subseteq Ids /\ connected' \in BOOLEAN
    BY <1>14 DEF Disconnect, MapIds
  <2> QED
    BY <1>14, <2>1, <2>2 DEF Disconnect, TypeOK, managerVars, callVars
<1>15. ASSUME NEW i \in Ids, stop_all(i) PROVE TypeOK'
  BY <1>15, ManagerAssumption DEF stop_all, StopOrSkip, Stop, callVars, TypeOK, Tasks,
     Places, Ops, Entries, NoCall, NoTunnel, CallShape, Active
<1>16. CASE UNCHANGED vars
  BY <1>16 DEF vars, managerVars, callVars, uiVars, TypeOK, Tasks, Places, Ops, Entries,
     NoCall, NoTunnel, CallShape, Active
<1> QED
  <2>1. ASSUME NEW c \in Calls, NewCall(c) PROVE TypeOK'
    BY <1>1, <2>1, ManagerAssumption DEF NewCall, Ops
  <2> QED
    BY <2>1, <1>2, <1>3, <1>4, <1>5, <1>6, <1>7, <1>8, <1>9, <1>10, <1>11,
       <1>12, <1>13, <1>14, <1>15, <1>16 DEF Next, CallStep

(* A call's place fits what it was asked.                                   *)
LEMMA CallShapeStep ==
    ASSUME TypeOK, CallShape, [Next]_vars
    PROVE  CallShape'
<1>1. ASSUME NEW c \in Calls, NEW op \in Ops, NEW i \in Ids, NEW e \in Entries
   \cup {NoEntry}, op \in {"add", "update"} <=> e # NoEntry, Call(c, op, i, e)
   PROVE CallShape'
  BY <1>1, ManagerAssumption DEF Call, GoTo, FirstPlace, Ops, managerVars, TypeOK,
     Tasks, Places, Ops, Entries, NoCall, NoTunnel, CallShape, Active
<1>2. ASSUME NEW c \in Calls, stop_tunnel(c) PROVE CallShape'
  BY <1>2 DEF stop_tunnel, Return, TypeOK, CallShape, Active, NoCall
<1>3. ASSUME NEW c \in Calls, StopFirst(c) PROVE CallShape'
  BY <1>3 DEF StopFirst, Reach, GoTo, TypeOK, CallShape, Active, Ops
<1>4. ASSUME NEW c \in Calls, EditRefused(c) PROVE CallShape'
  BY <1>4, ManagerAssumption DEF EditRefused, Return, managerVars, uiVars, TypeOK,
     Tasks, Places, Ops, Entries, NoCall, NoTunnel, CallShape, Active
<1>5. ASSUME NEW c \in Calls, Edit(c) PROVE CallShape'
  BY <1>5, ManagerAssumption DEF Edit, Edited, Editable, Reach, GoTo, Return, uiVars,
     TypeOK, Tasks, Places, Ops, Entries, NoCall, NoTunnel, CallShape, Active
<1>6. ASSUME NEW c \in Calls, SaveFails(c) PROVE CallShape'
  BY <1>6, ManagerAssumption DEF SaveFails, Edited, Editable, Return, uiVars, TypeOK,
     Tasks, Places, Ops, Entries, NoCall, NoTunnel, CallShape, Active
<1>7. ASSUME NEW c \in Calls, EndOfPause(c) PROVE CallShape'
  BY <1>7, ManagerAssumption DEF EndOfPause, Reach, GoTo, managerVars, uiVars, TypeOK,
     Tasks, Places, Ops, Entries, NoCall, NoTunnel, CallShape, Active
<1>8. ASSUME NEW c \in Calls, ReadEntry(c) PROVE CallShape'
  BY <1>8, ManagerAssumption DEF ReadEntry, GoTo, managerVars, uiVars, TypeOK, Tasks,
     Places, Ops, Entries, NoCall, NoTunnel, CallShape, Active
<1>9. ASSUME NEW c \in Calls, NoSuchTunnel(c) PROVE CallShape'
  BY <1>9, ManagerAssumption DEF NoSuchTunnel, Return, managerVars, uiVars, TypeOK,
     Tasks, Places, Ops, Entries, NoCall, NoTunnel, CallShape, Active
<1>10. ASSUME NEW c \in Calls, AlreadyRunning(c) PROVE CallShape'
  BY <1>10, ManagerAssumption DEF AlreadyRunning, Return, managerVars, uiVars, TypeOK,
     Tasks, Places, Ops, Entries, NoCall, NoTunnel, CallShape, Active
<1>11. ASSUME NEW c \in Calls, Spawn(c) PROVE CallShape'
  BY <1>11, ManagerAssumption DEF Spawn, Reach, GoTo, uiVars, TypeOK, Tasks, Places,
     Ops, Entries, NoCall, NoTunnel, CallShape, Active
<1>12. ASSUME NEW c \in Calls, Insert(c) PROVE CallShape'
  BY <1>12, ManagerAssumption DEF Insert, Return, uiVars, TypeOK, Tasks, Places, Ops,
     Entries, NoCall, NoTunnel, CallShape, Active
<1>13. ASSUME NEW c \in Calls, CallDropped(c) PROVE CallShape'
  BY <1>13, ManagerAssumption DEF CallDropped, Return, managerVars, uiVars, TypeOK,
     Tasks, Places, Ops, Entries, NoCall, NoTunnel, CallShape, Active
<1>14. ASSUME Disconnect PROVE CallShape'
  BY <1>14, ManagerAssumption DEF Disconnect, MapIds, managerVars, callVars, TypeOK,
     Tasks, Places, Ops, Entries, NoCall, NoTunnel, CallShape, Active
<1>15. ASSUME NEW i \in Ids, stop_all(i) PROVE CallShape'
  BY <1>15 DEF stop_all, callVars, CallShape, Active
<1>16. CASE UNCHANGED vars
  BY <1>16 DEF vars, managerVars, callVars, uiVars, TypeOK, Tasks, Places, Ops, Entries,
     NoCall, NoTunnel, CallShape, Active
<1> QED
  <2>1. ASSUME NEW c \in Calls, NewCall(c) PROVE CallShape'
    BY <1>1, <2>1, ManagerAssumption DEF NewCall, Ops
  <2> QED
    BY <2>1, <1>2, <1>3, <1>4, <1>5, <1>6, <1>7, <1>8, <1>9, <1>10, <1>11,
       <1>12, <1>13, <1>14, <1>15, <1>16 DEF Next, CallStep

(* A task that runs has an entry, a handle in the map was inserted.         *)
LEMMA TaskShapeStep ==
    ASSUME TypeOK, CallShape, TaskShape, [Next]_vars
    PROVE  TaskShape'
<1>1. ASSUME NEW c \in Calls, NEW op \in Ops, NEW i \in Ids, NEW e \in Entries
   \cup {NoEntry}, op \in {"add", "update"} <=> e # NoEntry, Call(c, op, i, e)
   PROVE TaskShape'
  BY <1>1, ManagerAssumption DEF Call, GoTo, FirstPlace, Ops, managerVars, TypeOK,
     Tasks, Places, Ops, Entries, NoCall, NoTunnel, CallShape, TaskShape, Active
<1>2. ASSUME NEW c \in Calls, stop_tunnel(c) PROVE TaskShape'
  <2>0. call[c].id \in Ids /\ StopOrSkip(call[c].id)
    BY <1>2 DEF stop_tunnel, CallShape, Active, TypeOK, NoCall
  <2>1. tunnels[call[c].id] \in Calls => pc[tunnels[call[c].id]] = "over"
    BY <1>2, <2>0 DEF TaskShape
  <2>2. \A d \in Calls : pc'[d] = "inserting" => pc[d] = "inserting" /\ call'[d] = call[d] /\ d # tunnels[call[c].id]
    BY <1>2, <2>1 DEF stop_tunnel, Return, TypeOK
  <2>3. \A d \in Calls : pc[d] = "over" => pc'[d] = "over"
    BY <1>2 DEF stop_tunnel, Return, TypeOK
  <2> QED
    BY <1>2, <2>0, <2>1, <2>2, <2>3, StopFacts, ManagerAssumption DEF TaskShape,
       stop_tunnel, TypeOK, Tasks
<1>3. ASSUME NEW c \in Calls, StopFirst(c) PROVE TaskShape'
  <2>0. call[c].id \in Ids /\ StopOrSkip(call[c].id)
    BY <1>3 DEF StopFirst, CallShape, Active, TypeOK, NoCall
  <2>1. tunnels[call[c].id] \in Calls => pc[tunnels[call[c].id]] = "over"
    BY <1>3, <2>0 DEF TaskShape
  <2>2. \A d \in Calls : pc'[d] = "inserting" => pc[d] = "inserting" /\ call'[d] = call[d] /\ d # tunnels[call[c].id]
    BY <1>3, <2>1 DEF StopFirst, Reach, GoTo, TypeOK
  <2>3. \A d \in Calls : pc[d] = "over" => pc'[d] = "over"
    BY <1>3 DEF StopFirst, Reach, GoTo, TypeOK
  <2> QED
    BY <1>3, <2>0, <2>1, <2>2, <2>3, StopFacts, ManagerAssumption DEF TaskShape,
       StopFirst, TypeOK, Tasks
<1>4. ASSUME NEW c \in Calls, EditRefused(c) PROVE TaskShape'
  BY <1>4, ManagerAssumption DEF EditRefused, Return, managerVars, uiVars, TypeOK,
     Tasks, Places, Ops, Entries, NoCall, NoTunnel, CallShape, TaskShape, Active
<1>5. ASSUME NEW c \in Calls, Edit(c) PROVE TaskShape'
  BY <1>5, ManagerAssumption DEF Edit, Edited, Editable, Reach, GoTo, Return, uiVars,
     TypeOK, Tasks, Places, Ops, Entries, NoCall, NoTunnel, CallShape, TaskShape, Active
<1>6. ASSUME NEW c \in Calls, SaveFails(c) PROVE TaskShape'
  BY <1>6, ManagerAssumption DEF SaveFails, Edited, Editable, Return, uiVars, TypeOK,
     Tasks, Places, Ops, Entries, NoCall, NoTunnel, CallShape, TaskShape, Active
<1>7. ASSUME NEW c \in Calls, EndOfPause(c) PROVE TaskShape'
  BY <1>7, ManagerAssumption DEF EndOfPause, Reach, GoTo, managerVars, uiVars, TypeOK,
     Tasks, Places, Ops, Entries, NoCall, NoTunnel, CallShape, TaskShape, Active
<1>8. ASSUME NEW c \in Calls, ReadEntry(c) PROVE TaskShape'
  BY <1>8, ManagerAssumption DEF ReadEntry, GoTo, managerVars, uiVars, TypeOK, Tasks,
     Places, Ops, Entries, NoCall, NoTunnel, CallShape, TaskShape, Active
<1>9. ASSUME NEW c \in Calls, NoSuchTunnel(c) PROVE TaskShape'
  BY <1>9, ManagerAssumption DEF NoSuchTunnel, Return, managerVars, uiVars, TypeOK,
     Tasks, Places, Ops, Entries, NoCall, NoTunnel, CallShape, TaskShape, Active
<1>10. ASSUME NEW c \in Calls, AlreadyRunning(c) PROVE TaskShape'
  BY <1>10, ManagerAssumption DEF AlreadyRunning, Return, managerVars, uiVars, TypeOK,
     Tasks, Places, Ops, Entries, NoCall, NoTunnel, CallShape, TaskShape, Active
<1>11. ASSUME NEW c \in Calls, Spawn(c) PROVE TaskShape'
  BY <1>11, ManagerAssumption DEF Spawn, Reach, GoTo, uiVars, TypeOK, Tasks, Places,
     Ops, Entries, NoCall, NoTunnel, CallShape, TaskShape, Active
<1>12. ASSUME NEW c \in Calls, Insert(c) PROVE TaskShape'
  BY <1>12, ManagerAssumption DEF Insert, Return, uiVars, TypeOK, Tasks, Places, Ops,
     Entries, NoCall, NoTunnel, CallShape, TaskShape, Active
<1>13. ASSUME NEW c \in Calls, CallDropped(c) PROVE TaskShape'
  BY <1>13, ManagerAssumption DEF CallDropped, Return, managerVars, uiVars, TypeOK,
     Tasks, Places, Ops, Entries, NoCall, NoTunnel, CallShape, TaskShape, Active
<1>14. ASSUME Disconnect PROVE TaskShape'
  BY <1>14, ManagerAssumption DEF Disconnect, MapIds, managerVars, callVars, TypeOK,
     Tasks, Places, Ops, Entries, NoCall, NoTunnel, CallShape, TaskShape, Active
<1>15. ASSUME NEW i \in Ids, stop_all(i) PROVE TaskShape'
  <2>1. tunnels[i] \in Calls => pc[tunnels[i]] = "over"
    BY <1>15 DEF TaskShape
  <2>2. \A d \in Calls : pc'[d] = "inserting" => pc[d] = "inserting" /\ call'[d] = call[d] /\ d # tunnels[i]
    BY <1>15, <2>1 DEF stop_all, callVars, TypeOK
  <2>3. \A d \in Calls : pc[d] = "over" => pc'[d] = "over"
    BY <1>15 DEF stop_all, callVars, TypeOK
  <2> QED
    BY <1>15, <2>1, <2>2, <2>3, StopFacts, ManagerAssumption DEF TaskShape, stop_all,
       TypeOK, Tasks
<1>16. CASE UNCHANGED vars
  BY <1>16 DEF vars, managerVars, callVars, uiVars, TypeOK, Tasks, Places, Ops, Entries,
     NoCall, NoTunnel, CallShape, TaskShape, Active
<1> QED
  <2>1. ASSUME NEW c \in Calls, NewCall(c) PROVE TaskShape'
    BY <1>1, <2>1, ManagerAssumption DEF NewCall, Ops
  <2> QED
    BY <2>1, <1>2, <1>3, <1>4, <1>5, <1>6, <1>7, <1>8, <1>9, <1>10, <1>11,
       <1>12, <1>13, <1>14, <1>15, <1>16 DEF Next, CallStep

(* Two calls on one tunnel are noticed when the second begins.              *)
LEMMA AloneStep ==
    ASSUME TypeOK, CallShape, AloneUnlessRaced, [Next]_vars
    PROVE  AloneUnlessRaced'
<1>1. ASSUME NEW c \in Calls, NEW op \in Ops, NEW i \in Ids, NEW e \in Entries
   \cup {NoEntry}, op \in {"add", "update"} <=> e # NoEntry, Call(c, op, i, e)
   PROVE AloneUnlessRaced'
  BY <1>1, ManagerAssumption DEF Call, GoTo, FirstPlace, Ops, managerVars, TypeOK,
     Tasks, Places, Ops, Entries, NoCall, NoTunnel, CallShape, AloneUnlessRaced, Active
<1>2. ASSUME NEW c \in Calls, stop_tunnel(c) PROVE AloneUnlessRaced'
  BY <1>2, ManagerAssumption DEF stop_tunnel, StopOrSkip, Stop, Return, uiVars, TypeOK,
     Tasks, Places, Ops, Entries, NoCall, NoTunnel, CallShape, AloneUnlessRaced, Active
<1>3. ASSUME NEW c \in Calls, StopFirst(c) PROVE AloneUnlessRaced'
  BY <1>3, ManagerAssumption DEF StopFirst, StopOrSkip, Stop, Reach, GoTo, uiVars,
     TypeOK, Tasks, Places, Ops, Entries, NoCall, NoTunnel, CallShape, AloneUnlessRaced,
     Active
<1>4. ASSUME NEW c \in Calls, EditRefused(c) PROVE AloneUnlessRaced'
  BY <1>4, ManagerAssumption DEF EditRefused, Return, managerVars, uiVars, TypeOK,
     Tasks, Places, Ops, Entries, NoCall, NoTunnel, CallShape, AloneUnlessRaced, Active
<1>5. ASSUME NEW c \in Calls, Edit(c) PROVE AloneUnlessRaced'
  BY <1>5, ManagerAssumption DEF Edit, Edited, Editable, Reach, GoTo, Return, uiVars,
     TypeOK, Tasks, Places, Ops, Entries, NoCall, NoTunnel, CallShape, AloneUnlessRaced,
     Active
<1>6. ASSUME NEW c \in Calls, SaveFails(c) PROVE AloneUnlessRaced'
  BY <1>6, ManagerAssumption DEF SaveFails, Edited, Editable, Return, uiVars, TypeOK,
     Tasks, Places, Ops, Entries, NoCall, NoTunnel, CallShape, AloneUnlessRaced, Active
<1>7. ASSUME NEW c \in Calls, EndOfPause(c) PROVE AloneUnlessRaced'
  BY <1>7, ManagerAssumption DEF EndOfPause, Reach, GoTo, managerVars, uiVars, TypeOK,
     Tasks, Places, Ops, Entries, NoCall, NoTunnel, CallShape, AloneUnlessRaced, Active
<1>8. ASSUME NEW c \in Calls, ReadEntry(c) PROVE AloneUnlessRaced'
  BY <1>8, ManagerAssumption DEF ReadEntry, GoTo, managerVars, uiVars, TypeOK, Tasks,
     Places, Ops, Entries, NoCall, NoTunnel, CallShape, AloneUnlessRaced, Active
<1>9. ASSUME NEW c \in Calls, NoSuchTunnel(c) PROVE AloneUnlessRaced'
  BY <1>9, ManagerAssumption DEF NoSuchTunnel, Return, managerVars, uiVars, TypeOK,
     Tasks, Places, Ops, Entries, NoCall, NoTunnel, CallShape, AloneUnlessRaced, Active
<1>10. ASSUME NEW c \in Calls, AlreadyRunning(c) PROVE AloneUnlessRaced'
  BY <1>10, ManagerAssumption DEF AlreadyRunning, Return, managerVars, uiVars, TypeOK,
     Tasks, Places, Ops, Entries, NoCall, NoTunnel, CallShape, AloneUnlessRaced, Active
<1>11. ASSUME NEW c \in Calls, Spawn(c) PROVE AloneUnlessRaced'
  BY <1>11, ManagerAssumption DEF Spawn, Reach, GoTo, uiVars, TypeOK, Tasks, Places,
     Ops, Entries, NoCall, NoTunnel, CallShape, AloneUnlessRaced, Active
<1>12. ASSUME NEW c \in Calls, Insert(c) PROVE AloneUnlessRaced'
  BY <1>12, ManagerAssumption DEF Insert, Return, uiVars, TypeOK, Tasks, Places, Ops,
     Entries, NoCall, NoTunnel, CallShape, AloneUnlessRaced, Active
<1>13. ASSUME NEW c \in Calls, CallDropped(c) PROVE AloneUnlessRaced'
  BY <1>13, ManagerAssumption DEF CallDropped, Return, managerVars, uiVars, TypeOK,
     Tasks, Places, Ops, Entries, NoCall, NoTunnel, CallShape, AloneUnlessRaced, Active
<1>14. ASSUME Disconnect PROVE AloneUnlessRaced'
  BY <1>14, ManagerAssumption DEF Disconnect, MapIds, managerVars, callVars, TypeOK,
     Tasks, Places, Ops, Entries, NoCall, NoTunnel, CallShape, AloneUnlessRaced, Active
<1>15. ASSUME NEW i \in Ids, stop_all(i) PROVE AloneUnlessRaced'
  BY <1>15, ManagerAssumption DEF stop_all, StopOrSkip, Stop, callVars, TypeOK, Tasks,
     Places, Ops, Entries, NoCall, NoTunnel, CallShape, AloneUnlessRaced, Active
<1>16. CASE UNCHANGED vars
  BY <1>16 DEF vars, managerVars, callVars, uiVars, TypeOK, Tasks, Places, Ops, Entries,
     NoCall, NoTunnel, CallShape, AloneUnlessRaced, Active
<1> QED
  <2>1. ASSUME NEW c \in Calls, NewCall(c) PROVE AloneUnlessRaced'
    BY <1>1, <2>1, ManagerAssumption DEF NewCall, Ops
  <2> QED
    BY <2>1, <1>2, <1>3, <1>4, <1>5, <1>6, <1>7, <1>8, <1>9, <1>10, <1>11,
       <1>12, <1>13, <1>14, <1>15, <1>16 DEF Next, CallStep

(* A stop cancels what it takes out of the map.                             *)
LEMMA StoppingLeavesNoOrphan ==
    ASSUME TypeOK, TaskShape, NoOrphanUnlessRaced, NEW i \in Ids, StopOrSkip(i), UNCHANGED raced,
           \A c \in Calls : pc[c] = "inserting" => pc'[c] = "inserting"
    PROVE  NoOrphanUnlessRaced'
<1>1. CASE UNCHANGED <<tunnels, task, served>>
  BY <1>1 DEF NoOrphanUnlessRaced, Managed
<1>2. CASE Stop(i)
  <2> DEFINE s == tunnels[i]
  <2>1. s \in Tasks /\ task[s] = "running" /\ served[s].id = i
    BY <1>2, ManagerAssumption DEF Stop, TypeOK, NoOrphanUnlessRaced
  <2>2. \A t \in Tasks \ {s} : task'[t] = task[t] /\ served'[t] = served[t]
    BY <1>2, <2>1 DEF Stop, TypeOK
  <2>3. task'[s] = "cancelled"
    BY <1>2, <2>1 DEF Stop, TypeOK
  <2>4. \A j \in Ids : tunnels'[j] = IF j = i THEN NoTask ELSE tunnels[j]
    BY <1>2 DEF Stop, TypeOK
  <2>5. ASSUME NEW j \in Ids, tunnels'[j] # NoTask
        PROVE  task'[tunnels'[j]] = "running" /\ served'[tunnels'[j]].id = j
    BY <2>1, <2>2, <2>4, <2>5 DEF NoOrphanUnlessRaced, TypeOK
  <2>6. ASSUME NEW t \in Tasks, task'[t] = "running", served'[t].id \notin raced'
        PROVE  Managed(t)'
    <3>1. t # s /\ task[t] = "running" /\ served[t] = served'[t] /\ Managed(t)
      BY <2>2, <2>3, <2>6 DEF NoOrphanUnlessRaced
    <3>2. served[t].id \in Ids
      BY <3>1 DEF TaskShape, TypeOK
    <3> QED
      BY <2>4, <3>1, <3>2 DEF Managed
  <2> QED
    BY <2>5, <2>6 DEF NoOrphanUnlessRaced
<1> QED
  BY <1>1, <1>2 DEF StopOrSkip

(* A live task is in the map, or its call is about to put it there.         *)
LEMMA OrphanStep ==
    ASSUME TypeOK, CallShape, TaskShape, AloneUnlessRaced, Progress, NoOrphanUnlessRaced, [Next]_vars
    PROVE  NoOrphanUnlessRaced'
<1>1. ASSUME NEW c \in Calls, NEW op \in Ops, NEW i \in Ids, NEW e \in Entries
   \cup {NoEntry}, op \in {"add", "update"} <=> e # NoEntry, Call(c, op, i, e)
   PROVE NoOrphanUnlessRaced'
  BY <1>1, ManagerAssumption DEF Call, GoTo, FirstPlace, Ops, managerVars, TypeOK,
     Tasks, Places, Ops, Entries, NoCall, NoTunnel, CallShape, TaskShape,
     AloneUnlessRaced, Progress, NoOrphanUnlessRaced, Managed, Active
<1>2. ASSUME NEW c \in Calls, stop_tunnel(c) PROVE NoOrphanUnlessRaced'
  <2>0. call[c].id \in Ids /\ StopOrSkip(call[c].id)
    BY <1>2 DEF stop_tunnel, CallShape, Active, TypeOK, NoCall
  <2>1. UNCHANGED raced /\ \A d \in Calls : pc[d] = "inserting" => pc'[d] = "inserting"
    BY <1>2 DEF stop_tunnel, Return, uiVars, TypeOK
  <2> QED
    BY <2>0, <2>1, StoppingLeavesNoOrphan
<1>3. ASSUME NEW c \in Calls, StopFirst(c) PROVE NoOrphanUnlessRaced'
  <2>0. call[c].id \in Ids /\ StopOrSkip(call[c].id)
    BY <1>3 DEF StopFirst, CallShape, Active, TypeOK, NoCall
  <2>1. UNCHANGED raced /\ \A d \in Calls : pc[d] = "inserting" => pc'[d] = "inserting"
    BY <1>3 DEF StopFirst, Reach, GoTo, uiVars, TypeOK
  <2> QED
    BY <2>0, <2>1, StoppingLeavesNoOrphan
<1>4. ASSUME NEW c \in Calls, EditRefused(c) PROVE NoOrphanUnlessRaced'
  BY <1>4, ManagerAssumption DEF EditRefused, Return, managerVars, uiVars, TypeOK,
     Tasks, Places, Ops, Entries, NoCall, NoTunnel, CallShape, TaskShape,
     AloneUnlessRaced, Progress, NoOrphanUnlessRaced, Managed, Active
<1>5. ASSUME NEW c \in Calls, Edit(c) PROVE NoOrphanUnlessRaced'
  BY <1>5, ManagerAssumption DEF Edit, Edited, Editable, Reach, GoTo, Return, uiVars,
     TypeOK, Tasks, Places, Ops, Entries, NoCall, NoTunnel, CallShape, TaskShape,
     AloneUnlessRaced, Progress, NoOrphanUnlessRaced, Managed, Active
<1>6. ASSUME NEW c \in Calls, SaveFails(c) PROVE NoOrphanUnlessRaced'
  BY <1>6, ManagerAssumption DEF SaveFails, Edited, Editable, Return, uiVars, TypeOK,
     Tasks, Places, Ops, Entries, NoCall, NoTunnel, CallShape, TaskShape,
     AloneUnlessRaced, Progress, NoOrphanUnlessRaced, Managed, Active
<1>7. ASSUME NEW c \in Calls, EndOfPause(c) PROVE NoOrphanUnlessRaced'
  BY <1>7, ManagerAssumption DEF EndOfPause, Reach, GoTo, managerVars, uiVars, TypeOK,
     Tasks, Places, Ops, Entries, NoCall, NoTunnel, CallShape, TaskShape,
     AloneUnlessRaced, Progress, NoOrphanUnlessRaced, Managed, Active
<1>8. ASSUME NEW c \in Calls, ReadEntry(c) PROVE NoOrphanUnlessRaced'
  BY <1>8, ManagerAssumption DEF ReadEntry, GoTo, managerVars, uiVars, TypeOK, Tasks,
     Places, Ops, Entries, NoCall, NoTunnel, CallShape, TaskShape, AloneUnlessRaced,
     Progress, NoOrphanUnlessRaced, Managed, Active
<1>9. ASSUME NEW c \in Calls, NoSuchTunnel(c) PROVE NoOrphanUnlessRaced'
  BY <1>9, ManagerAssumption DEF NoSuchTunnel, Return, managerVars, uiVars, TypeOK,
     Tasks, Places, Ops, Entries, NoCall, NoTunnel, CallShape, TaskShape,
     AloneUnlessRaced, Progress, NoOrphanUnlessRaced, Managed, Active
<1>10. ASSUME NEW c \in Calls, AlreadyRunning(c) PROVE NoOrphanUnlessRaced'
  BY <1>10, ManagerAssumption DEF AlreadyRunning, Return, managerVars, uiVars, TypeOK,
     Tasks, Places, Ops, Entries, NoCall, NoTunnel, CallShape, TaskShape,
     AloneUnlessRaced, Progress, NoOrphanUnlessRaced, Managed, Active
<1>11. ASSUME NEW c \in Calls, Spawn(c) PROVE NoOrphanUnlessRaced'
  BY <1>11, ManagerAssumption DEF Spawn, Reach, GoTo, uiVars, TypeOK, Tasks, Places,
     Ops, Entries, NoCall, NoTunnel, CallShape, TaskShape, AloneUnlessRaced, Progress,
     NoOrphanUnlessRaced, Managed, Active
<1>12. ASSUME NEW c \in Calls, Insert(c) PROVE NoOrphanUnlessRaced'
  BY <1>12, ManagerAssumption DEF Insert, Return, uiVars, TypeOK, Tasks, Places, Ops,
     Entries, NoCall, NoTunnel, CallShape, TaskShape, AloneUnlessRaced, Progress,
     NoOrphanUnlessRaced, Managed, Active
<1>13. ASSUME NEW c \in Calls, CallDropped(c) PROVE NoOrphanUnlessRaced'
  BY <1>13, ManagerAssumption DEF CallDropped, Return, managerVars, uiVars, TypeOK,
     Tasks, Places, Ops, Entries, NoCall, NoTunnel, CallShape, TaskShape,
     AloneUnlessRaced, Progress, NoOrphanUnlessRaced, Managed, Active
<1>14. ASSUME Disconnect PROVE NoOrphanUnlessRaced'
  BY <1>14, ManagerAssumption DEF Disconnect, MapIds, managerVars, callVars, TypeOK,
     Tasks, Places, Ops, Entries, NoCall, NoTunnel, CallShape, TaskShape,
     AloneUnlessRaced, Progress, NoOrphanUnlessRaced, Managed, Active
<1>15. ASSUME NEW i \in Ids, stop_all(i) PROVE NoOrphanUnlessRaced'
  BY <1>15, StoppingLeavesNoOrphan DEF stop_all, callVars
<1>16. CASE UNCHANGED vars
  BY <1>16 DEF vars, managerVars, callVars, uiVars, TypeOK, Tasks, Places, Ops, Entries,
     NoCall, NoTunnel, CallShape, TaskShape, AloneUnlessRaced, Progress,
     NoOrphanUnlessRaced, Managed, Active
<1> QED
  <2>1. ASSUME NEW c \in Calls, NewCall(c) PROVE NoOrphanUnlessRaced'
    BY <1>1, <2>1, ManagerAssumption DEF NewCall, Ops
  <2> QED
    BY <2>1, <1>2, <1>3, <1>4, <1>5, <1>6, <1>7, <1>8, <1>9, <1>10, <1>11,
       <1>12, <1>13, <1>14, <1>15, <1>16 DEF Next, CallStep

(* Edits keep the names distinct.                                           *)
LEMMA NamesStep ==
    ASSUME TypeOK, CallShape, NamesStayDistinct, [Next]_vars
    PROVE  NamesStayDistinct'
<1>1. ASSUME NEW c \in Calls, NEW op \in Ops, NEW i \in Ids, NEW e \in Entries
   \cup {NoEntry}, op \in {"add", "update"} <=> e # NoEntry, Call(c, op, i, e)
   PROVE NamesStayDistinct'
  BY <1>1, ManagerAssumption DEF Call, GoTo, FirstPlace, Ops, managerVars, TypeOK,
     CallShape, NamesStayDistinct, DistinctNames, Entries
<1>2. ASSUME NEW c \in Calls, stop_tunnel(c) PROVE NamesStayDistinct'
  BY <1>2, ManagerAssumption DEF stop_tunnel, StopOrSkip, Stop, Return, uiVars, TypeOK,
     CallShape, NamesStayDistinct, DistinctNames, Entries
<1>3. ASSUME NEW c \in Calls, StopFirst(c) PROVE NamesStayDistinct'
  BY <1>3, ManagerAssumption DEF StopFirst, StopOrSkip, Stop, Reach, GoTo, uiVars,
     TypeOK, CallShape, NamesStayDistinct, DistinctNames, Entries
<1>4. ASSUME NEW c \in Calls, EditRefused(c) PROVE NamesStayDistinct'
  BY <1>4, ManagerAssumption DEF EditRefused, Return, managerVars, uiVars, TypeOK,
     CallShape, NamesStayDistinct, DistinctNames, Entries
<1>5. ASSUME NEW c \in Calls, Edit(c) PROVE NamesStayDistinct'
  BY <1>5, ManagerAssumption DEF Edit, Edited, Editable, Reach, GoTo, Return, uiVars,
     TypeOK, CallShape, NamesStayDistinct, DistinctNames, Entries
<1>6. ASSUME NEW c \in Calls, SaveFails(c) PROVE NamesStayDistinct'
  BY <1>6, ManagerAssumption DEF SaveFails, Edited, Editable, Return, uiVars, TypeOK,
     CallShape, NamesStayDistinct, DistinctNames, Entries
<1>7. ASSUME NEW c \in Calls, EndOfPause(c) PROVE NamesStayDistinct'
  BY <1>7, ManagerAssumption DEF EndOfPause, Reach, GoTo, managerVars, uiVars, TypeOK,
     CallShape, NamesStayDistinct, DistinctNames, Entries
<1>8. ASSUME NEW c \in Calls, ReadEntry(c) PROVE NamesStayDistinct'
  BY <1>8, ManagerAssumption DEF ReadEntry, GoTo, managerVars, uiVars, TypeOK,
     CallShape, NamesStayDistinct, DistinctNames, Entries
<1>9. ASSUME NEW c \in Calls, NoSuchTunnel(c) PROVE NamesStayDistinct'
  BY <1>9, ManagerAssumption DEF NoSuchTunnel, Return, managerVars, uiVars, TypeOK,
     CallShape, NamesStayDistinct, DistinctNames, Entries
<1>10. ASSUME NEW c \in Calls, AlreadyRunning(c) PROVE NamesStayDistinct'
  BY <1>10, ManagerAssumption DEF AlreadyRunning, Return, managerVars, uiVars, TypeOK,
     CallShape, NamesStayDistinct, DistinctNames, Entries
<1>11. ASSUME NEW c \in Calls, Spawn(c) PROVE NamesStayDistinct'
  BY <1>11, ManagerAssumption DEF Spawn, Reach, GoTo, uiVars, TypeOK, CallShape,
     NamesStayDistinct, DistinctNames, Entries
<1>12. ASSUME NEW c \in Calls, Insert(c) PROVE NamesStayDistinct'
  BY <1>12, ManagerAssumption DEF Insert, Return, uiVars, TypeOK, CallShape,
     NamesStayDistinct, DistinctNames, Entries
<1>13. ASSUME NEW c \in Calls, CallDropped(c) PROVE NamesStayDistinct'
  BY <1>13, ManagerAssumption DEF CallDropped, Return, managerVars, uiVars, TypeOK,
     CallShape, NamesStayDistinct, DistinctNames, Entries
<1>14. ASSUME Disconnect PROVE NamesStayDistinct'
  BY <1>14, ManagerAssumption DEF Disconnect, MapIds, managerVars, callVars, TypeOK,
     CallShape, NamesStayDistinct, DistinctNames, Entries
<1>15. ASSUME NEW i \in Ids, stop_all(i) PROVE NamesStayDistinct'
  BY <1>15, ManagerAssumption DEF stop_all, StopOrSkip, Stop, callVars, TypeOK,
     CallShape, NamesStayDistinct, DistinctNames, Entries
<1>16. CASE UNCHANGED vars
  BY <1>16 DEF vars, managerVars, callVars, uiVars, TypeOK, CallShape,
     NamesStayDistinct, DistinctNames, Entries
<1> QED
  <2>1. ASSUME NEW c \in Calls, NewCall(c) PROVE NamesStayDistinct'
    BY <1>1, <2>1, ManagerAssumption DEF NewCall, Ops
  <2> QED
    BY <2>1, <1>2, <1>3, <1>4, <1>5, <1>6, <1>7, <1>8, <1>9, <1>10, <1>11,
       <1>12, <1>13, <1>14, <1>15, <1>16 DEF Next, CallStep

(* A file that lags behind was reported.                                    *)
LEMMA SavedStep ==
    ASSUME TypeOK, SavedUnlessReported, [Next]_vars
    PROVE  SavedUnlessReported'
<1>1. ASSUME NEW c \in Calls, NEW op \in Ops, NEW i \in Ids, NEW e \in Entries
   \cup {NoEntry}, op \in {"add", "update"} <=> e # NoEntry, Call(c, op, i, e)
   PROVE SavedUnlessReported'
  BY <1>1, ManagerAssumption DEF Call, GoTo, FirstPlace, Ops, managerVars, TypeOK,
     SavedUnlessReported
<1>2. ASSUME NEW c \in Calls, stop_tunnel(c) PROVE SavedUnlessReported'
  BY <1>2, ManagerAssumption DEF stop_tunnel, StopOrSkip, Stop, Return, uiVars, TypeOK,
     SavedUnlessReported
<1>3. ASSUME NEW c \in Calls, StopFirst(c) PROVE SavedUnlessReported'
  BY <1>3, ManagerAssumption DEF StopFirst, StopOrSkip, Stop, Reach, GoTo, uiVars,
     TypeOK, SavedUnlessReported
<1>4. ASSUME NEW c \in Calls, EditRefused(c) PROVE SavedUnlessReported'
  BY <1>4, ManagerAssumption DEF EditRefused, Return, managerVars, uiVars, TypeOK,
     SavedUnlessReported
<1>5. ASSUME NEW c \in Calls, Edit(c) PROVE SavedUnlessReported'
  BY <1>5, ManagerAssumption DEF Edit, Edited, Editable, Reach, GoTo, Return, uiVars,
     TypeOK, SavedUnlessReported
<1>6. ASSUME NEW c \in Calls, SaveFails(c) PROVE SavedUnlessReported'
  BY <1>6, ManagerAssumption DEF SaveFails, Edited, Editable, Return, uiVars, TypeOK,
     SavedUnlessReported
<1>7. ASSUME NEW c \in Calls, EndOfPause(c) PROVE SavedUnlessReported'
  BY <1>7, ManagerAssumption DEF EndOfPause, Reach, GoTo, managerVars, uiVars, TypeOK,
     SavedUnlessReported
<1>8. ASSUME NEW c \in Calls, ReadEntry(c) PROVE SavedUnlessReported'
  BY <1>8, ManagerAssumption DEF ReadEntry, GoTo, managerVars, uiVars, TypeOK,
     SavedUnlessReported
<1>9. ASSUME NEW c \in Calls, NoSuchTunnel(c) PROVE SavedUnlessReported'
  BY <1>9, ManagerAssumption DEF NoSuchTunnel, Return, managerVars, uiVars, TypeOK,
     SavedUnlessReported
<1>10. ASSUME NEW c \in Calls, AlreadyRunning(c) PROVE SavedUnlessReported'
  BY <1>10, ManagerAssumption DEF AlreadyRunning, Return, managerVars, uiVars, TypeOK,
     SavedUnlessReported
<1>11. ASSUME NEW c \in Calls, Spawn(c) PROVE SavedUnlessReported'
  BY <1>11, ManagerAssumption DEF Spawn, Reach, GoTo, uiVars, TypeOK,
     SavedUnlessReported
<1>12. ASSUME NEW c \in Calls, Insert(c) PROVE SavedUnlessReported'
  BY <1>12, ManagerAssumption DEF Insert, Return, uiVars, TypeOK, SavedUnlessReported
<1>13. ASSUME NEW c \in Calls, CallDropped(c) PROVE SavedUnlessReported'
  BY <1>13, ManagerAssumption DEF CallDropped, Return, managerVars, uiVars, TypeOK,
     SavedUnlessReported
<1>14. ASSUME Disconnect PROVE SavedUnlessReported'
  BY <1>14, ManagerAssumption DEF Disconnect, MapIds, managerVars, callVars, TypeOK,
     SavedUnlessReported
<1>15. ASSUME NEW i \in Ids, stop_all(i) PROVE SavedUnlessReported'
  BY <1>15, ManagerAssumption DEF stop_all, StopOrSkip, Stop, callVars, TypeOK,
     SavedUnlessReported
<1>16. CASE UNCHANGED vars
  BY <1>16 DEF vars, managerVars, callVars, uiVars, TypeOK, SavedUnlessReported
<1> QED
  <2>1. ASSUME NEW c \in Calls, NewCall(c) PROVE SavedUnlessReported'
    BY <1>1, <2>1, ManagerAssumption DEF NewCall, Ops
  <2> QED
    BY <2>1, <1>2, <1>3, <1>4, <1>5, <1>6, <1>7, <1>8, <1>9, <1>10, <1>11,
       <1>12, <1>13, <1>14, <1>15, <1>16 DEF Next, CallStep

(* Live tasks have the entry of the configuration: no entry changes under   *)
(* a task that runs.                                                        *)
LEMMA RunsStep ==
    ASSUME TypeOK, CallShape, TaskShape, Progress, RunsWhatIsConfigured, [Next]_vars
    PROVE  RunsWhatIsConfigured'
<1>1. ASSUME NEW c \in Calls, NEW op \in Ops, NEW i \in Ids, NEW e \in Entries
   \cup {NoEntry}, op \in {"add", "update"} <=> e # NoEntry, Call(c, op, i, e)
   PROVE RunsWhatIsConfigured'
  BY <1>1, ManagerAssumption DEF Call, GoTo, FirstPlace, Ops, managerVars, TypeOK,
     TaskShape, Progress, RunsWhatIsConfigured, Tasks, NoCall, NoTunnel
<1>2. ASSUME NEW c \in Calls, stop_tunnel(c) PROVE RunsWhatIsConfigured'
  <2>0. call[c].id \in Ids /\ StopOrSkip(call[c].id)
    BY <1>2 DEF stop_tunnel, CallShape, Active, TypeOK, NoCall
  <2>1. \A t \in Tasks : task'[t] = "running" => task[t] = "running" /\ served'[t] = served[t]
    BY <1>2, <2>0, StopFacts
  <2> QED
    BY <1>2, <2>1 DEF stop_tunnel, uiVars, RunsWhatIsConfigured
<1>3. ASSUME NEW c \in Calls, StopFirst(c) PROVE RunsWhatIsConfigured'
  <2>0. call[c].id \in Ids /\ StopOrSkip(call[c].id)
    BY <1>3 DEF StopFirst, CallShape, Active, TypeOK, NoCall
  <2>1. \A t \in Tasks : task'[t] = "running" => task[t] = "running" /\ served'[t] = served[t]
    BY <1>3, <2>0, StopFacts
  <2> QED
    BY <1>3, <2>1 DEF StopFirst, uiVars, RunsWhatIsConfigured
<1>4. ASSUME NEW c \in Calls, EditRefused(c) PROVE RunsWhatIsConfigured'
  BY <1>4, ManagerAssumption DEF EditRefused, Return, managerVars, uiVars, TypeOK,
     TaskShape, Progress, RunsWhatIsConfigured, Tasks, NoCall, NoTunnel
<1>5. ASSUME NEW c \in Calls, Edit(c) PROVE RunsWhatIsConfigured'
  <2>1. call[c].id \in Ids /\ pc[c] = "editing"
    BY <1>5 DEF Edit, CallShape, Active, TypeOK, NoCall
  <2>2. \A j \in Ids \ {call[c].id} : config'[j] = config[j]
    BY <1>5, <2>1 DEF Edit, Edited, TypeOK
  <2>3. UNCHANGED <<task, served, raced>>
    BY <1>5 DEF Edit, uiVars
  <2>4. ASSUME NEW t \in Tasks, task[t] = "running", served[t].id \notin raced
        PROVE  served[t].id \in Ids \ {call[c].id}
    BY <2>1, <2>4 DEF TypeOK, TaskShape, Progress
  <2> QED
    BY <2>2, <2>3, <2>4 DEF RunsWhatIsConfigured
<1>6. ASSUME NEW c \in Calls, SaveFails(c) PROVE RunsWhatIsConfigured'
  <2>1. call[c].id \in Ids /\ pc[c] = "editing"
    BY <1>6 DEF SaveFails, CallShape, Active, TypeOK, NoCall
  <2>2. \A j \in Ids \ {call[c].id} : config'[j] = config[j]
    BY <1>6, <2>1 DEF SaveFails, Edited, TypeOK
  <2>3. UNCHANGED <<task, served, raced>>
    BY <1>6 DEF SaveFails, uiVars
  <2>4. ASSUME NEW t \in Tasks, task[t] = "running", served[t].id \notin raced
        PROVE  served[t].id \in Ids \ {call[c].id}
    BY <2>1, <2>4 DEF TypeOK, TaskShape, Progress
  <2> QED
    BY <2>2, <2>3, <2>4 DEF RunsWhatIsConfigured
<1>7. ASSUME NEW c \in Calls, EndOfPause(c) PROVE RunsWhatIsConfigured'
  BY <1>7, ManagerAssumption DEF EndOfPause, Reach, GoTo, managerVars, uiVars, TypeOK,
     TaskShape, Progress, RunsWhatIsConfigured, Tasks, NoCall, NoTunnel
<1>8. ASSUME NEW c \in Calls, ReadEntry(c) PROVE RunsWhatIsConfigured'
  BY <1>8, ManagerAssumption DEF ReadEntry, GoTo, managerVars, uiVars, TypeOK,
     TaskShape, Progress, RunsWhatIsConfigured, Tasks, NoCall, NoTunnel
<1>9. ASSUME NEW c \in Calls, NoSuchTunnel(c) PROVE RunsWhatIsConfigured'
  BY <1>9, ManagerAssumption DEF NoSuchTunnel, Return, managerVars, uiVars, TypeOK,
     TaskShape, Progress, RunsWhatIsConfigured, Tasks, NoCall, NoTunnel
<1>10. ASSUME NEW c \in Calls, AlreadyRunning(c) PROVE RunsWhatIsConfigured'
  BY <1>10, ManagerAssumption DEF AlreadyRunning, Return, managerVars, uiVars, TypeOK,
     TaskShape, Progress, RunsWhatIsConfigured, Tasks, NoCall, NoTunnel
<1>11. ASSUME NEW c \in Calls, Spawn(c) PROVE RunsWhatIsConfigured'
  <2>1. c \in Tasks /\ pc[c] = "starting" /\ UNCHANGED <<config, raced>>
    BY <1>11 DEF Spawn, Tasks, uiVars
  <2>2. \A t \in Tasks \ {c} : task'[t] = task[t] /\ served'[t] = served[t]
    BY <1>11 DEF Spawn, TypeOK
  <2>3. served'[c] = [id |-> call[c].id, entry |-> call[c].entry]
    BY <1>11, <2>1 DEF Spawn, TypeOK
  <2>4. call[c].id \notin raced => call[c].entry = config[call[c].id]
    BY <2>1 DEF Progress
  <2> QED
    BY <2>1, <2>2, <2>3, <2>4 DEF RunsWhatIsConfigured
<1>12. ASSUME NEW c \in Calls, Insert(c) PROVE RunsWhatIsConfigured'
  BY <1>12, ManagerAssumption DEF Insert, Return, uiVars, TypeOK, TaskShape, Progress,
     RunsWhatIsConfigured, Tasks, NoCall, NoTunnel
<1>13. ASSUME NEW c \in Calls, CallDropped(c) PROVE RunsWhatIsConfigured'
  BY <1>13, ManagerAssumption DEF CallDropped, Return, managerVars, uiVars, TypeOK,
     TaskShape, Progress, RunsWhatIsConfigured, Tasks, NoCall, NoTunnel
<1>14. ASSUME Disconnect PROVE RunsWhatIsConfigured'
  BY <1>14, ManagerAssumption DEF Disconnect, MapIds, managerVars, callVars, TypeOK,
     TaskShape, Progress, RunsWhatIsConfigured, Tasks, NoCall, NoTunnel
<1>15. ASSUME NEW i \in Ids, stop_all(i) PROVE RunsWhatIsConfigured'
  <2>1. \A t \in Tasks : task'[t] = "running" => task[t] = "running" /\ served'[t] = served[t]
    BY <1>15, StopFacts DEF stop_all
  <2> QED
    BY <1>15, <2>1 DEF stop_all, RunsWhatIsConfigured
<1>16. CASE UNCHANGED vars
  BY <1>16 DEF vars, managerVars, callVars, uiVars, TypeOK, TaskShape, Progress,
     RunsWhatIsConfigured, Tasks, NoCall, NoTunnel
<1> QED
  <2>1. ASSUME NEW c \in Calls, NewCall(c) PROVE RunsWhatIsConfigured'
    BY <1>1, <2>1, ManagerAssumption DEF NewCall, Ops
  <2> QED
    BY <2>1, <1>2, <1>3, <1>4, <1>5, <1>6, <1>7, <1>8, <1>9, <1>10, <1>11,
       <1>12, <1>13, <1>14, <1>15, <1>16 DEF Next, CallStep

(* A call that is alone on its tunnel finds it as it left it.               *)
LEMMA ProgressStep ==
    ASSUME TypeOK, CallShape, TaskShape, AloneUnlessRaced, NoOrphanUnlessRaced, Progress, [Next]_vars
    PROVE  Progress'
<1>1. ASSUME NEW c \in Calls, NEW op \in Ops, NEW i \in Ids, NEW e \in Entries
   \cup {NoEntry}, op \in {"add", "update"} <=> e # NoEntry, Call(c, op, i, e)
   PROVE Progress'
  BY <1>1, ManagerAssumption DEF Call, GoTo, FirstPlace, Ops, managerVars, TypeOK,
     Tasks, Places, Ops, Entries, NoCall, NoTunnel, CallShape, TaskShape,
     AloneUnlessRaced, Progress, Fresh, Active
<1>2. ASSUME NEW c \in Calls, stop_tunnel(c) PROVE Progress'
  <2>0. call[c].id \in Ids /\ StopOrSkip(call[c].id)
    BY <1>2 DEF stop_tunnel, CallShape, Active, TypeOK, NoCall
  <2>1. UNCHANGED <<config, raced>> /\ \A d \in Calls : pc'[d] # "over" => pc'[d] = pc[d] /\ call'[d] = call[d]
    BY <1>2 DEF stop_tunnel, Return, uiVars, TypeOK
  <2>2. \A t \in Tasks : task'[t] = "running" => task[t] = "running" /\ served'[t] = served[t]
    BY <2>0, StopFacts
  <2>3. \A j \in Ids : tunnels[j] = NoTask => tunnels'[j] = NoTask
    BY <2>0, StopFacts
  <2>4. \A d \in Calls : Active(d) => call[d].id \in Ids
    BY DEF TypeOK, CallShape, NoCall
  <2> QED
    BY <2>1, <2>2, <2>3, <2>4 DEF Progress, Active
<1>3. ASSUME NEW c \in Calls, StopFirst(c) PROVE Progress'
  <2>0. call[c].id \in Ids /\ StopOrSkip(call[c].id)
    BY <1>3 DEF StopFirst, CallShape, Active, TypeOK, NoCall
  <2>1. UNCHANGED <<config, raced, call>> /\ \A d \in Calls \ {c} : pc'[d] = pc[d]
    BY <1>3 DEF StopFirst, Reach, GoTo, uiVars, TypeOK
  <2>2. \A t \in Tasks : task'[t] = "running" => task[t] = "running" /\ served'[t] = served[t]
    BY <2>0, StopFacts
  <2>3. \A j \in Ids : tunnels[j] = NoTask => tunnels'[j] = NoTask
    BY <2>0, StopFacts
  <2>4. \A d \in Calls : Active(d) => call[d].id \in Ids
    BY DEF TypeOK, CallShape, NoCall
  <2>5. pc'[c] \in {"pausing", "editing"} /\ Active(c) /\ pc[c] # "inserting"
    BY <1>3 DEF StopFirst, Reach, GoTo, TypeOK, Active
  <2>6. ASSUME NEW t \in Tasks, task'[t] = "running", served'[t].id = call[c].id,
               call[c].id \notin raced
        PROVE  FALSE
    <3>1. task[t] = "running" /\ served[t].id = call[c].id
      BY <2>2, <2>6
    <3>2. CASE tunnels[call[c].id] = t
      BY <2>0, <2>6, <3>2, StopFacts
    <3>3. CASE t \in Calls /\ pc[t] = "inserting"
      BY <2>5, <2>6, <3>1, <3>3 DEF TaskShape, AloneUnlessRaced, Active
    <3> QED
      BY <2>6, <3>1, <3>2, <3>3 DEF NoOrphanUnlessRaced, Managed
  <2> QED
    BY <2>1, <2>2, <2>3, <2>4, <2>5, <2>6 DEF Progress, Active
<1>4. ASSUME NEW c \in Calls, EditRefused(c) PROVE Progress'
  BY <1>4, ManagerAssumption DEF EditRefused, Return, managerVars, uiVars, TypeOK,
     Tasks, Places, Ops, Entries, NoCall, NoTunnel, CallShape, TaskShape,
     AloneUnlessRaced, Progress, Active
<1>5. ASSUME NEW c \in Calls, Edit(c) PROVE Progress'
  BY <1>5, ManagerAssumption DEF Edit, Edited, Editable, Reach, GoTo, Return, uiVars,
     TypeOK, Tasks, Places, Ops, Entries, NoCall, NoTunnel, CallShape, TaskShape,
     AloneUnlessRaced, Progress, Active
<1>6. ASSUME NEW c \in Calls, SaveFails(c) PROVE Progress'
  <2>1. call[c].id \in Ids /\ Active(c)
    BY <1>6 DEF SaveFails, CallShape, Active, TypeOK, NoCall
  <2>2. \A j \in Ids \ {call[c].id} : config'[j] = config[j]
    BY <1>6, <2>1 DEF SaveFails, Edited, TypeOK
  <2>3. UNCHANGED <<tunnels, task, served, raced>>
    BY <1>6 DEF SaveFails, uiVars
  <2>4. \A d \in Calls : pc'[d] # "over" => d # c /\ pc'[d] = pc[d] /\ call'[d] = call[d]
    BY <1>6 DEF SaveFails, Return, TypeOK
  <2>5. \A d \in Calls : Active(d) /\ d # c /\ call[d].id \notin raced =>
                          call[d].id \in Ids \ {call[c].id}
    BY <2>1 DEF AloneUnlessRaced, TypeOK, CallShape, NoCall
  <2> QED
    BY <2>2, <2>3, <2>4, <2>5 DEF Progress, Active
<1>7. ASSUME NEW c \in Calls, EndOfPause(c) PROVE Progress'
  BY <1>7, ManagerAssumption DEF EndOfPause, Reach, GoTo, managerVars, uiVars, TypeOK,
     Tasks, Places, Ops, Entries, NoCall, NoTunnel, CallShape, TaskShape,
     AloneUnlessRaced, Progress, Active
<1>8. ASSUME NEW c \in Calls, ReadEntry(c) PROVE Progress'
  BY <1>8, ManagerAssumption DEF ReadEntry, GoTo, managerVars, uiVars, TypeOK, Tasks,
     Places, Ops, Entries, NoCall, NoTunnel, CallShape, TaskShape, AloneUnlessRaced,
     Progress, Active
<1>9. ASSUME NEW c \in Calls, NoSuchTunnel(c) PROVE Progress'
  BY <1>9, ManagerAssumption DEF NoSuchTunnel, Return, managerVars, uiVars, TypeOK,
     Tasks, Places, Ops, Entries, NoCall, NoTunnel, CallShape, TaskShape,
     AloneUnlessRaced, Progress, Active
<1>10. ASSUME NEW c \in Calls, AlreadyRunning(c) PROVE Progress'
  BY <1>10, ManagerAssumption DEF AlreadyRunning, Return, managerVars, uiVars, TypeOK,
     Tasks, Places, Ops, Entries, NoCall, NoTunnel, CallShape, TaskShape,
     AloneUnlessRaced, Progress, Active
<1>11. ASSUME NEW c \in Calls, Spawn(c) PROVE Progress'
  <2>1. c \in Tasks /\ pc[c] = "starting" /\ Active(c) /\ pc'[c] = "inserting"
    BY <1>11 DEF Spawn, Tasks, Reach, GoTo, TypeOK, Active
  <2>2. \A t \in Tasks \ {c} : task'[t] = task[t] /\ served'[t] = served[t]
    BY <1>11 DEF Spawn, TypeOK
  <2>3. served'[c].id = call[c].id
    BY <1>11, <2>1 DEF Spawn, TypeOK
  <2>4. UNCHANGED <<config, tunnels, raced, call>> /\ tunnels[call[c].id] = NoTask
    BY <1>11 DEF Spawn, Reach, uiVars
  <2>5. \A d \in Calls \ {c} : pc'[d] = pc[d]
    BY <1>11 DEF Spawn, Reach, GoTo, TypeOK
  <2>6. \A d \in Calls \ {c} : Active(d) /\ call[d].id \notin raced => call[d].id # call[c].id
    BY <2>1 DEF AloneUnlessRaced
  <2> QED
    BY <2>1, <2>2, <2>3, <2>4, <2>5, <2>6 DEF Progress, Active
<1>12. ASSUME NEW c \in Calls, Insert(c) PROVE Progress'
  BY <1>12, ManagerAssumption DEF Insert, Return, uiVars, TypeOK, Tasks, Places, Ops,
     Entries, NoCall, NoTunnel, CallShape, TaskShape, AloneUnlessRaced, Progress, Active
<1>13. ASSUME NEW c \in Calls, CallDropped(c) PROVE Progress'
  BY <1>13, ManagerAssumption DEF CallDropped, Return, managerVars, uiVars, TypeOK,
     Tasks, Places, Ops, Entries, NoCall, NoTunnel, CallShape, TaskShape,
     AloneUnlessRaced, Progress, Active
<1>14. ASSUME Disconnect PROVE Progress'
  BY <1>14, ManagerAssumption DEF Disconnect, MapIds, managerVars, callVars, TypeOK,
     Tasks, Places, Ops, Entries, NoCall, NoTunnel, CallShape, TaskShape,
     AloneUnlessRaced, Progress, Active
<1>15. ASSUME NEW i \in Ids, stop_all(i) PROVE Progress'
  <2>1. UNCHANGED <<config, raced, call>> /\ \A d \in Calls : pc'[d] \in {"inserting", "editing", "starting"} => pc'[d] = pc[d]
    BY <1>15 DEF stop_all, callVars, TypeOK
  <2>2. \A t \in Tasks : task'[t] = "running" => task[t] = "running" /\ served'[t] = served[t]
    BY <1>15, StopFacts DEF stop_all
  <2>3. \A j \in Ids : tunnels[j] = NoTask => tunnels'[j] = NoTask
    BY <1>15, StopFacts DEF stop_all
  <2> QED
    BY <2>1, <2>2, <2>3, ManagerAssumption DEF Progress, TypeOK, CallShape, Active,
       NoCall
<1>16. CASE UNCHANGED vars
  BY <1>16 DEF vars, managerVars, callVars, uiVars, TypeOK, Tasks, Places, Ops, Entries,
     NoCall, NoTunnel, CallShape, TaskShape, AloneUnlessRaced, Progress, Active
<1> QED
  <2>1. ASSUME NEW c \in Calls, NewCall(c) PROVE Progress'
    BY <1>1, <2>1, ManagerAssumption DEF NewCall, Ops
  <2> QED
    BY <2>1, <1>2, <1>3, <1>4, <1>5, <1>6, <1>7, <1>8, <1>9, <1>10, <1>11,
       <1>12, <1>13, <1>14, <1>15, <1>16 DEF Next, CallStep

(* After a disconnect only stop_all is left, and it has every handle.       *)
LEMMA AfterStep ==
    ASSUME TypeOK, CallShape, AloneUnlessRaced, AfterDisconnect, [Next]_vars
    PROVE  AfterDisconnect'
<1>1. ASSUME NEW c \in Calls, NEW op \in Ops, NEW i \in Ids, NEW e \in Entries
   \cup {NoEntry}, op \in {"add", "update"} <=> e # NoEntry, Call(c, op, i, e)
   PROVE AfterDisconnect'
  BY <1>1, ManagerAssumption DEF Call, GoTo, FirstPlace, Ops, managerVars, TypeOK,
     Tasks, Places, Ops, Entries, NoCall, NoTunnel, CallShape, AfterDisconnect, Active
<1>2. ASSUME NEW c \in Calls, stop_tunnel(c) PROVE AfterDisconnect'
  BY <1>2, ManagerAssumption DEF stop_tunnel, StopOrSkip, Stop, Return, uiVars, TypeOK,
     Tasks, Places, Ops, Entries, NoCall, NoTunnel, CallShape, AfterDisconnect, Active
<1>3. ASSUME NEW c \in Calls, StopFirst(c) PROVE AfterDisconnect'
  BY <1>3, ManagerAssumption DEF StopFirst, StopOrSkip, Stop, Reach, GoTo, uiVars,
     TypeOK, Tasks, Places, Ops, Entries, NoCall, NoTunnel, CallShape, AfterDisconnect,
     Active
<1>4. ASSUME NEW c \in Calls, EditRefused(c) PROVE AfterDisconnect'
  BY <1>4, ManagerAssumption DEF EditRefused, Return, managerVars, uiVars, TypeOK,
     Tasks, Places, Ops, Entries, NoCall, NoTunnel, CallShape, AfterDisconnect, Active
<1>5. ASSUME NEW c \in Calls, Edit(c) PROVE AfterDisconnect'
  BY <1>5, ManagerAssumption DEF Edit, Edited, Editable, Reach, GoTo, Return, uiVars,
     TypeOK, Tasks, Places, Ops, Entries, NoCall, NoTunnel, CallShape, AfterDisconnect,
     Active
<1>6. ASSUME NEW c \in Calls, SaveFails(c) PROVE AfterDisconnect'
  BY <1>6, ManagerAssumption DEF SaveFails, Edited, Editable, Return, uiVars, TypeOK,
     Tasks, Places, Ops, Entries, NoCall, NoTunnel, CallShape, AfterDisconnect, Active
<1>7. ASSUME NEW c \in Calls, EndOfPause(c) PROVE AfterDisconnect'
  BY <1>7, ManagerAssumption DEF EndOfPause, Reach, GoTo, managerVars, uiVars, TypeOK,
     Tasks, Places, Ops, Entries, NoCall, NoTunnel, CallShape, AfterDisconnect, Active
<1>8. ASSUME NEW c \in Calls, ReadEntry(c) PROVE AfterDisconnect'
  BY <1>8, ManagerAssumption DEF ReadEntry, GoTo, managerVars, uiVars, TypeOK, Tasks,
     Places, Ops, Entries, NoCall, NoTunnel, CallShape, AfterDisconnect, Active
<1>9. ASSUME NEW c \in Calls, NoSuchTunnel(c) PROVE AfterDisconnect'
  BY <1>9, ManagerAssumption DEF NoSuchTunnel, Return, managerVars, uiVars, TypeOK,
     Tasks, Places, Ops, Entries, NoCall, NoTunnel, CallShape, AfterDisconnect, Active
<1>10. ASSUME NEW c \in Calls, AlreadyRunning(c) PROVE AfterDisconnect'
  BY <1>10, ManagerAssumption DEF AlreadyRunning, Return, managerVars, uiVars, TypeOK,
     Tasks, Places, Ops, Entries, NoCall, NoTunnel, CallShape, AfterDisconnect, Active
<1>11. ASSUME NEW c \in Calls, Spawn(c) PROVE AfterDisconnect'
  BY <1>11, ManagerAssumption DEF Spawn, Reach, GoTo, uiVars, TypeOK, Tasks, Places,
     Ops, Entries, NoCall, NoTunnel, CallShape, AfterDisconnect, Active
<1>12. ASSUME NEW c \in Calls, Insert(c) PROVE AfterDisconnect'
  BY <1>12, ManagerAssumption DEF Insert, Return, uiVars, TypeOK, Tasks, Places, Ops,
     Entries, NoCall, NoTunnel, CallShape, AfterDisconnect, Active
<1>13. ASSUME NEW c \in Calls, CallDropped(c) PROVE AfterDisconnect'
  BY <1>13, ManagerAssumption DEF CallDropped, Return, managerVars, uiVars, TypeOK,
     Tasks, Places, Ops, Entries, NoCall, NoTunnel, CallShape, AfterDisconnect, Active
<1>14. ASSUME Disconnect PROVE AfterDisconnect'
  BY <1>14, ManagerAssumption DEF Disconnect, MapIds, managerVars, callVars, TypeOK,
     Tasks, Places, Ops, Entries, NoCall, NoTunnel, CallShape, AfterDisconnect, Active
<1>15. ASSUME NEW i \in Ids, stop_all(i) PROVE AfterDisconnect'
  BY <1>15, ManagerAssumption DEF stop_all, StopOrSkip, Stop, callVars, TypeOK, Tasks,
     Places, Ops, Entries, NoCall, NoTunnel, CallShape, AfterDisconnect, Active
<1>16. CASE UNCHANGED vars
  BY <1>16 DEF vars, managerVars, callVars, uiVars, TypeOK, Tasks, Places, Ops, Entries,
     NoCall, NoTunnel, CallShape, AfterDisconnect, Active
<1> QED
  <2>1. ASSUME NEW c \in Calls, NewCall(c) PROVE AfterDisconnect'
    BY <1>1, <2>1, ManagerAssumption DEF NewCall, Ops
  <2> QED
    BY <2>1, <1>2, <1>3, <1>4, <1>5, <1>6, <1>7, <1>8, <1>9, <1>10, <1>11,
       <1>12, <1>13, <1>14, <1>15, <1>16 DEF Next, CallStep

(* The invariant holds once start_all has run.                              *)
LEMMA InitInv ==
    ASSUME Init
    PROVE  Inv
<1>1. \A c \in Calls : call[c] = NoCall /\ pc[c] = "idle"
  BY DEF Init
<1>2. TypeOK
  <2>1. config \in [Ids -> Entries \cup {NoEntry}] /\ \A i \in Ids : AutoStarted(i) => config[i] \in Entries
    BY DEF Init, AutoStarted
  <2>2. served \in [Tasks -> [id : Ids, entry : Entries] \cup {NoTunnel}]
    BY <2>1 DEF Init, Tasks
  <2>3. tunnels \in [Ids -> Tasks \cup {NoTask}] /\ task \in [Tasks -> {"none", "running", "cancelled"}]
    BY DEF Init, Tasks
  <2> QED
    BY <2>1, <2>2, <2>3 DEF Init, TypeOK, Places
<1>3. CallShape /\ AloneUnlessRaced /\ AfterDisconnect
  BY <1>1 DEF Init, CallShape, AloneUnlessRaced, AfterDisconnect, Active, NoCall
<1>4. Progress
  BY <1>1 DEF Progress
<1>5. TaskShape
  BY <1>1, ManagerAssumption DEF Init, TaskShape, NoTunnel, Tasks, AutoStarted
<1>6. \A t \in Tasks : task[t] = "running" =>
          t \in Ids /\ tunnels[t] = t /\ served[t].id = t /\ served[t].entry = config[t]
  BY DEF Init
<1>7. \A i \in Ids : tunnels[i] # NoTask => tunnels[i] = i /\ task[i] = "running"
  BY DEF Init, Tasks
<1>8. NoOrphanUnlessRaced /\ RunsWhatIsConfigured
  <2>1. \A i \in Ids : tunnels[i] # NoTask =>
            task[tunnels[i]] = "running" /\ served[tunnels[i]].id = i
    <3>1. \A i \in Ids : task[i] = "running" => served[i].id = i
      BY <1>6 DEF Tasks
    <3> QED
      BY <1>7, <3>1
  <2>2. \A t \in Tasks : task[t] = "running" =>
            Managed(t) /\ config[served[t].id] = served[t].entry
    BY <1>6 DEF Managed
  <2> QED
    BY <2>1, <2>2 DEF NoOrphanUnlessRaced, RunsWhatIsConfigured
<1>9. NamesStayDistinct /\ SavedUnlessReported
  BY DEF Init, NamesStayDistinct, SavedUnlessReported
<1> QED
  BY <1>2, <1>3, <1>4, <1>5, <1>8, <1>9 DEF Inv

(* The inductive invariant is one.                                          *)
THEOREM Invariance == Spec => []Inv
<1>1. Inv /\ [Next]_vars => Inv'
  BY TypeStep, CallShapeStep, TaskShapeStep, AloneStep, OrphanStep, NamesStep,
     SavedStep, RunsStep, ProgressStep, AfterStep DEF Inv
<1> QED
  BY <1>1, InitInv, PTL DEF Spec

(* The variables keep their types for any calls and tunnels.                *)
THEOREM TypeCorrect == Spec => []TypeOK
<1>1. Inv => TypeOK
  BY DEF Inv
<1> QED
  BY <1>1, Invariance, PTL

(* A tunnel that no two calls worked on at once has no task but the one in  *)
(* the map, whatever calls on it failed or were dropped (tunnel_manager.rs  *)
(* stop_tunnel and start_tunnel_internal).                                  *)
THEOREM OrphansOnlyFromRaces == Spec => []NoOrphanUnlessRaced
<1>1. Inv => NoOrphanUnlessRaced
  BY DEF Inv
<1> QED
  BY <1>1, Invariance, PTL

(* A live task has the entry of the configuration (tunnel_manager.rs        *)
(* update_tunnel: stop, edit, start).                                       *)
THEOREM RunsAsConfigured == Spec => []RunsWhatIsConfigured
<1>1. Inv => RunsWhatIsConfigured
  BY DEF Inv
<1> QED
  BY <1>1, Invariance, PTL

(* No two tunnels claim one name (config.rs add and update).                *)
THEOREM NamesAreDistinct == Spec => []NamesStayDistinct
<1>1. Inv => NamesStayDistinct
  BY DEF Inv
<1> QED
  BY <1>1, Invariance, PTL

(* Memory and file differ only after an error (tunnel_manager.rs edits).    *)
THEOREM SavedOrReported == Spec => []SavedUnlessReported
<1>1. Inv => SavedUnlessReported
  BY DEF Inv
<1> QED
  BY <1>1, Invariance, PTL

(* What runs after a disconnect, a call was busy with                       *)
(* (tunnel_manager.rs stop_all).                                            *)
THEOREM DisconnectStops == Spec => []DisconnectStopsAll
<1>1. ASSUME Inv PROVE DisconnectStopsAll
  <2>1. SUFFICES ASSUME ~ connected, stopping = {}, NEW t \in Tasks, task[t] = "running",
                        served[t].id \notin raced
                 PROVE  FALSE
    BY DEF DisconnectStopsAll
  <2>2. served[t].id \in Ids
    BY <1>1, <2>1 DEF Inv, TypeOK, TaskShape
  <2>3. Managed(t)
    BY <1>1, <2>1 DEF Inv, NoOrphanUnlessRaced
  <2>4. tunnels[served[t].id] = NoTask /\ \A c \in Calls : Active(c) => call[c].id # served[t].id
    BY <1>1, <2>1, <2>2 DEF Inv, AfterDisconnect
  <2> QED
    BY <1>1, <2>1, <2>3, <2>4, ManagerAssumption DEF Inv, Managed, TaskShape, Active
<1> QED
  BY <1>1, Invariance, PTL
=============================================================================
