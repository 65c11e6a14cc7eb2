--------------------------- MODULE ClientAppProofs ---------------------------
(* Theorems about the client's web UI, for any calls and names.             *)
EXTENDS ClientApp, TLAPS

(* A call that has not stored its manager: nobody else has it.              *)
Unstored ==
    \A c \in Calls : pc[c] # "over" => inner # c /\ edit[c] = NoEdit

(* Nothing of the process is left when it is down.                          *)
Down ==
    ~ up => /\ inner = NoManager /\ running = {} /\ starting = {}
            /\ \A c \in Calls : ~ Active(c)
            /\ \A m \in Managers : edit[m] = NoEdit

(* Connects that do not overlap.                                            *)
OneByOne ==
    ~ stray =>
        /\ \A c, d \in Calls : Active(c) /\ Active(d) => c = d
        /\ \A c \in Calls : pc[c] \in ConnectPlaces \ {"connecting"} => inner = NoManager

(* The calls on a manager that no longer is in AppState are those it was    *)
(* taken from under.                                                        *)
AtWorkKnown ==
    ~ stray => \A m \in Managers : AtWorkOn(m) => m = inner \/ m \in late

(* What is in credentials.yaml while a call is at its place.                *)
CredsAt(c) ==
    CASE pc[c] \in {"connecting", "disconnecting"}       -> CredsOf(inner)
      [] pc[c] = "saving"                                -> NoCreds
      [] pc[c] = "writing"                               -> Torn
      [] OTHER                                           -> c

CredsKnown ==
    /\ up /\ ~ stray /\ "creds" \notin faulty =>
          \A c \in Calls : Active(c) => creds = CredsAt(c)
    /\ creds = Torn => "creds" \in faulty \/ \E c \in Calls : pc[c] = "writing"

(* Loaded and not yet stored.                                               *)
Loading == {c \in Calls : pc[c] \in {"starting", "storing"}}

(* A save is that of the manager in use, nobody has loaded the file before  *)
(* it, and what was confirmed is in every copy that will be used.           *)
TunnelsKnown ==
    "tunnels" \notin faulty =>
        /\ \A m \in Managers : Writing(m) =>
              /\ inner \in {m, NoManager} /\ Loading = {}
              /\ kept \subseteq mem[m] /\ (edit[m].op # "remove" => edit[m].name \in mem[m])
              /\ \A n \in Managers : Writing(n) => n = m
        /\ (\A m \in Managers : ~ Writing(m)) => file # Torn /\ kept \subseteq file
        /\ \A c \in Loading : kept \subseteq mem[c]
        /\ inner # NoManager => kept \subseteq mem[inner]

(* The inductive invariant.                                                 *)
Inv ==
    /\ TypeOK /\ Unstored /\ Down /\ OneByOne
    /\ NoStrayManager /\ AtWorkKnown /\ RestartResumes /\ CredsKnown /\ TunnelsKnown

(* Every step keeps the types.                                              *)
LEMMA TypeStep ==
    ASSUME TypeOK, [Next]_vars
    PROVE  TypeOK'
<1>1. ASSUME NEW c \in Calls, NEW place \in {"connecting", "disconnecting"}, Call(c, place) PROVE TypeOK'
  BY <1>1, AppAssumption DEF Call, GoTo, appVars, diskVars, TypeOK, Managers, Places,
     ConnectPlaces, Edits
<1>2. ASSUME NEW c \in Calls, disconnect(c) PROVE TypeOK'
  BY <1>2, AppAssumption DEF disconnect, TakesManager, DeletesCreds, GoTo, TypeOK,
     Managers, Places, ConnectPlaces, Edits
<1>3. ASSUME NEW c \in Calls, OpensCreds(c) PROVE TypeOK'
  BY <1>3, AppAssumption DEF OpensCreds, GoTo, appVars, history, TypeOK, Managers,
     Places, ConnectPlaces, Edits
<1>4. ASSUME NEW c \in Calls, WritesCreds(c) PROVE TypeOK'
  BY <1>4, AppAssumption DEF WritesCreds, GoTo, appVars, TypeOK, Managers, Places,
     ConnectPlaces, Edits
<1>5. ASSUME NEW c \in Calls, SaveFails(c) PROVE TypeOK'
  BY <1>5, AppAssumption DEF SaveFails, GoTo, appVars, diskVars, history, TypeOK,
     Managers, Places, ConnectPlaces, Edits
<1>6. ASSUME NEW c \in Calls, LoadsTunnels(c) PROVE TypeOK'
  BY <1>6, AppAssumption DEF LoadsTunnels, Loaded, LoadMisses, GoTo, diskVars, TypeOK,
     Managers, Places, ConnectPlaces, Edits
<1>7. ASSUME NEW c \in Calls, StartsAll(c) PROVE TypeOK'
  BY <1>7, AppAssumption DEF StartsAll, GoTo, diskVars, history, TypeOK, Managers,
     Places, ConnectPlaces, Edits
<1>8. ASSUME NEW c \in Calls, StoresManager(c) PROVE TypeOK'
  BY <1>8, AppAssumption DEF StoresManager, GoTo, diskVars, history, TypeOK, Managers,
     Places, ConnectPlaces, Edits
<1>9. ASSUME NEW c \in Calls, CallDropped(c) PROVE TypeOK'
  BY <1>9, AppAssumption DEF CallDropped, GoTo, appVars, diskVars, TypeOK, Managers,
     Places, ConnectPlaces, Edits
<1>10. ASSUME NEW m \in Managers, NEW n \in Names,
              NEW op \in {"add", "update", "remove"}, EditCall(m, n, op)
       PROVE TypeOK'
  BY <1>10, AppAssumption DEF EditCall, diskVars, history, TypeOK, Managers, Places,
     ConnectPlaces, Edits
<1>11. ASSUME NEW m \in Managers, OpensTunnels(m) PROVE TypeOK'
  BY <1>11, AppAssumption DEF OpensTunnels, TypeOK, Managers, Places, ConnectPlaces,
     Edits
<1>12. ASSUME NEW m \in Managers, WritesTunnels(m) PROVE TypeOK'
  BY <1>12, AppAssumption DEF WritesTunnels, Writing, TypeOK, Managers, Places,
     ConnectPlaces, Edits
<1>13. ASSUME NEW m \in Managers, EditFails(m) PROVE TypeOK'
  BY <1>13, AppAssumption DEF EditFails, Writing, diskVars, TypeOK, Managers, Places,
     ConnectPlaces, Edits
<1>14. ASSUME Stops PROVE TypeOK'
  BY <1>14, AppAssumption DEF Stops, LoadMisses, diskVars, TypeOK, Managers, Places,
     ConnectPlaces, Edits
<1>15. ASSUME Boots PROVE TypeOK'
  BY <1>15, AppAssumption DEF Boots, Loaded, diskVars, history, TypeOK, Managers,
     Places, ConnectPlaces, Edits
<1>16. CASE UNCHANGED vars
  BY <1>16 DEF vars, appVars, diskVars, history, TypeOK, Managers, Places,
     ConnectPlaces, Edits
<1>17. ASSUME NEW m \in Managers, StartCall(m) PROVE TypeOK'
  BY <1>17, AppAssumption DEF StartCall, diskVars, history, TypeOK, Managers, Places,
     ConnectPlaces, Edits
<1>18. ASSUME NEW m \in Managers, StartsTunnel(m) PROVE TypeOK'
  BY <1>18, AppAssumption DEF StartsTunnel, diskVars, history, TypeOK, Managers, Places,
     ConnectPlaces, Edits
<1>19. ASSUME NEW m \in Managers, StartDropped(m) PROVE TypeOK'
  BY <1>19, AppAssumption DEF StartDropped, diskVars, history, TypeOK, Managers, Places,
     ConnectPlaces, Edits
<1> QED
  BY <1>1, <1>2, <1>3, <1>4, <1>5, <1>6, <1>7, <1>8, <1>9, <1>10, <1>11, <1>12,
     <1>13, <1>14, <1>15, <1>16, <1>17, <1>18, <1>19
     DEF Next, CallStep, EditStep

(* A manager is in AppState only once its call is over.                     *)
LEMMA UnstoredStep ==
    ASSUME TypeOK, Unstored, [Next]_vars
    PROVE  Unstored'
<1>1. ASSUME NEW c \in Calls, NEW place \in {"connecting", "disconnecting"}, Call(c, place) PROVE Unstored'
  BY <1>1, AppAssumption DEF Call, GoTo, appVars, diskVars, TypeOK, Unstored, Managers,
     Places, ConnectPlaces, Edits
<1>2. ASSUME NEW c \in Calls, disconnect(c) PROVE Unstored'
  BY <1>2, AppAssumption DEF disconnect, TakesManager, DeletesCreds, GoTo, TypeOK,
     Unstored, Managers, Places, ConnectPlaces, Edits
<1>3. ASSUME NEW c \in Calls, OpensCreds(c) PROVE Unstored'
  BY <1>3, AppAssumption DEF OpensCreds, GoTo, appVars, history, TypeOK, Unstored,
     Managers, Places, ConnectPlaces, Edits
<1>4. ASSUME NEW c \in Calls, WritesCreds(c) PROVE Unstored'
  BY <1>4, AppAssumption DEF WritesCreds, GoTo, appVars, TypeOK, Unstored, Managers,
     Places, ConnectPlaces, Edits
<1>5. ASSUME NEW c \in Calls, SaveFails(c) PROVE Unstored'
  BY <1>5, AppAssumption DEF SaveFails, GoTo, appVars, diskVars, history, TypeOK,
     Unstored, Managers, Places, ConnectPlaces, Edits
<1>6. ASSUME NEW c \in Calls, LoadsTunnels(c) PROVE Unstored'
  BY <1>6, AppAssumption DEF LoadsTunnels, Loaded, LoadMisses, GoTo, diskVars, TypeOK,
     Unstored, Managers, Places, ConnectPlaces, Edits
<1>7. ASSUME NEW c \in Calls, StartsAll(c) PROVE Unstored'
  BY <1>7, AppAssumption DEF StartsAll, GoTo, diskVars, history, TypeOK, Unstored,
     Managers, Places, ConnectPlaces, Edits
<1>8. ASSUME NEW c \in Calls, StoresManager(c) PROVE Unstored'
  BY <1>8, AppAssumption DEF StoresManager, GoTo, diskVars, history, TypeOK, Unstored,
     Managers, Places, ConnectPlaces, Edits
<1>9. ASSUME NEW c \in Calls, CallDropped(c) PROVE Unstored'
  BY <1>9, AppAssumption DEF CallDropped, GoTo, appVars, diskVars, TypeOK, Unstored,
     Managers, Places, ConnectPlaces, Edits
<1>10. ASSUME NEW m \in Managers, NEW n \in Names,
              NEW op \in {"add", "update", "remove"}, EditCall(m, n, op)
       PROVE Unstored'
  BY <1>10, AppAssumption DEF EditCall, diskVars, history, TypeOK, Unstored, Managers,
     Places, ConnectPlaces, Edits
<1>11. ASSUME NEW m \in Managers, OpensTunnels(m) PROVE Unstored'
  BY <1>11, AppAssumption DEF OpensTunnels, TypeOK, Unstored, Managers, Places,
     ConnectPlaces, Edits
<1>12. ASSUME NEW m \in Managers, WritesTunnels(m) PROVE Unstored'
  BY <1>12, AppAssumption DEF WritesTunnels, Writing, TypeOK, Unstored, Managers,
     Places, ConnectPlaces, Edits
<1>13. ASSUME NEW m \in Managers, EditFails(m) PROVE Unstored'
  BY <1>13, AppAssumption DEF EditFails, Writing, diskVars, TypeOK, Unstored, Managers,
     Places, ConnectPlaces, Edits
<1>14. ASSUME Stops PROVE Unstored'
  BY <1>14, AppAssumption DEF Stops, LoadMisses, diskVars, TypeOK, Unstored, Managers,
     Places, ConnectPlaces, Edits
<1>15. ASSUME Boots PROVE Unstored'
  BY <1>15, AppAssumption DEF Boots, Loaded, diskVars, history, TypeOK, Unstored,
     Managers, Places, ConnectPlaces, Edits
<1>16. CASE UNCHANGED vars
  BY <1>16 DEF vars, appVars, diskVars, history, TypeOK, Unstored, Managers, Places,
     ConnectPlaces, Edits
<1>17. ASSUME NEW m \in Managers, StartCall(m) PROVE Unstored'
  BY <1>17, AppAssumption DEF StartCall, diskVars, history, TypeOK, Unstored, Managers,
     Places, ConnectPlaces, Edits
<1>18. ASSUME NEW m \in Managers, StartsTunnel(m) PROVE Unstored'
  BY <1>18, AppAssumption DEF StartsTunnel, diskVars, history, TypeOK, Unstored, Managers,
     Places, ConnectPlaces, Edits
<1>19. ASSUME NEW m \in Managers, StartDropped(m) PROVE Unstored'
  BY <1>19, AppAssumption DEF StartDropped, diskVars, history, TypeOK, Unstored, Managers,
     Places, ConnectPlaces, Edits
<1> QED
  BY <1>1, <1>2, <1>3, <1>4, <1>5, <1>6, <1>7, <1>8, <1>9, <1>10, <1>11, <1>12,
     <1>13, <1>14, <1>15, <1>16, <1>17, <1>18, <1>19
     DEF Next, CallStep, EditStep

(* An end of the process leaves no call, manager or edit.                   *)
LEMMA DownStep ==
    ASSUME TypeOK, Down, [Next]_vars
    PROVE  Down'
<1>1. ASSUME NEW c \in Calls, NEW place \in {"connecting", "disconnecting"}, Call(c, place) PROVE Down'
  BY <1>1, AppAssumption DEF Call, GoTo, appVars, diskVars, TypeOK, Down, Active,
     Managers, Places, ConnectPlaces, Edits
<1>2. ASSUME NEW c \in Calls, disconnect(c) PROVE Down'
  BY <1>2, AppAssumption DEF disconnect, TakesManager, DeletesCreds, GoTo, TypeOK, Down,
     Active, Managers, Places, ConnectPlaces, Edits
<1>3. ASSUME NEW c \in Calls, OpensCreds(c) PROVE Down'
  BY <1>3, AppAssumption DEF OpensCreds, GoTo, appVars, history, TypeOK, Down, Active,
     Managers, Places, ConnectPlaces, Edits
<1>4. ASSUME NEW c \in Calls, WritesCreds(c) PROVE Down'
  BY <1>4, AppAssumption DEF WritesCreds, GoTo, appVars, TypeOK, Down, Active, Managers,
     Places, ConnectPlaces, Edits
<1>5. ASSUME NEW c \in Calls, SaveFails(c) PROVE Down'
  BY <1>5, AppAssumption DEF SaveFails, GoTo, appVars, diskVars, history, TypeOK, Down,
     Active, Managers, Places, ConnectPlaces, Edits
<1>6. ASSUME NEW c \in Calls, LoadsTunnels(c) PROVE Down'
  BY <1>6, AppAssumption DEF LoadsTunnels, Loaded, LoadMisses, GoTo, diskVars, TypeOK,
     Down, Active, Managers, Places, ConnectPlaces, Edits
<1>7. ASSUME NEW c \in Calls, StartsAll(c) PROVE Down'
  BY <1>7, AppAssumption DEF StartsAll, GoTo, diskVars, history, TypeOK, Down, Active,
     Managers, Places, ConnectPlaces, Edits
<1>8. ASSUME NEW c \in Calls, StoresManager(c) PROVE Down'
  BY <1>8, AppAssumption DEF StoresManager, GoTo, diskVars, history, TypeOK, Down,
     Active, Managers, Places, ConnectPlaces, Edits
<1>9. ASSUME NEW c \in Calls, CallDropped(c) PROVE Down'
  BY <1>9, AppAssumption DEF CallDropped, GoTo, appVars, diskVars, TypeOK, Down, Active,
     Managers, Places, ConnectPlaces, Edits
<1>10. ASSUME NEW m \in Managers, NEW n \in Names,
              NEW op \in {"add", "update", "remove"}, EditCall(m, n, op)
       PROVE Down'
  BY <1>10, AppAssumption DEF EditCall, diskVars, history, TypeOK, Down, Active,
     Managers, Places, ConnectPlaces, Edits
<1>11. ASSUME NEW m \in Managers, OpensTunnels(m) PROVE Down'
  BY <1>11, AppAssumption DEF OpensTunnels, TypeOK, Down, Active, Managers, Places,
     ConnectPlaces, Edits
<1>12. ASSUME NEW m \in Managers, WritesTunnels(m) PROVE Down'
  BY <1>12, AppAssumption DEF WritesTunnels, Writing, TypeOK, Down, Active, Managers,
     Places, ConnectPlaces, Edits
<1>13. ASSUME NEW m \in Managers, EditFails(m) PROVE Down'
  BY <1>13, AppAssumption DEF EditFails, Writing, diskVars, TypeOK, Down, Active,
     Managers, Places, ConnectPlaces, Edits
<1>14. ASSUME Stops PROVE Down'
  BY <1>14, AppAssumption DEF Stops, LoadMisses, diskVars, TypeOK, Down, Active,
     Managers, Places, ConnectPlaces, Edits
<1>15. ASSUME Boots PROVE Down'
  BY <1>15, AppAssumption DEF Boots, Loaded, diskVars, history, TypeOK, Down, Active,
     Managers, Places, ConnectPlaces, Edits
<1>16. CASE UNCHANGED vars
  BY <1>16 DEF vars, appVars, diskVars, history, TypeOK, Down, Active, Managers, Places,
     ConnectPlaces, Edits
<1>17. ASSUME NEW m \in Managers, StartCall(m) PROVE Down'
  BY <1>17, AppAssumption DEF StartCall, diskVars, history, TypeOK, Down, Active,
     Managers, Places, ConnectPlaces, Edits
<1>18. ASSUME NEW m \in Managers, StartsTunnel(m) PROVE Down'
  BY <1>18, AppAssumption DEF StartsTunnel, diskVars, history, TypeOK, Down, Active,
     Managers, Places, ConnectPlaces, Edits
<1>19. ASSUME NEW m \in Managers, StartDropped(m) PROVE Down'
  BY <1>19, AppAssumption DEF StartDropped, diskVars, history, TypeOK, Down, Active,
     Managers, Places, ConnectPlaces, Edits
<1> QED
  BY <1>1, <1>2, <1>3, <1>4, <1>5, <1>6, <1>7, <1>8, <1>9, <1>10, <1>11, <1>12,
     <1>13, <1>14, <1>15, <1>16, <1>17, <1>18, <1>19
     DEF Next, CallStep, EditStep

(* Without an overlap at most one call is at work, and past disconnect      *)
(* nothing is in AppState.                                                  *)
LEMMA OneByOneStep ==
    ASSUME TypeOK, Down, OneByOne, [Next]_vars
    PROVE  OneByOne'
<1>1. ASSUME NEW c \in Calls, NEW place \in {"connecting", "disconnecting"}, Call(c, place) PROVE OneByOne'
  BY <1>1, AppAssumption DEF Call, GoTo, appVars, diskVars, TypeOK, Down, OneByOne,
     Active, Managers, Places, ConnectPlaces
<1>2. ASSUME NEW c \in Calls, disconnect(c) PROVE OneByOne'
  BY <1>2, AppAssumption DEF disconnect, TakesManager, DeletesCreds, GoTo, TypeOK, Down,
     OneByOne, Active, Managers, Places, ConnectPlaces
<1>3. ASSUME NEW c \in Calls, OpensCreds(c) PROVE OneByOne'
  BY <1>3, AppAssumption DEF OpensCreds, GoTo, appVars, history, TypeOK, Down, OneByOne,
     Active, Managers, Places, ConnectPlaces
<1>4. ASSUME NEW c \in Calls, WritesCreds(c) PROVE OneByOne'
  BY <1>4, AppAssumption DEF WritesCreds, GoTo, appVars, TypeOK, Down, OneByOne, Active,
     Managers, Places, ConnectPlaces
<1>5. ASSUME NEW c \in Calls, SaveFails(c) PROVE OneByOne'
  BY <1>5, AppAssumption DEF SaveFails, GoTo, appVars, diskVars, history, TypeOK, Down,
     OneByOne, Active, Managers, Places, ConnectPlaces
<1>6. ASSUME NEW c \in Calls, LoadsTunnels(c) PROVE OneByOne'
  BY <1>6, AppAssumption DEF LoadsTunnels, Loaded, LoadMisses, GoTo, diskVars, TypeOK,
     Down, OneByOne, Active, Managers, Places, ConnectPlaces
<1>7. ASSUME NEW c \in Calls, StartsAll(c) PROVE OneByOne'
  BY <1>7, AppAssumption DEF StartsAll, GoTo, diskVars, history, TypeOK, Down, OneByOne,
     Active, Managers, Places, ConnectPlaces
<1>8. ASSUME NEW c \in Calls, StoresManager(c) PROVE OneByOne'
  BY <1>8, AppAssumption DEF StoresManager, GoTo, diskVars, history, TypeOK, Down,
     OneByOne, Active, Managers, Places, ConnectPlaces
<1>9. ASSUME NEW c \in Calls, CallDropped(c) PROVE OneByOne'
  BY <1>9, AppAssumption DEF CallDropped, GoTo, appVars, diskVars, TypeOK, Down,
     OneByOne, Active, Managers, Places, ConnectPlaces
<1>10. ASSUME NEW m \in Managers, NEW n \in Names,
              NEW op \in {"add", "update", "remove"}, EditCall(m, n, op)
       PROVE OneByOne'
  BY <1>10, AppAssumption DEF EditCall, diskVars, history, TypeOK, Down, OneByOne,
     Active, Managers, Places, ConnectPlaces
<1>11. ASSUME NEW m \in Managers, OpensTunnels(m) PROVE OneByOne'
  BY <1>11, AppAssumption DEF OpensTunnels, TypeOK, Down, OneByOne, Active, Managers,
     Places, ConnectPlaces
<1>12. ASSUME NEW m \in Managers, WritesTunnels(m) PROVE OneByOne'
  BY <1>12, AppAssumption DEF WritesTunnels, Writing, TypeOK, Down, OneByOne, Active,
     Managers, Places, ConnectPlaces
<1>13. ASSUME NEW m \in Managers, EditFails(m) PROVE OneByOne'
  BY <1>13, AppAssumption DEF EditFails, Writing, diskVars, TypeOK, Down, OneByOne,
     Active, Managers, Places, ConnectPlaces
<1>14. ASSUME Stops PROVE OneByOne'
  BY <1>14, AppAssumption DEF Stops, LoadMisses, diskVars, TypeOK, Down, OneByOne,
     Active, Managers, Places, ConnectPlaces
<1>15. ASSUME Boots PROVE OneByOne'
  BY <1>15, AppAssumption DEF Boots, Loaded, diskVars, history, TypeOK, Down, OneByOne,
     Active, Managers, Places, ConnectPlaces
<1>16. CASE UNCHANGED vars
  BY <1>16 DEF vars, appVars, diskVars, history, TypeOK, Down, OneByOne, Active,
     Managers, Places, ConnectPlaces
<1>17. ASSUME NEW m \in Managers, StartCall(m) PROVE OneByOne'
  BY <1>17, AppAssumption DEF StartCall, diskVars, history, TypeOK, Down, OneByOne,
     Active, Managers, Places, ConnectPlaces
<1>18. ASSUME NEW m \in Managers, StartsTunnel(m) PROVE OneByOne'
  BY <1>18, AppAssumption DEF StartsTunnel, diskVars, history, TypeOK, Down, OneByOne,
     Active, Managers, Places, ConnectPlaces
<1>19. ASSUME NEW m \in Managers, StartDropped(m) PROVE OneByOne'
  BY <1>19, AppAssumption DEF StartDropped, diskVars, history, TypeOK, Down, OneByOne,
     Active, Managers, Places, ConnectPlaces
<1> QED
  BY <1>1, <1>2, <1>3, <1>4, <1>5, <1>6, <1>7, <1>8, <1>9, <1>10, <1>11, <1>12,
     <1>13, <1>14, <1>15, <1>16, <1>17, <1>18, <1>19
     DEF Next, CallStep, EditStep

(* A call works on the manager in use, or on one that was taken meanwhile.  *)
LEMMA AtWorkStep ==
    ASSUME TypeOK, Down, OneByOne, Unstored, AtWorkKnown, [Next]_vars
    PROVE  AtWorkKnown'
<1>1. ASSUME NEW c \in Calls, NEW place \in {"connecting", "disconnecting"}, Call(c, place) PROVE AtWorkKnown'
  BY <1>1, AppAssumption DEF Call, GoTo, appVars, diskVars, TypeOK, Down, OneByOne,
     Unstored, AtWorkKnown, AtWorkOn, Active, Managers, Places, ConnectPlaces
<1>2. ASSUME NEW c \in Calls, disconnect(c) PROVE AtWorkKnown'
  BY <1>2, AppAssumption DEF disconnect, TakesManager, DeletesCreds, GoTo, TypeOK, Down,
     OneByOne, Unstored, AtWorkKnown, AtWorkOn, Active, Managers, Places, ConnectPlaces
<1>3. ASSUME NEW c \in Calls, OpensCreds(c) PROVE AtWorkKnown'
  BY <1>3, AppAssumption DEF OpensCreds, GoTo, appVars, history, TypeOK, Down, OneByOne,
     Unstored, AtWorkKnown, AtWorkOn, Active, Managers, Places, ConnectPlaces
<1>4. ASSUME NEW c \in Calls, WritesCreds(c) PROVE AtWorkKnown'
  BY <1>4, AppAssumption DEF WritesCreds, GoTo, appVars, TypeOK, Down, OneByOne,
     Unstored, AtWorkKnown, AtWorkOn, Active, Managers, Places, ConnectPlaces
<1>5. ASSUME NEW c \in Calls, SaveFails(c) PROVE AtWorkKnown'
  BY <1>5, AppAssumption DEF SaveFails, GoTo, appVars, diskVars, history, TypeOK, Down,
     OneByOne, Unstored, AtWorkKnown, AtWorkOn, Active, Managers, Places, ConnectPlaces
<1>6. ASSUME NEW c \in Calls, LoadsTunnels(c) PROVE AtWorkKnown'
  BY <1>6, AppAssumption DEF LoadsTunnels, Loaded, LoadMisses, GoTo, diskVars, TypeOK,
     Down, OneByOne, Unstored, AtWorkKnown, AtWorkOn, Active, Managers, Places, ConnectPlaces
<1>7. ASSUME NEW c \in Calls, StartsAll(c) PROVE AtWorkKnown'
  BY <1>7, AppAssumption DEF StartsAll, GoTo, diskVars, history, TypeOK, Down, OneByOne,
     Unstored, AtWorkKnown, AtWorkOn, Active, Managers, Places, ConnectPlaces
<1>8. ASSUME NEW c \in Calls, StoresManager(c) PROVE AtWorkKnown'
  BY <1>8, AppAssumption DEF StoresManager, GoTo, diskVars, history, TypeOK, Down,
     OneByOne, Unstored, AtWorkKnown, AtWorkOn, Active, Managers, Places, ConnectPlaces
<1>9. ASSUME NEW c \in Calls, CallDropped(c) PROVE AtWorkKnown'
  BY <1>9, AppAssumption DEF CallDropped, GoTo, appVars, diskVars, TypeOK, Down,
     OneByOne, Unstored, AtWorkKnown, AtWorkOn, Active, Managers, Places, ConnectPlaces
<1>10. ASSUME NEW m \in Managers, NEW n \in Names,
              NEW op \in {"add", "update", "remove"}, EditCall(m, n, op)
       PROVE AtWorkKnown'
  BY <1>10, AppAssumption DEF EditCall, diskVars, history, TypeOK, Down, OneByOne,
     Unstored, AtWorkKnown, AtWorkOn, Active, Managers, Places, ConnectPlaces
<1>11. ASSUME NEW m \in Managers, OpensTunnels(m) PROVE AtWorkKnown'
  BY <1>11, AppAssumption DEF OpensTunnels, TypeOK, Down, OneByOne, Unstored, AtWorkKnown,
     AtWorkOn, Active, Managers, Places, ConnectPlaces
<1>12. ASSUME NEW m \in Managers, WritesTunnels(m) PROVE AtWorkKnown'
  BY <1>12, AppAssumption DEF WritesTunnels, Writing, TypeOK, Down, OneByOne,
     Unstored, AtWorkKnown, AtWorkOn, Active, Managers, Places, ConnectPlaces
<1>13. ASSUME NEW m \in Managers, EditFails(m) PROVE AtWorkKnown'
  BY <1>13, AppAssumption DEF EditFails, Writing, diskVars, TypeOK, Down, OneByOne,
     Unstored, AtWorkKnown, AtWorkOn, Active, Managers, Places, ConnectPlaces
<1>14. ASSUME Stops PROVE AtWorkKnown'
  BY <1>14, AppAssumption DEF Stops, LoadMisses, diskVars, TypeOK, Down, OneByOne,
     Unstored, AtWorkKnown, AtWorkOn, Active, Managers, Places, ConnectPlaces
<1>15. ASSUME Boots PROVE AtWorkKnown'
  BY <1>15, AppAssumption DEF Boots, Loaded, diskVars, history, TypeOK, Down, OneByOne,
     Unstored, AtWorkKnown, AtWorkOn, Active, Managers, Places, ConnectPlaces
<1>16. CASE UNCHANGED vars
  BY <1>16 DEF vars, appVars, diskVars, history, TypeOK, Down, OneByOne, Unstored, AtWorkKnown,
     AtWorkOn, Active, Managers, Places, ConnectPlaces
<1>17. ASSUME NEW m \in Managers, StartCall(m) PROVE AtWorkKnown'
  BY <1>17, AppAssumption DEF StartCall, diskVars, history, TypeOK, Down, OneByOne,
     Unstored, AtWorkKnown, AtWorkOn, Active, Managers, Places, ConnectPlaces
<1>18. ASSUME NEW m \in Managers, StartsTunnel(m) PROVE AtWorkKnown'
  BY <1>18, AppAssumption DEF StartsTunnel, diskVars, history, TypeOK, Down, OneByOne,
     Unstored, AtWorkKnown, AtWorkOn, Active, Managers, Places, ConnectPlaces
<1>19. ASSUME NEW m \in Managers, StartDropped(m) PROVE AtWorkKnown'
  BY <1>19, AppAssumption DEF StartDropped, diskVars, history, TypeOK, Down, OneByOne,
     Unstored, AtWorkKnown, AtWorkOn, Active, Managers, Places, ConnectPlaces
<1> QED
  BY <1>1, <1>2, <1>3, <1>4, <1>5, <1>6, <1>7, <1>8, <1>9, <1>10, <1>11, <1>12,
     <1>13, <1>14, <1>15, <1>16, <1>17, <1>18, <1>19
     DEF Next, CallStep, EditStep

(* What runs is in AppState or about to be stored.                          *)
LEMMA StrayStep ==
    ASSUME TypeOK, Down, OneByOne, AtWorkKnown, NoStrayManager, [Next]_vars
    PROVE  NoStrayManager'
<1>1. ASSUME NEW c \in Calls, NEW place \in {"connecting", "disconnecting"}, Call(c, place) PROVE NoStrayManager'
  BY <1>1, AppAssumption DEF Call, GoTo, appVars, diskVars, TypeOK, Down, OneByOne,
     AtWorkKnown, AtWorkOn, NoStrayManager, Active, Managers, Places, ConnectPlaces
<1>2. ASSUME NEW c \in Calls, disconnect(c) PROVE NoStrayManager'
  BY <1>2, AppAssumption DEF disconnect, TakesManager, DeletesCreds, GoTo, TypeOK, Down,
     OneByOne, AtWorkKnown, AtWorkOn, NoStrayManager, Active, Managers, Places, ConnectPlaces
<1>3. ASSUME NEW c \in Calls, OpensCreds(c) PROVE NoStrayManager'
  BY <1>3, AppAssumption DEF OpensCreds, GoTo, appVars, history, TypeOK, Down, OneByOne,
     AtWorkKnown, AtWorkOn, NoStrayManager, Active, Managers, Places, ConnectPlaces
<1>4. ASSUME NEW c \in Calls, WritesCreds(c) PROVE NoStrayManager'
  BY <1>4, AppAssumption DEF WritesCreds, GoTo, appVars, TypeOK, Down, OneByOne,
     AtWorkKnown, AtWorkOn, NoStrayManager, Active, Managers, Places, ConnectPlaces
<1>5. ASSUME NEW c \in Calls, SaveFails(c) PROVE NoStrayManager'
  BY <1>5, AppAssumption DEF SaveFails, GoTo, appVars, diskVars, history, TypeOK, Down,
     OneByOne, AtWorkKnown, AtWorkOn, NoStrayManager, Active, Managers, Places, ConnectPlaces
<1>6. ASSUME NEW c \in Calls, LoadsTunnels(c) PROVE NoStrayManager'
  BY <1>6, AppAssumption DEF LoadsTunnels, Loaded, LoadMisses, GoTo, diskVars, TypeOK,
     Down, OneByOne, AtWorkKnown, AtWorkOn, NoStrayManager, Active, Managers, Places, ConnectPlaces
<1>7. ASSUME NEW c \in Calls, StartsAll(c) PROVE NoStrayManager'
  BY <1>7, AppAssumption DEF StartsAll, GoTo, diskVars, history, TypeOK, Down, OneByOne,
     AtWorkKnown, AtWorkOn, NoStrayManager, Active, Managers, Places, ConnectPlaces
<1>8. ASSUME NEW c \in Calls, StoresManager(c) PROVE NoStrayManager'
  BY <1>8, AppAssumption DEF StoresManager, GoTo, diskVars, history, TypeOK, Down,
     OneByOne, AtWorkKnown, AtWorkOn, NoStrayManager, Active, Managers, Places, ConnectPlaces
<1>9. ASSUME NEW c \in Calls, CallDropped(c) PROVE NoStrayManager'
  BY <1>9, AppAssumption DEF CallDropped, GoTo, appVars, diskVars, TypeOK, Down,
     OneByOne, AtWorkKnown, AtWorkOn, NoStrayManager, Active, Managers, Places, ConnectPlaces
<1>10. ASSUME NEW m \in Managers, NEW n \in Names,
              NEW op \in {"add", "update", "remove"}, EditCall(m, n, op)
       PROVE NoStrayManager'
  BY <1>10, AppAssumption DEF EditCall, diskVars, history, TypeOK, Down, OneByOne,
     AtWorkKnown, AtWorkOn, NoStrayManager, Active, Managers, Places, ConnectPlaces
<1>11. ASSUME NEW m \in Managers, OpensTunnels(m) PROVE NoStrayManager'
  BY <1>11, AppAssumption DEF OpensTunnels, TypeOK, Down, OneByOne, AtWorkKnown, AtWorkOn, NoStrayManager,
     Active, Managers, Places, ConnectPlaces
<1>12. ASSUME NEW m \in Managers, WritesTunnels(m) PROVE NoStrayManager'
  BY <1>12, AppAssumption DEF WritesTunnels, Writing, TypeOK, Down, OneByOne,
     AtWorkKnown, AtWorkOn, NoStrayManager, Active, Managers, Places, ConnectPlaces
<1>13. ASSUME NEW m \in Managers, EditFails(m) PROVE NoStrayManager'
  BY <1>13, AppAssumption DEF EditFails, Writing, diskVars, TypeOK, Down, OneByOne,
     AtWorkKnown, AtWorkOn, NoStrayManager, Active, Managers, Places, ConnectPlaces
<1>14. ASSUME Stops PROVE NoStrayManager'
  BY <1>14, AppAssumption DEF Stops, LoadMisses, diskVars, TypeOK, Down, OneByOne,
     AtWorkKnown, AtWorkOn, NoStrayManager, Active, Managers, Places, ConnectPlaces
<1>15. ASSUME Boots PROVE NoStrayManager'
  BY <1>15, AppAssumption DEF Boots, Loaded, diskVars, history, TypeOK, Down, OneByOne,
     AtWorkKnown, AtWorkOn, NoStrayManager, Active, Managers, Places, ConnectPlaces
<1>16. CASE UNCHANGED vars
  BY <1>16 DEF vars, appVars, diskVars, history, TypeOK, Down, OneByOne, AtWorkKnown, AtWorkOn, NoStrayManager,
     Active, Managers, Places, ConnectPlaces
<1>17. ASSUME NEW m \in Managers, StartCall(m) PROVE NoStrayManager'
  BY <1>17, AppAssumption DEF StartCall, diskVars, history, TypeOK, Down, OneByOne,
     AtWorkKnown, AtWorkOn, NoStrayManager, Active, Managers, Places, ConnectPlaces
<1>18. ASSUME NEW m \in Managers, StartsTunnel(m) PROVE NoStrayManager'
  BY <1>18, AppAssumption DEF StartsTunnel, diskVars, history, TypeOK, Down, OneByOne,
     AtWorkKnown, AtWorkOn, NoStrayManager, Active, Managers, Places, ConnectPlaces
<1>19. ASSUME NEW m \in Managers, StartDropped(m) PROVE NoStrayManager'
  BY <1>19, AppAssumption DEF StartDropped, diskVars, history, TypeOK, Down, OneByOne,
     AtWorkKnown, AtWorkOn, NoStrayManager, Active, Managers, Places, ConnectPlaces
<1> QED
  BY <1>1, <1>2, <1>3, <1>4, <1>5, <1>6, <1>7, <1>8, <1>9, <1>10, <1>11, <1>12,
     <1>13, <1>14, <1>15, <1>16, <1>17, <1>18, <1>19
     DEF Next, CallStep, EditStep

(* At each place of a call it is known what credentials.yaml holds.         *)
LEMMA CredsStep ==
    ASSUME TypeOK, Unstored, Down, OneByOne, RestartResumes, CredsKnown, [Next]_vars
    PROVE  (RestartResumes /\ CredsKnown)'
<1>1. ASSUME NEW c \in Calls, NEW place \in {"connecting", "disconnecting"}, Call(c, place) PROVE (RestartResumes /\ CredsKnown)'
  BY <1>1, AppAssumption DEF Call, GoTo, appVars, diskVars, TypeOK, Unstored, Down,
     OneByOne, RestartResumes, CredsKnown, CredsAt, CredsOf, Active, Managers, Places,
     ConnectPlaces
<1>2. ASSUME NEW c \in Calls, disconnect(c) PROVE (RestartResumes /\ CredsKnown)'
  BY <1>2, AppAssumption DEF disconnect, TakesManager, DeletesCreds, GoTo, TypeOK,
     Unstored, Down, OneByOne, RestartResumes, CredsKnown, CredsAt, CredsOf, Active,
     Managers, Places, ConnectPlaces
<1>3. ASSUME NEW c \in Calls, OpensCreds(c) PROVE (RestartResumes /\ CredsKnown)'
  BY <1>3, AppAssumption DEF OpensCreds, GoTo, appVars, history, TypeOK, Unstored, Down,
     OneByOne, RestartResumes, CredsKnown, CredsAt, CredsOf, Active, Managers, Places,
     ConnectPlaces
<1>4. ASSUME NEW c \in Calls, WritesCreds(c) PROVE (RestartResumes /\ CredsKnown)'
  BY <1>4, AppAssumption DEF WritesCreds, GoTo, appVars, TypeOK, Unstored, Down,
     OneByOne, RestartResumes, CredsKnown, CredsAt, CredsOf, Active, Managers, Places,
     ConnectPlaces
<1>5. ASSUME NEW c \in Calls, SaveFails(c) PROVE (RestartResumes /\ CredsKnown)'
  BY <1>5, AppAssumption DEF SaveFails, GoTo, appVars, diskVars, history, TypeOK,
     Unstored, Down, OneByOne, RestartResumes, CredsKnown, CredsAt, CredsOf, Active,
     Managers, Places, ConnectPlaces
<1>6. ASSUME NEW c \in Calls, LoadsTunnels(c) PROVE (RestartResumes /\ CredsKnown)'
  BY <1>6, AppAssumption DEF LoadsTunnels, Loaded, LoadMisses, GoTo, diskVars, TypeOK,
     Unstored, Down, OneByOne, RestartResumes, CredsKnown, CredsAt, CredsOf, Active,
     Managers, Places, ConnectPlaces
<1>7. ASSUME NEW c \in Calls, StartsAll(c) PROVE (RestartResumes /\ CredsKnown)'
  BY <1>7, AppAssumption DEF StartsAll, GoTo, diskVars, history, TypeOK, Unstored, Down,
     OneByOne, RestartResumes, CredsKnown, CredsAt, CredsOf, Active, Managers, Places,
     ConnectPlaces
<1>8. ASSUME NEW c \in Calls, StoresManager(c) PROVE (RestartResumes /\ CredsKnown)'
  BY <1>8, AppAssumption DEF StoresManager, GoTo, diskVars, history, TypeOK, Unstored,
     Down, OneByOne, RestartResumes, CredsKnown, CredsAt, CredsOf, Active, Managers,
     Places, ConnectPlaces
<1>9. ASSUME NEW c \in Calls, CallDropped(c) PROVE (RestartResumes /\ CredsKnown)'
  BY <1>9, AppAssumption DEF CallDropped, GoTo, appVars, diskVars, TypeOK, Unstored,
     Down, OneByOne, RestartResumes, CredsKnown, CredsAt, CredsOf, Active, Managers,
     Places, ConnectPlaces
<1>10. ASSUME NEW m \in Managers, NEW n \in Names,
              NEW op \in {"add", "update", "remove"}, EditCall(m, n, op)
       PROVE (RestartResumes /\ CredsKnown)'
  BY <1>10, AppAssumption DEF EditCall, diskVars, history, TypeOK, Unstored, Down,
     OneByOne, RestartResumes, CredsKnown, CredsAt, CredsOf, Active, Managers, Places,
     ConnectPlaces
<1>11. ASSUME NEW m \in Managers, OpensTunnels(m) PROVE (RestartResumes /\ CredsKnown)'
  BY <1>11, AppAssumption DEF OpensTunnels, TypeOK, Unstored, Down, OneByOne,
     RestartResumes, CredsKnown, CredsAt, CredsOf, Active, Managers, Places,
     ConnectPlaces
<1>12. ASSUME NEW m \in Managers, WritesTunnels(m) PROVE (RestartResumes /\ CredsKnown)'
  BY <1>12, AppAssumption DEF WritesTunnels, Writing, TypeOK, Unstored, Down, OneByOne,
     RestartResumes, CredsKnown, CredsAt, CredsOf, Active, Managers, Places,
     ConnectPlaces
<1>13. ASSUME NEW m \in Managers, EditFails(m) PROVE (RestartResumes /\ CredsKnown)'
  BY <1>13, AppAssumption DEF EditFails, Writing, diskVars, TypeOK, Unstored, Down,
     OneByOne, RestartResumes, CredsKnown, CredsAt, CredsOf, Active, Managers, Places,
     ConnectPlaces
<1>14. ASSUME Stops PROVE (RestartResumes /\ CredsKnown)'
  BY <1>14, AppAssumption DEF Stops, LoadMisses, diskVars, TypeOK, Unstored, Down,
     OneByOne, RestartResumes, CredsKnown, CredsAt, CredsOf, Active, Managers, Places,
     ConnectPlaces
<1>15. ASSUME Boots PROVE (RestartResumes /\ CredsKnown)'
  BY <1>15, AppAssumption DEF Boots, Loaded, diskVars, history, TypeOK, Unstored, Down,
     OneByOne, RestartResumes, CredsKnown, CredsAt, CredsOf, Active, Managers, Places,
     ConnectPlaces
<1>16. CASE UNCHANGED vars
  BY <1>16 DEF vars, appVars, diskVars, history, TypeOK, Unstored, Down, OneByOne,
     RestartResumes, CredsKnown, CredsAt, CredsOf, Active, Managers, Places,
     ConnectPlaces
<1>17. ASSUME NEW m \in Managers, StartCall(m) PROVE (RestartResumes /\ CredsKnown)'
  BY <1>17, AppAssumption DEF StartCall, diskVars, history, TypeOK, Unstored, Down,
     OneByOne, RestartResumes, CredsKnown, CredsAt, CredsOf, Active, Managers, Places,
     ConnectPlaces
<1>18. ASSUME NEW m \in Managers, StartsTunnel(m) PROVE (RestartResumes /\ CredsKnown)'
  BY <1>18, AppAssumption DEF StartsTunnel, diskVars, history, TypeOK, Unstored, Down,
     OneByOne, RestartResumes, CredsKnown, CredsAt, CredsOf, Active, Managers, Places,
     ConnectPlaces
<1>19. ASSUME NEW m \in Managers, StartDropped(m) PROVE (RestartResumes /\ CredsKnown)'
  BY <1>19, AppAssumption DEF StartDropped, diskVars, history, TypeOK, Unstored, Down,
     OneByOne, RestartResumes, CredsKnown, CredsAt, CredsOf, Active, Managers, Places,
     ConnectPlaces
<1> QED
  BY <1>1, <1>2, <1>3, <1>4, <1>5, <1>6, <1>7, <1>8, <1>9, <1>10, <1>11, <1>12,
     <1>13, <1>14, <1>15, <1>16, <1>17, <1>18, <1>19
     DEF Next, CallStep, EditStep

(* Every copy of the tunnels that will be used holds what was confirmed.    *)
LEMMA TunnelsStep ==
    ASSUME TypeOK, Unstored, Down, TunnelsKnown, [Next]_vars
    PROVE  TunnelsKnown'
<1>1. ASSUME NEW c \in Calls, NEW place \in {"connecting", "disconnecting"}, Call(c, place) PROVE TunnelsKnown'
  BY <1>1, AppAssumption DEF Call, GoTo, appVars, diskVars, TypeOK, Unstored, Down,
     TunnelsKnown, Writing, Loading, Active, Managers, Places, ConnectPlaces, Edits
<1>2. ASSUME NEW c \in Calls, disconnect(c) PROVE TunnelsKnown'
  BY <1>2, AppAssumption DEF disconnect, TakesManager, DeletesCreds, GoTo, TypeOK,
     Unstored, Down, TunnelsKnown, Writing, Loading, Active, Managers, Places,
     ConnectPlaces, Edits
<1>3. ASSUME NEW c \in Calls, OpensCreds(c) PROVE TunnelsKnown'
  BY <1>3, AppAssumption DEF OpensCreds, GoTo, appVars, history, TypeOK, Unstored, Down,
     TunnelsKnown, Writing, Loading, Active, Managers, Places, ConnectPlaces, Edits
<1>4. ASSUME NEW c \in Calls, WritesCreds(c) PROVE TunnelsKnown'
  BY <1>4, AppAssumption DEF WritesCreds, GoTo, appVars, TypeOK, Unstored, Down,
     TunnelsKnown, Writing, Loading, Active, Managers, Places, ConnectPlaces, Edits
<1>5. ASSUME NEW c \in Calls, SaveFails(c) PROVE TunnelsKnown'
  BY <1>5, AppAssumption DEF SaveFails, GoTo, appVars, diskVars, history, TypeOK,
     Unstored, Down, TunnelsKnown, Writing, Loading, Active, Managers, Places,
     ConnectPlaces, Edits
<1>6. ASSUME NEW c \in Calls, LoadsTunnels(c) PROVE TunnelsKnown'
  BY <1>6, AppAssumption DEF LoadsTunnels, Loaded, LoadMisses, GoTo, diskVars, TypeOK,
     Unstored, Down, TunnelsKnown, Writing, Loading, Active, Managers, Places,
     ConnectPlaces, Edits
<1>7. ASSUME NEW c \in Calls, StartsAll(c) PROVE TunnelsKnown'
  BY <1>7, AppAssumption DEF StartsAll, GoTo, diskVars, history, TypeOK, Unstored, Down,
     TunnelsKnown, Writing, Loading, Active, Managers, Places, ConnectPlaces, Edits
<1>8. ASSUME NEW c \in Calls, StoresManager(c) PROVE TunnelsKnown'
  BY <1>8, AppAssumption DEF StoresManager, GoTo, diskVars, history, TypeOK, Unstored,
     Down, TunnelsKnown, Writing, Loading, Active, Managers, Places, ConnectPlaces,
     Edits
<1>9. ASSUME NEW c \in Calls, CallDropped(c) PROVE TunnelsKnown'
  BY <1>9, AppAssumption DEF CallDropped, GoTo, appVars, diskVars, TypeOK, Unstored,
     Down, TunnelsKnown, Writing, Loading, Active, Managers, Places, ConnectPlaces,
     Edits
<1>10. ASSUME NEW m \in Managers, NEW n \in Names,
              NEW op \in {"add", "update", "remove"}, EditCall(m, n, op)
       PROVE TunnelsKnown'
  BY <1>10, AppAssumption DEF EditCall, diskVars, history, TypeOK, Unstored, Down,
     TunnelsKnown, Writing, Loading, Active, Managers, Places, ConnectPlaces, Edits
<1>11. ASSUME NEW m \in Managers, OpensTunnels(m) PROVE TunnelsKnown'
  BY <1>11, AppAssumption DEF OpensTunnels, Writing, TypeOK, Unstored, Down,
     TunnelsKnown, Writing, Loading, Active, Managers, Places, ConnectPlaces, Edits,
     Outdated
<1>12. ASSUME NEW m \in Managers, WritesTunnels(m) PROVE TunnelsKnown'
  BY <1>12, AppAssumption DEF WritesTunnels, Writing, TypeOK, Unstored, Down,
     TunnelsKnown, Writing, Loading, Active, Managers, Places, ConnectPlaces, Edits
<1>13. ASSUME NEW m \in Managers, EditFails(m) PROVE TunnelsKnown'
  BY <1>13, AppAssumption DEF EditFails, Writing, diskVars, TypeOK, Unstored, Down,
     TunnelsKnown, Writing, Loading, Active, Managers, Places, ConnectPlaces, Edits
<1>14. ASSUME Stops PROVE TunnelsKnown'
  BY <1>14, AppAssumption DEF Stops, LoadMisses, diskVars, TypeOK, Unstored, Down,
     TunnelsKnown, Writing, Loading, Active, Managers, Places, ConnectPlaces, Edits
<1>15. ASSUME Boots PROVE TunnelsKnown'
  BY <1>15, AppAssumption DEF Boots, Loaded, diskVars, history, TypeOK, Unstored, Down,
     TunnelsKnown, Writing, Loading, Active, Managers, Places, ConnectPlaces, Edits
<1>16. CASE UNCHANGED vars
  BY <1>16 DEF vars, appVars, diskVars, history, TypeOK, Unstored, Down, TunnelsKnown,
     Writing, Loading, Active, Managers, Places, ConnectPlaces, Edits
<1>17. ASSUME NEW m \in Managers, StartCall(m) PROVE TunnelsKnown'
  BY <1>17, AppAssumption DEF StartCall, diskVars, history, TypeOK, Unstored, Down,
     TunnelsKnown, Writing, Loading, Active, Managers, Places, ConnectPlaces, Edits
<1>18. ASSUME NEW m \in Managers, StartsTunnel(m) PROVE TunnelsKnown'
  BY <1>18, AppAssumption DEF StartsTunnel, diskVars, history, TypeOK, Unstored, Down,
     TunnelsKnown, Writing, Loading, Active, Managers, Places, ConnectPlaces, Edits
<1>19. ASSUME NEW m \in Managers, StartDropped(m) PROVE TunnelsKnown'
  BY <1>19, AppAssumption DEF StartDropped, diskVars, history, TypeOK, Unstored, Down,
     TunnelsKnown, Writing, Loading, Active, Managers, Places, ConnectPlaces, Edits
<1> QED
  BY <1>1, <1>2, <1>3, <1>4, <1>5, <1>6, <1>7, <1>8, <1>9, <1>10, <1>11, <1>12,
     <1>13, <1>14, <1>15, <1>16, <1>17, <1>18, <1>19
     DEF Next, CallStep, EditStep

(* The invariant holds before the first start.                              *)
LEMMA InitInv ==
    ASSUME Init
    PROVE  Inv
<1>1. TypeOK
  BY AppAssumption DEF Init, TypeOK, Managers, Places
<1>2. /\ Unstored /\ Down /\ OneByOne /\ NoStrayManager /\ AtWorkKnown
      /\ RestartResumes /\ CredsKnown
  BY AppAssumption DEF Init, Unstored, Down, OneByOne, NoStrayManager, AtWorkKnown,
     AtWorkOn, RestartResumes, CredsKnown, Active, Managers, ConnectPlaces
<1>3. TunnelsKnown
  BY AppAssumption DEF Init, TunnelsKnown, Writing, Loading, Managers
<1> QED
  BY <1>1, <1>2, <1>3 DEF Inv

(* The inductive invariant is one.                                          *)
THEOREM Invariance == Spec => []Inv
<1>1. Inv /\ [Next]_vars => Inv'
  BY TypeStep, UnstoredStep, DownStep, OneByOneStep, AtWorkStep, StrayStep, CredsStep, TunnelsStep
     DEF Inv
<1> QED
  BY <1>1, InitInv, PTL DEF Spec

(* The variables keep their types for any calls and tunnels.                *)
THEOREM TypeCorrect == Spec => []TypeOK
<1>1. Inv => TypeOK
  BY DEF Inv
<1> QED
  BY <1>1, Invariance, PTL

(* The only tunnels that run and that the web UI cannot stop are those of   *)
(* overlapping connects, and those a call started on a manager that was     *)
(* taken while the call was at work on it (web_server.rs connect and        *)
(* disconnect, tunnel_manager.rs start_tunnel_internal).                    *)
THEOREM NoManagerIsStray == Spec => []NoStrayManager
<1>1. Inv => NoStrayManager
  BY DEF Inv
<1> QED
  BY <1>1, Invariance, PTL

(* Between calls credentials.yaml is that of the manager in use, however    *)
(* many connects failed before (web_server.rs connect and disconnect).      *)
THEOREM RestartsResume == Spec => []RestartResumes
<1>1. Inv => RestartResumes
  BY DEF Inv
<1> QED
  BY <1>1, Invariance, PTL

(* No confirmed tunnel is lost while saves succeed, over any number of      *)
(* reconnects and crashes (config.rs save and load).                        *)
THEOREM TunnelsAreKept == Spec => []NoTunnelForgotten
<1>1. ASSUME Inv PROVE NoTunnelForgotten
  <2>1. inner # NoManager /\ "tunnels" \notin faulty => kept \subseteq mem[inner]
    BY <1>1 DEF Inv, TunnelsKnown
  <2>2. ~ up => \A m \in Managers : ~ Writing(m)
    BY <1>1 DEF Inv, Down, Writing
  <2> QED
    BY <1>1, <2>1, <2>2 DEF Inv, TunnelsKnown, NoTunnelForgotten
<1> QED
  BY <1>1, Invariance, PTL
=============================================================================
