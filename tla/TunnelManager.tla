---------------------------- MODULE TunnelManager ----------------------------
(***************************************************************************)
(* The client's TunnelManager under concurrent calls of the web API.  A     *)
(* call touches the map of handles and the configuration one after the      *)
(* other and owns neither in between; its future is dropped at an await     *)
(* when the browser goes away.                                              *)
(*                                                                          *)
(* A tunnel's task runs until it is cancelled (its sessions and backoff are *)
(* not modelled here).  A call spawns at most one task, so tasks are named  *)
(* after the calls that spawn them, and after the tunnel when start_all     *)
(* did.                                                                     *)
(***************************************************************************)
EXTENDS Naturals

CONSTANTS
    Ids,      \* tunnel ids
    Names,    \* TunnelEntry.client_id
    Calls,    \* calls of the API, each made once
    NoId, NoEntry, NoTask

Tasks == Calls \cup Ids

Entries == [client_id : Names, enabled : BOOLEAN]

ASSUME ManagerAssumption ==
    /\ Calls \cap Ids = {}
    /\ NoId \notin Ids
    /\ NoTask \notin Tasks
    /\ NoEntry \notin Entries

VARIABLES
    config,     \* config[i]: the entry in memory
    saved,      \* saved[i]: the entry in tunnels.yaml
    tunnels,    \* tunnels[i]: the task whose handle the map holds
    task,       \* task[t]: "running" until its token is cancelled
    served,     \* served[t]: the tunnel and the entry of the running t
    call,       \* call[c]: what is asked, while c is active
    pc,         \* pc[c]: where the call is
    editFailed, \* an edit of the configuration returned an error (history)
    connected,  \* the web UI still hands out this manager
    stopping,   \* ids stop_all has still to stop
    raced       \* ids two calls have worked on at once (history)

managerVars == <<config, saved, tunnels, task, served>>
callVars    == <<call, pc, editFailed>>
uiVars      == <<connected, stopping, raced>>
vars        == <<managerVars, callVars, uiVars>>

Ops == {"add", "update", "remove", "start", "stop", "restart"}

NoCall   == [op |-> "none", id |-> NoId, entry |-> NoEntry]
NoTunnel == [id |-> NoId, entry |-> NoEntry]

(* "stopping": stop_tunnel is next; "editing": waits for the write lock of  *)
(* the configuration; "pausing": the 200 ms of a restart; "reading": waits  *)
(* for the read lock; "starting" and "inserting": before and after the      *)
(* spawn in start_tunnel_internal.                                          *)
Places == {"idle", "stopping", "editing", "pausing", "reading", "starting",
           "inserting", "over"}

TypeOK ==
    /\ config \in [Ids -> Entries \cup {NoEntry}]
    /\ saved \in [Ids -> Entries \cup {NoEntry}]
    /\ tunnels \in [Ids -> Tasks \cup {NoTask}]
    /\ task \in [Tasks -> {"none", "running", "cancelled"}]
    /\ served \in [Tasks -> [id : Ids, entry : Entries] \cup {NoTunnel}]
    /\ call \in [Calls -> [op : Ops, id : Ids, entry : Entries \cup {NoEntry}] \cup {NoCall}]
    /\ pc \in [Calls -> Places]
    /\ editFailed \in BOOLEAN
    /\ connected \in BOOLEAN
    /\ stopping \subseteq Ids
    /\ raced \subseteq Ids

DistinctNames(cfg) ==
    \A i, j \in Ids :
        cfg[i] # NoEntry /\ cfg[j] # NoEntry /\ cfg[i].client_id = cfg[j].client_id => i = j

AutoStarted(i) == config[i] # NoEntry /\ config[i].enabled

(* Some configuration was loaded and start_all has run; neither the router  *)
(* nor inner has the manager before that.                                   *)
Init ==
    /\ config \in {cfg \in [Ids -> Entries \cup {NoEntry}] : DistinctNames(cfg)}
    /\ saved = config
    /\ tunnels = [i \in Ids |-> IF AutoStarted(i) THEN i ELSE NoTask]
    /\ task = [t \in Tasks |-> IF t \in Ids /\ AutoStarted(t) THEN "running" ELSE "none"]
    /\ served = [t \in Tasks |-> IF t \in Ids /\ AutoStarted(t)
                                 THEN [id |-> t, entry |-> config[t]] ELSE NoTunnel]
    /\ call = [c \in Calls |-> NoCall]
    /\ pc = [c \in Calls |-> "idle"]
    /\ editFailed = FALSE
    /\ connected = TRUE
    /\ stopping = {}
    /\ raced = {}

-----------------------------------------------------------------------------
Active(c) == pc[c] \notin {"idle", "over"}

GoTo(c, place) ==
    /\ pc' = [pc EXCEPT ![c] = place]
    /\ UNCHANGED editFailed

Return(c, result) ==
    /\ pc' = [pc EXCEPT ![c] = "over"]
    /\ call' = [call EXCEPT ![c] = NoCall]
    /\ editFailed' = (editFailed \/ (result = "error" /\ pc[c] = "editing"))

Reach(c, place) == GoTo(c, place) /\ UNCHANGED call

(* The id generate_id draws is one no call and no tunnel has.               *)
Fresh(i) ==
    /\ config[i] = NoEntry
    /\ \A c \in Calls : call[c].id # i
    /\ \A t \in Tasks : served[t].id # i

FirstPlace(op) ==
    CASE op = "add"   -> "editing"
      [] op = "start" -> "reading"
      [] OTHER        -> "stopping"

(* require_connected hands the manager to the call, which keeps it.         *)
Call(c, op, i, e) ==
    /\ connected
    /\ pc[c] = "idle"
    /\ op = "add" => Fresh(i)
    /\ call' = [call EXCEPT ![c] = [op |-> op, id |-> i, entry |-> e]]
    /\ raced' = IF \E d \in Calls : Active(d) /\ call[d].id = i THEN raced \cup {i} ELSE raced
    /\ GoTo(c, FirstPlace(op))
    /\ UNCHANGED <<managerVars, connected, stopping>>

-----------------------------------------------------------------------------
(* stop_tunnel.                                                             *)

(* The handle is taken out and its token is not cancelled.                  *)
MutNotCancelled(i) ==
    /\ tunnels[i] # NoTask
    /\ tunnels' = [tunnels EXCEPT ![i] = NoTask]
    /\ UNCHANGED <<task, served>>

Stop(i) ==
    /\ tunnels[i] # NoTask
    /\ tunnels' = [tunnels EXCEPT ![i] = NoTask]
    /\ task' = [task EXCEPT ![tunnels[i]] = "cancelled"]
    /\ served' = [served EXCEPT ![tunnels[i]] = NoTunnel]

StopOrSkip(i) == Stop(i) \/ (tunnels[i] = NoTask /\ UNCHANGED <<tunnels, task, served>>)

stop_tunnel(c) ==
    /\ pc[c] = "stopping"
    /\ call[c].op = "stop"
    /\ StopOrSkip(call[c].id)
    /\ Return(c, IF tunnels[call[c].id] = NoTask THEN "error" ELSE "ok")
    /\ UNCHANGED <<config, saved, uiVars>>

(* update, remove and restart ignore that the tunnel was not running.       *)
StopFirst(c) ==
    /\ pc[c] = "stopping"
    /\ call[c].op # "stop"
    /\ StopOrSkip(call[c].id)
    /\ Reach(c, IF call[c].op = "restart" THEN "pausing" ELSE "editing")
    /\ UNCHANGED <<config, saved, uiVars>>

-----------------------------------------------------------------------------
(* The configuration, under its write lock.                                 *)

(* An update does not look at the other tunnels' names.                     *)
MutAnyName(c) ==
    CASE call[c].op = "update" -> config[call[c].id] # NoEntry
      [] call[c].op = "add"    -> \A j \in Ids : config[j] # NoEntry =>
                                      config[j].client_id # call[c].entry.client_id
      [] OTHER                 -> config[call[c].id] # NoEntry

(* What add, update and remove check.                                       *)
Editable(c) ==
    LET i == call[c].id IN
    /\ call[c].op # "add" => config[i] # NoEntry
    /\ call[c].op # "remove" =>
          \A j \in Ids \ {i} : config[j] # NoEntry =>
              config[j].client_id # call[c].entry.client_id

(* remove carries NoEntry.                                                  *)
Edited(c) == [config EXCEPT ![call[c].id] = call[c].entry]

EditRefused(c) ==
    /\ pc[c] = "editing"
    /\ ~ Editable(c)
    /\ Return(c, "error")
    /\ UNCHANGED <<managerVars, uiVars>>

(* The file is written before the entry changes in memory.                  *)
MutSavedBefore(c) ==
    /\ pc[c] = "editing"
    /\ Editable(c)
    /\ config' = Edited(c)
    /\ saved' = config
    /\ IF call[c].entry # NoEntry /\ call[c].entry.enabled
       THEN Reach(c, "starting") ELSE Return(c, "ok")
    /\ UNCHANGED <<tunnels, task, served, uiVars>>

Edit(c) ==
    /\ pc[c] = "editing"
    /\ Editable(c)
    /\ config' = Edited(c)
    /\ saved' = Edited(c)
    /\ IF call[c].entry # NoEntry /\ call[c].entry.enabled
       THEN Reach(c, "starting") ELSE Return(c, "ok")
    /\ UNCHANGED <<tunnels, task, served, uiVars>>

(* save fails, before or after it has written the file; the entry in memory *)
(* stays changed.                                                           *)
SaveFails(c) ==
    /\ pc[c] = "editing"
    /\ Editable(c)
    /\ config' = Edited(c)
    /\ saved' \in {saved, Edited(c)}
    /\ Return(c, "error")
    /\ UNCHANGED <<tunnels, task, served, uiVars>>

-----------------------------------------------------------------------------
(* start_tunnel, restart_tunnel and start_tunnel_internal.                  *)

EndOfPause(c) ==
    /\ pc[c] = "pausing"
    /\ Reach(c, "reading")
    /\ UNCHANGED <<managerVars, uiVars>>

ReadEntry(c) ==
    LET i == call[c].id IN
    /\ pc[c] = "reading"
    /\ config[i] # NoEntry
    /\ call' = [call EXCEPT ![c].entry = config[i]]
    /\ GoTo(c, "starting")
    /\ UNCHANGED <<managerVars, uiVars>>

NoSuchTunnel(c) ==
    /\ pc[c] = "reading"
    /\ config[call[c].id] = NoEntry
    /\ Return(c, "error")
    /\ UNCHANGED <<managerVars, uiVars>>

AlreadyRunning(c) ==
    /\ pc[c] = "starting"
    /\ tunnels[call[c].id] # NoTask
    /\ Return(c, "error")
    /\ UNCHANGED <<managerVars, uiVars>>

(* A tunnel that runs is started once more.                                 *)
MutSpawnAnyway(c) ==
    /\ pc[c] = "starting"
    /\ task' = [task EXCEPT ![c] = "running"]
    /\ served' = [served EXCEPT ![c] = [id |-> call[c].id, entry |-> call[c].entry]]
    /\ Reach(c, "inserting")
    /\ UNCHANGED <<config, saved, tunnels, uiVars>>

(* The map does not have the id: the task is spawned.                       *)
Spawn(c) ==
    /\ pc[c] = "starting"
    /\ tunnels[call[c].id] = NoTask
    /\ task' = [task EXCEPT ![c] = "running"]
    /\ served' = [served EXCEPT ![c] = [id |-> call[c].id, entry |-> call[c].entry]]
    /\ Reach(c, "inserting")
    /\ UNCHANGED <<config, saved, tunnels, uiVars>>

(* The handle goes into the map.  One that it replaces is dropped, which    *)
(* cancels nothing and detaches its task.                                   *)
Insert(c) ==
    /\ pc[c] = "inserting"
    /\ tunnels' = [tunnels EXCEPT ![call[c].id] = c]
    /\ Return(c, "ok")
    /\ UNCHANGED <<config, saved, task, served, uiVars>>

(* The browser closes the connection of a call that awaits.                 *)
CallDropped(c) ==
    /\ pc[c] \in {"editing", "pausing", "reading"}
    /\ Return(c, "nothing")
    /\ UNCHANGED <<managerVars, uiVars>>

-----------------------------------------------------------------------------
(* Disconnecting in the web UI, or the end of the program: nobody gets the  *)
(* manager any more, and stop_all stops the tunnels that it finds.          *)

MapIds == {i \in Ids : tunnels[i] # NoTask}

(* Only enabled tunnels are stopped.                                        *)
MutStopsEnabled ==
    /\ connected
    /\ connected' = FALSE
    /\ stopping' = {i \in MapIds : AutoStarted(i)}
    /\ raced' = raced \cup {call[c].id : c \in {d \in Calls : Active(d)}}
    /\ UNCHANGED <<managerVars, callVars>>

Disconnect ==
    /\ connected
    /\ connected' = FALSE
    /\ stopping' = MapIds
    /\ raced' = raced \cup {call[c].id : c \in {d \in Calls : Active(d)}}
    /\ UNCHANGED <<managerVars, callVars>>

stop_all(i) ==
    /\ i \in stopping
    /\ stopping' = stopping \ {i}
    /\ StopOrSkip(i)
    /\ UNCHANGED <<config, saved, callVars, connected, raced>>

-----------------------------------------------------------------------------
CallStep(c) ==
    \/ stop_tunnel(c)
    \/ StopFirst(c)
    \/ EditRefused(c)
    \/ Edit(c)
    \/ SaveFails(c)
    \/ EndOfPause(c)
    \/ ReadEntry(c)
    \/ NoSuchTunnel(c)
    \/ AlreadyRunning(c)
    \/ Spawn(c)
    \/ Insert(c)

(* What a request can carry: only add and update bring an entry.            *)
NewCall(c) ==
    \E i \in Ids :
        \/ \E op \in {"add", "update"}, e \in Entries : Call(c, op, i, e)
        \/ \E op \in Ops \ {"add", "update"} : Call(c, op, i, NoEntry)

Next ==
    \/ \E c \in Calls : NewCall(c) \/ CallStep(c) \/ CallDropped(c)
    \/ Disconnect
    \/ \E i \in Ids : stop_all(i)

Spec == Init /\ [][Next]_vars

-----------------------------------------------------------------------------
(* Properties.                                                              *)

Managed(t) ==
    \/ tunnels[served[t].id] = t
    \/ t \in Calls /\ pc[t] = "inserting"

(* A handle in the map is that of a live task of its tunnel; and as long as *)
(* no two calls worked on a tunnel at once, its live tasks are just the one *)
(* in the map: calls on other tunnels, refused calls, failed saves and      *)
(* dropped futures leave no task behind that nobody can stop.               *)
NoOrphanUnlessRaced ==
    /\ \A i \in Ids : tunnels[i] # NoTask =>
          task[tunnels[i]] = "running" /\ served[tunnels[i]].id = i
    /\ \A t \in Tasks :
          task[t] = "running" /\ served[t].id \notin raced => Managed(t)

(* A live task serves the tunnel as the configuration has it now, also when *)
(* an update was refused, failed to save or was abandoned half-way.         *)
RunsWhatIsConfigured ==
    \A t \in Tasks :
        task[t] = "running" /\ served[t].id \notin raced =>
            config[served[t].id] = served[t].entry

(* Two tunnels never claim one name at the server.                          *)
NamesStayDistinct == DistinctNames(config)

(* The file lags behind the memory only after an error was reported.        *)
SavedUnlessReported ==
    saved # config => editFailed

(* After a disconnect no tunnel runs, but those a call was busy with.       *)
DisconnectStopsAll ==
    ~ connected /\ stopping = {} =>
        \A t \in Tasks : task[t] = "running" => served[t].id \in raced
=============================================================================
