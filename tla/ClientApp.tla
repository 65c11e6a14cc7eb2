------------------------------- MODULE ClientApp -------------------------------
(***************************************************************************)
(* AppState of the client's web UI: which TunnelManager it hands out, and   *)
(* the two files that outlive the process, credentials.yaml and             *)
(* tunnels.yaml.  connect is disconnect, a save, a load, start_all and a    *)
(* store, and only the first and the last hold a lock; another browser tab  *)
(* may call at any time, its request may be dropped, and the process may    *)
(* end at any step.                                                         *)
(*                                                                          *)
(* What a manager does with its own tunnels is TunnelManager.tla; here some *)
(* of them run or none does, and its configuration is a set of names.  A    *)
(* connect names the manager it makes and the credentials it was given.     *)
(***************************************************************************)
CONSTANTS
    Calls,          \* calls of connect and disconnect, each made once
    Boot,           \* the manager made by AppState::new
    Names,          \* tunnels that may be configured
    NoManager, NoCreds, NoEdit,
    Torn            \* a file cut short: open for writing, or never finished

Managers == Calls \cup {Boot}

ASSUME AppAssumption ==
    /\ Boot \notin Calls
    /\ NoManager \notin Managers
    /\ NoCreds \notin Calls /\ Torn \notin Calls /\ NoCreds # Torn
    /\ \A S \in SUBSET Names : S # Torn
    /\ NoEdit \notin [at : {"waiting", "writing"}, name : Names,
                      op : {"add", "update", "remove"}]

VARIABLES
    up,         \* the process runs
    inner,      \* AppState.inner
    running,    \* managers whose tunnels run
    starting,   \* managers on which a call is about to start a tunnel
    bootCreds,  \* the credentials Boot was made with
    mem,        \* mem[m]: the tunnels in m's configuration
    pc,         \* pc[c]: where the call c is
    edit,       \* edit[m]: a call on m that changes its configuration
    creds,      \* credentials.yaml
    file,       \* tunnels.yaml
    kept,       \* tunnels whose addition was confirmed (history)
    stray,      \* connects overlapped, or one was dropped at the end (history)
    late,       \* managers taken while a call was at work on them (history)
    faulty      \* files that lost an update (history)

diskVars == <<creds, file>>
appVars  == <<up, inner, running, starting, bootCreds, mem, edit>>
history  == <<kept, stray, late, faulty>>
vars == <<appVars, pc, diskVars, history>>

Edits == [at : {"waiting", "writing"}, name : Names, op : {"add", "update", "remove"}]

ConnectPlaces == {"connecting", "saving", "writing", "loading", "starting", "storing"}

Places == ConnectPlaces \cup {"idle", "disconnecting", "over"}

TypeOK ==
    /\ up \in BOOLEAN
    /\ inner \in Managers \cup {NoManager}
    /\ running \subseteq Managers
    /\ starting \subseteq Managers
    /\ bootCreds \in Calls \cup {NoCreds}
    /\ mem \in [Managers -> SUBSET Names]
    /\ pc \in [Calls -> Places]
    /\ edit \in [Managers -> Edits \cup {NoEdit}]
    /\ creds \in Calls \cup {NoCreds, Torn}
    /\ file \in {Torn} \cup SUBSET Names
    /\ kept \subseteq Names
    /\ stray \in BOOLEAN
    /\ late \subseteq Managers
    /\ faulty \subseteq {"creds", "tunnels"}

Init ==
    /\ up = FALSE
    /\ inner = NoManager
    /\ running = {}
    /\ starting = {}
    /\ bootCreds = NoCreds
    /\ mem = [m \in Managers |-> {}]
    /\ pc = [c \in Calls |-> "idle"]
    /\ edit = [m \in Managers |-> NoEdit]
    /\ creds = NoCreds
    /\ file = {}
    /\ kept = {} /\ stray = FALSE /\ late = {} /\ faulty = {}

-----------------------------------------------------------------------------
Active(c) == pc[c] \notin {"idle", "over"}

GoTo(c, place) == pc' = [pc EXCEPT ![c] = place]

(* TunnelsConfig::load().unwrap_or_default()                                *)
Loaded == IF file = Torn THEN {} ELSE file

Writing(m) == edit[m] # NoEdit /\ edit[m].at = "writing"

(* What is loaded while a save is under way misses it.                      *)
LoadMisses == IF \E m \in Managers : Writing(m) THEN {"tunnels"} ELSE {}

-----------------------------------------------------------------------------
(* connect and disconnect.                                                  *)

Call(c, place) ==
    /\ up
    /\ pc[c] = "idle"
    /\ GoTo(c, place)
    /\ stray' = (stray \/ \E d \in Calls : Active(d))
    /\ UNCHANGED <<appVars, diskVars, kept, late, faulty>>

(* Mutant: the manager is taken out and goes on.                            *)
MutTakenNotStopped ==
    /\ inner' = NoManager
    /\ UNCHANGED running

(* lock.take() and stop_all.                                                *)
TakesManager ==
    /\ inner' = NoManager
    /\ running' = running \ {inner}

(* Mutant: the credentials stay.                                            *)
MutCredsStay == UNCHANGED <<creds, faulty>>

(* SavedCredentials::delete, whose failure is ignored.                      *)
DeletesCreds ==
    \/ creds' = NoCreds /\ faulty' = faulty \ {"creds"}
    \/ creds # NoCreds /\ UNCHANGED creds /\ faulty' = faulty \cup {"creds"}

(* A call of the tunnel API holds the manager it was handed out.            *)
AtWorkOn(m) == m \in starting \/ edit[m] # NoEdit

disconnect(c) ==
    /\ pc[c] \in {"connecting", "disconnecting"}
    /\ TakesManager
    /\ DeletesCreds
    /\ late' = late \cup {m \in Managers : m = inner /\ AtWorkOn(m)}
    /\ GoTo(c, IF pc[c] = "connecting" THEN "saving" ELSE "over")
    /\ UNCHANGED <<up, starting, bootCreds, mem, edit, file, kept, stray>>

OpensCreds(c) ==
    /\ pc[c] = "saving"
    /\ creds' = Torn
    /\ GoTo(c, "writing")
    /\ UNCHANGED <<appVars, file, history>>

WritesCreds(c) ==
    /\ pc[c] = "writing"
    /\ creds' = c
    /\ faulty' = faulty \ {"creds"}
    /\ GoTo(c, "loading")
    /\ UNCHANGED <<appVars, file, kept, stray, late>>

(* save fails before, in or after the write: connect returns its error.     *)
SaveFails(c) ==
    \/ /\ pc[c] = "saving"
       /\ GoTo(c, "over")
       /\ UNCHANGED <<appVars, diskVars, history>>
    \/ /\ pc[c] = "writing"
       /\ creds' \in {Torn, c}
       /\ faulty' = faulty \cup {"creds"}
       /\ GoTo(c, "over")
       /\ UNCHANGED <<appVars, file, kept, stray, late>>

LoadsTunnels(c) ==
    /\ pc[c] = "loading"
    /\ mem' = [mem EXCEPT ![c] = Loaded]
    /\ faulty' = faulty \cup LoadMisses
    /\ GoTo(c, "starting")
    /\ UNCHANGED <<up, inner, running, starting, bootCreds, edit, diskVars, kept, stray, late>>

StartsAll(c) ==
    /\ pc[c] = "starting"
    /\ running' = running \cup {c}
    /\ GoTo(c, "storing")
    /\ UNCHANGED <<up, inner, starting, bootCreds, mem, edit, diskVars, history>>

StoresManager(c) ==
    /\ pc[c] = "storing"
    /\ inner' = c
    /\ GoTo(c, "over")
    /\ UNCHANGED <<up, running, starting, bootCreds, mem, edit, diskVars, history>>

(* The browser goes away while the call waits for the lock of inner.  The   *)
(* manager of a connect that is about to store it is dropped, which stops   *)
(* none of its tunnels.                                                     *)
CallDropped(c) ==
    /\ pc[c] \in {"connecting", "disconnecting", "storing"}
    /\ GoTo(c, "over")
    /\ stray' = (stray \/ pc[c] = "storing")
    /\ UNCHANGED <<appVars, diskVars, kept, late, faulty>>

-----------------------------------------------------------------------------
(* add_tunnel, update_tunnel and remove_tunnel of the manager, one at a     *)
(* time under the lock of its configuration; start_tunnel.                  *)

EditCall(m, n, op) ==
    /\ inner = m
    /\ edit[m] = NoEdit
    /\ n \in mem[m] <=> op # "add"
    /\ edit' = [edit EXCEPT ![m] = [at |-> "waiting", name |-> n, op |-> op]]
    /\ UNCHANGED <<up, inner, running, starting, bootCreds, mem, pc, diskVars, history>>

(* start_tunnel, and restart_tunnel after its 200 ms.                       *)
StartCall(m) ==
    /\ inner = m
    /\ mem[m] # {}
    /\ starting' = starting \cup {m}
    /\ UNCHANGED <<up, inner, running, bootCreds, mem, edit, pc, diskVars, history>>

(* start_tunnel_internal, on whatever manager the call holds: also on one   *)
(* that a disconnect has taken and stopped.                                 *)
StartsTunnel(m) ==
    /\ m \in starting
    /\ starting' = starting \ {m}
    /\ running' = running \cup {m}
    /\ UNCHANGED <<up, inner, bootCreds, mem, edit, pc, diskVars, history>>

(* Its client hangs up, or the tunnel is no longer configured.              *)
StartDropped(m) ==
    /\ m \in starting
    /\ starting' = starting \ {m}
    /\ UNCHANGED <<up, inner, running, bootCreds, mem, edit, pc, diskVars, history>>

(* Another manager is in use, or has already loaded the file.               *)
Outdated(m) == inner # m \/ \E c \in Calls \ {m} : pc[c] \in {"starting", "storing"}

OpensTunnels(m) ==
    /\ edit[m] # NoEdit /\ edit[m].at = "waiting"
    /\ mem' = [mem EXCEPT ![m] = IF edit[m].op = "remove" THEN @ \ {edit[m].name}
                                                        ELSE @ \cup {edit[m].name}]
    /\ file' = Torn
    /\ edit' = [edit EXCEPT ![m].at = "writing"]
    /\ kept' = IF edit[m].op = "remove" THEN kept \ {edit[m].name} ELSE kept
    /\ faulty' = IF Outdated(m) THEN faulty \cup {"tunnels"} ELSE faulty
    /\ UNCHANGED <<up, inner, running, starting, bootCreds, pc, creds, stray, late>>

(* Mutant: only the new entry is written.                                   *)
MutWritesTheEdit(m) ==
    /\ Writing(m)
    /\ file' = {edit[m].name}
    /\ edit' = [edit EXCEPT ![m] = NoEdit]
    /\ kept' = kept \cup {edit[m].name}
    /\ UNCHANGED <<up, inner, running, starting, bootCreds, mem, pc, creds, stray, late, faulty>>

(* The save ends and the lock is released; an entry that was added or       *)
(* updated, if it is enabled, is started next.                              *)
WritesTunnels(m) ==
    /\ Writing(m)
    /\ file' = mem[m]
    /\ edit' = [edit EXCEPT ![m] = NoEdit]
    /\ kept' = IF edit[m].op = "remove" THEN kept ELSE kept \cup {edit[m].name}
    /\ \/ UNCHANGED starting
       \/ edit[m].op # "remove" /\ starting' = starting \cup {m}
    /\ UNCHANGED <<up, inner, running, bootCreds, mem, pc, creds, stray, late, faulty>>

EditFails(m) ==
    /\ Writing(m)
    /\ edit' = [edit EXCEPT ![m] = NoEdit]
    /\ faulty' = faulty \cup {"tunnels"}
    /\ UNCHANGED <<up, inner, running, starting, bootCreds, mem, pc, diskVars, kept, stray, late>>

-----------------------------------------------------------------------------
(* The process.                                                             *)

(* Any end of it; the files stay as they are.                               *)
Stops ==
    /\ up
    /\ up' = FALSE
    /\ inner' = NoManager
    /\ running' = {} /\ starting' = {}
    /\ bootCreds' = NoCreds
    /\ mem' = [m \in Managers |-> {}]
    /\ pc' = [c \in Calls |-> IF Active(c) THEN "over" ELSE pc[c]]
    /\ edit' = [m \in Managers |-> NoEdit]
    /\ stray' = FALSE /\ late' = {}
    /\ faulty' = faulty \cup LoadMisses
                        \cup (IF \E c \in Calls : pc[c] = "writing" THEN {"creds"} ELSE {})
    /\ UNCHANGED <<diskVars, kept>>

(* Mutant: a credentials file is taken for credentials.                     *)
MutTornIsTaken ==
    /\ ~ up
    /\ up' = TRUE
    /\ IF creds # NoCreds
       THEN /\ inner' = Boot
            /\ running' = {Boot}
            /\ bootCreds' = creds
            /\ mem' = [mem EXCEPT ![Boot] = Loaded]
       ELSE UNCHANGED <<inner, running, bootCreds, mem>>
    /\ UNCHANGED <<starting, pc, edit, diskVars, history>>

(* AppState::new, and start_all of run_foreground, before the web UI can be *)
(* reached.  Credentials that do not parse count as none.                   *)
Boots ==
    /\ ~ up
    /\ up' = TRUE
    /\ IF creds \in Calls
       THEN /\ inner' = Boot
            /\ running' = {Boot}
            /\ bootCreds' = creds
            /\ mem' = [mem EXCEPT ![Boot] = Loaded]
       ELSE UNCHANGED <<inner, running, bootCreds, mem>>
    /\ UNCHANGED <<starting, pc, edit, diskVars, history>>

-----------------------------------------------------------------------------
CallStep(c) ==
    \/ disconnect(c)
    \/ OpensCreds(c)
    \/ WritesCreds(c)
    \/ SaveFails(c)
    \/ LoadsTunnels(c)
    \/ StartsAll(c)
    \/ StoresManager(c)
    \/ CallDropped(c)

EditStep(m) ==
    \/ \E n \in Names, op \in {"add", "update", "remove"} : EditCall(m, n, op)
    \/ OpensTunnels(m)
    \/ WritesTunnels(m)
    \/ EditFails(m)
    \/ StartCall(m)
    \/ StartsTunnel(m)
    \/ StartDropped(m)

Next ==
    \/ \E c \in Calls, place \in {"connecting", "disconnecting"} : Call(c, place)
    \/ \E c \in Calls : CallStep(c)
    \/ \E m \in Managers : EditStep(m)
    \/ Stops
    \/ Boots

Spec == Init /\ [][Next]_vars

-----------------------------------------------------------------------------
(* Properties.                                                              *)

(* The tunnels that run are those of the manager the web UI hands out, or   *)
(* of the one that is about to be stored: no failed, refused or repeated    *)
(* connect leaves tunnels behind that nobody can stop.  Excepted are        *)
(* connects that overlapped or were dropped waiting to store, and managers  *)
(* that were taken while a call that may start a tunnel held them: it goes  *)
(* on after stop_all (web_server.rs connect, tunnel_manager.rs add_tunnel,  *)
(* update_tunnel, start_tunnel).                                            *)
NoStrayManager ==
    ~ stray => \A m \in running :
                  m = inner \/ (m \in Calls /\ pc[m] = "storing") \/ m \in late

CredsOf(m) == CASE m = NoManager -> NoCreds
                [] m = Boot      -> bootCreds
                [] OTHER         -> m

(* Between calls the credentials on disk are those of the manager in use:   *)
(* whenever the process ends, it comes back connected to the same server,   *)
(* and stays disconnected after a disconnect (web_server.rs connect and     *)
(* disconnect, main.rs run_foreground).                                     *)
RestartResumes ==
    up /\ ~ stray /\ "creds" \notin faulty /\ (\A c \in Calls : ~ Active(c)) =>
        creds = CredsOf(inner)

(* A tunnel whose addition was confirmed is there until it is removed, over *)
(* reconnects, crashes and restarts, unless a save of tunnels.yaml failed,  *)
(* was cut short, or overlapped a reconnect (config.rs save and load).      *)
NoTunnelForgotten ==
    "tunnels" \notin faulty =>
        /\ inner # NoManager => kept \subseteq mem[inner]
        /\ ~ up => file # Torn /\ kept \subseteq file
=============================================================================
