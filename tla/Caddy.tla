-------------------------------- MODULE Caddy --------------------------------
(***************************************************************************)
(* zo-tunnel servers and other applications that share the one `ask`        *)
(* endpoint of Caddy's on-demand TLS.  A server puts itself in the place of *)
(* whoever is there, remembers it as its fallback, looks every 30 s whether *)
(* it was replaced (the watchdog), and puts the fallback back on shutdown.  *)
(*                                                                          *)
(* A GET is the step in which Caddy answers, and what the caller does with  *)
(* the answer up to its next await; a PATCH is in flight from there to the  *)
(* step in which it is applied and reported.  A PATCH in flight when its    *)
(* process ends is applied then, or never.                                  *)
(***************************************************************************)
EXTENDS Naturals

CONSTANTS
    Servers,     \* zo-tunnel servers, and their endpoints
    Apps,        \* endpoints of other applications
    Asks,        \* TLS checks of foreign domains that run at once
    NoEndpoint,  \* no endpoint configured; no fallback
    Null,        \* the text "null", which Caddy may answer for a missing key
    Failed,      \* no usable answer: an error or a status other than 200
    NoServer,
    MaxSets,     \* bound: times another application takes the endpoint
    MaxFaults    \* bound: requests to the admin API that fail

Endpoints == Servers \cup Apps \cup {NoEndpoint, Null}

ASSUME CaddyAssumption ==
    /\ Servers \cap Apps = {}
    /\ {NoEndpoint, Null} \cap (Servers \cup Apps) = {} /\ NoEndpoint # Null
    /\ Failed \notin Endpoints
    /\ NoServer \notin Servers
    /\ MaxSets \in Nat
    /\ MaxFaults \in Nat

VARIABLES
    endpoint,  \* on_demand.permission.endpoint in Caddy
    main,      \* main[s]: where Server::run is
    kept,      \* kept[s]: run has its CaddyManager
    fallback,  \* fallback[s]: fallback_endpoint, lost with the process
    watch,     \* watch[s]: where the watchdog is
    seen,      \* seen[s]: what the last GET of s returned
    ask,       \* ask[k]: the server that runs check_fallback, and where
    wanted,    \* the endpoint another application set last (history)
    broken,    \* wanted was lost in one of the known ways (history)
    sets, faults

serverVars  == <<main, kept, fallback, watch, seen>>
historyVars == <<wanted, broken>>
boundVars   == <<sets, faults>>
vars        == <<endpoint, serverVars, ask, historyVars, boundVars>>

NoAsk == [server |-> NoServer, place |-> "idle"]

(* main: "reading" and "setting" in register, "queued" for the read lock and *)
(* "restoring" with it in unregister; "stopped" after an unregister that    *)
(* reported success, "down" after any other end.                            *)
(* watch: "locking" waits for the write lock.                               *)
(* ask: "calling" and "stalled" hold the read lock, the second in a response *)
(* whose body does not end.                                                 *)
TypeOK ==
    /\ endpoint \in Endpoints
    /\ main \in [Servers -> {"down", "reading", "setting", "serving", "queued", "restoring", "stopped"}]
    /\ kept \in [Servers -> BOOLEAN]
    /\ fallback \in [Servers -> Endpoints]
    /\ \A s \in Servers : fallback[s] # s
    /\ watch \in [Servers -> {"off", "sleeping", "locking", "setting"}]
    /\ seen \in [Servers -> Endpoints \cup {Failed}]
    /\ ask \in [Asks -> [server : Servers, place : {"queued", "calling", "stalled"}] \cup {NoAsk}]
    /\ wanted \in Apps \cup {NoEndpoint}
    /\ broken \in BOOLEAN
    /\ sets \in 0..MaxSets
    /\ faults \in 0..MaxFaults

Init ==
    /\ endpoint \in Apps \cup {NoEndpoint}
    /\ main = [s \in Servers |-> "down"]
    /\ kept = [s \in Servers |-> FALSE]
    /\ fallback = [s \in Servers |-> NoEndpoint]
    /\ watch = [s \in Servers |-> "off"]
    /\ seen = [s \in Servers |-> NoEndpoint]
    /\ ask = [k \in Asks |-> NoAsk]
    /\ wanted = endpoint
    /\ broken = FALSE
    /\ sets = 0
    /\ faults = 0

-----------------------------------------------------------------------------
Up(s) == main[s] \notin {"down", "stopped"}

(* The answer to a GET: an endpoint that is not set is a status other than  *)
(* 200, an empty body, or `null`, which like any body that is not a string  *)
(* is taken for the endpoint as it is.                                      *)
http_get(r) ==
    \/ r = endpoint /\ UNCHANGED faults
    \/ r \in {Failed, Null} /\ endpoint = NoEndpoint /\ UNCHANGED faults
    \/ r = Failed /\ faults < MaxFaults /\ faults' = faults + 1

(* The result of a PATCH: one that reports failure may have been applied,   *)
(* when the answer was lost or came after the 5 s.                          *)
http_patch(after, value, ok) ==
    \/ ok /\ after = value /\ UNCHANGED faults
    \/ /\ ~ ok
       /\ after \in {endpoint, value}
       /\ faults < MaxFaults
       /\ faults' = faults + 1

(* It replaced an endpoint that its sender had not read.                    *)
Blind(after, from) == after # endpoint /\ endpoint \notin {from, NoEndpoint}

Readers(s) == {k \in Asks : ask[k].server = s /\ ask[k].place # "queued"}

(* tokio's RwLock serves its waiters in order: whoever waits behind the     *)
(* watchdog has the read lock next.                                         *)
Granted(s) ==
    /\ ask' = [k \in Asks |-> IF ask[k].server = s THEN [ask[k] EXCEPT !.place = "calling"] ELSE ask[k]]
    /\ main' = [main EXCEPT ![s] = IF @ = "queued" THEN "restoring" ELSE @]

(* The process of s is gone, with its manager, watchdog and connections.    *)
Exit(s, how) ==
    /\ main' = [main EXCEPT ![s] = how]
    /\ kept' = [kept EXCEPT ![s] = FALSE]
    /\ fallback' = [fallback EXCEPT ![s] = NoEndpoint]
    /\ watch' = [watch EXCEPT ![s] = "off"]
    /\ seen' = [seen EXCEPT ![s] = NoEndpoint]
    /\ ask' = [k \in Asks |-> IF ask[k].server = s THEN NoAsk ELSE ask[k]]

-----------------------------------------------------------------------------
Start(s) ==
    /\ ~ Up(s)
    /\ main' = [main EXCEPT ![s] = "reading"]
    /\ UNCHANGED <<endpoint, kept, fallback, watch, seen, ask, historyVars, boundVars>>

(* register without `existing != self.our_endpoint`.                        *)
MutOwnAsFallback(s) ==
    /\ main[s] = "reading"
    /\ \E r \in Endpoints \cup {Failed} :
        /\ http_get(r)
        /\ seen' = [seen EXCEPT ![s] = r]
        /\ fallback' = [fallback EXCEPT ![s] = IF r \in {NoEndpoint, Failed} THEN @ ELSE r]
    /\ main' = [main EXCEPT ![s] = "setting"]
    /\ UNCHANGED <<endpoint, kept, watch, ask, historyVars, sets>>

(* register goes on to its PATCH whatever the GET returned.                 *)
RegisterRead(s) ==
    /\ main[s] = "reading"
    /\ \E r \in Endpoints \cup {Failed} :
        /\ http_get(r)
        /\ seen' = [seen EXCEPT ![s] = r]
        /\ fallback' = [fallback EXCEPT ![s] = IF r \in {s, NoEndpoint, Failed} THEN @ ELSE r]
    /\ main' = [main EXCEPT ![s] = "setting"]
    /\ UNCHANGED <<endpoint, kept, watch, ask, historyVars, sets>>

(* A register that fails costs the manager, and what it remembered.         *)
RegisterSet(s) ==
    /\ main[s] = "setting"
    /\ \E ok \in BOOLEAN, after \in Endpoints :
        /\ http_patch(after, s, ok)
        /\ endpoint' = after
        /\ kept' = [kept EXCEPT ![s] = ok]
        /\ fallback' = [fallback EXCEPT ![s] = IF ok THEN @ ELSE NoEndpoint]
        /\ watch' = [watch EXCEPT ![s] = IF ok THEN "sleeping" ELSE "off"]
        /\ broken' = (broken \/ Blind(after, seen[s]) \/ (~ ok /\ after = s))
    /\ main' = [main EXCEPT ![s] = "serving"]
    /\ UNCHANGED <<seen, ask, wanted, sets>>

(* The watchdog ends at the first check without an answer.                  *)
MutWatchdogGivesUp(s) ==
    /\ watch[s] = "sleeping"
    /\ \E r \in Endpoints \cup {Failed} :
        /\ http_get(r)
        /\ seen' = [seen EXCEPT ![s] = r]
        /\ watch' = [watch EXCEPT ![s] = CASE r = s          -> "sleeping"
                                           [] r = Failed     -> "off"
                                           [] r = NoEndpoint -> "setting"
                                           [] OTHER          -> "locking"]
    /\ UNCHANGED <<endpoint, main, kept, fallback, ask, historyVars, sets>>

(* check_and_reregister, to its first await after the GET.                  *)
WatchdogRead(s) ==
    /\ watch[s] = "sleeping"
    /\ \E r \in Endpoints \cup {Failed} :
        /\ http_get(r)
        /\ seen' = [seen EXCEPT ![s] = r]
        /\ watch' = [watch EXCEPT ![s] = CASE r \in {s, Failed} -> "sleeping"
                                           [] r = NoEndpoint    -> "setting"
                                           [] OTHER             -> "locking"]
    /\ UNCHANGED <<endpoint, main, kept, fallback, ask, historyVars, sets>>

(* The watchdog keeps the fallback it has.                                  *)
MutFirstFallbackOnly(s) ==
    /\ watch[s] = "locking"
    /\ Readers(s) = {} /\ main[s] # "restoring"
    /\ fallback' = [fallback EXCEPT ![s] = IF @ = NoEndpoint THEN seen[s] ELSE @]
    /\ watch' = [watch EXCEPT ![s] = "setting"]
    /\ Granted(s)
    /\ UNCHANGED <<endpoint, kept, seen, historyVars, boundVars>>

WatchdogSave(s) ==
    /\ watch[s] = "locking"
    /\ Readers(s) = {} /\ main[s] # "restoring"
    /\ fallback' = [fallback EXCEPT ![s] = seen[s]]
    /\ watch' = [watch EXCEPT ![s] = "setting"]
    /\ Granted(s)
    /\ UNCHANGED <<endpoint, kept, seen, historyVars, boundVars>>

WatchdogSet(s) ==
    /\ watch[s] = "setting"
    /\ \E ok \in BOOLEAN, after \in Endpoints :
        /\ http_patch(after, s, ok)
        /\ endpoint' = after
        /\ broken' = (broken \/ Blind(after, seen[s]))
    /\ watch' = [watch EXCEPT ![s] = "sleeping"]
    /\ UNCHANGED <<main, kept, fallback, seen, ask, wanted, sets>>

-----------------------------------------------------------------------------
(* Ctrl-C, and unregister up to its first real wait.                        *)
Shutdown(s) ==
    /\ main[s] = "serving"
    /\ IF ~ kept[s] \/ (watch[s] # "locking" /\ fallback[s] = NoEndpoint)
       THEN /\ Exit(s, "down")
            /\ endpoint' \in {endpoint} \cup (IF watch[s] = "setting" THEN {s} ELSE {})
            /\ broken' = (broken \/ endpoint' # endpoint)
       ELSE /\ main' = [main EXCEPT ![s] = IF watch[s] = "locking" THEN "queued" ELSE "restoring"]
            /\ UNCHANGED <<endpoint, kept, fallback, watch, seen, ask, broken>>
    /\ UNCHANGED <<wanted, boundVars>>

(* The end of unregister, of run and of the process: a PATCH the watchdog   *)
(* has in flight may still arrive.                                          *)
Restore(s) ==
    /\ main[s] = "restoring"
    /\ \E ok \in BOOLEAN, after \in Endpoints :
        /\ http_patch(after, fallback[s], ok)
        /\ endpoint' \in {after} \cup (IF watch[s] = "setting" THEN {s} ELSE {})
        /\ broken' = (broken \/ Blind(after, s) \/ ~ ok \/ watch[s] = "setting")
        /\ Exit(s, IF ok THEN "stopped" ELSE "down")
    /\ UNCHANGED <<wanted, sets>>

(* A crash, a SIGTERM (only Ctrl-C is handled), or an error out of run.     *)
Die(s) ==
    /\ Up(s)
    /\ \/ UNCHANGED endpoint
       \/ "setting" \in {main[s], watch[s]} /\ endpoint' = s
       \/ main[s] = "restoring" /\ endpoint' = fallback[s]
    /\ broken' = (broken \/ endpoint' # endpoint \/ endpoint' = s)
    /\ Exit(s, "down")
    /\ UNCHANGED <<wanted, boundVars>>

(* Another application, or a reload of Caddy's configuration file.          *)
AppSets(a) ==
    /\ sets < MaxSets
    /\ sets' = sets + 1
    /\ endpoint' = a
    /\ wanted' = a
    /\ broken' = FALSE
    /\ UNCHANGED <<serverVars, ask, faults>>

-----------------------------------------------------------------------------
(* A TLS check of a domain that is not ours; without a fallback it is       *)
(* refused at once.                                                         *)
AskArrives(s, k) ==
    /\ main[s] \in {"serving", "queued", "restoring"} /\ kept[s]
    /\ ask[k] = NoAsk
    /\ watch[s] = "locking" \/ fallback[s] # NoEndpoint
    /\ ask' = [ask EXCEPT ![k] =
                [server |-> s, place |-> IF watch[s] = "locking" THEN "queued" ELSE "calling"]]
    /\ UNCHANGED <<endpoint, serverVars, historyVars, boundVars>>

(* A TLS check without the 5 s: it returns when the fallback answers, which *)
(* one that is unreachable never does.                                      *)
MutNoTimeout(k) ==
    /\ ask[k].place = "answered"
    /\ ask' = [ask EXCEPT ![k] = NoAsk]
    /\ UNCHANGED <<endpoint, serverVars, historyVars, boundVars>>

(* The connect and the response head each come within 5 s or fail.          *)
AskReturns(k) ==
    /\ ask[k].place = "calling"
    /\ ask' = [ask EXCEPT ![k] = NoAsk]
    /\ UNCHANGED <<endpoint, serverVars, historyVars, boundVars>>

(* The body has no timeout.                                                 *)
AskStalls(k) ==
    /\ ask[k].place = "calling"
    /\ ask' = [ask EXCEPT ![k].place = "stalled"]
    /\ UNCHANGED <<endpoint, serverVars, historyVars, boundVars>>

(* The body ends after all, or the caller gives up and the handler is       *)
(* dropped.                                                                 *)
AskDropped(k) ==
    /\ ask[k].place \in {"queued", "stalled"}
    /\ ask' = [ask EXCEPT ![k] = NoAsk]
    /\ UNCHANGED <<endpoint, serverVars, historyVars, boundVars>>

Next ==
    \/ \E s \in Servers :
        \/ Start(s) \/ RegisterRead(s) \/ RegisterSet(s)
        \/ WatchdogRead(s) \/ WatchdogSave(s) \/ WatchdogSet(s)
        \/ Shutdown(s) \/ Restore(s) \/ Die(s)
        \/ \E k \in Asks : AskArrives(s, k)
    \/ \E a \in Apps : AppSets(a)
    \/ \E k \in Asks : AskReturns(k) \/ AskStalls(k) \/ AskDropped(k)

(* Tokio runs what is ready and the admin API's requests end; nobody has to *)
(* start or stop a server, change the endpoint or finish a stalled body.    *)
CaddyFairness ==
    /\ \A s \in Servers :
        /\ WF_vars(RegisterRead(s)) /\ WF_vars(RegisterSet(s))
        /\ WF_vars(WatchdogRead(s)) /\ WF_vars(WatchdogSave(s)) /\ WF_vars(WatchdogSet(s))
        /\ WF_vars(Restore(s))
    /\ \A k \in Asks : WF_vars(AskReturns(k))

Spec == Init /\ [][Next]_vars /\ CaddyFairness

-----------------------------------------------------------------------------
(* What another application configured last is either Caddy's endpoint or   *)
(* the fallback of the server in its place, through registrations,          *)
(* takeovers, failed requests and shutdowns: what register, the watchdog    *)
(* and unregister remember is never one replacement behind.  The ways in    *)
(* which the code loses it are those that set `broken`: a PATCH over an     *)
(* endpoint its sender did not read, a register that reports failure but    *)
(* was applied, a process that dies as Caddy's endpoint or sends its last   *)
(* PATCH, a restore that fails, and a PATCH of the watchdog in flight when  *)
(* unregister ends.  With several servers they replace each other: one is   *)
(* assumed.                                                                 *)
ChainKept ==
    wanted # NoEndpoint /\ ~ broken =>
        \/ endpoint = wanted
        \/ endpoint \in Servers /\ fallback[endpoint] = wanted

Stalled(s) == \E k \in Asks : ask[k].server = s /\ ask[k].place = "stalled"

(* However often it is replaced and its requests fail, a server that runs   *)
(* with its manager becomes Caddy's endpoint again, unless a fallback that  *)
(* does not end its answer keeps the watchdog from its lock                 *)
(* (start_watchdog).                                                        *)
WatchdogReclaims ==
    \A s \in Servers :
        []<>(endpoint = s \/ main[s] # "serving" \/ ~ kept[s] \/ Stalled(s))

(* An unregister gets its lock and ends, also behind a watchdog that waits  *)
(* for running TLS checks, unless one of these stalls.                      *)
ShutdownEnds ==
    \A s \in Servers :
        main[s] \in {"queued", "restoring"} ~> (main[s] \notin {"queued", "restoring"} \/ Stalled(s))
=============================================================================
