----------------------------- MODULE ClientProcess -----------------------------
(***************************************************************************)
(* The client as the operating system sees it: the foreground process that  *)
(* serves the web UI and runs the tunnels, the commands that start, stop,   *)
(* upgrade and uninstall it, and the two files they share, client.pid and   *)
(* the installed binary.  Nothing locks either file, so every access is a   *)
(* step of its own, and the client can die between two.                     *)
(*                                                                          *)
(* A PID is that of one client in its life; afterwards a program that is    *)
(* not zo-tunnel-client may get it.  All run as one user, commands run to   *)
(* their end, and one upgrade runs at a time.  The client is built for      *)
(* Linux and for macOS, which has no /proc: both are checked.               *)
(***************************************************************************)
CONSTANTS
    Clients,    \* PIDs, each of one foreground process
    Users,      \* terminals in which commands are run, one after the other
    Script,     \* the shell of the self-restart after an upgrade in the web UI
    NoPid,      \* no PID file, or no PID
    Torn        \* a PID file that is open for writing and still empty

Cmds == Users \cup {Script}

ASSUME ProcessAssumption ==
    /\ Script \notin Users
    /\ Clients \cap Cmds = {}
    /\ {NoPid, Torn} \cap (Clients \cup Cmds) = {} /\ NoPid # Torn

VARIABLES
    proc,       \* proc[d]: where the process d is, or what has become of its PID
    pidFile,    \* content of client.pid
    opened,     \* writers that have client.pid open
    cmd,        \* cmd[u]: the command u runs, where it is, and the PID it works on
    script,     \* what the self-restart has still to do
    binary,     \* the file at the install path
    up,         \* self_update::upgrade: who runs it, where it is, the path it keeps
    unlinked,   \* clients that run a file that was removed, and can tell (Linux)
    procfs,     \* the system has /proc; never changes
    uninstalled,  \* an uninstall removed the binary (history)
    cut,        \* a replacement of the binary was cut short (history)
    raced,      \* two commands were active at once (history)
    awaited,    \* a self-restart is due and nothing has come between (history)
    snatched    \* other programs that got their PID between a look and its signal (history)

fileVars == <<pidFile, opened>>
installVars == <<binary, up, unlinked, cut>>
homeVars == <<procfs, uninstalled>>
history == <<raced, awaited, snatched>>
vars == <<proc, fileVars, cmd, script, installVars, homeVars, history>>

(* "booting" reads client.pid next, "claiming" and "writing" write it;      *)
(* "preparing" starts the tunnels and binds; "draining" is the graceful     *)
(* shutdown; "failing" and "exiting" are about to end.                      *)
RunningPlaces == {"booting", "claiming", "writing", "preparing", "serving",
                  "draining", "failing", "exiting"}

UserOps == {"start", "stop", "status", "uninstall"}

CmdPlaces == {"idle", "reading", "stale", "spawning", "opening", "writing", "waiting",
              "signalling", "polling", "killing", "removing", "asking", "wiping", "upgrading"}

Idle == [op |-> "none", at |-> "idle", pid |-> NoPid]
NoUpgrade == [by |-> NoPid, at |-> "none", exe |-> "path"]

(* Types; exe is current_exe(), which names no file once it was unlinked.   *)
TypeOK ==
    /\ proc \in [Clients -> RunningPlaces \cup {"none", "zombie", "gone", "other"}]
    /\ pidFile \in Clients \cup {NoPid, Torn}
    /\ opened \subseteq Clients \cup Cmds
    /\ cmd \in [Cmds -> [op : UserOps \cup {"upgrade", "none"}, at : CmdPlaces,
                         pid : Clients \cup {NoPid}]]
    /\ script \in {"idle", "armed", "running", "stopped"}
    /\ binary \in {"installed", "missing", "partial"}
    /\ up \in [by : Clients \cup Users \cup {NoPid}, exe : {"path", "path (deleted)"},
               at : {"none", "fetching", "removed", "copying", "done"}]
    /\ unlinked \subseteq Clients
    /\ {procfs, uninstalled, cut, raced, awaited} \subseteq BOOLEAN
    /\ snatched \subseteq Clients

(* A fresh installation.                                                    *)
Init ==
    /\ proc = [d \in Clients |-> "none"]
    /\ pidFile = NoPid /\ opened = {}
    /\ cmd = [u \in Cmds |-> Idle] /\ script = "idle"
    /\ binary = "installed" /\ up = NoUpgrade /\ unlinked = {} /\ cut = FALSE
    /\ procfs \in BOOLEAN /\ uninstalled = FALSE
    /\ raced = FALSE /\ awaited = FALSE /\ snatched = {}

-----------------------------------------------------------------------------
(* PID file and processes.                                                  *)

Running(d) == proc[d] \in RunningPlaces

(* kill(pid, 0): also a zombie answers, and whoever has the PID now.        *)
is_process_alive(d) == proc[d] \notin {"none", "gone"}

(* Mutant: "... (deleted)" is not recognised.                               *)
MutDeletedIsForeign(d) ==
    /\ d # NoPid
    /\ IF procfs THEN Running(d) /\ d \notin unlinked ELSE is_process_alive(d)

(* /proc tells the binary: not that of another program, and none of a       *)
(* zombie.  Without it, whoever has the PID counts as the client.           *)
is_our_process(d) ==
    /\ d # NoPid
    /\ IF procfs THEN Running(d) ELSE is_process_alive(d)

remove_pid == pidFile' = NoPid /\ opened' = {}

(* A file without a number in it is removed, and counts as none.            *)
PidRead == IF pidFile = Torn THEN NoPid ELSE pidFile
read_pid == IF pidFile = Torn THEN remove_pid ELSE UNCHANGED fileVars

(* fs::write is two steps, and the second is lost with a file that was      *)
(* removed in between.                                                      *)
OpenPid(w) ==
    /\ pidFile' = Torn
    /\ opened' = opened \cup {w}

WritePid(w, d) ==
    /\ pidFile' = IF w \in opened THEN d ELSE pidFile
    /\ opened' = opened \ {w}

(* A process that ends is a zombie as long as the start that spawned it     *)
(* lives, which does not wait for it.                                       *)
SpawnedBy(u) == IF cmd[u].op = "start" THEN {cmd[u].pid} ELSE {}
Ended(d) == IF \E u \in Cmds : d \in SpawnedBy(u) THEN "zombie" ELSE "gone"

(* With its process an upgrade ends, wherever it is.                        *)
Dies(d) ==
    /\ proc' = [proc EXCEPT ![d] = Ended(d)]
    /\ unlinked' = unlinked \ {d}
    /\ IF up.by = d
       THEN up' = NoUpgrade /\ cut' = (cut \/ up.at \in {"removed", "copying"})
       ELSE UNCHANGED <<up, cut>>
    /\ UNCHANGED binary

(* SIGTERM and SIGINT are only handled once the web server runs.            *)
Terminate(d) ==
    \/ /\ proc[d] = "serving"
       /\ proc' = [proc EXCEPT ![d] = "draining"]
       /\ UNCHANGED installVars
    \/ /\ proc[d] \in {"draining", "exiting", "zombie"}
       /\ UNCHANGED <<proc, installVars>>
    \/ /\ proc[d] \in RunningPlaces \ {"serving", "draining", "exiting"}
       /\ Dies(d)
    \/ /\ proc[d] = "other"
       /\ proc' = [proc EXCEPT ![d] = "gone"]
       /\ UNCHANGED installVars

-----------------------------------------------------------------------------
(* Commands.                                                                *)

Unclaimed(d) ==
    \/ proc[d] \in {"claiming", "writing"}
    \/ proc[d] = "booting" /\ pidFile # d

Busy == (\E u \in Cmds : cmd[u] # Idle) \/ (\E d \in Clients : Unclaimed(d))

(* Without a client, an earlier race has no consequences any more; before,  *)
(* commands do not overlap a second time (a bound).                         *)
NotesRace ==
    /\ raced => ~ Busy
    /\ raced' = (Busy \/ (raced /\ \E d \in Clients : Running(d)))

CommandOnly == UNCHANGED <<proc, installVars, homeVars, history>>

GoTo(u, p) ==
    /\ cmd' = [cmd EXCEPT ![u].at = p]
    /\ UNCHANGED script

(* sh goes on after an exit status of zero (stop && start).                 *)
Finish(u, ok) ==
    /\ cmd' = [cmd EXCEPT ![u] = Idle]
    /\ script' = IF u # Script THEN script
                 ELSE IF ok /\ cmd[u].op = "stop" THEN "stopped" ELSE "idle"

Begin(u, o, p) ==
    /\ cmd[u] = Idle
    /\ binary = "installed"
    /\ cmd' = [cmd EXCEPT ![u] = [Idle EXCEPT !.op = o, !.at = p]]
    /\ NotesRace
    /\ UNCHANGED <<proc, fileVars, binary, unlinked, cut, homeVars, snatched>>

UserCommand(u, o) ==
    /\ Begin(u, o, IF o = "uninstall" THEN "asking" ELSE "reading")
    /\ awaited' = FALSE
    /\ UNCHANGED <<script, up>>

(* Its sleeps are longer than an exit(0) takes.                             *)
ScriptCommand ==
    /\ script \in {"armed", "stopped"}
    /\ \A d \in Clients : proc[d] # "exiting"
    /\ Begin(Script, IF script = "armed" THEN "stop" ELSE "start", "reading")
    /\ script' = "running"
    /\ UNCHANGED <<awaited, up>>

(* The binary is not there to be run.                                       *)
ScriptFails ==
    /\ script \in {"armed", "stopped"}
    /\ binary # "installed"
    /\ script' = "idle"
    /\ UNCHANGED <<fileVars, cmd>> /\ CommandOnly

(* Where a command goes from its look at the PID file.                      *)
AfterRead(o, p) ==
    CASE p = NoPid          -> [start |-> "spawning", stop |-> "idle", status |-> "idle",
                                uninstall |-> "wiping"][o]
      [] is_our_process(p)  -> [start |-> "idle", stop |-> "signalling", status |-> "idle",
                                uninstall |-> "signalling"][o]
      [] OTHER              -> [start |-> "stale", stop |-> "stale", status |-> "stale",
                                uninstall |-> "wiping"][o]

ReadsPid(u) ==
    /\ cmd[u].at = "reading"
    /\ read_pid
    /\ LET next == AfterRead(cmd[u].op, PidRead) IN
          IF next = "idle"
          THEN Finish(u, TRUE)
          ELSE cmd' = [cmd EXCEPT ![u].at = next, ![u].pid = PidRead] /\ UNCHANGED script
    /\ CommandOnly

(* Mutant: stop reports a stale PID as an error.                            *)
MutStaleIsAnError(u) ==
    /\ cmd[u].at = "stale"
    /\ remove_pid
    /\ IF cmd[u].op = "start" THEN GoTo(u, "spawning") ELSE Finish(u, FALSE)
    /\ CommandOnly

RemovesStale(u) ==
    /\ cmd[u].at = "stale"
    /\ remove_pid
    /\ IF cmd[u].op = "start" THEN GoTo(u, "spawning") ELSE Finish(u, TRUE)
    /\ CommandOnly

-----------------------------------------------------------------------------
(* start.                                                                   *)

Spawns(u, d) ==
    /\ cmd[u].at = "spawning"
    /\ binary = "installed"
    /\ proc[d] = "none"
    /\ proc' = [proc EXCEPT ![d] = "booting"]
    /\ cmd' = [cmd EXCEPT ![u].at = "opening", ![u].pid = d]
    /\ UNCHANGED <<fileVars, script, installVars, homeVars, history>>

(* The log file cannot be opened, or the process not be spawned.            *)
SpawnFails(u) ==
    /\ cmd[u].at = "spawning"
    /\ Finish(u, FALSE)
    /\ awaited' = FALSE
    /\ UNCHANGED <<proc, fileVars, installVars, homeVars, raced, snatched>>

OpensPid(u) ==
    /\ cmd[u].at = "opening"
    /\ OpenPid(u)
    /\ GoTo(u, "writing")
    /\ CommandOnly

WritesPid(u) ==
    /\ cmd[u].at = "writing"
    /\ WritePid(u, cmd[u].pid)
    /\ GoTo(u, "waiting")
    /\ CommandOnly

(* 300 ms later.  A child that has crashed is a zombie, hence "alive", and  *)
(* goes to init with the end of the command.                                *)
StartReturns(u) ==
    /\ cmd[u].at = "waiting"
    /\ IF is_process_alive(cmd[u].pid)
       THEN Finish(u, TRUE) /\ UNCHANGED fileVars
       ELSE Finish(u, FALSE) /\ remove_pid
    /\ proc' = [d \in Clients |-> IF d \in SpawnedBy(u) /\ proc[d] = "zombie" THEN "gone"
                                                                             ELSE proc[d]]
    /\ UNCHANGED <<installVars, homeVars, history>>

-----------------------------------------------------------------------------
(* stop, and the part of uninstall that stops the client.                   *)

(* kill fails if the process is gone; uninstall does not look.              *)
Signals(u) ==
    /\ cmd[u].at = "signalling"
    /\ IF is_process_alive(cmd[u].pid)
       THEN Terminate(cmd[u].pid) /\ GoTo(u, "polling") /\ UNCHANGED fileVars
       ELSE /\ IF cmd[u].op = "stop"
               THEN Finish(u, FALSE) /\ remove_pid
               ELSE GoTo(u, "polling") /\ UNCHANGED fileVars
            /\ UNCHANGED <<proc, installVars>>
    /\ snatched' = snatched \ {cmd[u].pid}
    /\ UNCHANGED <<homeVars, raced, awaited>>

SeesItGone(u) ==
    /\ cmd[u].at = "polling"
    /\ ~ is_process_alive(cmd[u].pid)
    /\ GoTo(u, "removing")
    /\ UNCHANGED fileVars /\ CommandOnly

(* Mutant: SIGKILL goes to whoever has the PID after the wait.              *)
MutNoSecondLook(u) ==
    /\ cmd[u].at = "polling"
    /\ is_process_alive(cmd[u].pid)
    /\ GoTo(u, "killing")
    /\ UNCHANGED fileVars /\ CommandOnly

(* Mutant: the loop only ends when the process does.                        *)
MutWaitsForEver(u) ==
    /\ cmd[u].at = "polling"
    /\ is_process_alive(cmd[u].pid) /\ ~ is_our_process(cmd[u].pid)
    /\ GoTo(u, "removing")
    /\ UNCHANGED fileVars /\ CommandOnly

(* 2 s have passed, 1 s in uninstall.                                       *)
WaitedEnough(u) ==
    /\ cmd[u].at = "polling"
    /\ is_process_alive(cmd[u].pid)
    /\ GoTo(u, IF is_our_process(cmd[u].pid) THEN "killing" ELSE "removing")
    /\ UNCHANGED fileVars /\ CommandOnly

(* SIGKILL does nothing to a process that has ended meanwhile.              *)
Kills(u) ==
    /\ cmd[u].at = "killing"
    /\ IF is_process_alive(cmd[u].pid) /\ proc[cmd[u].pid] # "zombie"
       THEN Dies(cmd[u].pid) ELSE UNCHANGED <<proc, installVars>>
    /\ GoTo(u, "removing")
    /\ snatched' = snatched \ {cmd[u].pid}
    /\ UNCHANGED <<fileVars, homeVars, raced, awaited>>

Removes(u) ==
    /\ cmd[u].at = "removing"
    /\ remove_pid
    /\ IF cmd[u].op = "stop" THEN Finish(u, TRUE) ELSE GoTo(u, "wiping")
    /\ CommandOnly

-----------------------------------------------------------------------------
(* uninstall.  The prompt's "Cancelled" returns Ok, like its "y".           *)

Confirms(u) ==
    /\ cmd[u].at = "asking"
    /\ uninstalled' = TRUE
    /\ binary' = "missing"
    /\ unlinked' = {d \in Clients : procfs /\ Running(d)}
    /\ GoTo(u, "reading")
    /\ UNCHANGED <<proc, fileVars, up, cut, procfs, history>>

Declines(u) ==
    /\ cmd[u].at = "asking"
    /\ GoTo(u, "reading")
    /\ UNCHANGED fileVars /\ CommandOnly

(* The answer cannot be read, or the binary not be removed.                 *)
UninstallFails(u) ==
    /\ cmd[u].at = "asking"
    /\ Finish(u, FALSE)
    /\ UNCHANGED fileVars /\ CommandOnly

(* ~/.zo-tunnel holds the credentials, client.pid and bin/.                 *)
Wipes(u) ==
    /\ cmd[u].at = "wiping"
    /\ uninstalled' = TRUE
    /\ binary' = "missing"
    /\ unlinked' = {d \in Clients : procfs /\ Running(d)}
    /\ remove_pid
    /\ Finish(u, TRUE)
    /\ UNCHANGED <<proc, up, cut, procfs, history>>

-----------------------------------------------------------------------------
(* The foreground process.                                                  *)

Foreground(d) ==
    /\ proc[d] = "none"
    /\ binary = "installed"
    /\ proc' = [proc EXCEPT ![d] = "booting"]
    /\ NotesRace
    /\ awaited' = FALSE
    /\ UNCHANGED <<fileVars, cmd, script, installVars, homeVars, snatched>>

ClientOnly == UNCHANGED <<cmd, script, homeVars, raced, snatched>>

(* Its own PID was written by start; another client's makes it give up.     *)
Boots(d) ==
    /\ proc[d] = "booting"
    /\ read_pid
    /\ proc' = [proc EXCEPT ![d] = IF PidRead = d THEN "preparing"
                                   ELSE IF is_our_process(PidRead) THEN Ended(d)
                                   ELSE "claiming"]
    /\ unlinked' = IF proc'[d] = Ended(d) THEN unlinked \ {d} ELSE unlinked
    /\ UNCHANGED <<binary, up, cut, awaited>> /\ ClientOnly

ClaimOpens(d) ==
    /\ proc[d] = "claiming"
    /\ OpenPid(d)
    /\ proc' = [proc EXCEPT ![d] = "writing"]
    /\ UNCHANGED <<installVars, awaited>> /\ ClientOnly

ClaimWrites(d) ==
    /\ proc[d] = "writing"
    /\ WritePid(d, d)
    /\ proc' = [proc EXCEPT ![d] = "preparing"]
    /\ UNCHANGED <<installVars, awaited>> /\ ClientOnly

Binds(d) ==
    /\ proc[d] = "preparing"
    /\ \A e \in Clients : proc[e] \notin {"serving", "exiting"}
    /\ proc' = [proc EXCEPT ![d] = "serving"]
    /\ awaited' = FALSE
    /\ UNCHANGED <<fileVars, installVars>> /\ ClientOnly

(* Another client, or any other program, has the port.                      *)
BindFails(d) ==
    /\ proc[d] = "preparing"
    /\ proc' = [proc EXCEPT ![d] = "failing"]
    /\ awaited' = FALSE
    /\ UNCHANGED <<fileVars, installVars>> /\ ClientOnly

FailedExit(d) ==
    /\ proc[d] = "failing"
    /\ remove_pid
    /\ Dies(d)
    /\ UNCHANGED awaited /\ ClientOnly

(* The last open connection of the web UI is closed; the tunnels stop.      *)
DrainEnds(d) ==
    /\ proc[d] = "draining"
    /\ remove_pid
    /\ Dies(d)
    /\ UNCHANGED awaited /\ ClientOnly

(* SIGTERM or SIGINT from somewhere else, which before is like a crash.     *)
Interrupted(d) ==
    /\ proc[d] = "serving"
    /\ Terminate(d)
    /\ awaited' = FALSE
    /\ UNCHANGED fileVars /\ ClientOnly

Crashes(d) ==
    /\ Running(d)
    /\ Dies(d)
    /\ opened' = opened \ {d}
    /\ awaited' = FALSE
    /\ UNCHANGED pidFile /\ ClientOnly

(* A command has looked at the process and signals it next.                 *)
AimedAt(d) == \E u \in Cmds : cmd[u].pid = d /\ cmd[u].at \in {"signalling", "killing"}

(* Only of interest while something still names the PID.  The program stays *)
(* until it is signalled (a bound).                                         *)
Reused(d) ==
    /\ proc[d] = "gone"
    /\ pidFile = d \/ \E u \in Cmds : cmd[u].pid = d
    /\ proc' = [proc EXCEPT ![d] = "other"]
    /\ snatched' = IF procfs /\ AimedAt(d) THEN snatched \cup {d} ELSE snatched
    /\ UNCHANGED <<fileVars, cmd, script, installVars, homeVars, raced, awaited>>

-----------------------------------------------------------------------------
(* self_update::upgrade, from the terminal or from the web UI.              *)

UserUpgrade(u) ==
    /\ up = NoUpgrade
    /\ Begin(u, "upgrade", "upgrading")
    /\ up' = [by |-> u, at |-> "fetching", exe |-> "path"]
    /\ awaited' = FALSE
    /\ UNCHANGED script

WebUpgrade(d) ==
    /\ up = NoUpgrade
    /\ proc[d] = "serving"
    /\ up' = [by |-> d, at |-> "fetching",
              exe |-> IF d \in unlinked THEN "path (deleted)" ELSE "path"]
    /\ UNCHANGED <<proc, fileVars, binary, unlinked, cut, awaited>> /\ ClientOnly

(* The upgrade returns: a command ends, a web request is answered, and      *)
(* after an Ok (up to date included) the client restarts itself.            *)
UpgradeReturns(ok) ==
    /\ IF up.by \in Users THEN Finish(up.by, ok) ELSE UNCHANGED <<cmd, script>>
    /\ up' = IF ok /\ up.by \in Clients THEN [up EXCEPT !.at = "done"] ELSE NoUpgrade
    /\ UNCHANGED <<proc, fileVars, homeVars, history>>

UpgradeOnly == UNCHANGED <<proc, fileVars, cmd, script, cut, homeVars, history>>

(* Mutant: the old binary is removed before the new one is fetched.         *)
MutRemovesBeforeFetching ==
    /\ up.at = "fetching"
    /\ \E ok \in BOOLEAN : UpgradeReturns(ok)
    /\ binary' = "missing"
    /\ UNCHANGED <<unlinked, cut>>

(* Asking, downloading or unpacking fails, or there is nothing newer.       *)
NothingToInstall ==
    /\ up.at = "fetching"
    /\ \E ok \in BOOLEAN : UpgradeReturns(ok)
    /\ UNCHANGED <<binary, unlinked, cut>>

RemovesOld ==
    /\ up.at = "fetching"
    /\ up' = [up EXCEPT !.at = "removed"]
    /\ binary' = "missing"
    /\ unlinked' = {d \in Clients : procfs /\ Running(d)}
    /\ UpgradeOnly

Copies ==
    /\ up.at = "removed"
    /\ up' = [up EXCEPT !.at = "copying"]
    /\ binary' = "partial"
    /\ UNCHANGED unlinked /\ UpgradeOnly

CopyFails ==
    /\ up.at \in {"removed", "copying"}
    /\ UpgradeReturns(FALSE)
    /\ cut' = TRUE
    /\ UNCHANGED <<binary, unlinked>>

(* A wipe in between has unlinked the copy.                                 *)
Installs ==
    /\ up.at = "copying"
    /\ UpgradeReturns(TRUE)
    /\ binary' = IF binary = "partial" THEN "installed" ELSE binary
    /\ UNCHANGED <<unlinked, cut>>

(* 500 ms later: the restart script is spawned, then exit(0), without       *)
(* stop_all and without remove_pid.  sh takes the parenthesis of a deleted  *)
(* path for a syntax error.                                                 *)
SpawnsScript(d) ==
    /\ Running(d)
    /\ up.by = d
    /\ up.at = "done"
    /\ script = "idle"
    /\ script' = IF up.exe = "path" THEN "armed" ELSE "idle"
    /\ awaited' = (~ raced /\ binary = "installed" /\ \A u \in Users : cmd[u] = Idle)
    /\ proc' = [proc EXCEPT ![d] = "exiting"]
    /\ up' = NoUpgrade
    /\ UNCHANGED <<fileVars, cmd, binary, unlinked, cut, homeVars, raced, snatched>>

Exits(d) ==
    /\ proc[d] = "exiting"
    /\ Dies(d)
    /\ UNCHANGED <<fileVars, awaited>> /\ ClientOnly

-----------------------------------------------------------------------------
CommandStep(u) ==
    \/ ReadsPid(u)
    \/ RemovesStale(u)
    \/ \E d \in Clients : Spawns(u, d)
    \/ SpawnFails(u)
    \/ OpensPid(u)
    \/ WritesPid(u)
    \/ StartReturns(u)
    \/ Signals(u)
    \/ SeesItGone(u)
    \/ WaitedEnough(u)
    \/ Kills(u)
    \/ Removes(u)
    \/ Confirms(u)
    \/ Declines(u)
    \/ UninstallFails(u)
    \/ Wipes(u)

cmd_foreground(d) ==
    \/ Boots(d)
    \/ ClaimOpens(d)
    \/ ClaimWrites(d)
    \/ Binds(d)
    \/ BindFails(d)
    \/ FailedExit(d)
    \/ SpawnsScript(d)
    \/ Exits(d)

upgrade ==
    \/ NothingToInstall
    \/ RemovesOld
    \/ Copies
    \/ CopyFails
    \/ Installs

Next ==
    \/ \E u \in Users, o \in UserOps : UserCommand(u, o)
    \/ \E u \in Users : UserUpgrade(u)
    \/ \E u \in Cmds : CommandStep(u)
    \/ ScriptCommand
    \/ ScriptFails
    \/ \E d \in Clients :
          \/ Foreground(d)
          \/ cmd_foreground(d)
          \/ DrainEnds(d)
          \/ Interrupted(d)
          \/ Crashes(d)
          \/ Reused(d)
          \/ WebUpgrade(d)
    \/ upgrade

(* Commands and the client run, sleeps end, and the shell goes on.  A       *)
(* drain need not end: the browser may keep its connection.  Users promise  *)
(* nothing.                                                                 *)
ProcessFairness ==
    /\ \A u \in Cmds : WF_vars(CommandStep(u))
    /\ \A d \in Clients : WF_vars(cmd_foreground(d))
    /\ WF_vars(ScriptCommand)

Spec == Init /\ [][Next]_vars /\ ProcessFairness

-----------------------------------------------------------------------------
(* Properties.                                                              *)

(* Past the decision over client.pid, and not on its way out.               *)
Established(d) == proc[d] \in {"preparing", "serving", "draining", "exiting"}

BeingNamed(d) ==
    \E u \in opened \cap Cmds : cmd[u].pid = d /\ cmd[u].at = "writing"

(* As long as no two commands were active at once, the PID file names the   *)
(* client that runs, so that stop reaches it and no second one gets to run  *)
(* the tunnels: over crashes, failed binds, stale files, reused PIDs and    *)
(* self-restarts (main.rs read_pid, write_pid, remove_pid, their callers).  *)
FileNamesTheClient ==
    ~ raced => \A d \in Clients : Established(d) => pidFile = d \/ BeingNamed(d)

(* Whatever stale PIDs are lying about, and whoever has them now, no        *)
(* command ends a process that is not a client (cmd_stop, cmd_uninstall),   *)
(* where there is a /proc to tell it by, and unless the process got the PID *)
(* between a command's last look and its signal.  Without /proc, on macOS,  *)
(* stop and uninstall do end it (main.rs:142 "less safe").                  *)
ForeignProcessesUntouched ==
    [][\A d \in Clients : proc[d] = "other" /\ proc'[d] # "other" =>
          ~ procfs \/ d \in snatched]_vars

(* The client that stop or uninstall has signalled ends, also when a        *)
(* browser keeps the graceful shutdown waiting for ever.                    *)
SignalledClientEnds ==
    \A d \in Clients :
        (\E u \in Cmds : cmd[u].at = "polling" /\ cmd[u].pid = d) ~> ~ Running(d)

(* The installed binary is only lost by an uninstall, or by an end that     *)
(* falls between the removal of the old one and the end of the copy: no     *)
(* failed download costs it (self_update.rs upgrade).                       *)
BinaryLostOnlyInTheCopy ==
    binary # "installed" =>
        uninstalled \/ cut \/ up.at \in {"removed", "copying"}

(* Once a restart script runs, the client comes back if nothing comes       *)
(* between: by way of a PID file that names the process that has exited     *)
(* and a stop that finds nothing to stop (api_upgrade, cmd_stop).           *)
RestartComesBack == (awaited /\ script = "armed") ~> ~ awaited

(* web_server.rs:360 "Self-upgrade successful! We now schedule a background *)
(* self-restart."  The client always comes back from that.  It does not     *)
(* when its file had been replaced before.                                  *)
UpgradeComesBack == awaited ~> ~ awaited
=============================================================================
