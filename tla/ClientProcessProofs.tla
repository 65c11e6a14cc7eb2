-------------------------- MODULE ClientProcessProofs --------------------------
(* Theorems about the client's process control, for any clients and         *)
(* terminals.                                                               *)
EXTENDS ClientProcess, TLAPS

(* The type invariant, by what changes together.  A command that is under   *)
(* way has an operation: AfterRead looks it up.                             *)
Commands == [op : UserOps \cup {"upgrade", "none"}, at : CmdPlaces, pid : Clients \cup {NoPid}]

Upgrades == [by : Clients \cup Users \cup {NoPid}, exe : {"path", "path (deleted)"},
             at : {"none", "fetching", "removed", "copying", "done"}]

CmdTypes ==
    /\ cmd \in [Cmds -> Commands]
    /\ \A u \in Cmds : cmd[u].at \notin {"idle", "upgrading"} => cmd[u].op \in UserOps
    /\ script \in {"idle", "armed", "running", "stopped"}

ProcTypes == proc \in [Clients -> RunningPlaces \cup {"none", "zombie", "gone", "other"}]

FileTypes ==
    /\ pidFile \in Clients \cup {NoPid, Torn}
    /\ opened \subseteq Clients \cup Cmds

InstallTypes ==
    /\ binary \in {"installed", "missing", "partial"}
    /\ up \in Upgrades
    /\ unlinked \subseteq Clients
    /\ cut \in BOOLEAN

FlagTypes ==
    /\ {procfs, uninstalled, raced, awaited} \subseteq BOOLEAN
    /\ snatched \subseteq Clients

TypeInv == ProcTypes /\ FileTypes /\ CmdTypes /\ InstallTypes /\ FlagTypes

-----------------------------------------------------------------------------
(* What the shared parts of the actions do to the types.                    *)

(* A command goes on.                                                       *)
LEMMA CmdGoesTo ==
    ASSUME CmdTypes, NEW u \in Cmds, NEW p \in CmdPlaces, cmd[u].at \notin {"idle", "upgrading"},
           cmd' = [cmd EXCEPT ![u].at = p], UNCHANGED script
    PROVE  CmdTypes'
  BY DEF CmdTypes, Commands

(* A command keeps the PID it read or spawned.                              *)
LEMMA CmdReads ==
    ASSUME CmdTypes, NEW u \in Cmds, NEW p \in CmdPlaces, NEW d \in Clients \cup {NoPid},
           cmd[u].at \notin {"idle", "upgrading"},
           cmd' = [cmd EXCEPT ![u].at = p, ![u].pid = d], UNCHANGED script
    PROVE  CmdTypes'
  BY DEF CmdTypes, Commands

(* A command ends and leaves the script where it goes on.                   *)
LEMMA CmdFinishes ==
    ASSUME CmdTypes, NEW u \in Cmds, NEW ok \in BOOLEAN, Finish(u, ok)
    PROVE  CmdTypes'
<1>1. Idle \in Commands
  BY DEF Idle, Commands, CmdPlaces
<1>2. cmd' = [cmd EXCEPT ![u] = Idle] /\ Idle.at = "idle"
  BY DEF Finish, Idle
<1>3. script' \in {"idle", "armed", "running", "stopped"}
  BY DEF Finish, CmdTypes
<1> QED
  BY <1>1, <1>2, <1>3 DEF CmdTypes

(* A command begins.                                                        *)
LEMMA CmdBegins ==
    ASSUME CmdTypes, NEW u \in Cmds, NEW p \in CmdPlaces, NEW o \in UserOps \cup {"upgrade"},
           o \in UserOps \/ p = "upgrading",
           script' \in {"idle", "armed", "running", "stopped"}, Begin(u, o, p)
    PROVE  CmdTypes'
<1> DEFINE new == [Idle EXCEPT !.op = o, !.at = p]
<1>1. cmd' = [cmd EXCEPT ![u] = new]
  BY DEF Begin
<1>2. new \in Commands
  BY DEF Commands, Idle
<1>3. new.at = p /\ new.op = o
  BY DEF Idle
<1>4. new.at \notin {"idle", "upgrading"} => new.op \in UserOps
  BY <1>3
<1> HIDE DEF new
<1>5. cmd' \in [Cmds -> Commands]
  BY <1>1, <1>2 DEF CmdTypes
<1>6. \A w \in Cmds : cmd'[w] = IF w = u THEN new ELSE cmd[w]
  BY <1>1 DEF CmdTypes
<1> QED
  BY <1>4, <1>5, <1>6 DEF CmdTypes

(* A process ends, with the upgrade it runs.                                *)
LEMMA DyingKeepsTypes ==
    ASSUME ProcTypes, InstallTypes, NEW d \in Clients \cup {NoPid}, Dies(d)
    PROVE  ProcTypes' /\ InstallTypes'
<1>1. ProcTypes'
  BY DEF ProcTypes, Dies, Ended
<1>2. up' \in {up, NoUpgrade} /\ cut' \in BOOLEAN
  BY DEF Dies, InstallTypes
<1>3. NoUpgrade \in Upgrades
  BY DEF NoUpgrade, Upgrades
<1> QED
  BY <1>1, <1>2, <1>3 DEF InstallTypes, Dies

(* A process gets SIGTERM.                                                  *)
LEMMA TerminatingKeepsTypes ==
    ASSUME ProcTypes, InstallTypes, NEW d \in Clients \cup {NoPid}, Terminate(d)
    PROVE  ProcTypes' /\ InstallTypes'
<1>1. CASE Dies(d)
  BY <1>1, DyingKeepsTypes
<1>2. CASE UNCHANGED installVars
  BY <1>2, DyingKeepsTypes DEF Terminate, ProcTypes, InstallTypes, installVars, RunningPlaces
<1> QED
  BY <1>1, <1>2 DEF Terminate

(* Reads, writes and removals of client.pid.                                *)
LEMMA PidFileKeepsTypes ==
    ASSUME FileTypes, NEW w \in Clients \cup Cmds, NEW d \in Clients \cup {NoPid},
           remove_pid \/ read_pid \/ OpenPid(w) \/ WritePid(w, d) \/ UNCHANGED fileVars
    PROVE  FileTypes'
  BY DEF FileTypes, remove_pid, read_pid, OpenPid, WritePid, fileVars

(* What is unchanged keeps its type.                                        *)
LEMMA TypesStay ==
    /\ ProcTypes /\ UNCHANGED proc => ProcTypes'
    /\ FileTypes /\ UNCHANGED fileVars => FileTypes'
    /\ CmdTypes /\ UNCHANGED <<cmd, script>> => CmdTypes'
    /\ InstallTypes /\ UNCHANGED installVars => InstallTypes'
    /\ FlagTypes /\ UNCHANGED <<homeVars, history>> => FlagTypes'
  BY DEF ProcTypes, FileTypes, CmdTypes, InstallTypes, FlagTypes,
         fileVars, installVars, homeVars, history

(* An upgrade returns.                                                      *)
LEMMA ReturningKeepsTypes ==
    ASSUME TypeInv, NEW ok \in BOOLEAN, UpgradeReturns(ok),
           binary' \in {"installed", "missing", "partial"}, UNCHANGED unlinked, cut' \in BOOLEAN
    PROVE  TypeInv'
<1>1. up' \in Upgrades
  BY DEF UpgradeReturns, NoUpgrade, Upgrades, TypeInv, InstallTypes
<1>2. CmdTypes'
  BY CmdFinishes, TypesStay DEF UpgradeReturns, TypeInv, Cmds
<1> QED
  BY <1>1, <1>2, TypesStay DEF UpgradeReturns, TypeInv, InstallTypes

-----------------------------------------------------------------------------
(* Every step keeps the types.                                              *)
LEMMA TypeStep == TypeInv /\ [Next]_vars => TypeInv'
<1> SUFFICES ASSUME TypeInv, [Next]_vars PROVE TypeInv'
  OBVIOUS
<1>1. ASSUME NEW u \in Users, NEW o \in UserOps, UserCommand(u, o) PROVE TypeInv'
  BY <1>1, TypesStay, CmdBegins DEF TypeInv, UserCommand, Begin, NotesRace,
     Cmds, UserOps, CmdPlaces, FlagTypes, InstallTypes, CmdTypes, homeVars
<1>2. ASSUME NEW u \in Users, UserUpgrade(u) PROVE TypeInv'
  BY <1>2, TypesStay, CmdBegins DEF TypeInv, UserUpgrade, Begin, NotesRace,
     Cmds, CmdPlaces, CmdTypes, FlagTypes, InstallTypes, Upgrades, homeVars
<1>3. ASSUME ScriptCommand PROVE TypeInv'
  BY <1>3, TypesStay, CmdBegins DEF TypeInv, ScriptCommand, Begin, NotesRace,
     Cmds, UserOps, CmdPlaces, FlagTypes, InstallTypes, homeVars
<1>4. ASSUME ScriptFails PROVE TypeInv'
  BY <1>4, TypesStay DEF TypeInv, ScriptFails, CmdTypes, CommandOnly
<1>5. ASSUME NEW u \in Cmds, ReadsPid(u) PROVE TypeInv'
  <2>1. PidRead \in Clients \cup {NoPid}
    BY <1>5 DEF PidRead, TypeInv, FileTypes
  <2>2. cmd[u].at = "reading" /\ cmd[u].op \in UserOps
    BY <1>5 DEF ReadsPid, TypeInv, CmdTypes
  <2>3. AfterRead(cmd[u].op, PidRead) \in CmdPlaces
    BY <2>2 DEF AfterRead, UserOps, CmdPlaces
  <2>4. CmdTypes'
    BY <1>5, <2>1, <2>2, <2>3, CmdReads, CmdFinishes DEF ReadsPid, TypeInv
  <2> QED
    BY <1>5, <2>4, TypesStay, PidFileKeepsTypes DEF ReadsPid, TypeInv, CommandOnly
<1>6. ASSUME NEW u \in Cmds, RemovesStale(u) PROVE TypeInv'
  BY <1>6, TypesStay, PidFileKeepsTypes, CmdGoesTo, CmdFinishes DEF TypeInv,
     RemovesStale, GoTo, CmdPlaces, CommandOnly
<1>7. ASSUME NEW u \in Cmds, NEW d \in Clients, Spawns(u, d) PROVE TypeInv'
  BY <1>7, TypesStay, CmdReads DEF TypeInv, Spawns, ProcTypes, RunningPlaces,
     CmdPlaces
<1>8. ASSUME NEW u \in Cmds, SpawnFails(u) PROVE TypeInv'
  BY <1>8, TypesStay, CmdFinishes DEF TypeInv, SpawnFails, FlagTypes, homeVars
<1>9. ASSUME NEW u \in Cmds, OpensPid(u) PROVE TypeInv'
  BY <1>9, TypesStay, PidFileKeepsTypes, CmdGoesTo DEF TypeInv, OpensPid, GoTo,
     CmdPlaces, CommandOnly
<1>10. ASSUME NEW u \in Cmds, WritesPid(u) PROVE TypeInv'
  <2>1. cmd[u].pid \in Clients \cup {NoPid}
    BY DEF TypeInv, CmdTypes, Commands
  <2> QED
    BY <1>10, <2>1, TypesStay, PidFileKeepsTypes, CmdGoesTo
       DEF WritesPid, GoTo, CmdPlaces, TypeInv, CommandOnly
<1>11. ASSUME NEW u \in Cmds, StartReturns(u) PROVE TypeInv'
  BY <1>11, TypesStay, PidFileKeepsTypes, CmdFinishes DEF TypeInv, StartReturns,
     ProcTypes
<1>12. ASSUME NEW u \in Cmds, Signals(u) PROVE TypeInv'
  <2>0. cmd[u].pid \in Clients \cup {NoPid}
    BY DEF TypeInv, CmdTypes, Commands
  <2>1. CmdTypes' /\ FileTypes'
    BY <1>12, TypesStay, PidFileKeepsTypes, CmdGoesTo, CmdFinishes
       DEF Signals, GoTo, CmdPlaces, TypeInv
  <2>2. ProcTypes' /\ InstallTypes'
    BY <1>12, <2>0, TypesStay, TerminatingKeepsTypes DEF Signals, TypeInv
  <2> QED
    BY <1>12, <2>1, <2>2, TypesStay DEF Signals, TypeInv, FlagTypes, homeVars
<1>13. ASSUME NEW u \in Cmds, SeesItGone(u) PROVE TypeInv'
  BY <1>13, TypesStay, CmdGoesTo DEF TypeInv, SeesItGone, GoTo, CmdPlaces,
     CommandOnly
<1>14. ASSUME NEW u \in Cmds, WaitedEnough(u) PROVE TypeInv'
  BY <1>14, TypesStay, CmdGoesTo DEF TypeInv, WaitedEnough, GoTo, CmdPlaces,
     CommandOnly
<1>15. ASSUME NEW u \in Cmds, Kills(u) PROVE TypeInv'
  <2>0. cmd[u].pid \in Clients \cup {NoPid}
    BY DEF TypeInv, CmdTypes, Commands
  <2>1. ProcTypes' /\ InstallTypes'
    BY <1>15, <2>0, TypesStay, DyingKeepsTypes DEF Kills, TypeInv
  <2> QED
    BY <1>15, <2>1, TypesStay, CmdGoesTo DEF Kills, GoTo, CmdPlaces, TypeInv, FlagTypes, homeVars
<1>16. ASSUME NEW u \in Cmds, Removes(u) PROVE TypeInv'
  BY <1>16, TypesStay, PidFileKeepsTypes, CmdGoesTo, CmdFinishes DEF TypeInv,
     Removes, GoTo, CmdPlaces, CommandOnly
<1>17. ASSUME NEW u \in Cmds, Confirms(u) PROVE TypeInv'
  BY <1>17, TypesStay, CmdGoesTo DEF TypeInv, Confirms, GoTo, CmdPlaces,
     InstallTypes, FlagTypes, history
<1>18. ASSUME NEW u \in Cmds, Declines(u) PROVE TypeInv'
  BY <1>18, TypesStay, CmdGoesTo DEF TypeInv, Declines, GoTo, CmdPlaces,
     CommandOnly
<1>18a. ASSUME NEW u \in Cmds, UninstallFails(u) PROVE TypeInv'
  BY <1>18a, TypesStay, CmdFinishes DEF TypeInv, UninstallFails, CommandOnly
<1>19. ASSUME NEW u \in Cmds, Wipes(u) PROVE TypeInv'
  BY <1>19, TypesStay, PidFileKeepsTypes, CmdFinishes DEF TypeInv, Wipes,
     InstallTypes, FlagTypes, history
<1>20. ASSUME NEW d \in Clients, Foreground(d) PROVE TypeInv'
  BY <1>20, TypesStay DEF TypeInv, Foreground, NotesRace, ProcTypes, FlagTypes,
     RunningPlaces, homeVars
<1>21. ASSUME NEW d \in Clients, Boots(d) PROVE TypeInv'
  BY <1>21, TypesStay, PidFileKeepsTypes DEF TypeInv, Boots, Ended, ProcTypes,
     InstallTypes, FlagTypes, RunningPlaces, ClientOnly, homeVars
<1>22. ASSUME NEW d \in Clients, ClaimOpens(d) PROVE TypeInv'
  BY <1>22, TypesStay, PidFileKeepsTypes DEF TypeInv, ClaimOpens, ProcTypes,
     FlagTypes, RunningPlaces, ClientOnly, homeVars
<1>23. ASSUME NEW d \in Clients, ClaimWrites(d) PROVE TypeInv'
  BY <1>23, TypesStay, PidFileKeepsTypes DEF TypeInv, ClaimWrites, ProcTypes,
     FlagTypes, RunningPlaces, ClientOnly, homeVars
<1>24. ASSUME NEW d \in Clients, Binds(d) PROVE TypeInv'
  BY <1>24, TypesStay DEF TypeInv, Binds, ProcTypes, FlagTypes, RunningPlaces,
     ClientOnly, homeVars
<1>25. ASSUME NEW d \in Clients, BindFails(d) PROVE TypeInv'
  BY <1>25, TypesStay DEF TypeInv, BindFails, ProcTypes, FlagTypes,
     RunningPlaces, ClientOnly, homeVars
<1>26. ASSUME NEW d \in Clients, FailedExit(d) PROVE TypeInv'
  BY <1>26, TypesStay, PidFileKeepsTypes, DyingKeepsTypes DEF TypeInv,
     FailedExit, FlagTypes, ClientOnly, homeVars
<1>27. ASSUME NEW d \in Clients, SpawnsScript(d) PROVE TypeInv'
  <2>1. InstallTypes'
    BY <1>27 DEF SpawnsScript, NoUpgrade, TypeInv, InstallTypes, Upgrades
  <2>2. ProcTypes' /\ CmdTypes'
    BY <1>27 DEF SpawnsScript, TypeInv, ProcTypes, CmdTypes, RunningPlaces
  <2> QED
    BY <1>27, <2>1, <2>2, TypesStay DEF SpawnsScript, TypeInv, FlagTypes, homeVars
<1>28. ASSUME NEW d \in Clients, Exits(d) PROVE TypeInv'
  BY <1>28, TypesStay, DyingKeepsTypes DEF TypeInv, Exits, FlagTypes,
     ClientOnly, homeVars
<1>29. ASSUME NEW d \in Clients, DrainEnds(d) PROVE TypeInv'
  BY <1>29, TypesStay, PidFileKeepsTypes, DyingKeepsTypes DEF TypeInv,
     DrainEnds, FlagTypes, ClientOnly, homeVars
<1>30. ASSUME NEW d \in Clients, Interrupted(d) PROVE TypeInv'
  BY <1>30, TypesStay, TerminatingKeepsTypes DEF TypeInv, Interrupted,
     FlagTypes, ClientOnly, homeVars
<1>31. ASSUME NEW d \in Clients, Crashes(d) PROVE TypeInv'
  BY <1>31, TypesStay, DyingKeepsTypes DEF TypeInv, Crashes, FileTypes,
     FlagTypes, ClientOnly, homeVars
<1>32. ASSUME NEW d \in Clients, Reused(d) PROVE TypeInv'
  BY <1>32, TypesStay DEF TypeInv, Reused, ProcTypes, FlagTypes, ClientOnly,
     homeVars
<1>33. ASSUME NEW d \in Clients, WebUpgrade(d) PROVE TypeInv'
  BY <1>33, TypesStay DEF TypeInv, WebUpgrade, InstallTypes, Upgrades, FlagTypes,
     ClientOnly, homeVars
<1>34. ASSUME NothingToInstall PROVE TypeInv'
  BY <1>34, TypesStay, ReturningKeepsTypes DEF NothingToInstall, TypeInv, InstallTypes
<1>35. ASSUME RemovesOld PROVE TypeInv'
  BY <1>35, TypesStay DEF TypeInv, RemovesOld, InstallTypes, Upgrades, UpgradeOnly
<1>36. ASSUME Copies PROVE TypeInv'
  BY <1>36, TypesStay DEF TypeInv, Copies, InstallTypes, Upgrades, UpgradeOnly
<1>37. ASSUME CopyFails PROVE TypeInv'
  BY <1>37, TypesStay, ReturningKeepsTypes DEF CopyFails, TypeInv, InstallTypes
<1>38. ASSUME Installs PROVE TypeInv'
  BY <1>38, TypesStay, ReturningKeepsTypes DEF Installs, TypeInv, InstallTypes
<1>39. CASE UNCHANGED vars
  BY <1>39, TypesStay DEF TypeInv, vars
<1> QED
  BY <1>1, <1>2, <1>3, <1>4, <1>5, <1>6, <1>7, <1>8, <1>9, <1>10, <1>11, <1>12,
     <1>13, <1>14, <1>15, <1>16, <1>17, <1>18, <1>18a, <1>19, <1>20, <1>21, <1>22,
     <1>23, <1>24, <1>25, <1>26, <1>27, <1>28, <1>29, <1>30, <1>31, <1>32,
     <1>33, <1>34, <1>35, <1>36, <1>37, <1>38, <1>39 DEF Next, CommandStep,
     cmd_foreground, upgrade

-----------------------------------------------------------------------------
(* Where /proc tells the programs apart, another program is in a command's  *)
(* aim only when it got its PID after is_our_process had looked.            *)
OthersStay ==
    \A d \in Clients : proc[d] = "other" /\ proc'[d] # "other" => ~ procfs \/ d \in snatched

Aimed(u) == cmd[u].at \in {"signalling", "killing"}

AimShape ==
    procfs => \A u \in Cmds, d \in Clients :
                  Aimed(u) /\ cmd[u].pid = d => proc[d] # "other" \/ d \in snatched

(* Nobody gets a PID, and the system stays the same.                        *)
NoneSnatched == UNCHANGED <<procfs, snatched>>

(* The groups of variables that steps leave alone.                          *)
LEMMA GroupsSnatchNone ==
    (CommandOnly \/ ClientOnly \/ UpgradeOnly \/ UNCHANGED <<homeVars, history>>
        \/ UNCHANGED <<homeVars, snatched>> \/ UNCHANGED vars) => NoneSnatched
  BY DEF NoneSnatched, CommandOnly, ClientOnly, UpgradeOnly, vars, homeVars, history

(* One process changes its place and no command moves.                      *)
LEMMA AimWithoutCommands ==
    ASSUME TypeInv, AimShape, NEW c \in Clients, NEW new \in RunningPlaces \cup {"none", "zombie", "gone"},
           proc[c] # "other", proc' = [proc EXCEPT ![c] = new], UNCHANGED cmd, NoneSnatched
    PROVE  OthersStay /\ AimShape'
  BY DEF OthersStay, AimShape, Aimed, NoneSnatched, TypeInv, ProcTypes, RunningPlaces

(* One command moves and no process does.                                   *)
LEMMA AimWithoutProcesses ==
    ASSUME TypeInv, AimShape, NEW u \in Cmds, UNCHANGED proc, NoneSnatched,
           \A w \in Cmds \ {u} : cmd'[w] = cmd[w],
           procfs /\ cmd'[u].at \in {"signalling", "killing"} =>
               \A d \in Clients : cmd'[u].pid = d => proc[d] # "other"
    PROVE  OthersStay /\ AimShape'
  BY DEF OthersStay, AimShape, Aimed, NoneSnatched

(* A command signals the process in its aim, and aims no longer.            *)
LEMMA AimHits ==
    ASSUME TypeInv, AimShape, NEW u \in Cmds, Aimed(u), UNCHANGED procfs,
           \A w \in Cmds : cmd'[w] = cmd[w] \/ cmd'[w].at \notin {"signalling", "killing"},
           \A d \in Clients : d # cmd[u].pid => proc'[d] = proc[d],
           \A d \in Clients : d = cmd[u].pid => proc'[d] # "other",
           snatched' = snatched \ {cmd[u].pid}
    PROVE  OthersStay /\ AimShape'
  BY DEF OthersStay, AimShape, Aimed

(* No step ends another program that was not in that aim.                   *)
LEMMA AimStep == TypeInv /\ AimShape /\ [Next]_vars => (OthersStay /\ AimShape')
<1> SUFFICES ASSUME TypeInv, AimShape, [Next]_vars PROVE (OthersStay /\ AimShape')
  OBVIOUS
<1>1. ASSUME NEW u \in Users, NEW o \in UserOps, UserCommand(u, o) PROVE (OthersStay /\ AimShape')
  BY <1>1, AimWithoutProcesses, GroupsSnatchNone DEF TypeInv, CmdTypes, Commands, Idle,
     UserCommand, Begin, Cmds
<1>2. ASSUME NEW u \in Users, UserUpgrade(u) PROVE (OthersStay /\ AimShape')
  BY <1>2, AimWithoutProcesses, GroupsSnatchNone DEF TypeInv, CmdTypes, Commands, Idle,
     UserUpgrade, Begin, Cmds
<1>3. ASSUME ScriptCommand PROVE (OthersStay /\ AimShape')
  BY <1>3, AimWithoutProcesses, GroupsSnatchNone DEF TypeInv, CmdTypes, Commands, Idle,
     ScriptCommand, Begin, Cmds
<1>4. ASSUME ScriptFails PROVE (OthersStay /\ AimShape')
  BY <1>4, GroupsSnatchNone DEF OthersStay, AimShape, Aimed, NoneSnatched, ScriptFails, CommandOnly
<1>5. ASSUME NEW u \in Cmds, ReadsPid(u) PROVE (OthersStay /\ AimShape')
  <2>1. UNCHANGED proc /\ \A w \in Cmds \ {u} : cmd'[w] = cmd[w]
    BY <1>5 DEF ReadsPid, Finish, CommandOnly, TypeInv, CmdTypes, Commands
  <2>2. cmd[u].at = "reading" /\ cmd[u].op \in UserOps
    BY <1>5 DEF ReadsPid, TypeInv, CmdTypes
  <2>3. cmd'[u].at = "signalling" => cmd'[u].pid = PidRead /\ is_our_process(PidRead)
    BY <1>5, <2>2 DEF ReadsPid, AfterRead, Finish, Idle, UserOps, TypeInv, CmdTypes, Commands
  <2>4. cmd'[u].at # "killing"
    BY <1>5, <2>2 DEF ReadsPid, AfterRead, Finish, Idle, UserOps, TypeInv, CmdTypes, Commands
  <2> QED
    BY <2>1, <2>3, <2>4, <1>5, AimWithoutProcesses, GroupsSnatchNone DEF ReadsPid, is_our_process, Running, RunningPlaces
<1>6. ASSUME NEW u \in Cmds, RemovesStale(u) PROVE (OthersStay /\ AimShape')
  BY <1>6, AimWithoutProcesses DEF TypeInv, CmdTypes, Commands, Idle,
     RemovesStale, GoTo, Finish, CommandOnly, NoneSnatched, homeVars, history
<1>7. ASSUME NEW u \in Cmds, NEW d \in Clients, Spawns(u, d) PROVE (OthersStay /\ AimShape')
  BY <1>7, GroupsSnatchNone DEF Spawns, OthersStay, AimShape, Aimed, NoneSnatched, TypeInv, ProcTypes, CmdTypes,
     Commands, RunningPlaces
<1>8. ASSUME NEW u \in Cmds, SpawnFails(u) PROVE (OthersStay /\ AimShape')
  BY <1>8, AimWithoutProcesses, GroupsSnatchNone DEF TypeInv, CmdTypes, Commands, Idle,
     SpawnFails, Finish
<1>9. ASSUME NEW u \in Cmds, OpensPid(u) PROVE (OthersStay /\ AimShape')
  BY <1>9, AimWithoutProcesses, GroupsSnatchNone DEF TypeInv, CmdTypes, Commands, Idle, OpensPid,
     GoTo, CommandOnly
<1>10. ASSUME NEW u \in Cmds, WritesPid(u) PROVE (OthersStay /\ AimShape')
  BY <1>10, AimWithoutProcesses, GroupsSnatchNone DEF TypeInv, CmdTypes, Commands, Idle,
     WritesPid, GoTo, CommandOnly
<1>11. ASSUME NEW u \in Cmds, StartReturns(u) PROVE (OthersStay /\ AimShape')
  <2>1. \A d \in Clients : proc'[d] = "other" <=> proc[d] = "other"
    BY <1>11 DEF StartReturns, TypeInv, ProcTypes
  <2>2. \A w \in Cmds : cmd'[w] = cmd[w] \/ cmd'[w] = Idle
    BY <1>11 DEF StartReturns, Finish, TypeInv, CmdTypes, Commands
  <2>3. NoneSnatched
    BY <1>11, GroupsSnatchNone DEF StartReturns
  <2> QED
    BY <2>1, <2>2, <2>3 DEF OthersStay, AimShape, Aimed, NoneSnatched, Idle
<1>12. ASSUME NEW u \in Cmds, Signals(u) PROVE (OthersStay /\ AimShape')
  <2>1. \A w \in Cmds : cmd'[w] = cmd[w] \/ cmd'[w].at \notin {"signalling", "killing"}
    BY <1>12 DEF Signals, GoTo, Finish, Idle, TypeInv, CmdTypes, Commands
  <2>2. \A d \in Clients : d # cmd[u].pid => proc'[d] = proc[d]
    BY <1>12 DEF Signals, Terminate, Dies, installVars, TypeInv, ProcTypes
  <2>3. \A d \in Clients : d = cmd[u].pid => proc'[d] # "other"
    BY <1>12 DEF Signals, Terminate, Dies, Ended, installVars, is_process_alive, TypeInv, ProcTypes, RunningPlaces
  <2> QED
    BY <1>12, <2>1, <2>2, <2>3, AimHits DEF Signals, Aimed, homeVars
<1>13. ASSUME NEW u \in Cmds, SeesItGone(u) PROVE (OthersStay /\ AimShape')
  BY <1>13, AimWithoutProcesses, GroupsSnatchNone DEF TypeInv, CmdTypes, Commands, Idle,
     SeesItGone, GoTo, CommandOnly
<1>14. ASSUME NEW u \in Cmds, WaitedEnough(u) PROVE (OthersStay /\ AimShape')
  BY <1>14, AimWithoutProcesses, GroupsSnatchNone DEF TypeInv, CmdTypes, Commands, Idle,
     WaitedEnough, GoTo, CommandOnly, is_our_process, Running, RunningPlaces
<1>15. ASSUME NEW u \in Cmds, Kills(u) PROVE (OthersStay /\ AimShape')
  <2>1. \A w \in Cmds : cmd'[w] = cmd[w] \/ cmd'[w].at \notin {"signalling", "killing"}
    BY <1>15 DEF Kills, GoTo, TypeInv, CmdTypes, Commands
  <2>2. \A d \in Clients : d # cmd[u].pid => proc'[d] = proc[d]
    BY <1>15 DEF Kills, Dies, TypeInv, ProcTypes
  <2>3. \A d \in Clients : d = cmd[u].pid => proc'[d] # "other"
    BY <1>15 DEF Kills, Dies, Ended, is_process_alive, TypeInv, ProcTypes
  <2> QED
    BY <1>15, <2>1, <2>2, <2>3, AimHits DEF Kills, Aimed, homeVars
<1>16. ASSUME NEW u \in Cmds, Removes(u) PROVE (OthersStay /\ AimShape')
  BY <1>16, AimWithoutProcesses DEF TypeInv, CmdTypes, Commands, Idle, Removes,
     GoTo, Finish, CommandOnly, NoneSnatched, homeVars, history
<1>17. ASSUME NEW u \in Cmds, Confirms(u) PROVE (OthersStay /\ AimShape')
  BY <1>17, AimWithoutProcesses, GroupsSnatchNone DEF TypeInv, CmdTypes, Commands, Idle, Confirms,
     GoTo, NoneSnatched, history
<1>18. ASSUME NEW u \in Cmds, Declines(u) PROVE (OthersStay /\ AimShape')
  BY <1>18, AimWithoutProcesses, GroupsSnatchNone DEF TypeInv, CmdTypes, Commands, Idle, Declines,
     GoTo, CommandOnly
<1>18a. ASSUME NEW u \in Cmds, UninstallFails(u) PROVE (OthersStay /\ AimShape')
  BY <1>18a, AimWithoutProcesses DEF TypeInv, CmdTypes, Commands, Idle,
     UninstallFails, Finish, CommandOnly, NoneSnatched, homeVars, history
<1>19. ASSUME NEW u \in Cmds, Wipes(u) PROVE (OthersStay /\ AimShape')
  BY <1>19, AimWithoutProcesses, GroupsSnatchNone DEF TypeInv, CmdTypes, Commands, Idle, Wipes,
     Finish, NoneSnatched, history
<1>20. ASSUME NEW d \in Clients, Foreground(d) PROVE (OthersStay /\ AimShape')
  BY <1>20, AimWithoutCommands, GroupsSnatchNone DEF RunningPlaces, Foreground
<1>21. ASSUME NEW d \in Clients, Boots(d) PROVE (OthersStay /\ AimShape')
  BY <1>21, AimWithoutCommands, GroupsSnatchNone DEF RunningPlaces, Boots, Ended, ClientOnly
<1>22. ASSUME NEW d \in Clients, ClaimOpens(d) PROVE (OthersStay /\ AimShape')
  BY <1>22, AimWithoutCommands, GroupsSnatchNone DEF RunningPlaces, ClaimOpens, ClientOnly
<1>23. ASSUME NEW d \in Clients, ClaimWrites(d) PROVE (OthersStay /\ AimShape')
  BY <1>23, AimWithoutCommands, GroupsSnatchNone DEF RunningPlaces, ClaimWrites, ClientOnly
<1>24. ASSUME NEW d \in Clients, Binds(d) PROVE (OthersStay /\ AimShape')
  BY <1>24, AimWithoutCommands, GroupsSnatchNone DEF RunningPlaces, Binds, ClientOnly
<1>25. ASSUME NEW d \in Clients, BindFails(d) PROVE (OthersStay /\ AimShape')
  BY <1>25, AimWithoutCommands, GroupsSnatchNone DEF RunningPlaces, BindFails, ClientOnly
<1>26. ASSUME NEW d \in Clients, FailedExit(d) PROVE (OthersStay /\ AimShape')
  BY <1>26, AimWithoutCommands, GroupsSnatchNone DEF RunningPlaces, FailedExit, Dies, Ended,
     ClientOnly
<1>27. ASSUME NEW d \in Clients, SpawnsScript(d) PROVE (OthersStay /\ AimShape')
  BY <1>27, AimWithoutCommands, GroupsSnatchNone DEF RunningPlaces, SpawnsScript, Running
<1>28. ASSUME NEW d \in Clients, Exits(d) PROVE (OthersStay /\ AimShape')
  BY <1>28, AimWithoutCommands, GroupsSnatchNone DEF RunningPlaces, Exits, Dies, Ended, ClientOnly
<1>29. ASSUME NEW d \in Clients, DrainEnds(d) PROVE (OthersStay /\ AimShape')
  BY <1>29, AimWithoutCommands, GroupsSnatchNone DEF RunningPlaces, DrainEnds, Dies, Ended,
     ClientOnly
<1>30. ASSUME NEW d \in Clients, Interrupted(d) PROVE (OthersStay /\ AimShape')
  BY <1>30, AimWithoutCommands, GroupsSnatchNone DEF RunningPlaces, Interrupted, Terminate, Dies,
     Ended, ClientOnly
<1>31. ASSUME NEW d \in Clients, Crashes(d) PROVE (OthersStay /\ AimShape')
  BY <1>31, AimWithoutCommands DEF RunningPlaces, Crashes, Running, Dies, Ended,
     ClientOnly, NoneSnatched, homeVars
<1>32. ASSUME NEW d \in Clients, Reused(d) PROVE (OthersStay /\ AimShape')
  <2>1. proc[d] = "gone" /\ proc' = [proc EXCEPT ![d] = "other"] /\ UNCHANGED <<cmd, procfs>>
    BY <1>32 DEF Reused, homeVars
  <2>2. snatched \subseteq snatched' /\ (procfs /\ AimedAt(d) => d \in snatched')
    BY <1>32 DEF Reused
  <2>3. \A e \in Clients : proc'[e] = IF e = d THEN "other" ELSE proc[e]
    BY <2>1 DEF TypeInv, ProcTypes
  <2> QED
    BY <2>1, <2>2, <2>3 DEF OthersStay, AimShape, Aimed, AimedAt
<1>33. ASSUME NEW d \in Clients, WebUpgrade(d) PROVE (OthersStay /\ AimShape')
  BY <1>33 DEF OthersStay, AimShape, Aimed, WebUpgrade, ClientOnly, homeVars
<1>34. ASSUME NothingToInstall PROVE (OthersStay /\ AimShape')
  <2>1. UNCHANGED proc /\ \A w \in Cmds : cmd'[w] = cmd[w] \/ cmd'[w] = Idle
    BY <1>34 DEF NothingToInstall, UpgradeReturns, Finish, Cmds, TypeInv, CmdTypes, Commands
  <2>2. NoneSnatched
    BY <1>34, GroupsSnatchNone DEF NothingToInstall, UpgradeReturns
  <2> QED
    BY <2>1, <2>2 DEF OthersStay, AimShape, Aimed, NoneSnatched, Idle
<1>35. ASSUME RemovesOld PROVE (OthersStay /\ AimShape')
  BY <1>35, GroupsSnatchNone DEF OthersStay, AimShape, Aimed, NoneSnatched, RemovesOld, UpgradeOnly
<1>36. ASSUME Copies PROVE (OthersStay /\ AimShape')
  BY <1>36, GroupsSnatchNone DEF OthersStay, AimShape, Aimed, NoneSnatched, Copies, UpgradeOnly
<1>37. ASSUME CopyFails PROVE (OthersStay /\ AimShape')
  <2>1. UNCHANGED proc /\ \A w \in Cmds : cmd'[w] = cmd[w] \/ cmd'[w] = Idle
    BY <1>37 DEF CopyFails, UpgradeReturns, Finish, Cmds, TypeInv, CmdTypes, Commands
  <2>2. NoneSnatched
    BY <1>37, GroupsSnatchNone DEF CopyFails, UpgradeReturns
  <2> QED
    BY <2>1, <2>2 DEF OthersStay, AimShape, Aimed, NoneSnatched, Idle
<1>38. ASSUME Installs PROVE (OthersStay /\ AimShape')
  <2>1. UNCHANGED proc /\ \A w \in Cmds : cmd'[w] = cmd[w] \/ cmd'[w] = Idle
    BY <1>38 DEF Installs, UpgradeReturns, Finish, Cmds, TypeInv, CmdTypes, Commands
  <2>2. NoneSnatched
    BY <1>38, GroupsSnatchNone DEF Installs, UpgradeReturns
  <2> QED
    BY <2>1, <2>2 DEF OthersStay, AimShape, Aimed, NoneSnatched, Idle
<1>39. CASE UNCHANGED vars
  BY <1>39, GroupsSnatchNone DEF vars, OthersStay, AimShape, Aimed, NoneSnatched
<1> QED
  BY <1>1, <1>2, <1>3, <1>4, <1>5, <1>6, <1>7, <1>8, <1>9, <1>10, <1>11, <1>12,
     <1>13, <1>14, <1>15, <1>16, <1>17, <1>18, <1>18a, <1>19, <1>20, <1>21, <1>22,
     <1>23, <1>24, <1>25, <1>26, <1>27, <1>28, <1>29, <1>30, <1>31, <1>32,
     <1>33, <1>34, <1>35, <1>36, <1>37, <1>38, <1>39 DEF Next, CommandStep,
     cmd_foreground, upgrade

-----------------------------------------------------------------------------
(* While the copy is under way it is the only one, unless an uninstall took *)
(* that, too.                                                               *)
BinaryShape ==
    /\ BinaryLostOnlyInTheCopy
    /\ up.at = "copying" /\ binary # "partial" => uninstalled \/ cut

(* Steps that leave the binary alone, and let the upgrade be or end it.     *)
LEMMA BinaryStays ==
    ASSUME TypeInv, BinaryShape, UNCHANGED <<binary, homeVars>>,
           \/ UNCHANGED <<up, cut>>
           \/ up' = NoUpgrade /\ cut' = (cut \/ up.at \in {"removed", "copying"})
    PROVE  BinaryShape'
<1>1. CASE UNCHANGED <<up, cut>>
  BY <1>1 DEF BinaryShape, BinaryLostOnlyInTheCopy, homeVars
<1>2. CASE up' = NoUpgrade /\ cut' = (cut \/ up.at \in {"removed", "copying"})
  <2>1. cut' <=> cut \/ up.at \in {"removed", "copying"}
    BY <1>2
  <2>2. up'.at = "none"
    BY <1>2 DEF NoUpgrade
  <2> QED
    BY <2>1, <2>2 DEF BinaryShape, BinaryLostOnlyInTheCopy, homeVars
<1> QED
  BY <1>1, <1>2

(* Every step keeps the binary, or is one of the ways to lose it.           *)
LEMMA BinaryStep == TypeInv /\ BinaryShape /\ [Next]_vars => BinaryShape'
<1> SUFFICES ASSUME TypeInv, BinaryShape, [Next]_vars PROVE BinaryShape'
  OBVIOUS
<1>1. ASSUME NEW u \in Users, NEW o \in UserOps, UserCommand(u, o) PROVE BinaryShape'
  BY <1>1, BinaryStays DEF UserCommand, Begin, installVars, homeVars
<1>2. ASSUME NEW u \in Users, UserUpgrade(u) PROVE BinaryShape'
  BY <1>2 DEF UserUpgrade, Begin, BinaryShape, BinaryLostOnlyInTheCopy, homeVars
<1>3. ASSUME ScriptCommand PROVE BinaryShape'
  BY <1>3, BinaryStays DEF ScriptCommand, Begin, installVars, homeVars
<1>4. ASSUME ScriptFails PROVE BinaryShape'
  BY <1>4, BinaryStays DEF ScriptFails, CommandOnly, installVars, homeVars
<1>5. ASSUME NEW u \in Cmds, ReadsPid(u) PROVE BinaryShape'
  BY <1>5, BinaryStays DEF ReadsPid, CommandOnly, installVars, homeVars
<1>6. ASSUME NEW u \in Cmds, RemovesStale(u) PROVE BinaryShape'
  BY <1>6, BinaryStays DEF RemovesStale, CommandOnly, installVars, homeVars
<1>7. ASSUME NEW u \in Cmds, NEW d \in Clients, Spawns(u, d) PROVE BinaryShape'
  BY <1>7, BinaryStays DEF Spawns, installVars, homeVars
<1>8. ASSUME NEW u \in Cmds, SpawnFails(u) PROVE BinaryShape'
  BY <1>8, BinaryStays DEF SpawnFails, installVars, homeVars
<1>9. ASSUME NEW u \in Cmds, OpensPid(u) PROVE BinaryShape'
  BY <1>9, BinaryStays DEF OpensPid, CommandOnly, installVars, homeVars
<1>10. ASSUME NEW u \in Cmds, WritesPid(u) PROVE BinaryShape'
  BY <1>10, BinaryStays DEF WritesPid, CommandOnly, installVars, homeVars
<1>11. ASSUME NEW u \in Cmds, StartReturns(u) PROVE BinaryShape'
  BY <1>11, BinaryStays DEF StartReturns, installVars, homeVars
<1>12. ASSUME NEW u \in Cmds, Signals(u) PROVE BinaryShape'
  BY <1>12, BinaryStays DEF Signals, Terminate, Dies, installVars, homeVars
<1>13. ASSUME NEW u \in Cmds, SeesItGone(u) PROVE BinaryShape'
  BY <1>13, BinaryStays DEF SeesItGone, CommandOnly, installVars, homeVars
<1>14. ASSUME NEW u \in Cmds, WaitedEnough(u) PROVE BinaryShape'
  BY <1>14, BinaryStays DEF WaitedEnough, CommandOnly, installVars, homeVars
<1>15. ASSUME NEW u \in Cmds, Kills(u) PROVE BinaryShape'
  BY <1>15, BinaryStays DEF Kills, Dies, installVars, homeVars
<1>16. ASSUME NEW u \in Cmds, Removes(u) PROVE BinaryShape'
  BY <1>16, BinaryStays DEF Removes, CommandOnly, installVars, homeVars
<1>17. ASSUME NEW u \in Cmds, Confirms(u) PROVE BinaryShape'
  BY <1>17 DEF Confirms, BinaryShape, BinaryLostOnlyInTheCopy
<1>18. ASSUME NEW u \in Cmds, Declines(u) PROVE BinaryShape'
  BY <1>18, BinaryStays DEF Declines, CommandOnly, installVars, homeVars
<1>18a. ASSUME NEW u \in Cmds, UninstallFails(u) PROVE BinaryShape'
  BY <1>18a, BinaryStays DEF UninstallFails, CommandOnly, installVars, homeVars
<1>19. ASSUME NEW u \in Cmds, Wipes(u) PROVE BinaryShape'
  BY <1>19 DEF Wipes, BinaryShape, BinaryLostOnlyInTheCopy
<1>20. ASSUME NEW d \in Clients, Foreground(d) PROVE BinaryShape'
  BY <1>20, BinaryStays DEF Foreground, installVars, homeVars
<1>21. ASSUME NEW d \in Clients, Boots(d) PROVE BinaryShape'
  BY <1>21, BinaryStays DEF Boots, ClientOnly, installVars, homeVars
<1>22. ASSUME NEW d \in Clients, ClaimOpens(d) PROVE BinaryShape'
  BY <1>22, BinaryStays DEF ClaimOpens, ClientOnly, installVars, homeVars
<1>23. ASSUME NEW d \in Clients, ClaimWrites(d) PROVE BinaryShape'
  BY <1>23, BinaryStays DEF ClaimWrites, ClientOnly, installVars, homeVars
<1>24. ASSUME NEW d \in Clients, Binds(d) PROVE BinaryShape'
  BY <1>24, BinaryStays DEF Binds, ClientOnly, installVars, homeVars
<1>25. ASSUME NEW d \in Clients, BindFails(d) PROVE BinaryShape'
  BY <1>25, BinaryStays DEF BindFails, ClientOnly, installVars, homeVars
<1>26. ASSUME NEW d \in Clients, FailedExit(d) PROVE BinaryShape'
  BY <1>26, BinaryStays DEF FailedExit, Dies, ClientOnly, installVars, homeVars
<1>27. ASSUME NEW d \in Clients, SpawnsScript(d) PROVE BinaryShape'
  BY <1>27 DEF SpawnsScript, NoUpgrade, BinaryShape, BinaryLostOnlyInTheCopy,
     homeVars
<1>28. ASSUME NEW d \in Clients, Exits(d) PROVE BinaryShape'
  BY <1>28, BinaryStays DEF Exits, Dies, ClientOnly, installVars, homeVars
<1>29. ASSUME NEW d \in Clients, DrainEnds(d) PROVE BinaryShape'
  BY <1>29, BinaryStays DEF DrainEnds, Dies, ClientOnly, installVars, homeVars
<1>30. ASSUME NEW d \in Clients, Interrupted(d) PROVE BinaryShape'
  BY <1>30, BinaryStays DEF Interrupted, Terminate, Dies, ClientOnly,
     installVars, homeVars
<1>31. ASSUME NEW d \in Clients, Crashes(d) PROVE BinaryShape'
  BY <1>31, BinaryStays DEF Crashes, Dies, ClientOnly, installVars, homeVars
<1>32. ASSUME NEW d \in Clients, Reused(d) PROVE BinaryShape'
  BY <1>32, BinaryStays DEF Reused, ClientOnly, installVars, homeVars
<1>33. ASSUME NEW d \in Clients, WebUpgrade(d) PROVE BinaryShape'
  BY <1>33 DEF WebUpgrade, ClientOnly, homeVars, NoUpgrade, BinaryShape,
     BinaryLostOnlyInTheCopy
<1>34. ASSUME NothingToInstall PROVE BinaryShape'
  <2>1. up.at = "fetching" /\ UNCHANGED <<binary, homeVars, cut>>
    BY <1>34 DEF NothingToInstall, UpgradeReturns
  <2>2. up'.at \in {"none", "done"}
    <3>1. up' = [up EXCEPT !.at = "done"] \/ up' = NoUpgrade
      BY <1>34 DEF NothingToInstall, UpgradeReturns
    <3>2. up \in Upgrades
      BY DEF TypeInv, InstallTypes
    <3>3. CASE up' = [up EXCEPT !.at = "done"]
      BY <3>2, <3>3 DEF Upgrades
    <3>4. CASE up' = NoUpgrade
      BY <3>4 DEF NoUpgrade
    <3> QED
      BY <3>1, <3>3, <3>4
  <2> QED
    BY <2>1, <2>2 DEF BinaryShape, BinaryLostOnlyInTheCopy, homeVars
<1>35. ASSUME RemovesOld PROVE BinaryShape'
  BY <1>35 DEF RemovesOld, UpgradeOnly, homeVars, TypeInv, InstallTypes,
     BinaryShape, BinaryLostOnlyInTheCopy
<1>36. ASSUME Copies PROVE BinaryShape'
  BY <1>36 DEF Copies, UpgradeOnly, homeVars, TypeInv, InstallTypes,
     BinaryShape, BinaryLostOnlyInTheCopy
<1>37. ASSUME CopyFails PROVE BinaryShape'
  BY <1>37 DEF CopyFails, UpgradeReturns, homeVars, NoUpgrade, BinaryShape,
     BinaryLostOnlyInTheCopy
<1>38. ASSUME Installs PROVE BinaryShape'
  BY <1>38 DEF Installs, UpgradeReturns, homeVars, NoUpgrade, TypeInv,
     InstallTypes, BinaryShape, BinaryLostOnlyInTheCopy
<1>39. CASE UNCHANGED vars
  BY <1>39 DEF vars, BinaryShape, BinaryLostOnlyInTheCopy, installVars, homeVars
<1> QED
  BY <1>1, <1>2, <1>3, <1>4, <1>5, <1>6, <1>7, <1>8, <1>9, <1>10, <1>11, <1>12,
     <1>13, <1>14, <1>15, <1>16, <1>17, <1>18, <1>18a, <1>19, <1>20, <1>21, <1>22,
     <1>23, <1>24, <1>25, <1>26, <1>27, <1>28, <1>29, <1>30, <1>31, <1>32,
     <1>33, <1>34, <1>35, <1>36, <1>37, <1>38, <1>39 DEF Next, CommandStep,
     cmd_foreground, upgrade

-----------------------------------------------------------------------------
(* Which client client.pid is about, and why FileNamesTheClient holds.      *)

(* A keeper is past its decision over client.pid, or about to find its own  *)
(* PID in it.                                                               *)
Settled == {"preparing", "serving", "draining", "failing", "exiting"}
Keeper(d) == proc[d] \in Settled \/ (proc[d] = "booting" /\ pidFile = d)

(* Only PIDs that were given out are written down.                          *)
Known ==
    /\ \A d \in Clients : pidFile = d => proc[d] # "none"
    /\ \A u \in Cmds, d \in Clients : cmd[u].pid = d => proc[d] # "none"

(* An upgrade ends with the client or the command that runs it.             *)
UpgraderShape ==
    /\ \A d \in Clients : up.by = d => proc[d] \in {"serving", "draining"}
    /\ \A u \in Users : up.by = u => cmd[u].at = "upgrading"

Starting == {"opening", "writing", "waiting"}

(* One command, and one client that has yet to claim client.pid: beside a   *)
(* command only the one it has started.                                     *)
OneAtATime ==
    /\ \A u, w \in Cmds : cmd[u] # Idle /\ cmd[w] # Idle => u = w
    /\ \A d, e \in Clients : Unclaimed(d) /\ Unclaimed(e) => d = e
    /\ \A d \in Clients, u \in Cmds :
          Unclaimed(d) /\ cmd[u] # Idle => cmd[u].at \in Starting /\ cmd[u].pid = d

KeeperNamed == \A d \in Clients : Keeper(d) => pidFile = d \/ BeingNamed(d)

(* Who claims client.pid has found no keeper, and nobody takes the file     *)
(* away while it is written.                                                *)
ClaimsAlone ==
    \A d \in Clients :
        /\ proc[d] \in {"claiming", "writing"} => \A e \in Clients : ~ Keeper(e)
        /\ proc[d] = "writing" => d \in opened

(* A command works on the keeper, and none is left where it removes the     *)
(* file or starts another client.                                           *)
Works == Starting \cup {"signalling", "polling", "killing"}
Without == {"stale", "spawning", "removing", "wiping"}

AimAtKeeper ==
    \A u \in Cmds, d \in Clients : Keeper(d) =>
        /\ cmd[u].at \in Works => cmd[u].pid = d
        /\ cmd[u].at \notin Without

InOrder == OneAtATime /\ KeeperNamed /\ ClaimsAlone /\ AimAtKeeper

Naming == Known /\ UpgraderShape /\ (~ raced => InOrder)

(* Processes end, or keepers go on.                                         *)
Onward ==
    \A d \in Clients :
        \/ proc'[d] = proc[d]
        \/ proc'[d] \in {"zombie", "gone", "other"}
        \/ Keeper(d) /\ proc'[d] \in Settled

(* There is at most one keeper.                                             *)
LEMMA OneKeeper ==
    ASSUME InOrder, NEW d \in Clients, NEW e \in Clients, Keeper(d), Keeper(e)
    PROVE  d = e
  BY DEF InOrder, KeeperNamed, AimAtKeeper, BeingNamed, Works, Starting

(* Processes go on while no command moves.                                  *)
LEMMA ProcessGoesOn ==
    ASSUME TypeInv, InOrder, Onward, UNCHANGED <<pidFile, cmd>>, NEW c \in Clients,
           opened' \in {opened, opened \ {c}}, proc'[c] # "writing"
    PROVE  InOrder'
<1>1. \A d \in Clients : (Keeper(d)' => Keeper(d)) /\ (Unclaimed(d)' => Unclaimed(d))
  BY DEF Onward, Keeper, Unclaimed, Settled
<1>2. OneAtATime'
  BY <1>1 DEF InOrder, OneAtATime
<1>3. KeeperNamed'
  BY <1>1, ProcessAssumption DEF InOrder, KeeperNamed, BeingNamed
<1>4. ClaimsAlone'
  BY <1>1 DEF InOrder, ClaimsAlone, Onward, Settled
<1>5. AimAtKeeper'
  BY <1>1 DEF InOrder, AimAtKeeper
<1> QED
  BY <1>2, <1>3, <1>4, <1>5 DEF InOrder

(* A command that has no client starting goes on, or any command ends.      *)
LEMMA CommandGoesOn ==
    ASSUME TypeInv, InOrder, Onward, UNCHANGED fileVars, NEW u \in Cmds, NEW new,
           cmd' = [cmd EXCEPT ![u] = new], cmd[u] # Idle, cmd[u].at # "writing",
           new = Idle \/ cmd[u].at \notin Starting,
           \A d \in Clients : Keeper(d)' => new.at \notin Without /\ (new.at \in Works => new.pid = d)
    PROVE  InOrder'
<1>1. \A d \in Clients : (Keeper(d)' => Keeper(d)) /\ (Unclaimed(d)' => Unclaimed(d))
  BY DEF Onward, Keeper, Unclaimed, Settled, fileVars
<1>2. \A w \in Cmds : cmd'[w] = IF w = u THEN new ELSE cmd[w]
  BY DEF TypeInv, CmdTypes
<1>3. OneAtATime'
  BY <1>1, <1>2 DEF InOrder, OneAtATime
<1>4. KeeperNamed'
  BY <1>1, <1>2 DEF InOrder, KeeperNamed, BeingNamed, fileVars
<1>5. ClaimsAlone'
  BY <1>1 DEF InOrder, ClaimsAlone, Onward, Settled, fileVars
<1>6. AimAtKeeper'
  BY <1>1, <1>2 DEF InOrder, AimAtKeeper
<1> QED
  BY <1>3, <1>4, <1>5, <1>6 DEF InOrder

(* A command removes client.pid when no client needs it.                    *)
LEMMA CommandRemoves ==
    ASSUME TypeInv, InOrder, Onward, remove_pid, NEW u \in Cmds, NEW new,
           cmd' = [cmd EXCEPT ![u] = new], cmd[u] # Idle,
           \A d \in Clients : ~ Keeper(d) /\ ~ Unclaimed(d)
    PROVE  InOrder'
<1>1. \A d \in Clients : ~ Keeper(d)' /\ ~ Unclaimed(d)' /\ proc'[d] \notin {"claiming", "writing"}
  BY ProcessAssumption DEF Onward, Keeper, Unclaimed, Settled, remove_pid
<1>2. \A w \in Cmds : cmd'[w] = IF w = u THEN new ELSE cmd[w]
  BY DEF TypeInv, CmdTypes
<1> QED
  BY <1>1, <1>2 DEF InOrder, OneAtATime, KeeperNamed, ClaimsAlone, AimAtKeeper

(* A keeper ends and takes client.pid with it.                              *)
LEMMA KeeperRemoves ==
    ASSUME TypeInv, InOrder, NEW c \in Clients, proc[c] \in Settled, NEW new \in {"zombie", "gone"},
           proc' = [proc EXCEPT ![c] = new], remove_pid, UNCHANGED cmd
    PROVE  InOrder'
<1>1. \A d \in Clients : Keeper(d) => d = c
  BY OneKeeper DEF Keeper
<1>2. \A d \in Clients : ~ Keeper(d)' /\ proc'[d] \notin {"claiming", "writing"}
  BY <1>1, ProcessAssumption DEF Keeper, Settled, remove_pid, TypeInv, ProcTypes, InOrder, ClaimsAlone
<1>3. \A d \in Clients : Unclaimed(d)' => Unclaimed(d)
  BY <1>1, ProcessAssumption DEF Unclaimed, Keeper, Settled, remove_pid, TypeInv, ProcTypes
<1> QED
  BY <1>2, <1>3 DEF InOrder, OneAtATime, KeeperNamed, ClaimsAlone, AimAtKeeper

(* Without clients and commands all is in order.                            *)
LEMMA QuietIsInOrder ==
    ASSUME TypeInv, ~ Busy, \A d \in Clients : ~ Running(d)
    PROVE  InOrder
<1>0. Idle.at = "idle" /\ \A u \in Cmds : cmd[u] = Idle
  BY DEF Busy, Idle
<1>1. \A u \in Cmds : cmd[u].at = "idle"
  BY <1>0
<1>2. \A d \in Clients : ~ Keeper(d) /\ ~ Unclaimed(d) /\ proc[d] \notin {"claiming", "writing"}
  BY DEF Running, RunningPlaces, Keeper, Unclaimed, Settled
<1> QED
  BY <1>1, <1>2 DEF Busy, InOrder, OneAtATime, KeeperNamed, ClaimsAlone, AimAtKeeper, Works, Starting, Without

(* Who begins without a race finds things in order.                         *)
LEMMA BeginsInOrder ==
    ASSUME TypeInv, Naming, NotesRace, ~ raced'
    PROVE  InOrder /\ ~ Busy
<1>1. ~ Busy /\ (~ raced \/ \A d \in Clients : ~ Running(d))
  BY DEF NotesRace, TypeInv, FlagTypes
<1> QED
  BY <1>1, QuietIsInOrder DEF Naming

(* A command begins.                                                        *)
LEMMA CommandBegins ==
    ASSUME TypeInv, Naming, NEW u \in Cmds, NEW o, NEW p \in {"asking", "reading", "upgrading"},
           Begin(u, o, p), ~ raced'
    PROVE  InOrder'
<1>1. InOrder /\ ~ Busy
  BY BeginsInOrder DEF Begin
<1>2. UNCHANGED <<proc, fileVars>> /\ cmd[u] = Idle
  BY DEF Begin
<1>3. \A w \in Cmds : IF w = u THEN cmd'[w].at = p ELSE cmd'[w] = Idle /\ cmd'[w].at = "idle"
  BY <1>1 DEF Begin, Busy, TypeInv, CmdTypes, Idle
<1>4. \A d \in Clients : (Keeper(d)' <=> Keeper(d)) /\ ~ Unclaimed(d)'
  BY <1>1, <1>2 DEF Keeper, Unclaimed, fileVars, Busy
<1>5. \A d \in Clients : ~ BeingNamed(d)
  BY <1>1 DEF BeingNamed, Busy, Idle
<1> QED
  BY <1>1, <1>2, <1>3, <1>4, <1>5 DEF InOrder, OneAtATime, KeeperNamed, ClaimsAlone, AimAtKeeper,
     Works, Starting, Without, fileVars, BeingNamed


(* What steps do to the PIDs that were given out: processes do not go back, *)
(* the file loses its PID, and commands forget theirs.                      *)
ProcsKept == \A d \in Clients : proc'[d] = "none" => proc[d] = "none"
FileKept == pidFile' \in {pidFile, NoPid, Torn}
PidsKept == \A u \in Cmds : cmd'[u].pid \in {cmd[u].pid, NoPid}

LEMMA KnownStays ==
    ASSUME Known, ProcsKept, FileKept, PidsKept
    PROVE  Known'
  BY ProcessAssumption DEF Known, ProcsKept, FileKept, PidsKept

(* Processes move or end.                                                   *)
LEMMA ProcsMove ==
    ASSUME TypeInv, NEW c \in Clients \cup {NoPid},
           \/ UNCHANGED proc
           \/ Dies(c)
           \/ Terminate(c)
           \/ \E p \in RunningPlaces \cup {"zombie", "gone", "other"} : proc' = [proc EXCEPT ![c] = p]
    PROVE  ProcsKept
  BY DEF ProcsKept, TypeInv, ProcTypes, Dies, Ended, Terminate, RunningPlaces

(* client.pid is read, opened or removed.                                   *)
LEMMA FileLoses ==
    ASSUME NEW w \in Clients \cup Cmds, remove_pid \/ read_pid \/ OpenPid(w) \/ UNCHANGED fileVars
    PROVE  FileKept
  BY DEF FileKept, remove_pid, read_pid, OpenPid, fileVars

(* Commands go on or end.                                                   *)
LEMMA CommandsMove ==
    ASSUME TypeInv, NEW u \in Cmds,
           \/ UNCHANGED cmd
           \/ \E ok \in BOOLEAN : Finish(u, ok)
           \/ \E p \in CmdPlaces : GoTo(u, p)
    PROVE  PidsKept
<1>1. CASE \E ok \in BOOLEAN : Finish(u, ok)
  <2>1. cmd' = [cmd EXCEPT ![u] = Idle] /\ Idle.pid = NoPid
    BY <1>1 DEF Finish, Idle
  <2> QED
    BY <2>1 DEF PidsKept, TypeInv, CmdTypes
<1>2. CASE \E p \in CmdPlaces : GoTo(u, p)
  BY <1>2 DEF PidsKept, GoTo, TypeInv, CmdTypes, Commands
<1> QED
  BY <1>1, <1>2 DEF PidsKept

(* A command begins.                                                        *)
LEMMA BeginsWithoutPid ==
    ASSUME TypeInv, NEW u \in Cmds, NEW o, NEW p, Begin(u, o, p)
    PROVE  PidsKept /\ ProcsKept /\ FileKept
<1>1. cmd' = [cmd EXCEPT ![u] = [Idle EXCEPT !.op = o, !.at = p]]
  BY DEF Begin
<1>2. [Idle EXCEPT !.op = o, !.at = p].pid = NoPid
  BY DEF Idle
<1>3. PidsKept
  BY <1>1, <1>2 DEF PidsKept, TypeInv, CmdTypes
<1> QED
  BY <1>3 DEF Begin, ProcsKept, FileKept, fileVars

(* Every step gives out PIDs before they are written down.                  *)
LEMMA KnownStep == TypeInv /\ Known /\ [Next]_vars => Known'
<1> SUFFICES ASSUME TypeInv, Known, [Next]_vars PROVE Known'
  OBVIOUS
<1>1. ASSUME NEW u \in Users, NEW o \in UserOps, UserCommand(u, o) PROVE Known'
  BY <1>1, BeginsWithoutPid, KnownStays DEF UserCommand, Cmds
<1>2. ASSUME NEW u \in Users, UserUpgrade(u) PROVE Known'
  BY <1>2, BeginsWithoutPid, KnownStays DEF UserUpgrade, Cmds
<1>3. ASSUME ScriptCommand PROVE Known'
  BY <1>3, BeginsWithoutPid, KnownStays DEF ScriptCommand, Cmds
<1>4. ASSUME ScriptFails PROVE Known'
  BY <1>4, KnownStays DEF ScriptFails, CommandOnly, PidsKept, ProcsKept, FileKept, fileVars
<1>5. ASSUME NEW u \in Cmds, ReadsPid(u) PROVE Known'
  <2>1. PidRead \in {pidFile, NoPid} /\ ProcsKept /\ FileKept
    BY <1>5, ProcsMove, FileLoses DEF ReadsPid, PidRead, CommandOnly
  <2>2. CASE \E ok \in BOOLEAN : Finish(u, ok)
    BY <2>1, <2>2, CommandsMove, KnownStays
  <2>3. CASE \E p : cmd' = [cmd EXCEPT ![u].at = p, ![u].pid = PidRead]
    <3>1. \A w \in Cmds : cmd'[w].pid \in {cmd[w].pid, pidFile, NoPid}
      BY <2>1, <2>3 DEF TypeInv, CmdTypes, Commands
    <3> QED
      BY <2>1, <3>1, ProcessAssumption DEF Known, ProcsKept, FileKept
  <2> QED
    BY <1>5, <2>2, <2>3 DEF ReadsPid
<1>6. ASSUME NEW u \in Cmds, RemovesStale(u) PROVE Known'
  BY <1>6, ProcsMove, FileLoses, CommandsMove, KnownStays DEF RemovesStale, CommandOnly,
     CmdPlaces
<1>7. ASSUME NEW u \in Cmds, NEW d \in Clients, Spawns(u, d) PROVE Known'
  <2>1. ProcsKept /\ proc'[d] = "booting" /\ UNCHANGED pidFile
    BY <1>7, ProcsMove DEF Spawns, RunningPlaces, fileVars, TypeInv, ProcTypes
  <2>2. \A w \in Cmds : cmd'[w].pid \in {cmd[w].pid, d}
    BY <1>7 DEF Spawns, TypeInv, CmdTypes, Commands
  <2> QED
    BY <2>1, <2>2 DEF Known, ProcsKept
<1>8. ASSUME NEW u \in Cmds, SpawnFails(u) PROVE Known'
  BY <1>8, ProcsMove, FileLoses, CommandsMove, KnownStays DEF SpawnFails, CmdPlaces
<1>9. ASSUME NEW u \in Cmds, OpensPid(u) PROVE Known'
  BY <1>9, ProcsMove, FileLoses, CommandsMove, KnownStays DEF OpensPid, CommandOnly,
     CmdPlaces
<1>10. ASSUME NEW u \in Cmds, WritesPid(u) PROVE Known'
  <2>1. UNCHANGED proc /\ pidFile' \in {pidFile, cmd[u].pid}
    BY <1>10 DEF WritesPid, WritePid, CommandOnly
  <2>2. PidsKept
    BY <1>10, CommandsMove DEF WritesPid, CmdPlaces
  <2> QED
    BY <2>1, <2>2, ProcessAssumption DEF Known, PidsKept
<1>11. ASSUME NEW u \in Cmds, StartReturns(u) PROVE Known'
  <2>1. ProcsKept /\ FileKept
    BY <1>11, FileLoses DEF StartReturns, ProcsKept
  <2> QED
    BY <1>11, <2>1, CommandsMove, KnownStays DEF StartReturns
<1>12. ASSUME NEW u \in Cmds, Signals(u) PROVE Known'
  <2>1. cmd[u].pid \in Clients \cup {NoPid}
    BY DEF TypeInv, CmdTypes, Commands
  <2>2. ProcsKept
    BY <1>12, <2>1, ProcsMove DEF Signals
  <2> QED
    BY <1>12, <2>2, FileLoses, CommandsMove, KnownStays DEF Signals, CmdPlaces
<1>13. ASSUME NEW u \in Cmds, SeesItGone(u) PROVE Known'
  BY <1>13, ProcsMove, FileLoses, CommandsMove, KnownStays DEF SeesItGone, CommandOnly,
     CmdPlaces
<1>14. ASSUME NEW u \in Cmds, WaitedEnough(u) PROVE Known'
  BY <1>14, ProcsMove, FileLoses, CommandsMove, KnownStays DEF WaitedEnough,
     CommandOnly, CmdPlaces
<1>15. ASSUME NEW u \in Cmds, Kills(u) PROVE Known'
  <2>1. cmd[u].pid \in Clients \cup {NoPid}
    BY DEF TypeInv, CmdTypes, Commands
  <2>2. ProcsKept
    BY <1>15, <2>1, ProcsMove DEF Kills
  <2> QED
    BY <1>15, <2>2, FileLoses, CommandsMove, KnownStays DEF Kills, CmdPlaces
<1>16. ASSUME NEW u \in Cmds, Removes(u) PROVE Known'
  BY <1>16, ProcsMove, FileLoses, CommandsMove, KnownStays DEF Removes, CommandOnly,
     CmdPlaces
<1>17. ASSUME NEW u \in Cmds, Confirms(u) PROVE Known'
  BY <1>17, ProcsMove, FileLoses, CommandsMove, KnownStays DEF Confirms, CmdPlaces
<1>18. ASSUME NEW u \in Cmds, Declines(u) PROVE Known'
  BY <1>18, ProcsMove, FileLoses, CommandsMove, KnownStays DEF Declines, CommandOnly,
     CmdPlaces
<1>18a. ASSUME NEW u \in Cmds, UninstallFails(u) PROVE Known'
  BY <1>18a, ProcsMove, FileLoses, CommandsMove, KnownStays DEF UninstallFails,
     CommandOnly, CmdPlaces
<1>19. ASSUME NEW u \in Cmds, Wipes(u) PROVE Known'
  BY <1>19, ProcsMove, FileLoses, CommandsMove, KnownStays DEF Wipes, CmdPlaces
<1>20. ASSUME NEW d \in Clients, Foreground(d) PROVE Known'
  <2>1. ProcsKept
    BY <1>20, ProcsMove DEF Foreground, RunningPlaces
  <2> QED
    BY <1>20, <2>1, KnownStays DEF Foreground, FileKept, PidsKept, fileVars
<1>21. ASSUME NEW d \in Clients, Boots(d) PROVE Known'
  <2>1. ProcsKept
    BY <1>21, ProcsMove DEF Boots, Ended, RunningPlaces
  <2> QED
    BY <1>21, <2>1, FileLoses, KnownStays DEF Boots, ClientOnly, PidsKept
<1>22. ASSUME NEW d \in Clients, ClaimOpens(d) PROVE Known'
  BY <1>22, ProcsMove, FileLoses, KnownStays DEF ClaimOpens, RunningPlaces, PidsKept, ClientOnly
<1>23. ASSUME NEW d \in Clients, ClaimWrites(d) PROVE Known'
  <2>1. ProcsKept /\ proc[d] = "writing" /\ pidFile' \in {pidFile, d} /\ UNCHANGED cmd
    BY <1>23, ProcsMove DEF ClaimWrites, WritePid, RunningPlaces, ClientOnly
  <2> QED
    BY <2>1 DEF Known, ProcsKept
<1>24. ASSUME NEW d \in Clients, Binds(d) PROVE Known'
  BY <1>24, ProcsMove, FileLoses, KnownStays DEF Binds, RunningPlaces, PidsKept, ClientOnly
<1>25. ASSUME NEW d \in Clients, BindFails(d) PROVE Known'
  BY <1>25, ProcsMove, FileLoses, KnownStays DEF BindFails, RunningPlaces, PidsKept, ClientOnly
<1>26. ASSUME NEW d \in Clients, FailedExit(d) PROVE Known'
  BY <1>26, ProcsMove, FileLoses, KnownStays DEF FailedExit, RunningPlaces, PidsKept, ClientOnly
<1>27. ASSUME NEW d \in Clients, SpawnsScript(d) PROVE Known'
  BY <1>27, ProcsMove, FileLoses, KnownStays DEF SpawnsScript, RunningPlaces, PidsKept
<1>28. ASSUME NEW d \in Clients, Exits(d) PROVE Known'
  BY <1>28, ProcsMove, FileLoses, KnownStays DEF Exits, RunningPlaces, PidsKept, ClientOnly
<1>29. ASSUME NEW d \in Clients, DrainEnds(d) PROVE Known'
  BY <1>29, ProcsMove, FileLoses, KnownStays DEF DrainEnds, RunningPlaces, PidsKept, ClientOnly
<1>30. ASSUME NEW d \in Clients, Interrupted(d) PROVE Known'
  BY <1>30, ProcsMove, FileLoses, KnownStays DEF Interrupted, RunningPlaces, PidsKept, ClientOnly
<1>31. ASSUME NEW d \in Clients, Crashes(d) PROVE Known'
  <2>1. ProcsKept
    BY <1>31, ProcsMove DEF Crashes
  <2> QED
    BY <1>31, <2>1, KnownStays DEF Crashes, FileKept, PidsKept, ClientOnly
<1>32. ASSUME NEW d \in Clients, Reused(d) PROVE Known'
  BY <1>32, ProcsMove, FileLoses, KnownStays DEF Reused, RunningPlaces, PidsKept, ClientOnly
<1>33. ASSUME NEW d \in Clients, WebUpgrade(d) PROVE Known'
  BY <1>33, ProcsMove, FileLoses, KnownStays DEF WebUpgrade, RunningPlaces, PidsKept, ClientOnly
<1>34. ASSUME NothingToInstall PROVE Known'
  <2>1. PidsKept
    BY <1>34, CommandsMove DEF NothingToInstall, UpgradeReturns, Cmds, PidsKept
  <2> QED
    BY <1>34, <2>1, KnownStays DEF NothingToInstall, UpgradeReturns, ProcsKept, FileKept, fileVars
<1>35. ASSUME RemovesOld PROVE Known'
  BY <1>35, KnownStays DEF RemovesOld, UpgradeOnly, ProcsKept, FileKept, PidsKept, fileVars
<1>36. ASSUME Copies PROVE Known'
  BY <1>36, KnownStays DEF Copies, UpgradeOnly, ProcsKept, FileKept, PidsKept, fileVars
<1>37. ASSUME CopyFails PROVE Known'
  <2>1. PidsKept
    BY <1>37, CommandsMove DEF CopyFails, UpgradeReturns, Cmds, PidsKept
  <2> QED
    BY <1>37, <2>1, KnownStays DEF CopyFails, UpgradeReturns, ProcsKept, FileKept, fileVars
<1>38. ASSUME Installs PROVE Known'
  <2>1. PidsKept
    BY <1>38, CommandsMove DEF Installs, UpgradeReturns, Cmds, PidsKept
  <2> QED
    BY <1>38, <2>1, KnownStays DEF Installs, UpgradeReturns, ProcsKept, FileKept, fileVars
<1>39. CASE UNCHANGED vars
  BY <1>39 DEF vars, Known, fileVars, installVars
<1> QED
  BY <1>1, <1>2, <1>3, <1>4, <1>5, <1>6, <1>7, <1>8, <1>9, <1>10, <1>11, <1>12,
     <1>13, <1>14, <1>15, <1>16, <1>17, <1>18, <1>18a, <1>19, <1>20, <1>21, <1>22,
     <1>23, <1>24, <1>25, <1>26, <1>27, <1>28, <1>29, <1>30, <1>31, <1>32,
     <1>33, <1>34, <1>35, <1>36, <1>37, <1>38, <1>39 DEF Next, CommandStep,
     cmd_foreground, upgrade


(* The upgrade goes on or ends; the client that runs it serves or drains,   *)
(* and the command that runs it stays where it is.                          *)
UpKept == up'.by \in {up.by, NoPid}
HostKept == \A d \in Clients : up'.by = d => proc'[d] \in {proc[d], "serving", "draining"}
RunnerKept == \A u \in Users : up'.by = u => cmd'[u].at = cmd[u].at

LEMMA UpgraderStays ==
    ASSUME UpgraderShape, UpKept, HostKept, RunnerKept
    PROVE  UpgraderShape'
  BY ProcessAssumption DEF UpgraderShape, UpKept, HostKept, RunnerKept, Cmds

(* With its process an upgrade ends.                                        *)
LEMMA HostDies ==
    ASSUME TypeInv, UpgraderShape, NEW c \in Clients \cup {NoPid}, Dies(c)
    PROVE  UpKept /\ HostKept
<1>1. NoUpgrade.by = NoPid
  BY DEF NoUpgrade
<1>2. UpKept
  BY <1>1 DEF UpKept, Dies
<1>3. up'.by \in Clients => up'.by # c
  BY <1>1, ProcessAssumption DEF Dies
<1> QED
  BY <1>2, <1>3 DEF HostKept, Dies, TypeInv, ProcTypes

(* Processes that run no upgrade move, and SIGTERM drains or kills.         *)
LEMMA HostMoves ==
    ASSUME TypeInv, UpgraderShape, NEW c \in Clients \cup {NoPid},
           \/ UNCHANGED <<proc, up>>
           \/ Dies(c)
           \/ Terminate(c)
           \/ /\ UNCHANGED up /\ proc[c] \notin {"serving", "draining"}
              /\ \E p : proc' = [proc EXCEPT ![c] = p]
    PROVE  UpKept /\ HostKept
<1>1. CASE UNCHANGED up /\ \E p : proc' = [proc EXCEPT ![c] = p] /\ (proc[c] \notin {"serving", "draining"} \/ p = "draining")
  BY <1>1 DEF UpKept, HostKept, UpgraderShape, TypeInv, ProcTypes
<1>2. CASE UNCHANGED <<proc, up>>
  BY <1>2 DEF UpKept, HostKept
<1>3. CASE Terminate(c) /\ ~ Dies(c)
  BY <1>1, <1>2, <1>3 DEF Terminate, installVars
<1> QED
  BY <1>1, <1>2, <1>3, HostDies

(* Commands other than the upgrade go on or end.                            *)
LEMMA RunnerStays ==
    ASSUME TypeInv, UpgraderShape, UpKept, NEW u \in Cmds, cmd[u].at # "upgrading",
           \/ \E ok \in BOOLEAN : Finish(u, ok)
           \/ \E p : GoTo(u, p)
           \/ \E p, d : cmd' = [cmd EXCEPT ![u].at = p, ![u].pid = d]
    PROVE  RunnerKept
<1>1. \A w \in Cmds \ {u} : cmd'[w] = cmd[w]
  BY DEF Finish, GoTo, TypeInv, CmdTypes
<1> QED
  BY <1>1, ProcessAssumption DEF RunnerKept, UpgraderShape, UpKept, Cmds

(* A command begins while another may be upgrading.                         *)
LEMMA RunnerStaysAside ==
    ASSUME TypeInv, UpgraderShape, UpKept, NEW u \in Cmds, NEW o, NEW p, Begin(u, o, p)
    PROVE  RunnerKept
<1>1. \A w \in Cmds \ {u} : cmd'[w] = cmd[w]
  BY DEF Begin, TypeInv, CmdTypes
<1>2. cmd[u].at # "upgrading"
  BY DEF Begin, Idle
<1> QED
  BY <1>1, <1>2, ProcessAssumption DEF RunnerKept, UpgraderShape, UpKept, Cmds

(* An upgrade returns, and its command with it.                             *)
LEMMA UpgraderReturns ==
    ASSUME TypeInv, UpgraderShape, NEW ok \in BOOLEAN, UpgradeReturns(ok)
    PROVE  UpgraderShape'
<1>1. UNCHANGED proc /\ (up'.by \in Clients => up'.by = up.by) /\ up'.by \notin Users
  BY ProcessAssumption DEF UpgradeReturns, NoUpgrade, TypeInv, InstallTypes, Upgrades, Cmds
<1> QED
  BY <1>1 DEF UpgraderShape

(* Every step keeps the upgrader.                                           *)
LEMMA UpgraderStep == TypeInv /\ UpgraderShape /\ [Next]_vars => UpgraderShape'
<1> SUFFICES ASSUME TypeInv, UpgraderShape, [Next]_vars PROVE UpgraderShape'
  OBVIOUS
<1>1. ASSUME NEW u \in Users, NEW o \in UserOps, UserCommand(u, o) PROVE UpgraderShape'
  BY <1>1, RunnerStaysAside, UpgraderStays DEF UserCommand, Begin, UpKept, HostKept, Cmds
<1>2. ASSUME NEW u \in Users, UserUpgrade(u) PROVE UpgraderShape'
  <2>1. up'.by = u /\ cmd'[u].at = "upgrading"
    BY <1>2 DEF UserUpgrade, Begin, Idle, TypeInv, CmdTypes, Cmds
  <2> QED
    BY <2>1, ProcessAssumption DEF UpgraderShape, Cmds
<1>3. ASSUME ScriptCommand PROVE UpgraderShape'
  BY <1>3, RunnerStaysAside, UpgraderStays DEF ScriptCommand, Begin, UpKept, HostKept, Cmds
<1>4. ASSUME ScriptFails PROVE UpgraderShape'
  BY <1>4 DEF ScriptFails, CommandOnly, installVars, UpgraderShape
<1>5. ASSUME NEW u \in Cmds, ReadsPid(u) PROVE UpgraderShape'
  <2>1. UpKept /\ HostKept
    BY <1>5 DEF ReadsPid, CommandOnly, installVars, UpKept, HostKept
  <2> QED
    BY <1>5, <2>1, RunnerStays, UpgraderStays DEF ReadsPid
<1>6. ASSUME NEW u \in Cmds, RemovesStale(u) PROVE UpgraderShape'
  <2>1. UpKept /\ HostKept
    BY <1>6 DEF RemovesStale, CommandOnly, installVars, UpKept, HostKept
  <2> QED
    BY <1>6, <2>1, RunnerStays, UpgraderStays DEF RemovesStale
<1>7. ASSUME NEW u \in Cmds, NEW d \in Clients, Spawns(u, d) PROVE UpgraderShape'
  <2>1. UpKept /\ HostKept
    BY <1>7, HostMoves DEF Spawns, installVars
  <2> QED
    BY <1>7, <2>1, RunnerStays, UpgraderStays DEF Spawns
<1>8. ASSUME NEW u \in Cmds, SpawnFails(u) PROVE UpgraderShape'
  <2>1. UpKept /\ HostKept
    BY <1>8 DEF SpawnFails, installVars, UpKept, HostKept
  <2> QED
    BY <1>8, <2>1, RunnerStays, UpgraderStays DEF SpawnFails
<1>9. ASSUME NEW u \in Cmds, OpensPid(u) PROVE UpgraderShape'
  <2>1. UpKept /\ HostKept
    BY <1>9 DEF OpensPid, CommandOnly, installVars, UpKept, HostKept
  <2> QED
    BY <1>9, <2>1, RunnerStays, UpgraderStays DEF OpensPid
<1>10. ASSUME NEW u \in Cmds, WritesPid(u) PROVE UpgraderShape'
  <2>1. UpKept /\ HostKept
    BY <1>10 DEF WritesPid, CommandOnly, installVars, UpKept, HostKept
  <2> QED
    BY <1>10, <2>1, RunnerStays, UpgraderStays DEF WritesPid
<1>11. ASSUME NEW u \in Cmds, StartReturns(u) PROVE UpgraderShape'
  <2>1. UpKept /\ HostKept
    BY <1>11 DEF StartReturns, installVars, UpKept, HostKept, UpgraderShape
  <2> QED
    BY <1>11, <2>1, RunnerStays, UpgraderStays DEF StartReturns
<1>12. ASSUME NEW u \in Cmds, Signals(u) PROVE UpgraderShape'
  <2>0. cmd[u].pid \in Clients \cup {NoPid}
    BY DEF TypeInv, CmdTypes, Commands
  <2>1. UpKept /\ HostKept
    BY <1>12, <2>0, HostMoves DEF Signals, installVars
  <2> QED
    BY <1>12, <2>1, RunnerStays, UpgraderStays DEF Signals
<1>13. ASSUME NEW u \in Cmds, SeesItGone(u) PROVE UpgraderShape'
  <2>1. UpKept /\ HostKept
    BY <1>13 DEF SeesItGone, CommandOnly, installVars, UpKept, HostKept
  <2> QED
    BY <1>13, <2>1, RunnerStays, UpgraderStays DEF SeesItGone
<1>14. ASSUME NEW u \in Cmds, WaitedEnough(u) PROVE UpgraderShape'
  <2>1. UpKept /\ HostKept
    BY <1>14 DEF WaitedEnough, CommandOnly, installVars, UpKept, HostKept
  <2> QED
    BY <1>14, <2>1, RunnerStays, UpgraderStays DEF WaitedEnough
<1>15. ASSUME NEW u \in Cmds, Kills(u) PROVE UpgraderShape'
  <2>0. cmd[u].pid \in Clients \cup {NoPid}
    BY DEF TypeInv, CmdTypes, Commands
  <2>1. UpKept /\ HostKept
    BY <1>15, <2>0, HostMoves DEF Kills, installVars
  <2> QED
    BY <1>15, <2>1, RunnerStays, UpgraderStays DEF Kills
<1>16. ASSUME NEW u \in Cmds, Removes(u) PROVE UpgraderShape'
  <2>1. UpKept /\ HostKept
    BY <1>16 DEF Removes, CommandOnly, installVars, UpKept, HostKept
  <2> QED
    BY <1>16, <2>1, RunnerStays, UpgraderStays DEF Removes
<1>17. ASSUME NEW u \in Cmds, Confirms(u) PROVE UpgraderShape'
  <2>1. UpKept /\ HostKept
    BY <1>17 DEF Confirms, UpKept, HostKept
  <2> QED
    BY <1>17, <2>1, RunnerStays, UpgraderStays DEF Confirms
<1>18. ASSUME NEW u \in Cmds, Declines(u) PROVE UpgraderShape'
  <2>1. UpKept /\ HostKept
    BY <1>18 DEF Declines, CommandOnly, installVars, UpKept, HostKept
  <2> QED
    BY <1>18, <2>1, RunnerStays, UpgraderStays DEF Declines
<1>18a. ASSUME NEW u \in Cmds, UninstallFails(u) PROVE UpgraderShape'
  <2>1. UpKept /\ HostKept
    BY <1>18a DEF UninstallFails, CommandOnly, installVars, UpKept, HostKept
  <2> QED
    BY <1>18a, <2>1, RunnerStays, UpgraderStays DEF UninstallFails
<1>19. ASSUME NEW u \in Cmds, Wipes(u) PROVE UpgraderShape'
  <2>1. UpKept /\ HostKept
    BY <1>19 DEF Wipes, UpKept, HostKept
  <2> QED
    BY <1>19, <2>1, RunnerStays, UpgraderStays DEF Wipes
<1>20. ASSUME NEW d \in Clients, Foreground(d) PROVE UpgraderShape'
  BY <1>20, HostMoves, UpgraderStays DEF Foreground, installVars, RunnerKept
<1>21. ASSUME NEW d \in Clients, Boots(d) PROVE UpgraderShape'
  <2>1. UpKept /\ HostKept
    BY <1>21, HostMoves DEF Boots
  <2> QED
    BY <1>21, <2>1, UpgraderStays DEF Boots, ClientOnly, RunnerKept
<1>22. ASSUME NEW d \in Clients, ClaimOpens(d) PROVE UpgraderShape'
  BY <1>22, HostMoves, UpgraderStays DEF ClaimOpens, ClientOnly, installVars, RunnerKept
<1>23. ASSUME NEW d \in Clients, ClaimWrites(d) PROVE UpgraderShape'
  BY <1>23, HostMoves, UpgraderStays DEF ClaimWrites, ClientOnly, installVars, RunnerKept
<1>24. ASSUME NEW d \in Clients, Binds(d) PROVE UpgraderShape'
  BY <1>24, HostMoves, UpgraderStays DEF Binds, ClientOnly, installVars, RunnerKept
<1>25. ASSUME NEW d \in Clients, BindFails(d) PROVE UpgraderShape'
  BY <1>25, HostMoves, UpgraderStays DEF BindFails, ClientOnly, installVars, RunnerKept
<1>26. ASSUME NEW d \in Clients, FailedExit(d) PROVE UpgraderShape'
  BY <1>26, HostMoves, UpgraderStays DEF FailedExit, ClientOnly, installVars, RunnerKept
<1>27. ASSUME NEW d \in Clients, SpawnsScript(d) PROVE UpgraderShape'
  <2>1. up'.by = NoPid
    BY <1>27 DEF SpawnsScript, NoUpgrade
  <2> QED
    BY <2>1, ProcessAssumption DEF UpgraderShape, Cmds
<1>28. ASSUME NEW d \in Clients, Exits(d) PROVE UpgraderShape'
  BY <1>28, HostMoves, UpgraderStays DEF Exits, ClientOnly, installVars, RunnerKept
<1>29. ASSUME NEW d \in Clients, DrainEnds(d) PROVE UpgraderShape'
  BY <1>29, HostMoves, UpgraderStays DEF DrainEnds, ClientOnly, installVars, RunnerKept
<1>30. ASSUME NEW d \in Clients, Interrupted(d) PROVE UpgraderShape'
  BY <1>30, HostMoves, UpgraderStays DEF Interrupted, ClientOnly, installVars, RunnerKept
<1>31. ASSUME NEW d \in Clients, Crashes(d) PROVE UpgraderShape'
  BY <1>31, HostMoves, UpgraderStays DEF Crashes, ClientOnly, installVars, RunnerKept
<1>32. ASSUME NEW d \in Clients, Reused(d) PROVE UpgraderShape'
  BY <1>32, HostMoves, UpgraderStays DEF Reused, ClientOnly, installVars, RunnerKept
<1>33. ASSUME NEW d \in Clients, WebUpgrade(d) PROVE UpgraderShape'
  <2>1. up'.by = d /\ proc'[d] = "serving"
    BY <1>33 DEF WebUpgrade
  <2> QED
    BY <2>1, ProcessAssumption DEF UpgraderShape, Cmds
<1>34. ASSUME NothingToInstall PROVE UpgraderShape'
  BY <1>34, UpgraderReturns DEF NothingToInstall
<1>35. ASSUME RemovesOld PROVE UpgraderShape'
  BY <1>35 DEF RemovesOld, UpgradeOnly, UpgraderShape, TypeInv, InstallTypes, Upgrades
<1>36. ASSUME Copies PROVE UpgraderShape'
  BY <1>36 DEF Copies, UpgradeOnly, UpgraderShape, TypeInv, InstallTypes, Upgrades
<1>37. ASSUME CopyFails PROVE UpgraderShape'
  BY <1>37, UpgraderReturns DEF CopyFails
<1>38. ASSUME Installs PROVE UpgraderShape'
  BY <1>38, UpgraderReturns DEF Installs
<1>39. CASE UNCHANGED vars
  BY <1>39 DEF vars, UpgraderShape, installVars
<1> QED
  BY <1>1, <1>2, <1>3, <1>4, <1>5, <1>6, <1>7, <1>8, <1>9, <1>10, <1>11, <1>12,
     <1>13, <1>14, <1>15, <1>16, <1>17, <1>18, <1>18a, <1>19, <1>20, <1>21, <1>22,
     <1>23, <1>24, <1>25, <1>26, <1>27, <1>28, <1>29, <1>30, <1>31, <1>32,
     <1>33, <1>34, <1>35, <1>36, <1>37, <1>38, <1>39 DEF Next, CommandStep,
     cmd_foreground, upgrade


(* What client.pid is about does not change with the rest of the state.     *)
LEMMA OrderStays ==
    ASSUME InOrder, UNCHANGED <<proc, fileVars, cmd>>
    PROVE  InOrder'
  BY DEF InOrder, OneAtATime, KeeperNamed, ClaimsAlone, AimAtKeeper, Keeper, Unclaimed, BeingNamed, fileVars

(* A keeper was one before.                                                 *)
LEMMA KeepersWere ==
    ASSUME Onward, UNCHANGED pidFile, NEW d \in Clients, Keeper(d)'
    PROVE  Keeper(d)
  BY DEF Onward, Keeper, Settled

(* Beside a command that starts no client none has yet to claim the file,   *)
(* and the file names the keeper.                                           *)
LEMMA BesideCommand ==
    ASSUME InOrder, NEW u \in Cmds, cmd[u].at \notin Starting \cup {"idle"}
    PROVE  /\ cmd[u] # Idle
           /\ \A d \in Clients : ~ Unclaimed(d)
           /\ \A d \in Clients : Keeper(d) => pidFile = d
<1>1. cmd[u] # Idle
  BY DEF Idle
<1>2. \A d \in Clients : ~ Unclaimed(d)
  BY <1>1 DEF InOrder, OneAtATime
<1>3. \A d \in Clients : ~ BeingNamed(d)
  <2>1. SUFFICES ASSUME NEW w \in Cmds, cmd[w].at = "writing" PROVE FALSE
    BY DEF BeingNamed
  <2>2. cmd[w] # Idle
    BY <2>1 DEF Idle
  <2> QED
    BY <1>1, <2>1, <2>2 DEF InOrder, OneAtATime, Starting
<1> QED
  BY <1>1, <1>2, <1>3 DEF InOrder, KeeperNamed

(* A command that is under way goes to another place.                       *)
LEMMA GoesToPlace ==
    ASSUME TypeInv, InOrder, Onward, UNCHANGED fileVars, NEW u \in Cmds, NEW p, GoTo(u, p),
           cmd[u].at \notin Starting \cup {"idle"},
           \A d \in Clients : Keeper(d)' => p \notin Without /\ (p \in Works => cmd[u].pid = d)
    PROVE  InOrder'
<1> DEFINE new == [cmd[u] EXCEPT !.at = p]
<1>1. cmd' = [cmd EXCEPT ![u] = new]
  BY DEF GoTo
<1>2. new.at = p /\ new.pid = cmd[u].pid
  BY DEF TypeInv, CmdTypes, Commands
<1> HIDE DEF new
<1> QED
  BY <1>1, <1>2, BesideCommand, CommandGoesOn DEF Starting

(* A command ends.                                                          *)
LEMMA EndsInOrder ==
    ASSUME TypeInv, InOrder, Onward, UNCHANGED fileVars, NEW u \in Cmds, NEW ok, Finish(u, ok),
           cmd[u].at \notin {"idle", "writing"}
    PROVE  InOrder'
<1>1. cmd' = [cmd EXCEPT ![u] = Idle]
  BY DEF Finish
<1>2. Idle.at = "idle" /\ cmd[u] # Idle
  BY DEF Idle
<1> QED
  BY <1>1, <1>2, CommandGoesOn DEF Without, Works, Starting

(* A command that removes client.pid where no keeper is.                    *)
LEMMA RemovesInOrder ==
    ASSUME TypeInv, InOrder, Onward, remove_pid, NEW u \in Cmds,
           \/ \E ok : Finish(u, ok)
           \/ \E p : GoTo(u, p)
           \/ \E p, d : cmd' = [cmd EXCEPT ![u].at = p, ![u].pid = d],
           cmd[u].at \notin Starting \cup {"idle"},
           \A d \in Clients : ~ Keeper(d)
    PROVE  InOrder'
<1>1. \E new : cmd' = [cmd EXCEPT ![u] = new]
  <2>1. CASE \E ok : Finish(u, ok)
    BY <2>1 DEF Finish
  <2>2. CASE \E p : GoTo(u, p)
    <3>1. PICK p : cmd' = [cmd EXCEPT ![u] = [cmd[u] EXCEPT !.at = p]]
      BY <2>2 DEF GoTo
    <3> QED
      BY <3>1
  <2>3. CASE \E p, d : cmd' = [cmd EXCEPT ![u].at = p, ![u].pid = d]
    <3>1. PICK p, d : cmd' = [cmd EXCEPT ![u] = [cmd[u] EXCEPT !.at = p, !.pid = d]]
      BY <2>3
    <3> QED
      BY <3>1
  <2> QED
    BY <2>1, <2>2, <2>3
<1> QED
  BY <1>1, BesideCommand, CommandRemoves

(* A process ends, and what it was writing is lost.                         *)
LEMMA EndingIsOnward ==
    ASSUME TypeInv, NEW c \in Clients \cup {NoPid}, Dies(c)
    PROVE  /\ Onward
           /\ c \in Clients => proc'[c] \in {"zombie", "gone"}
  BY DEF Dies, Ended, Onward, TypeInv, ProcTypes

(* SIGTERM ends a process, or makes it drain.                               *)
LEMMA TerminatingIsOnward ==
    ASSUME TypeInv, NEW c \in Clients \cup {NoPid}, Terminate(c)
    PROVE  Onward
<1>1. CASE UNCHANGED proc
  BY <1>1 DEF Onward
<1>2. CASE Dies(c)
  BY <1>2, EndingIsOnward
<1>3. CASE \/ proc[c] = "serving" /\ proc' = [proc EXCEPT ![c] = "draining"]
           \/ proc[c] = "other" /\ proc' = [proc EXCEPT ![c] = "gone"]
  BY <1>3 DEF Onward, Keeper, Settled, TypeInv, ProcTypes
<1> QED
  BY <1>1, <1>2, <1>3 DEF Terminate

(* start opens client.pid for the PID of the client it has spawned.         *)
LEMMA OpensInOrder ==
    ASSUME TypeInv, InOrder, NEW u \in Cmds, OpensPid(u)
    PROVE  InOrder'
<1>1. /\ cmd[u] # Idle /\ cmd[u].at = "opening" /\ UNCHANGED proc
      /\ pidFile' = Torn /\ opened' = opened \cup {u}
  BY DEF OpensPid, OpenPid, CommandOnly, Idle
<1>2. \A w \in Cmds : IF w = u THEN cmd'[w].at = "writing" /\ cmd'[w].pid = cmd[w].pid
                               ELSE cmd'[w] = cmd[w]
  BY DEF OpensPid, GoTo, TypeInv, CmdTypes, Commands
<1>3. \A w \in Cmds : w # u => cmd[w] = Idle
  BY <1>1 DEF InOrder, OneAtATime
<1>4. Idle.at = "idle"
  BY DEF Idle
<1>5. \A d \in Clients : Keeper(d)' => Keeper(d)
  BY <1>1, ProcessAssumption DEF Keeper
<1>6. \A d \in Clients : Keeper(d) => cmd[u].pid = d
  BY <1>1 DEF InOrder, AimAtKeeper, Works, Starting
<1>7. \A d \in Clients : Unclaimed(d)' => Unclaimed(d) \/ Keeper(d)
  BY <1>1 DEF Unclaimed, Keeper
<1>8. \A d \in Clients : Unclaimed(d)' => cmd[u].pid = d
  BY <1>1, <1>6, <1>7 DEF InOrder, OneAtATime
<1>9. OneAtATime'
  BY <1>2, <1>3, <1>8 DEF OneAtATime, Starting
<1>10. KeeperNamed'
  BY <1>1, <1>2, <1>5, <1>6 DEF KeeperNamed, BeingNamed
<1>11. ClaimsAlone'
  BY <1>1, <1>5 DEF InOrder, ClaimsAlone
<1>12. AimAtKeeper'
  BY <1>2, <1>3, <1>4, <1>5, <1>6 DEF AimAtKeeper, Works, Starting, Without
<1> QED
  BY <1>9, <1>10, <1>11, <1>12 DEF InOrder

(* It writes that PID, unless the file was removed in between.              *)
LEMMA WritesInOrder ==
    ASSUME TypeInv, InOrder, NEW u \in Cmds, WritesPid(u)
    PROVE  InOrder'
<1>1. /\ cmd[u] # Idle /\ cmd[u].at = "writing" /\ UNCHANGED proc
      /\ pidFile' = (IF u \in opened THEN cmd[u].pid ELSE pidFile)
      /\ opened' = opened \ {u}
  BY DEF WritesPid, WritePid, CommandOnly, Idle
<1>2. \A w \in Cmds : IF w = u THEN cmd'[w].at = "waiting" /\ cmd'[w].pid = cmd[w].pid
                               ELSE cmd'[w] = cmd[w]
  BY DEF WritesPid, GoTo, TypeInv, CmdTypes, Commands
<1>3. \A w \in Cmds : w # u => cmd[w] = Idle
  BY <1>1 DEF InOrder, OneAtATime
<1>4. Idle.at = "idle"
  BY DEF Idle
<1>5. \A d \in Clients : Keeper(d) => cmd[u].pid = d
  BY <1>1 DEF InOrder, AimAtKeeper, Works, Starting
<1>6. \A d \in Clients : Keeper(d)' => cmd[u].pid = d /\ (u \notin opened => Keeper(d))
  BY <1>1, <1>5 DEF Keeper
<1>7. \A d \in Clients : Unclaimed(d)' => Unclaimed(d)
  BY <1>1, <1>5 DEF Unclaimed, Keeper
<1>8. \A d \in Clients : Unclaimed(d) => cmd[u].pid = d
  BY <1>1 DEF InOrder, OneAtATime
<1>9. OneAtATime'
  BY <1>2, <1>3, <1>7, <1>8 DEF OneAtATime, Starting
<1>10. KeeperNamed'
  <2>1. u \notin opened => \A d \in Clients : ~ BeingNamed(d)
    BY <1>3, <1>4 DEF BeingNamed
  <2> QED
    BY <1>1, <1>6, <2>1 DEF InOrder, KeeperNamed
<1>11. ClaimsAlone'
  <2>1. \A d \in Clients : proc[d] \in {"claiming", "writing"} => cmd[u].pid = d /\ ~ Keeper(d)'
    BY <1>1, <1>8 DEF Unclaimed, Keeper, Settled
  <2> QED
    BY <1>1, <1>6, <2>1, ProcessAssumption DEF InOrder, ClaimsAlone
<1>12. AimAtKeeper'
  BY <1>2, <1>3, <1>4, <1>6 DEF AimAtKeeper, Works, Starting, Without
<1> QED
  BY <1>9, <1>10, <1>11, <1>12 DEF InOrder

(* A client that runs is taken for one, with and without /proc.             *)
LEMMA RunningIsOurs == \A d \in Clients : Running(d) => is_our_process(d)
  BY ProcessAssumption DEF is_our_process, is_process_alive, Running, RunningPlaces

(* A client finds no other one in the file and goes to claim it.            *)
LEMMA ClaimingInOrder ==
    ASSUME TypeInv, InOrder, NEW d \in Clients, Boots(d), proc' = [proc EXCEPT ![d] = "claiming"],
           PidRead # d, ~ is_our_process(PidRead)
    PROVE  InOrder'
<1>1. proc[d] = "booting" /\ UNCHANGED cmd /\ (UNCHANGED fileVars \/ (pidFile = Torn /\ remove_pid))
  <2>1. CASE pidFile = Torn
    BY <2>1 DEF Boots, ClientOnly, read_pid
  <2>2. CASE pidFile # Torn
    BY <2>2 DEF Boots, ClientOnly, read_pid
  <2> QED
    BY <2>1, <2>2
<1>2. Unclaimed(d) /\ ~ Keeper(d)
  <2>1. pidFile # d
    BY ProcessAssumption DEF PidRead
  <2> QED
    BY <1>1, <2>1 DEF Unclaimed, Keeper, Settled
<1>3. \A e \in Clients : ~ Keeper(e)
  <2>1. SUFFICES ASSUME NEW e \in Clients, Keeper(e) PROVE FALSE
    OBVIOUS
  <2>2. Running(e)
    BY <2>1 DEF Keeper, Running, RunningPlaces, Settled
  <2>3. pidFile # e
    BY <2>2, RunningIsOurs, ProcessAssumption DEF PidRead
  <2>4. PICK u \in Cmds : cmd[u].pid = e /\ cmd[u].at = "writing"
    BY <2>1, <2>3 DEF InOrder, KeeperNamed, BeingNamed
  <2>5. cmd[u] # Idle
    BY <2>4 DEF Idle
  <2> QED
    BY <1>2, <2>1, <2>4, <2>5 DEF InOrder, OneAtATime
<1>4. \A e \in Clients : ~ Keeper(e)'
  BY <1>1, <1>3, ProcessAssumption DEF Keeper, Settled, fileVars, remove_pid, TypeInv, ProcTypes
<1>5. \A e \in Clients : Unclaimed(e)' => Unclaimed(e)
  BY <1>1, <1>2, <1>3, ProcessAssumption DEF Unclaimed, Keeper, fileVars, remove_pid, TypeInv, ProcTypes
<1>6. OneAtATime'
  BY <1>1, <1>5 DEF InOrder, OneAtATime
<1>7. \A e \in Clients : proc'[e] # "writing"
  BY <1>1, <1>2 DEF InOrder, OneAtATime, Unclaimed, TypeInv, ProcTypes
<1> QED
  BY <1>4, <1>6, <1>7 DEF InOrder, KeeperNamed, ClaimsAlone, AimAtKeeper

(* It opens the file.                                                       *)
LEMMA ClaimOpensInOrder ==
    ASSUME TypeInv, InOrder, NEW d \in Clients, ClaimOpens(d)
    PROVE  InOrder'
<1>1. /\ proc[d] = "claiming" /\ proc' = [proc EXCEPT ![d] = "writing"] /\ UNCHANGED cmd
      /\ pidFile' = Torn /\ opened' = opened \cup {d}
  BY DEF ClaimOpens, OpenPid, ClientOnly
<1>2. Unclaimed(d) /\ \A e \in Clients : ~ Keeper(e)
  BY <1>1 DEF Unclaimed, InOrder, ClaimsAlone
<1>3. \A e \in Clients : ~ Keeper(e)'
  BY <1>1, <1>2, ProcessAssumption DEF Keeper, Settled, TypeInv, ProcTypes
<1>4. \A e \in Clients : Unclaimed(e)' => Unclaimed(e)
  BY <1>1, <1>2 DEF Unclaimed, Keeper, TypeInv, ProcTypes
<1>5. OneAtATime'
  BY <1>1, <1>4 DEF InOrder, OneAtATime
<1>6. \A e \in Clients : proc'[e] = "writing" => e \in opened'
  BY <1>1 DEF InOrder, ClaimsAlone, TypeInv, ProcTypes
<1> QED
  BY <1>3, <1>5, <1>6 DEF InOrder, KeeperNamed, ClaimsAlone, AimAtKeeper

(* It writes its PID and is the keeper.                                     *)
LEMMA ClaimWritesInOrder ==
    ASSUME TypeInv, InOrder, NEW d \in Clients, ClaimWrites(d)
    PROVE  InOrder'
<1>1. /\ proc[d] = "writing" /\ proc' = [proc EXCEPT ![d] = "preparing"] /\ UNCHANGED cmd
      /\ pidFile' = d
  BY DEF ClaimWrites, WritePid, ClientOnly, InOrder, ClaimsAlone
<1>2. Unclaimed(d) /\ \A e \in Clients : ~ Keeper(e)
  BY <1>1 DEF Unclaimed, InOrder, ClaimsAlone
<1>3. \A e \in Clients : Keeper(e)' => e = d
  BY <1>1, <1>2 DEF Keeper, Settled, TypeInv, ProcTypes
<1>4. \A e \in Clients : ~ Unclaimed(e)' /\ proc'[e] \notin {"claiming", "writing"}
  <2>1. SUFFICES ASSUME NEW e \in Clients, e # d, Unclaimed(e)' \/ proc'[e] \in {"claiming", "writing"}
                 PROVE  FALSE
    BY <1>1 DEF Unclaimed, TypeInv, ProcTypes
  <2>2. Unclaimed(e)
    BY <1>1, <1>2, <2>1 DEF Unclaimed, Keeper, TypeInv, ProcTypes
  <2> QED
    BY <1>2, <2>1, <2>2 DEF InOrder, OneAtATime
<1>5. \A u \in Cmds : cmd[u] = Idle \/ (cmd[u].at \in Starting /\ cmd[u].pid = d)
  BY <1>2 DEF InOrder, OneAtATime
<1>6. Idle.at = "idle"
  BY DEF Idle
<1>7. AimAtKeeper'
  BY <1>1, <1>3, <1>5, <1>6 DEF AimAtKeeper, Works, Starting, Without
<1> QED
  BY <1>1, <1>3, <1>4, <1>7 DEF InOrder, OneAtATime, KeeperNamed, ClaimsAlone

(* An upgrade returns, and its command with it.                             *)
LEMMA ReturnsInOrder ==
    ASSUME TypeInv, Naming, NEW ok \in BOOLEAN, UpgradeReturns(ok), ~ raced'
    PROVE  InOrder'
<1>1. InOrder /\ Onward /\ UNCHANGED <<proc, fileVars>>
  BY DEF UpgradeReturns, Naming, history, Onward
<1>2. CASE up.by \in Users
  BY <1>1, <1>2, EndsInOrder DEF UpgradeReturns, Naming, UpgraderShape, Cmds
<1>3. CASE up.by \notin Users
  BY <1>1, <1>3, OrderStays DEF UpgradeReturns
<1> QED
  BY <1>2, <1>3

(* Every step keeps things in order, as long as no two commands were active. *)
LEMMA OrderStep == TypeInv /\ Naming /\ ~ raced' /\ [Next]_vars => InOrder'
<1> SUFFICES ASSUME TypeInv, Naming, ~ raced', [Next]_vars PROVE InOrder'
  OBVIOUS
<1>1. ASSUME NEW u \in Users, NEW o \in UserOps, UserCommand(u, o) PROVE InOrder'
  <2>1. PICK p \in {"asking", "reading"} : Begin(u, o, p)
    BY <1>1 DEF UserCommand
  <2> QED
    BY <2>1, CommandBegins DEF Cmds
<1>2. ASSUME NEW u \in Users, UserUpgrade(u) PROVE InOrder'
  BY <1>2, CommandBegins DEF UserUpgrade, Cmds
<1>3. ASSUME ScriptCommand PROVE InOrder'
  BY <1>3, CommandBegins DEF ScriptCommand, Cmds
<1>4. ASSUME ScriptFails PROVE InOrder'
  BY <1>4, OrderStays DEF ScriptFails, CommandOnly, history, Naming
<1>5. ASSUME NEW u \in Cmds, ReadsPid(u) PROVE InOrder'
  <2>1. InOrder /\ cmd[u].at = "reading" /\ UNCHANGED proc
    BY <1>5 DEF ReadsPid, CommandOnly, history, Naming
  <2>2. Onward /\ \A d \in Clients : Keeper(d) => pidFile = d /\ Running(d)
    BY <2>1, BesideCommand DEF Onward, Keeper, Running, RunningPlaces, Settled, Starting
  <2>3. CASE pidFile = Torn
    BY <1>5, <2>1, <2>2, <2>3, RemovesInOrder, ProcessAssumption DEF ReadsPid, read_pid, Starting
  <2>4. CASE pidFile # Torn
    <3>1. UNCHANGED fileVars /\ PidRead = pidFile
      BY <1>5, <2>4 DEF ReadsPid, read_pid, PidRead
    <3>2. CASE \E ok : Finish(u, ok)
      BY <2>1, <2>2, <3>1, <3>2, EndsInOrder
    <3>3. CASE ~ \E ok : Finish(u, ok)
      <4> DEFINE next == AfterRead(cmd[u].op, pidFile)
                 new == [cmd[u] EXCEPT !.at = next, !.pid = pidFile]
      <4>1. cmd' = [cmd EXCEPT ![u] = new] /\ next # "idle"
        BY <1>5, <3>1, <3>3 DEF ReadsPid
      <4>2. new.at = next /\ new.pid = pidFile
        BY DEF TypeInv, CmdTypes, Commands
      <4>3. cmd[u].op \in UserOps
        BY <2>1 DEF TypeInv, CmdTypes
      <4>4. \A d \in Clients : Keeper(d) => next = "signalling"
        BY <2>2, <4>1, <4>3, RunningIsOurs, ProcessAssumption DEF AfterRead, UserOps
      <4>5. \A d \in Clients : Keeper(d)' => new.at \notin Without /\ (new.at \in Works => new.pid = d)
        BY <2>2, <3>1, <4>2, <4>4, KeepersWere DEF Without, fileVars
      <4>6. cmd[u] # Idle
        BY <2>1 DEF Idle
      <4> HIDE DEF new
      <4> QED
        BY <2>1, <2>2, <3>1, <4>1, <4>5, <4>6, CommandGoesOn DEF Starting
    <3> QED
      BY <3>2, <3>3
  <2> QED
    BY <2>3, <2>4
<1>6. ASSUME NEW u \in Cmds, RemovesStale(u) PROVE InOrder'
  <2>1. InOrder /\ cmd[u].at = "stale" /\ UNCHANGED proc
    BY <1>6 DEF RemovesStale, CommandOnly, history, Naming
  <2>2. Onward /\ \A d \in Clients : ~ Keeper(d)
    BY <2>1 DEF Onward, InOrder, AimAtKeeper, Without
  <2> QED
    BY <1>6, <2>1, <2>2, RemovesInOrder DEF RemovesStale, Starting
<1>7. ASSUME NEW u \in Cmds, NEW d \in Clients, Spawns(u, d) PROVE InOrder'
  <2>1. InOrder /\ cmd[u].at = "spawning" /\ UNCHANGED fileVars /\ proc' = [proc EXCEPT ![d] = "booting"]
    BY <1>7 DEF Spawns, history, Naming
  <2>2. cmd[u] # Idle /\ \A e \in Clients : ~ Unclaimed(e) /\ ~ Keeper(e)
    BY <2>1, BesideCommand DEF InOrder, AimAtKeeper, Starting, Without
  <2>3. pidFile # d
    BY <1>7 DEF Spawns, Naming, Known
  <2>4. \A e \in Clients : ~ Keeper(e)' /\ (Unclaimed(e)' => e = d) /\ proc'[e] # "writing"
    BY <2>1, <2>2, <2>3 DEF Keeper, Unclaimed, Settled, fileVars, TypeInv, ProcTypes
  <2>5. \A w \in Cmds : IF w = u THEN cmd'[w].at = "opening" /\ cmd'[w].pid = d ELSE cmd'[w] = Idle
    BY <1>7, <2>1, <2>2 DEF Spawns, InOrder, OneAtATime, TypeInv, CmdTypes, Commands
  <2> QED
    BY <2>4, <2>5 DEF InOrder, OneAtATime, KeeperNamed, ClaimsAlone, AimAtKeeper, Starting
<1>8. ASSUME NEW u \in Cmds, SpawnFails(u) PROVE InOrder'
  <2>1. InOrder /\ Onward
    BY <1>8 DEF SpawnFails, Naming, Onward
  <2> QED
    BY <1>8, <2>1, EndsInOrder DEF SpawnFails
<1>9. ASSUME NEW u \in Cmds, OpensPid(u) PROVE InOrder'
  BY <1>9, OpensInOrder DEF OpensPid, CommandOnly, history, Naming
<1>10. ASSUME NEW u \in Cmds, WritesPid(u) PROVE InOrder'
  BY <1>10, WritesInOrder DEF WritesPid, CommandOnly, history, Naming
<1>11. ASSUME NEW u \in Cmds, StartReturns(u) PROVE InOrder'
  <2>1. InOrder /\ cmd[u].at = "waiting"
    BY <1>11 DEF StartReturns, history, Naming
  <2>2. Onward
    BY <1>11 DEF StartReturns, Onward
  <2>3. CASE is_process_alive(cmd[u].pid)
    BY <1>11, <2>1, <2>2, <2>3, EndsInOrder DEF StartReturns
  <2>4. CASE ~ is_process_alive(cmd[u].pid)
    <3>1. cmd[u] # Idle /\ remove_pid /\ cmd' = [cmd EXCEPT ![u] = Idle]
      BY <1>11, <2>1, <2>4 DEF StartReturns, Finish, Idle
    <3>2. \A d \in Clients : Keeper(d) \/ Unclaimed(d) => cmd[u].pid = d
      BY <2>1, <3>1 DEF InOrder, OneAtATime, AimAtKeeper, Works, Starting
    <3>3. \A d \in Clients : ~ Keeper(d) /\ ~ Unclaimed(d)
      BY <2>4, <3>2 DEF is_process_alive, Keeper, Unclaimed, Settled
    <3> QED
      BY <2>1, <2>2, <3>1, <3>3, CommandRemoves
  <2> QED
    BY <2>3, <2>4
<1>12. ASSUME NEW u \in Cmds, Signals(u) PROVE InOrder'
  <2>1. InOrder /\ cmd[u].at = "signalling" /\ cmd[u].pid \in Clients \cup {NoPid}
    BY <1>12 DEF Signals, history, Naming, TypeInv, CmdTypes, Commands
  <2>2. \A d \in Clients : Keeper(d) => cmd[u].pid = d /\ Running(d)
    BY <2>1 DEF InOrder, AimAtKeeper, Works, Starting, Keeper, Settled, Running, RunningPlaces
  <2>3. Onward
    BY <1>12, <2>1, TerminatingIsOnward DEF Signals, Onward
  <2>4. CASE GoTo(u, "polling") /\ UNCHANGED fileVars
    <3>1. \A d \in Clients : Keeper(d)' => cmd[u].pid = d
      BY <2>2, <2>3, <2>4, KeepersWere DEF fileVars
    <3> QED
      BY <2>1, <2>3, <2>4, <3>1, GoesToPlace DEF Without, Starting
  <2>5. CASE Finish(u, FALSE) /\ remove_pid /\ ~ is_process_alive(cmd[u].pid)
    <3>1. \A d \in Clients : ~ Keeper(d)
      BY <2>2, <2>5 DEF is_process_alive, Running, RunningPlaces
    <3> QED
      BY <2>1, <2>3, <2>5, <3>1, RemovesInOrder DEF Starting
  <2> QED
    BY <1>12, <2>4, <2>5 DEF Signals
<1>13. ASSUME NEW u \in Cmds, SeesItGone(u) PROVE InOrder'
  <2>1. InOrder /\ cmd[u].at = "polling" /\ UNCHANGED <<proc, fileVars>>
    BY <1>13 DEF SeesItGone, CommandOnly, history, Naming
  <2>2. \A d \in Clients : Keeper(d) => cmd[u].pid = d /\ Running(d)
    BY <2>1 DEF InOrder, AimAtKeeper, Works, Starting, Keeper, Settled, Running, RunningPlaces
  <2>3. Onward /\ \A d \in Clients : ~ Keeper(d)'
    BY <1>13, <2>1, <2>2, KeepersWere DEF SeesItGone, Onward, is_process_alive, Running, RunningPlaces, fileVars
  <2> QED
    BY <1>13, <2>1, <2>3, GoesToPlace DEF SeesItGone, Starting
<1>14. ASSUME NEW u \in Cmds, WaitedEnough(u) PROVE InOrder'
  <2>1. InOrder /\ cmd[u].at = "polling" /\ UNCHANGED <<proc, fileVars>>
    BY <1>14 DEF WaitedEnough, CommandOnly, history, Naming
  <2>2. \A d \in Clients : Keeper(d) => cmd[u].pid = d /\ Running(d)
    BY <2>1 DEF InOrder, AimAtKeeper, Works, Starting, Keeper, Settled, Running, RunningPlaces
  <2>3. Onward /\ \A d \in Clients : Keeper(d)' => cmd[u].pid = d /\ is_our_process(d)
    BY <2>1, <2>2, KeepersWere, RunningIsOurs DEF Onward, fileVars
  <2>4. PICK p : GoTo(u, p) /\ (is_our_process(cmd[u].pid) => p = "killing")
    BY <1>14 DEF WaitedEnough
  <2> QED
    BY <2>1, <2>3, <2>4, GoesToPlace DEF Starting, Without
<1>15. ASSUME NEW u \in Cmds, Kills(u) PROVE InOrder'
  <2>1. InOrder /\ cmd[u].at = "killing" /\ UNCHANGED fileVars /\ cmd[u].pid \in Clients \cup {NoPid}
    BY <1>15 DEF Kills, history, Naming, TypeInv, CmdTypes, Commands
  <2>2. \A d \in Clients : Keeper(d) => cmd[u].pid = d /\ Running(d)
    BY <2>1 DEF InOrder, AimAtKeeper, Works, Starting, Keeper, Settled, Running, RunningPlaces
  <2>3. Onward
    BY <1>15, <2>1, EndingIsOnward DEF Kills, Onward
  <2>4. \A d \in Clients : ~ Keeper(d)'
    <3>1. SUFFICES ASSUME NEW d \in Clients, Keeper(d)' PROVE FALSE
      OBVIOUS
    <3>2. cmd[u].pid = d /\ Running(d)
      BY <2>1, <2>2, <2>3, <3>1, KeepersWere DEF fileVars
    <3>3. Dies(d)
      BY <1>15, <3>2 DEF Kills, is_process_alive, Running, RunningPlaces
    <3> QED
      BY <3>1, <3>3, EndingIsOnward DEF Keeper, Settled
  <2> QED
    BY <1>15, <2>1, <2>3, <2>4, GoesToPlace DEF Kills, Starting
<1>16. ASSUME NEW u \in Cmds, Removes(u) PROVE InOrder'
  <2>1. InOrder /\ cmd[u].at = "removing" /\ UNCHANGED proc
    BY <1>16 DEF Removes, CommandOnly, history, Naming
  <2>2. Onward /\ \A d \in Clients : ~ Keeper(d)
    BY <2>1 DEF Onward, InOrder, AimAtKeeper, Without
  <2> QED
    BY <1>16, <2>1, <2>2, RemovesInOrder DEF Removes, Starting
<1>17. ASSUME NEW u \in Cmds, Confirms(u) PROVE InOrder'
  <2>1. InOrder /\ Onward /\ UNCHANGED fileVars
    BY <1>17 DEF Confirms, history, Naming, Onward
  <2> QED
    BY <1>17, <2>1, GoesToPlace DEF Confirms, Starting, Works, Without
<1>18. ASSUME NEW u \in Cmds, Declines(u) PROVE InOrder'
  <2>1. InOrder /\ Onward /\ UNCHANGED fileVars
    BY <1>18 DEF Declines, CommandOnly, history, Naming, Onward
  <2> QED
    BY <1>18, <2>1, GoesToPlace DEF Declines, Starting, Works, Without
<1>18a. ASSUME NEW u \in Cmds, UninstallFails(u) PROVE InOrder'
  <2>1. InOrder /\ Onward
    BY <1>18a DEF UninstallFails, CommandOnly, history, Naming, Onward
  <2> QED
    BY <1>18a, <2>1, EndsInOrder DEF UninstallFails
<1>19. ASSUME NEW u \in Cmds, Wipes(u) PROVE InOrder'
  <2>1. InOrder /\ cmd[u].at = "wiping" /\ UNCHANGED proc
    BY <1>19 DEF Wipes, history, Naming
  <2>2. Onward /\ \A d \in Clients : ~ Keeper(d)
    BY <2>1 DEF Onward, InOrder, AimAtKeeper, Without
  <2> QED
    BY <1>19, <2>1, <2>2, RemovesInOrder DEF Wipes, Starting
<1>20. ASSUME NEW d \in Clients, Foreground(d) PROVE InOrder'
  <2>1. InOrder /\ ~ Busy
    BY <1>20, BeginsInOrder DEF Foreground
  <2>2. UNCHANGED <<fileVars, cmd>> /\ proc' = [proc EXCEPT ![d] = "booting"]
    BY <1>20 DEF Foreground
  <2>3. pidFile # d
    BY <1>20 DEF Foreground, Naming, Known
  <2>4. \A e \in Clients : (Keeper(e)' => Keeper(e)) /\ (Unclaimed(e)' => e = d)
    BY <2>1, <2>2, <2>3 DEF Keeper, Unclaimed, Settled, Busy, fileVars, TypeInv, ProcTypes
  <2>5. \A e \in Clients : proc'[e] \notin {"claiming", "writing"}
    BY <2>1, <2>2 DEF Unclaimed, Busy, TypeInv, ProcTypes
  <2>6. \A w \in Cmds : cmd'[w] = Idle
    BY <2>1, <2>2 DEF Busy
  <2>7. KeeperNamed' /\ AimAtKeeper'
    BY <2>1, <2>2, <2>4 DEF InOrder, KeeperNamed, AimAtKeeper, BeingNamed, fileVars
  <2>8. OneAtATime'
    BY <2>4, <2>6 DEF OneAtATime
  <2> QED
    BY <2>5, <2>7, <2>8 DEF InOrder, ClaimsAlone
<1>21. ASSUME NEW d \in Clients, Boots(d) PROVE InOrder'
  <2>1. InOrder /\ proc[d] = "booting" /\ UNCHANGED cmd /\ read_pid
    BY <1>21 DEF Boots, ClientOnly, Naming
  <2>2. CASE PidRead = d \/ is_our_process(PidRead)
    <3>1. UNCHANGED fileVars /\ PidRead = pidFile
      BY <2>1, <2>2, ProcessAssumption DEF PidRead, read_pid, is_our_process
    <3>2. \/ PidRead = d /\ proc' = [proc EXCEPT ![d] = "preparing"]
          \/ proc' = [proc EXCEPT ![d] = Ended(d)]
      BY <1>21, <2>2 DEF Boots
    <3>3. Onward /\ proc'[d] # "writing"
      BY <2>1, <3>1, <3>2 DEF Onward, Keeper, Settled, Ended, TypeInv, ProcTypes
    <3> QED
      BY <2>1, <3>1, <3>3, ProcessGoesOn DEF fileVars
  <2>3. CASE ~ (PidRead = d \/ is_our_process(PidRead))
    BY <1>21, <2>1, <2>3, ClaimingInOrder DEF Boots
  <2> QED
    BY <2>2, <2>3
<1>22. ASSUME NEW d \in Clients, ClaimOpens(d) PROVE InOrder'
  BY <1>22, ClaimOpensInOrder DEF ClaimOpens, ClientOnly, Naming
<1>23. ASSUME NEW d \in Clients, ClaimWrites(d) PROVE InOrder'
  BY <1>23, ClaimWritesInOrder DEF ClaimWrites, ClientOnly, Naming
<1>24. ASSUME NEW d \in Clients, Binds(d) PROVE InOrder'
  <2>1. InOrder /\ UNCHANGED <<fileVars, cmd>>
    BY <1>24 DEF Binds, ClientOnly, Naming
  <2>2. Onward /\ proc'[d] # "writing"
    BY <1>24 DEF Binds, Onward, Keeper, Settled, TypeInv, ProcTypes
  <2> QED
    BY <2>1, <2>2, ProcessGoesOn DEF fileVars
<1>25. ASSUME NEW d \in Clients, BindFails(d) PROVE InOrder'
  <2>1. InOrder /\ UNCHANGED <<fileVars, cmd>>
    BY <1>25 DEF BindFails, ClientOnly, Naming
  <2>2. Onward /\ proc'[d] # "writing"
    BY <1>25 DEF BindFails, Onward, Keeper, Settled, TypeInv, ProcTypes
  <2> QED
    BY <2>1, <2>2, ProcessGoesOn DEF fileVars
<1>26. ASSUME NEW d \in Clients, FailedExit(d) PROVE InOrder'
  <2>1. InOrder /\ remove_pid /\ UNCHANGED cmd /\ proc[d] \in Settled
    BY <1>26 DEF FailedExit, ClientOnly, Naming, Settled
  <2>2. Ended(d) \in {"zombie", "gone"} /\ proc' = [proc EXCEPT ![d] = Ended(d)]
    BY <1>26 DEF FailedExit, Dies, Ended
  <2> QED
    BY <2>1, <2>2, KeeperRemoves
<1>27. ASSUME NEW d \in Clients, SpawnsScript(d) PROVE InOrder'
  <2>1. InOrder /\ UNCHANGED <<fileVars, cmd>> /\ proc[d] \in {"serving", "draining"}
    BY <1>27 DEF SpawnsScript, Naming, UpgraderShape
  <2>2. Onward /\ proc'[d] # "writing"
    BY <1>27, <2>1 DEF SpawnsScript, Onward, Keeper, Settled, TypeInv, ProcTypes
  <2> QED
    BY <2>1, <2>2, ProcessGoesOn DEF fileVars
<1>28. ASSUME NEW d \in Clients, Exits(d) PROVE InOrder'
  <2>1. InOrder /\ UNCHANGED <<pidFile, cmd>> /\ opened' \in {opened, opened \ {d}}
    BY <1>28 DEF Exits, ClientOnly, fileVars, Naming
  <2>2. Onward /\ proc'[d] # "writing"
    BY <1>28, EndingIsOnward DEF Exits
  <2> QED
    BY <2>1, <2>2, ProcessGoesOn
<1>29. ASSUME NEW d \in Clients, DrainEnds(d) PROVE InOrder'
  <2>1. InOrder /\ remove_pid /\ UNCHANGED cmd /\ proc[d] \in Settled
    BY <1>29 DEF DrainEnds, ClientOnly, Naming, Settled
  <2>2. Ended(d) \in {"zombie", "gone"} /\ proc' = [proc EXCEPT ![d] = Ended(d)]
    BY <1>29 DEF DrainEnds, Dies, Ended
  <2> QED
    BY <2>1, <2>2, KeeperRemoves
<1>30. ASSUME NEW d \in Clients, Interrupted(d) PROVE InOrder'
  <2>1. InOrder /\ UNCHANGED <<fileVars, cmd>>
    BY <1>30 DEF Interrupted, ClientOnly, Naming
  <2>2. Onward
    BY <1>30, TerminatingIsOnward DEF Interrupted
  <2>3. proc'[d] # "writing"
    BY <1>30 DEF Interrupted, Terminate, Dies, Ended, RunningPlaces, TypeInv, ProcTypes
  <2> QED
    BY <2>1, <2>2, <2>3, ProcessGoesOn DEF fileVars
<1>31. ASSUME NEW d \in Clients, Crashes(d) PROVE InOrder'
  <2>1. InOrder /\ UNCHANGED <<pidFile, cmd>> /\ opened' \in {opened, opened \ {d}}
    BY <1>31 DEF Crashes, ClientOnly, fileVars, Naming
  <2>2. Onward /\ proc'[d] # "writing"
    BY <1>31, EndingIsOnward DEF Crashes
  <2> QED
    BY <2>1, <2>2, ProcessGoesOn
<1>32. ASSUME NEW d \in Clients, Reused(d) PROVE InOrder'
  <2>1. InOrder /\ UNCHANGED <<fileVars, cmd>>
    BY <1>32 DEF Reused, ClientOnly, Naming
  <2>2. Onward /\ proc'[d] # "writing"
    BY <1>32 DEF Reused, Onward, Keeper, Settled, TypeInv, ProcTypes
  <2> QED
    BY <2>1, <2>2, ProcessGoesOn DEF fileVars
<1>33. ASSUME NEW d \in Clients, WebUpgrade(d) PROVE InOrder'
  BY <1>33, OrderStays DEF WebUpgrade, ClientOnly, Naming
<1>34. ASSUME NothingToInstall PROVE InOrder'
  <2>1. PICK ok \in BOOLEAN : UpgradeReturns(ok)
    BY <1>34 DEF NothingToInstall
  <2> QED
    BY <2>1, ReturnsInOrder
<1>35. ASSUME RemovesOld PROVE InOrder'
  BY <1>35, OrderStays DEF RemovesOld, UpgradeOnly, history, Naming
<1>36. ASSUME Copies PROVE InOrder'
  BY <1>36, OrderStays DEF Copies, UpgradeOnly, history, Naming
<1>37. ASSUME CopyFails PROVE InOrder'
  <2>1. PICK ok \in BOOLEAN : UpgradeReturns(ok)
    BY <1>37 DEF CopyFails
  <2> QED
    BY <2>1, ReturnsInOrder
<1>38. ASSUME Installs PROVE InOrder'
  <2>1. PICK ok \in BOOLEAN : UpgradeReturns(ok)
    BY <1>38 DEF Installs
  <2> QED
    BY <2>1, ReturnsInOrder
<1>39. CASE UNCHANGED vars
  BY <1>39, OrderStays DEF vars, history, Naming
<1> QED
  BY <1>1, <1>2, <1>3, <1>4, <1>5, <1>6, <1>7, <1>8, <1>9, <1>10, <1>11, <1>12,
     <1>13, <1>14, <1>15, <1>16, <1>17, <1>18, <1>18a, <1>19, <1>20, <1>21, <1>22,
     <1>23, <1>24, <1>25, <1>26, <1>27, <1>28, <1>29, <1>30, <1>31, <1>32,
     <1>33, <1>34, <1>35, <1>36, <1>37, <1>38, <1>39 DEF Next, CommandStep,
     cmd_foreground, upgrade

-----------------------------------------------------------------------------
(* The inductive invariant.                                                 *)
Inv == TypeInv /\ AimShape /\ BinaryShape /\ Naming

(* The initial states satisfy the invariant.                                *)
LEMMA InitInv == Init => Inv
<1> SUFFICES ASSUME Init PROVE Inv
  OBVIOUS
<1>1. ProcTypes /\ FileTypes /\ FlagTypes
  BY DEF Init, ProcTypes, FileTypes, FlagTypes
<1>2. CmdTypes
  BY DEF Init, CmdTypes, Commands, CmdPlaces, Idle
<1>3. InstallTypes /\ BinaryShape
  BY DEF Init, InstallTypes, Upgrades, BinaryShape, BinaryLostOnlyInTheCopy, NoUpgrade
<1>4. AimShape
  BY DEF Init, AimShape, Aimed, Idle
<1>5. Known /\ UpgraderShape
  BY ProcessAssumption DEF Init, Known, UpgraderShape, Idle, NoUpgrade, Cmds
<1>6. InOrder
  BY <1>1, QuietIsInOrder, <1>2, <1>3 DEF Init, TypeInv, Busy, Unclaimed, Running, RunningPlaces
<1> QED
  BY <1>1, <1>2, <1>3, <1>4, <1>5, <1>6 DEF Inv, TypeInv, Naming

(* The inductive invariant is one.                                          *)
THEOREM Invariance == Spec => []Inv
<1>1. Naming /\ TypeInv /\ [Next]_vars => Naming'
  BY KnownStep, UpgraderStep, OrderStep DEF Naming
<1>2. Inv /\ [Next]_vars => Inv'
  BY <1>1, TypeStep, AimStep, BinaryStep DEF Inv
<1> QED
  BY <1>2, InitInv, PTL DEF Spec

(* The variables keep their types for any clients and terminals: a command  *)
(* past its start has an operation, a PID or none, and a place.             *)
THEOREM TypeCorrect == Spec => []TypeOK
<1>1. Inv => TypeOK
  BY DEF Inv, TypeInv, TypeOK, ProcTypes, FileTypes, CmdTypes, Commands, InstallTypes, Upgrades, FlagTypes
<1> QED
  BY <1>1, Invariance, PTL

(* Only an uninstall and an end in the middle of the copy cost the binary,  *)
(* whoever upgrades (self_update.rs upgrade).                               *)
THEOREM BinaryOnlyLostInTheCopy == Spec => []BinaryLostOnlyInTheCopy
<1>1. Inv => BinaryLostOnlyInTheCopy
  BY DEF Inv, BinaryShape
<1> QED
  BY <1>1, Invariance, PTL

(* Where there is a /proc, the only process that is not a client and that a *)
(* command can end is one that got its PID after is_our_process had looked  *)
(* and before the signal: not by a stale PID file, and not by a PID reused  *)
(* during the wait for the client's end (main.rs is_our_process and its     *)
(* callers).                                                                *)
THEOREM OthersAreUntouched == Spec => ForeignProcessesUntouched
<1>1. Inv /\ [Next]_vars =>
          [\A d \in Clients : proc[d] = "other" /\ proc'[d] # "other" =>
              ~ procfs \/ d \in snatched]_vars
  BY AimStep DEF Inv, OthersStay
<1> QED
  BY <1>1, Invariance, PTL DEF Spec, ForeignProcessesUntouched

(* As long as no two commands were active at once, client.pid names the     *)
(* client that runs, or start is about to write its name there: over        *)
(* crashes, failed binds, stale files, reused PIDs and self-restarts        *)
(* (main.rs read_pid, write_pid, remove_pid and their callers).             *)
THEOREM TheFileNamesTheClient == Spec => []FileNamesTheClient
<1>1. Inv => FileNamesTheClient
  BY DEF Inv, Naming, InOrder, KeeperNamed, FileNamesTheClient, Established, Keeper, Settled
<1> QED
  BY <1>1, Invariance, PTL
=============================================================================
