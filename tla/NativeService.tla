--------------------------- MODULE NativeService ----------------------------
(***************************************************************************)
(* internal/service: installing, starting and removing the daemon as a     *)
(* systemd unit, a launchd daemon or a Windows service, and the rollback   *)
(* of an installation that failed half way.                                *)
(*                                                                         *)
(* A transaction is the list of commands it still has to give the service  *)
(* manager.  A command that stops the process first signals it and ends    *)
(* when the process is gone.  Any command may fail, before or after it     *)
(* took effect, at most MaxFaults times; a command whose precondition is   *)
(* false fails on its own.                                                 *)
(***************************************************************************)
EXTENDS Daemon, Sequences

CONSTANTS
    Platforms,      \* subset of {"systemd", "launchd", "scm"} to explore
    Definitions,    \* contents of a unit file, a plist or a registration
    None,           \* no file, nothing loaded
    MaxFaults       \* bound: commands and files that fail

ASSUME ServiceAssumption ==
    /\ Platforms \subseteq {"systemd", "launchd", "scm"}
    /\ None \notin Definitions /\ MaxFaults \in Nat

VARIABLES
    platform,   \* the service manager of this host
    svc,        \* what the manager holds: unit file, loaded definition, autostart, recovery, intent to run
    tx,         \* the transaction under way
    faults      \* failures so far

serviceVars == <<platform, svc, tx, faults>>

Ops      == {"none", "install", "start", "uninstall"}
Commands == {"write", "restore", "remove", "reload", "enable", "disable", "start", "restart", "stop",
             "isActive", "bootstrap", "bootout", "cleanup", "kickstart", "probe", "settle", "settleNew",
             "gone", "create", "config", "recover", "ensure", "delete", "restoreConfig", "restoreRecovery"}
Services == [unit: Definitions \union {None}, loaded: Definitions \union {None}, enabled: BOOLEAN,
             recovery: BOOLEAN, wanted: BOOLEAN]
Blank    == [unit |-> None, loaded |-> None, enabled |-> FALSE, recovery |-> FALSE, wanted |-> FALSE]

NoTx(result, problems, tainted) ==
    [op |-> "none", todo |-> <<>>, def |-> None, prev |-> Blank, known |-> FALSE, active |-> FALSE,
     rolling |-> FALSE, problems |-> problems, blind |-> FALSE, seen |-> "gone", result |-> result,
     tainted |-> tainted]

ServiceTypeOK ==
    /\ platform \in Platforms /\ svc \in Services /\ faults \in 0..MaxFaults
    /\ tx.op \in Ops /\ tx.todo \in Seq(Commands) /\ tx.prev \in Services
    /\ tx.seen \in {"gone", "loaded", "unknown"} /\ tx.result \in {"none", "ok", "failed"}

(* A host without the service, or with one installed earlier.              *)
ServiceInit ==
    /\ platform \in Platforms
    /\ \E d \in Definitions \union {None}, e, r, w \in BOOLEAN :
          /\ d = None => ~e /\ ~r /\ ~w
          /\ platform = "launchd" => ~e /\ w = (d # None)
          /\ r => platform = "scm"
          /\ svc = [unit |-> IF platform = "scm" THEN None ELSE d, loaded |-> d, enabled |-> e,
                    recovery |-> r, wanted |-> w]
    /\ tx = NoTx("none", FALSE, FALSE)
    /\ faults = 0

Running == daemon.phase # "down"
Active  == Running /\ ~daemon.term      \* what is-active and the SCM's state say
-----------------------------------------------------------------------------
(* The commands an installation gives, in order.                           *)
installSystemdUnit   == <<"write", "reload", "enable", "restart", "isActive">>
installLaunchdDaemon == IF svc.loaded # None THEN <<"write", "bootout", "bootstrap">> ELSE <<"write", "bootstrap">>
installWindows       == IF svc.loaded = None THEN <<"create", "recover", "ensure">>
                                             ELSE <<"stop", "config", "recover", "ensure">>

installSteps ==
    CASE platform = "systemd" -> installSystemdUnit
      [] platform = "launchd" -> installLaunchdDaemon
      [] platform = "scm"     -> installWindows

(* rollbackSystemdInstall after command c failed: stop what may run, take  *)
(* the links back, then the unit file and what was known of its state.     *)
rollbackUnit ==
    <<"restore", "reload">> \o (IF tx.known THEN <<IF tx.prev.enabled THEN "enable" ELSE "disable",
                                                   IF tx.active THEN "restart" ELSE "stop">> ELSE <<>>)
rollbackLinks(c) ==
    IF c \in {"enable", "restart", "isActive"} /\ ~tx.prev.enabled THEN <<"disable">> \o rollbackUnit ELSE rollbackUnit

rollbackSystemdInstall_LeavesLinks(c) ==
    IF tx.active \/ c \in {"restart", "isActive"} THEN <<"stop">> \o rollbackUnit ELSE rollbackUnit
rollbackSystemdInstall(c) ==
    IF tx.active \/ c \in {"restart", "isActive"} THEN <<"stop">> \o rollbackLinks(c) ELSE rollbackLinks(c)

(* rollbackLaunchdInstall: a failed bootstrap is cleaned up with a second  *)
(* bootout, a failed bootout is only looked at.                            *)
rollbackLaunchdInstall(c) ==
    IF c = "bootstrap" THEN <<"cleanup", "restore", "settleNew">> ELSE <<"probe", "restore", "settle">>

(* rollbackWindowsInstall and restoreWindowsService.                       *)
rollbackWindowsInstall(c) ==
    IF tx.prev.loaded = None THEN <<"stop", "delete">>
    ELSE IF tx.active THEN <<"stop", "restoreConfig", "restoreRecovery", "ensure">>
                      ELSE <<"stop", "restoreConfig", "restoreRecovery">>

(* A failed write or create has changed nothing.                           *)
rollbackInstall(c) ==
    IF c \in {"write", "create"} THEN <<>>
    ELSE CASE platform = "systemd" -> rollbackSystemdInstall(c)
           [] platform = "launchd" -> rollbackLaunchdInstall(c)
           [] platform = "scm"     -> rollbackWindowsInstall(c)
-----------------------------------------------------------------------------
StopCommands == {"stop", "restart", "bootout", "cleanup", "kickstart"}

(* When the manager can carry a command out.                               *)
Possible(c) ==
    CASE c = "enable" -> svc.unit # None
      [] c \in {"start", "restart", "kickstart", "ensure", "bootout", "cleanup"} -> svc.loaded # None
      [] c = "stop" -> platform = "scm" \/ svc.loaded # None \/ Running
      [] c = "isActive" -> Active
      [] c = "bootstrap" -> svc.loaded = None /\ svc.unit # None
      [] c = "gone" -> svc.loaded = None
      [] c = "create" -> ~Running          \* a deleted service lives on until its process ends
      [] OTHER -> TRUE

(* What the command leaves behind.                                         *)
Effect(c) ==
    CASE c = "write"   -> [svc EXCEPT !.unit = tx.def]
      [] c = "restore" -> [svc EXCEPT !.unit = tx.prev.unit]
      [] c = "remove"  -> [svc EXCEPT !.unit = None]
      [] c = "reload"  -> [svc EXCEPT !.loaded = svc.unit]
      [] c = "enable"  -> [svc EXCEPT !.enabled = TRUE]
      [] c = "disable" -> [svc EXCEPT !.enabled = FALSE]
      [] c \in {"start", "restart", "kickstart", "ensure"} -> [svc EXCEPT !.wanted = TRUE]
      [] c = "bootstrap" -> [svc EXCEPT !.loaded = svc.unit, !.wanted = TRUE]
      [] c \in {"bootout", "cleanup"} -> [svc EXCEPT !.loaded = None]
      [] c \in {"create", "config"} -> [svc EXCEPT !.loaded = tx.def, !.enabled = TRUE]
      [] c = "recover" -> [svc EXCEPT !.recovery = TRUE]
      [] c = "delete"  -> [svc EXCEPT !.loaded = None, !.enabled = FALSE, !.recovery = FALSE, !.wanted = FALSE]
      [] c = "restoreConfig" -> [svc EXCEPT !.loaded = tx.prev.loaded, !.enabled = tx.prev.enabled]
      [] c = "restoreRecovery" -> [svc EXCEPT !.recovery = tx.prev.recovery]
      [] OTHER -> svc

(* A command over several calls or links may fail after it took effect.    *)
(* A launchd job that is still loaded after a failed bootout is kept alive *)
(* (a bootout that fails but goes on tearing the job down is left out).    *)
LateFailures == {"enable", "restart", "bootstrap", "bootout", "cleanup", "start", "recover", "config", "kickstart"}
kept == IF platform = "launchd" /\ svc.loaded # None THEN [svc EXCEPT !.wanted = TRUE] ELSE svc

Finish(result, problems) == tx' = NoTx(result, problems, tx.tainted \/ problems)

(* The rest of the list, or the end of the transaction.                    *)
Go(todo, changes) ==
    IF todo = <<>> THEN Finish(IF tx.rolling THEN "failed" ELSE "ok", changes.problems)
                   ELSE tx' = [changes EXCEPT !.todo = todo]

(* launchctl print said whether the job is loaded, or failed.              *)
probed(seen, problems) == tx' = [tx EXCEPT !.todo = Tail(@), !.seen = seen, !.problems = problems]

(* A command of a rollback failed: it is noted and the rest goes on,       *)
(* except that launchd's rollback ends at the plist.                       *)
rollbackFails(c) ==
    CASE c = "cleanup" -> tx' = [tx EXCEPT !.todo = <<"probe">> \o Tail(@)]
      [] c = "probe"   -> probed("unknown", TRUE)
      [] c = "restore" /\ platform = "launchd" -> Finish("failed", TRUE)
      [] OTHER -> Go(Tail(tx.todo), [tx EXCEPT !.problems = TRUE])

(* A command failed: an installation rolls back what it did, anything else *)
(* ends.                                                                   *)
Failed(c) ==
    \/ tx.op # "install" /\ Finish("failed", FALSE)
    \/ /\ tx.op = "install" /\ ~tx.rolling
       /\ IF rollbackInstall(c) = <<>> THEN Finish("failed", FALSE)
          ELSE tx' = [tx EXCEPT !.rolling = TRUE, !.todo = rollbackInstall(c)]
    \/ tx.op = "install" /\ tx.rolling /\ rollbackFails(c)

(* The last step of launchd's rollback: load the restored plist again, or  *)
(* report a new daemon that still holds the label.                         *)
settled(c) ==
    CASE tx.seen = "unknown" -> Finish("failed", TRUE)
      [] tx.seen = "gone" /\ tx.prev.loaded # None -> tx' = [tx EXCEPT !.todo = <<"bootstrap">>]
      [] tx.seen = "loaded" /\ c = "settleNew" -> Finish("failed", TRUE)
      [] OTHER -> Finish("failed", tx.problems)

Succeeded(c) ==
    CASE c \in {"settle", "settleNew"} -> settled(c)
      [] c = "probe" -> probed(IF svc.loaded = None THEN "gone" ELSE "loaded", tx.problems)
      [] OTHER -> Go(Tail(tx.todo), tx)

(* A stop reaches the process, and keeps the manager from restarting it.   *)
Signal ==
    /\ tx.op # "none" /\ Head(tx.todo) \in StopCommands
    /\ Possible(Head(tx.todo)) /\ (svc.wanted \/ Active)
    /\ svc' = [svc EXCEPT !.wanted = FALSE]
    /\ daemon' = [daemon EXCEPT !.term = Running]
    /\ UNCHANGED <<platform, tx, faults, statsFile, total, lost>>

(* ensure asks for a start, then waits for the process to report ready.    *)
Ready(c) == /\ c \in StopCommands => ~svc.wanted /\ ~Running
            /\ c = "ensure" => daemon.phase = "up" /\ ~daemon.term

EnsureStarts ==
    /\ tx.op # "none" /\ Head(tx.todo) = "ensure" /\ Possible("ensure") /\ ~svc.wanted /\ ~Running
    /\ svc' = [svc EXCEPT !.wanted = TRUE]
    /\ UNCHANGED <<platform, tx, faults, daemonVars>>

Command ==
    /\ tx.op # "none"
    /\ LET c == Head(tx.todo) IN
       /\ Possible(c) /\ Ready(c)
       /\ svc' = Effect(c) /\ Succeeded(c)
    /\ UNCHANGED <<platform, faults, daemonVars>>

(* The command cannot succeed, or the manager refuses it.                  *)
CommandFails ==
    /\ tx.op # "none"
    /\ LET c == Head(tx.todo) IN
       \/ ~Possible(c) /\ Failed(c) /\ UNCHANGED <<svc, faults>>
       \/ /\ c = "ensure" /\ svc.wanted /\ ~Running       \* stopped during startup
          /\ Failed(c) /\ UNCHANGED <<svc, faults>>
       \/ /\ Possible(c) /\ faults < MaxFaults /\ c \notin {"settle", "settleNew", "gone"}
          /\ faults' = faults + 1
          /\ svc' \in {kept} \union (IF c \in LateFailures /\ Ready(c) THEN {Effect(c)} ELSE {})
          /\ Failed(c)
    /\ UNCHANGED <<platform, daemonVars>>
-----------------------------------------------------------------------------
snapshotSystemdState(blind) ==
    [svc |-> IF blind THEN [svc EXCEPT !.enabled = FALSE] ELSE svc, active |-> ~blind /\ Active]

(* service.Install.  systemd's state is read with queries whose failure    *)
(* reads as "no"; launchd refuses when the daemon is loaded without its    *)
(* plist; Windows takes a snapshot or refuses.                             *)
Install(d) ==
    /\ tx.op = "none"
    /\ IF platform = "launchd" /\ svc.loaded # None /\ svc.unit = None
       THEN Finish("failed", FALSE) /\ UNCHANGED faults
       ELSE \E blind \in BOOLEAN :
            /\ blind => platform = "systemd" /\ faults < MaxFaults
            /\ faults' = IF blind THEN faults + 1 ELSE faults
            /\ LET prev == snapshotSystemdState(blind) IN
               tx' = [tx EXCEPT !.op = "install", !.todo = installSteps, !.def = d, !.problems = FALSE, !.blind = blind,
                                !.prev = prev.svc, !.active = prev.active,
                                !.known = ~blind /\ (svc.unit # None \/ svc.enabled \/ Active)]
    /\ UNCHANGED <<platform, svc, daemonVars>>

(* service.Start: a running service is left alone.                         *)
installed == IF platform = "scm" THEN svc.loaded # None ELSE svc.unit # None

startSystemdService == <<"start", "isActive">>
startLaunchdDaemon  == <<IF svc.loaded # None THEN "kickstart" ELSE "bootstrap", "isActive">>

startSteps ==
    CASE platform = "systemd" -> startSystemdService
      [] platform = "launchd" -> startLaunchdDaemon
      [] platform = "scm"     -> <<"ensure">>

Start ==
    /\ tx.op = "none"
    /\ IF ~installed THEN Finish("failed", FALSE)
       ELSE IF Active THEN Finish("ok", FALSE)
       ELSE tx' = [tx EXCEPT !.op = "start", !.todo = startSteps, !.problems = FALSE]
    /\ UNCHANGED <<platform, svc, faults, daemonVars>>

(* service.Uninstall: stop and verify, forget, remove.                     *)
uninstallSystemdService == IF Running \/ svc.wanted THEN <<"stop", "disable", "remove", "reload">>
                                                   ELSE <<"disable", "remove", "reload">>
uninstallLaunchdDaemon  == IF svc.loaded # None THEN <<"bootout", "gone", "remove">> ELSE <<"remove">>

uninstallSteps ==
    CASE platform = "systemd" -> uninstallSystemdService
      [] platform = "launchd" -> uninstallLaunchdDaemon
      [] platform = "scm"     -> <<"stop", "delete">>

nothingToRemove ==
    CASE platform = "systemd" -> svc.unit = None /\ ~Running /\ ~svc.wanted
      [] platform = "launchd" -> FALSE
      [] platform = "scm" -> svc.loaded = None

Uninstall ==
    /\ tx.op = "none"
    /\ IF nothingToRemove THEN Finish("ok", FALSE)
       ELSE tx' = [tx EXCEPT !.op = "uninstall", !.todo = uninstallSteps, !.problems = FALSE]
    /\ UNCHANGED <<platform, svc, faults, daemonVars>>

(* The manager keeps a wanted service running: Restart=on-failure,         *)
(* KeepAlive, the recovery action.                                         *)
Supervise ==
    /\ svc.wanted /\ ~Running /\ svc.loaded # None
    /\ Launch
    /\ UNCHANGED <<serviceVars, statsFile, total, lost>>

DaemonCrashes ==
    /\ faults < MaxFaults /\ (Killed \/ ShutDown(TRUE))
    /\ faults' = faults + 1
    /\ UNCHANGED <<platform, svc, tx>>

ServiceNext ==
    \/ Signal \/ EnsureStarts \/ Command \/ CommandFails \/ Supervise \/ DaemonCrashes
    \/ platform = "scm" /\ daemon.term /\ StopTimesOut /\ UNCHANGED serviceVars
    \/ DaemonNext /\ UNCHANGED serviceVars
-----------------------------------------------------------------------------
(* An installation that failed and says the previous state was restored    *)
(* has restored it: definition, autostart, recovery policy and whether the *)
(* manager keeps the daemon running (installSystemdUnit,                   *)
(* installLaunchdDaemon, platformInstall on Windows).  Left out: a         *)
(* snapshot taken while systemctl failed or while the daemon was between   *)
(* two restarts, and a definition that was not the loaded one before.      *)
FailedInstallRestores ==
    [][tx.op = "install" /\ tx'.op = "none" /\ tx'.result = "failed" /\ ~tx'.problems
       /\ ~tx.blind /\ tx.active = tx.prev.wanted
       /\ (platform = "scm" \/ tx.prev.loaded = tx.prev.unit)
       => svc' = tx.prev]_<<tx, svc>>
=============================================================================
