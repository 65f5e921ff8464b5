--------------------------- MODULE HostLifecycle ----------------------------
(***************************************************************************)
(* What the vmflow command does to a host: init writes a configuration,    *)
(* the client profile that holds its administration token and possibly the *)
(* native service; uninstall takes back what vmflow owns; update replaces  *)
(* the binary; service and the recovery screen of the terminal interface   *)
(* start and stop the daemon.  The daemon and the service manager are the  *)
(* modules Daemon and NativeService.                                       *)
(*                                                                         *)
(* One command at a time, by one operator, who between commands may keep   *)
(* files of his own in a configuration directory vmflow has not claimed,   *)
(* or name a certificate inside one it has.                                *)
(***************************************************************************)
EXTENDS NativeService, FiniteSets

CONSTANTS
    Tokens,         \* administration tokens
    MaxCommands     \* bound: commands run

VARIABLES
    host,       \* files on disk: config, marker, dir, foreign, tls per scope; profile; binary; cached
    cmd,        \* the command under way
    commands,   \* commands run so far
    recovery,   \* the recovery screen: [state, installed, running]
    destroyed   \* ghost: a file of the operator's was removed

hostVars == <<daemonVars, serviceVars, host, cmd, commands, recovery, destroyed>>

Scopes == {"system", "user"}
NoProfile == [token |-> None, scope |-> "user"]
Profiles  == [token: Tokens \union {None}, scope: Scopes]

NoCmd == [kind |-> "none", step |-> "none", scope |-> "user", token |-> None, claim |-> FALSE,
          before |-> NoProfile, had |-> None, created |-> FALSE, marked |-> FALSE, made |-> FALSE,
          committed |-> FALSE, saved |-> FALSE, torn |-> FALSE, excused |-> FALSE, items |-> {}]

TypeOK ==
    /\ DaemonTypeOK /\ ServiceTypeOK
    /\ host.config \in [Scopes -> Tokens \union {None}]
    /\ \A f \in {host.marker, host.dir, host.foreign, host.tls} : f \in [Scopes -> BOOLEAN]
    /\ host.profile \in Profiles /\ host.binary \in {"none", "old", "new"} /\ host.cached \in BOOLEAN
    /\ cmd.before \in Profiles /\ cmd.scope \in Scopes /\ commands \in 0..MaxCommands

HostInit ==
    /\ DaemonInit /\ ServiceInit
    /\ \E dirs \in SUBSET Scopes :
          host = [config |-> [s \in Scopes |-> None], marker |-> [s \in Scopes |-> FALSE],
                  dir |-> [s \in Scopes |-> s \in dirs], foreign |-> [s \in Scopes |-> s \in dirs],
                  tls |-> [s \in Scopes |-> FALSE], profile |-> NoProfile, binary |-> "old", cached |-> FALSE]
    /\ cmd = NoCmd /\ commands = 0 /\ destroyed = FALSE
    /\ recovery = [state |-> "idle", installed |-> FALSE, running |-> FALSE]

Idling  == cmd.kind = "none" /\ tx.op = "none"
Begins  == Idling /\ commands < MaxCommands /\ commands' = commands + 1
Fault   == faults < MaxFaults /\ faults' = faults + 1
Step(s) == cmd' = [cmd EXCEPT !.step = s]
Ends    == cmd' = NoCmd
Same(v) == UNCHANGED v
Quiet   == UNCHANGED <<daemonVars, platform, svc, tx, commands, recovery, destroyed>>
-----------------------------------------------------------------------------
(* vmflow init.  executeInit refuses while a daemon answers on the control *)
(* address, keeps the administration token of an existing configuration or *)
(* makes one, and for a user configuration looks first whether the         *)
(* directory exists: only one that init creates may be claimed.            *)
resolveInitDestination(mode) == IF mode = "service" THEN "system" ELSE "user"

setupAuth(s) == IF host.config[s] # None THEN {host.config[s]}
                ELSE Tokens \ ({host.profile.token} \union {host.config[t] : t \in Scopes})

executeInit(mode) ==
    /\ Begins /\ daemon.phase # "up" /\ host.binary # "none"
    /\ LET s == resolveInitDestination(mode) IN
       \E t \in setupAuth(s) :
          cmd' = [NoCmd EXCEPT !.kind = "init", !.step = "profile", !.scope = s, !.token = t,
                               !.claim = ~host.dir[s], !.before = host.profile, !.had = host.config[s]]
    /\ UNCHANGED <<daemonVars, serviceVars, host, recovery, destroyed>>

(* replaceClientProfile keeps the old profile for later.  The profile      *)
(* lives in the user's configuration directory and creates it.  A Save     *)
(* that fails at the directory sync has replaced the file and gives no way *)
(* back.                                                                   *)
withProfile(p) == [host EXCEPT !.profile = p, !.dir["user"] = TRUE]

replaceClientProfile ==
    /\ cmd.kind = "init" /\ cmd.step = "profile"
    /\ LET new == withProfile([token |-> cmd.token, scope |-> cmd.scope]) IN
       \/ host' = new /\ Step(IF cmd.scope = "user" THEN "save" ELSE "elevate") /\ Same(faults)
       \/ Fault /\ host' = host /\ Ends
       \/ Fault /\ host' = new /\ Step("unsynced")
    /\ Quiet

ProfileUnsynced == cmd.step = "unsynced" /\ Ends /\ Same(<<host, faults>>) /\ Quiet

(* sudo, or the administrator prompt, is refused.                          *)
elevate ==
    /\ cmd.step = "elevate"
    /\ Step("save") \/ Step("restore")
    /\ Same(<<host, faults>>) /\ Quiet

(* What init created is taken back one by one: the configuration, the      *)
(* marker, the directory.  left is what could not be removed; a directory  *)
(* that is not empty stays as well.  On launchd and Windows the daemon     *)
(* keeps its statistics beside the configuration, and the directory may    *)
(* stay for that alone.                                                    *)
rollbackManagedConfig(h, c, left) ==
    LET s == c.scope IN
    [h EXCEPT !.config[s] = IF "config" \in left THEN @ ELSE None,
              !.marker[s] = IF c.marked /\ "marker" \notin left THEN FALSE ELSE @,
              !.dir[s] = IF c.made /\ left = {} THEN FALSE ELSE @]

Leftovers(c) == SUBSET ({"config"} \union (IF c.marked THEN {"marker"} ELSE {}) \union (IF c.made THEN {"dir"} ELSE {}))
unremovable  == IF platform = "systemd" THEN {} ELSE {"dir"}

(* Gone, and yet reported as an error: the caller takes it for saved.      *)
Tears(left) == left # {} /\ "config" \notin left

(* saveManagedSetupConfigWithClaim: the configuration, then the ownership  *)
(* marker of a directory this init created.  A marker that cannot be       *)
(* written or read takes a new configuration back; an old configuration,   *)
(* or a new one whose removal reports an error, counts as committed.       *)
createSetupConfig(s) == [host EXCEPT !.config[s] = cmd.token, !.dir[s] = TRUE]

SaveSetupConfig(s) ==
    IF host.config[s] = None THEN createSetupConfig(s) ELSE [host EXCEPT !.config[s] = cmd.token]

claimsDirectory_Always(d, m) == TRUE
claimsDirectory(d, m) == d /\ ~m

saveManagedSetupConfig ==
    /\ cmd.kind = "init" /\ cmd.step = "save"
    /\ LET s == cmd.scope
           claim == IF s = "user" THEN cmd.claim ELSE ~host.dir[s]
           saved == SaveSetupConfig(s)
           marks == claimsDirectory(claim, host.marker[s])
           done == [cmd EXCEPT !.created = host.config[s] = None, !.marked = marks, !.made = ~host.dir[s]]
       IN  \/ /\ host' = IF marks THEN [saved EXCEPT !.marker[s] = TRUE] ELSE saved
              /\ cmd' = [done EXCEPT !.step = IF s = "user" THEN "done" ELSE "install"]
              /\ Same(faults)
           \/ Fault /\ host' \in {host, [host EXCEPT !.dir[s] = TRUE]} /\ Step("restore")   \* not written
           \/ Fault /\ host' = saved /\ cmd' = [cmd EXCEPT !.step = "committed", !.committed = TRUE]
           \/ /\ Fault /\ done.created                                          \* the marker failed
              /\ LET unmarked == [done EXCEPT !.marked = FALSE] IN
                 \E left \in Leftovers(unmarked) :
                    /\ host' = rollbackManagedConfig(saved, unmarked, left)
                    /\ cmd' = [cmd EXCEPT !.step = IF left = {} THEN "restore" ELSE "committed",
                                          !.committed = left # {}, !.torn = Tears(left)]
    /\ Quiet

(* An error with the configuration on disk: the administrator helper       *)
(* reports it saved and the profile stays; the user path returns it as a   *)
(* plain error, and runInit restores the profile after any plain error.    *)
afterCommitted(s) == IF s = "user" THEN "restore" ELSE "done"

initServiceConfigSaved ==
    /\ cmd.step = "committed"
    /\ cmd' = [cmd EXCEPT !.step = afterCommitted(cmd.scope), !.saved = cmd.scope = "system"]
    /\ Same(<<host, faults>>) /\ Quiet

(* An installation needs a binary and a configuration that loads.          *)
validateInstall == host.binary # "none" /\ host.config["system"] # None

(* The helper installs the service for the configuration just saved.       *)
installInitSystemService ==
    /\ cmd.step = "install" /\ tx.op = "none" /\ validateInstall
    /\ \E d \in Definitions : Install(d)
    /\ Step("installing")
    /\ UNCHANGED <<host, commands, recovery, destroyed>>

(* A failed installation takes back a configuration init created, and with *)
(* it the profile; a configuration that existed stays, with its profile,   *)
(* and so does the profile when the rollback reports an error.             *)
unsavedOrSaved_KeepsProfile(left) == "done"
unsavedOrSaved(left) == IF left = {} THEN "restore" ELSE "done"

ServiceInstalled ==
    /\ cmd.kind = "init" /\ cmd.step = "installing" /\ tx.op = "none"
    /\ \/ tx.result = "ok" /\ Step("done") /\ Same(<<host, faults>>)
       \/ /\ tx.result = "failed" /\ ~cmd.created /\ Same(<<host, faults>>)
          /\ cmd' = [cmd EXCEPT !.step = "done", !.saved = TRUE]
       \/ /\ tx.result = "failed" /\ cmd.created
          /\ \E left \in Leftovers(cmd) :
                /\ host' = rollbackManagedConfig(host, cmd, left)
                /\ cmd' = [cmd EXCEPT !.step = unsavedOrSaved(left), !.saved = left # {}, !.torn = Tears(left)]
                /\ IF left \subseteq unremovable THEN Same(faults) ELSE Fault
    /\ Quiet

(* The closure replaceClientProfile returned: the old profile, or none.    *)
restoreProfile ==
    /\ cmd.kind = "init" /\ cmd.step = "restore"
    /\ \/ host' = [host EXCEPT !.profile = cmd.before] /\ Step("done") /\ Same(faults)
       \/ Fault /\ Same(host) /\ cmd' = [cmd EXCEPT !.step = "done", !.excused = TRUE]
    /\ Quiet

InitDone == cmd.kind = "init" /\ cmd.step = "done" /\ Ends /\ Same(<<host, faults>>) /\ Quiet
-----------------------------------------------------------------------------
(* vmflow uninstall.  Plan lists the service, the claimed directories that *)
(* hold no certificate the configuration names, the state directory, the   *)
(* profile, the update cache and the binary.                               *)
owned(s) == host.dir[s] /\ host.marker[s] /\ ~host.tls[s]

(* The profile can be read, and no directory of the plan holds it.         *)
profileLoads == host.profile.token # None
planRemovesPath(i) == i = "profile" /\ owned("user")

Plan ==
    /\ Begins /\ host.binary # "none"
    /\ cmd' = [NoCmd EXCEPT !.kind = "uninstall", !.step = "service",
                            !.items = {s \in Scopes : owned(s)} \union {"state", "binary"}
                                      \union (IF installed THEN {"service"} ELSE {})
                                      \union (IF profileLoads /\ ~planRemovesPath("profile") THEN {"profile"} ELSE {})
                                      \union (IF host.cached THEN {"cache"} ELSE {})]
    /\ UNCHANGED <<daemonVars, serviceVars, host, recovery, destroyed>>

(* The service goes first.                                                 *)
uninstallService ==
    /\ cmd.kind = "uninstall" /\ cmd.step = "service"
    /\ IF "service" \in cmd.items
       THEN Uninstall /\ Step("stopping")
       ELSE Step("files") /\ UNCHANGED <<daemonVars, serviceVars>>
    /\ UNCHANGED <<host, commands, recovery, destroyed>>

(* A service that could not be removed keeps every file for a retry.       *)
afterService_GoesOn(result) == "files"
afterService(result) == IF result = "ok" THEN "files" ELSE "over"

ServiceGone ==
    /\ cmd.kind = "uninstall" /\ cmd.step = "stopping" /\ tx.op = "none"
    /\ Step(afterService(tx.result))
    /\ Same(<<host, faults>>) /\ Quiet

(* Then the files, in the order of the plan, the binary last.  A directory *)
(* is looked at again before it is removed; what cannot be removed is      *)
(* reported and the rest goes on.                                          *)
removalOrder == <<"system", "user", "state", "cache", "profile", "binary">>
nextItem == LET left == {i \in 1..Len(removalOrder) : removalOrder[i] \in cmd.items}
            IN  removalOrder[CHOOSE i \in left : \A j \in left : i <= j]

withoutDir(s) ==
    [host EXCEPT !.config[s] = None, !.marker[s] = FALSE, !.dir[s] = FALSE, !.foreign[s] = FALSE,
                 !.tls[s] = FALSE, !.profile = IF s = "user" THEN NoProfile ELSE @]

removed(i) ==
    CASE i \in Scopes    -> IF owned(i) THEN withoutDir(i) ELSE host
      [] i = "profile"   -> [host EXCEPT !.profile = NoProfile]
      [] i = "cache"     -> [host EXCEPT !.cached = FALSE]
      [] i = "binary"    -> [host EXCEPT !.binary = "none"]
      [] OTHER           -> host

RemoveItem ==
    /\ cmd.kind = "uninstall" /\ cmd.step = "files" /\ cmd.items \ {"service"} # {}
    /\ cmd' = [cmd EXCEPT !.items = @ \ {"service", nextItem}]
    /\ \/ /\ host' = removed(nextItem) /\ Same(faults)
          /\ IF nextItem = "state"
             THEN statsFile' = 0 /\ lost' = TRUE /\ UNCHANGED <<daemon, total>>
             ELSE UNCHANGED daemonVars
       \/ Fault /\ UNCHANGED <<host, daemonVars>>
    /\ destroyed' = (destroyed \/ \E s \in Scopes : (host.foreign[s] /\ ~host'.foreign[s]) \/ (host.tls[s] /\ ~host'.tls[s]))
    /\ UNCHANGED <<platform, svc, tx, commands, recovery>>

UninstallDone ==
    /\ cmd.kind = "uninstall" /\ (cmd.step = "over" \/ (cmd.step = "files" /\ cmd.items \ {"service"} = {}))
    /\ Ends /\ Same(<<host, faults>>) /\ Quiet
-----------------------------------------------------------------------------
(* vmflow update.  A check for the latest version within the cache's       *)
(* lifetime knows of it but has no release to install; a check for a named *)
(* version asks every time and leaves the cache alone.                     *)
CheckForUpdate ==
    {[release |-> FALSE, cached |-> host.cached]}
    \union (IF host.cached THEN {} ELSE [release : {TRUE}, cached : BOOLEAN])

CheckSpecificVersion == [release : BOOLEAN, cached : {host.cached}]

(* The archive is fetched, verified against its checksum and renamed over  *)
(* the binary; a failure before the rename leaves the binary.              *)
AtomicReplace(h) == [h EXCEPT !.binary = "new"]
DownloadAndInstall(h) == {h, AtomicReplace(h)}

runUpdate ==
    /\ Begins /\ host.binary = "old"
    /\ \E check \in CheckForUpdate \union CheckSpecificVersion :
          LET checked == [host EXCEPT !.cached = check.cached] IN
          \/ host' = checked
          \/ check.release /\ platform # "scm" /\ host' \in DownloadAndInstall(checked)
    /\ UNCHANGED <<daemonVars, serviceVars, recovery, destroyed, cmd>>

(* The cache grows older than its lifetime.                                *)
CacheExpires == Idling /\ host.cached /\ host' = [host EXCEPT !.cached = FALSE] /\ Same(<<cmd, faults>>) /\ Quiet

(* vmflow service install, start, uninstall.                               *)
runService ==
    /\ Begins /\ host.binary # "none"
    /\ \/ validateInstall /\ \E d \in Definitions : Install(d)
       \/ Start
       \/ Uninstall
    /\ UNCHANGED <<host, cmd, recovery, destroyed>>

(* Between commands the operator keeps a file of his own in a directory    *)
(* vmflow does not own, or refers to a certificate inside one it does.     *)
Operator ==
    /\ Idling /\ \E s \in Scopes :
          \/ host.dir[s] /\ ~host.marker[s] /\ ~host.foreign[s] /\ host' = [host EXCEPT !.foreign[s] = TRUE]
          \/ host.config[s] # None /\ ~host.tls[s] /\ host' = [host EXCEPT !.tls[s] = TRUE]
    /\ Same(<<cmd, faults>>) /\ Quiet
-----------------------------------------------------------------------------
(* The recovery screen of the terminal interface, while no statistics can  *)
(* be fetched: inspect the service, offer to start it, wait for the        *)
(* daemon.  What an inspection saw is kept until the next one, or until    *)
(* statistics arrive again.                                                *)
Watching == UNCHANGED <<daemonVars, platform, svc, faults, host, cmd, commands, destroyed>>
Shows(s) == recovery' = [recovery EXCEPT !.state = s]

statsMsg ==
    /\ IF daemon.phase = "up" THEN recovery.state # "idle" /\ recovery' = [state |-> "idle", installed |-> FALSE, running |-> FALSE]
                              ELSE recovery.state = "idle" /\ Shows("checking")
    /\ Watching /\ UNCHANGED tx

serviceInspectMsg ==
    /\ recovery.state = "checking"
    /\ \/ recovery' = [installed |-> installed, running |-> Active,
                       state |-> IF ~installed THEN "notInstalled" ELSE IF Active THEN "running" ELSE "stopped"]
       \/ \E i \in {FALSE, installed} : \E r \in {FALSE, i /\ Active} :     \* timed out half way
             recovery' = [state |-> "failed", installed |-> i, running |-> r]
    /\ Watching /\ UNCHANGED tx

Refresh == recovery.state \in {"stopped", "notInstalled", "running", "failed"} /\ Shows("checking") /\ Watching /\ UNCHANGED tx

canStartService == recovery.installed /\ ~recovery.running /\ recovery.state \in {"stopped", "failed"}

(* Confirmed by the operator; without privileges the start is refused and  *)
(* asked for again through sudo.                                           *)
startService ==
    /\ canStartService /\ Idling
    /\ \/ Shows("starting") /\ Start
       \/ Shows("stopped") /\ UNCHANGED <<daemonVars, serviceVars>>
    /\ UNCHANGED <<host, cmd, commands, destroyed>>

serviceStartMsg ==
    /\ recovery.state = "starting" /\ tx.op = "none"
    /\ recovery' = IF tx.result = "ok" THEN [recovery EXCEPT !.state = "waiting", !.running = TRUE]
                   ELSE IF ~installed THEN [state |-> "notInstalled", installed |-> FALSE, running |-> FALSE]
                   ELSE [recovery EXCEPT !.state = "failed"]
    /\ Watching /\ UNCHANGED tx

(* Ten seconds without the daemon.                                         *)
serviceReconnectMsg == recovery.state = "waiting" /\ Shows("running") /\ Watching /\ UNCHANGED tx
-----------------------------------------------------------------------------
InitCommand == (\E mode \in {"service", "none"} : executeInit(mode)) \/ replaceClientProfile \/ ProfileUnsynced \/ elevate
               \/ saveManagedSetupConfig \/ initServiceConfigSaved \/ installInitSystemService
               \/ ServiceInstalled \/ restoreProfile \/ InitDone
UninstallCommand == Plan \/ uninstallService \/ ServiceGone \/ RemoveItem \/ UninstallDone
RecoveryScreen == statsMsg \/ serviceInspectMsg \/ Refresh \/ startService \/ serviceStartMsg \/ serviceReconnectMsg

HostNext ==
    \/ InitCommand \/ UninstallCommand \/ runUpdate \/ CacheExpires \/ runService \/ Operator \/ RecoveryScreen
    \/ ServiceNext /\ UNCHANGED <<host, cmd, commands, recovery, destroyed>>

HostSpec == HostInit /\ [][HostNext]_hostVars
-----------------------------------------------------------------------------
(* An init that ends, well or not, leaves the configuration and the client *)
(* profile telling the same token, or both as they were (executeInit,      *)
(* runInitService, restoreInitProfileAfterFailure), whichever step failed  *)
(* and whatever the service manager did.  Left out: a restore that failed  *)
(* and says so, a profile whose save failed after replacing it, and two    *)
(* flaws: a rollback that removed the configuration and failed at the rest *)
(* (SavedIsOnDisk), and the case CommittedKeepsProfile is about.           *)
CredentialsTogether ==
    [][cmd.kind = "init" /\ cmd.step = "done" /\ ~cmd.excused /\ ~cmd.torn /\ ~(cmd.committed /\ cmd.scope = "user")
       => \/ host.profile = [token |-> cmd.token, scope |-> cmd.scope] /\ host.config[cmd.scope] = cmd.token
          \/ host.profile = cmd.before /\ host.config[cmd.scope] = cmd.had]_cmd

(* Once the new configuration is on disk the profile is not taken back,    *)
(* whatever the save reports ("Callers must not roll back companion state  *)
(* in that case", controlapi/setup_config.go:26).                          *)
CommittedKeepsProfile ==
    [][cmd.kind = "init" /\ cmd.step = "done" /\ cmd.committed
       => host.profile = [token |-> cmd.token, scope |-> cmd.scope]]_cmd

(* What the operator reads after a failed installation is so:              *)
(* "Configuration saved: %s" (internal/i18n/locales/en.json:118, printed   *)
(* by printInitServiceFailure), with the command that retries with it.     *)
(* The code does not keep it when rollbackManagedConfig fails half way.    *)
SavedIsOnDisk ==
    [][cmd.kind = "init" /\ cmd.step = "done" /\ cmd.saved => host.config[cmd.scope] = cmd.token]_cmd

(* The binary is never deleted under a daemon the service manager keeps    *)
(* running, also after failed installations and retried uninstalls, as     *)
(* long as no rollback reported itself incomplete (Plan,                   *)
(* executeWithServiceUninstaller).                                         *)
BinaryOutlivesService ==
    [][host.binary # "none" /\ host'.binary = "none" /\ ~tx.tainted => ~svc.wanted /\ ~Running]_host

(* Uninstalling never removes a file the operator put into a directory     *)
(* vmflow did not create, nor a certificate its configuration names,       *)
(* whatever sequence of init, rollback and uninstall claimed the directory *)
(* (ensureManagedConfigMarker, appendManagedConfigPlan).                   *)
OperatorFilesSurvive == ~destroyed
=============================================================================
