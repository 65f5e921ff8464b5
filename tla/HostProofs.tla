----------------------------- MODULE HostProofs -----------------------------
(***************************************************************************)
(* Proofs about what vmflow keeps on a host, for every value of the        *)
(* constants: HostLifecycle (with Daemon and NativeService) and CertStore. *)
(*                                                                         *)
(*  - The counters of the daemon survive a clean restart.                  *)
(*  - init keeps configuration and profile together, and no uninstallation *)
(*    removes a file of the operator's.                                    *)
(*  - An installation that failed restores the service, on systemd,        *)
(*    launchd and Windows: the invariant says what the service manager     *)
(*    holds for every list of commands that may be left to do.             *)
(*  - The binary is not removed under a running daemon.                    *)
(*  - certs.json matches the memory, and a domain serves the certificate   *)
(*    last acknowledged.                                                   *)
(***************************************************************************)
EXTENDS CertStore, HostLifecycle, FiniteSetTheorems, WellFoundedInduction, TLAPS

-----------------------------------------------------------------------------
(* The daemon's counters: what main.go and the statistics file keep         *)
(* together.                                                                *)

(* What runForwardingWithReadyAndReporter keeps of one life of the daemon.  *)
DaemonRecords == [phase: Phases, term: BOOLEAN, live: 0..MaxTraffic, snap: 0..NotSaving]

(* The inductive invariant of the counters: a serving daemon holds the      *)
(* total, and so does the file whenever no daemon has newer counters.       *)
CounterInv ==
    /\ DaemonTypeOK
    /\ daemon.phase \in Serving \union {"stopped"} => daemon.live = total
    /\ daemon.phase \in {"down", "loading", "saved"} /\ ~lost => statsFile = total
    /\ daemon.snap # NotSaving => daemon.phase = "up"

(* What a step of the host does to the daemon and its file.                 *)
DaemonStep ==
    \/ UNCHANGED daemonVars
    \/ statsFile' = 0 /\ lost' = TRUE /\ UNCHANGED <<daemon, total>>
    \/ daemon' = [daemon EXCEPT !.term = Running] /\ UNCHANGED <<statsFile, total, lost>>
    \/ ~Running /\ Launch /\ UNCHANGED <<statsFile, total, lost>>
    \/ Killed \/ ShutDown(TRUE) \/ StopTimesOut
    \/ DaemonNext

(* Every step of the service manager does one of those things to the        *)
(* daemon.                                                                  *)
LEMMA ServiceDaemonStep == ServiceNext => DaemonStep
<1>1. Signal => DaemonStep
  BY DEF Signal, DaemonStep
<1>2. EnsureStarts => DaemonStep
  BY DEF EnsureStarts, DaemonStep
<1>3. Command => DaemonStep
  BY DEF Command, DaemonStep
<1>4. CommandFails => DaemonStep
  BY DEF CommandFails, DaemonStep
<1>5. Supervise => DaemonStep
  BY DEF Supervise, DaemonStep
<1>6. DaemonCrashes => DaemonStep
  BY DEF DaemonCrashes, DaemonStep
<1> QED
  BY <1>1, <1>2, <1>3, <1>4, <1>5, <1>6 DEF ServiceNext, DaemonStep

(* So does every step of a command, the operator or the recovery screen.    *)
LEMMA HostDaemonStep == HostNext => DaemonStep
<1>1. InitCommand => UNCHANGED daemonVars
  BY DEF InitCommand, executeInit, replaceClientProfile, ProfileUnsynced, elevate, saveManagedSetupConfig,
         initServiceConfigSaved, installInitSystemService, ServiceInstalled, restoreProfile, InitDone, Quiet, Install
<1>2. UninstallCommand => DaemonStep
  <2>1. Plan \/ uninstallService \/ ServiceGone \/ UninstallDone => UNCHANGED daemonVars
    BY DEF Plan, uninstallService, ServiceGone, UninstallDone, Quiet, Uninstall
  <2>2. RemoveItem => DaemonStep
    <3> SUFFICES ASSUME RemoveItem PROVE DaemonStep
      OBVIOUS
    <3>1. \/ IF nextItem = "state"
             THEN statsFile' = 0 /\ lost' = TRUE /\ UNCHANGED <<daemon, total>>
             ELSE UNCHANGED daemonVars
          \/ UNCHANGED <<host, daemonVars>>
      BY DEF RemoveItem
    <3> QED
      BY <3>1 DEF DaemonStep
  <2> QED
    BY <2>1, <2>2 DEF UninstallCommand, DaemonStep
<1>3. runUpdate \/ CacheExpires \/ runService \/ Operator => UNCHANGED daemonVars
  BY DEF runUpdate, CacheExpires, runService, Operator, Quiet, Install, Start, Uninstall
<1>4. RecoveryScreen => UNCHANGED daemonVars
  BY DEF RecoveryScreen, statsMsg, serviceInspectMsg, Refresh, startService, serviceStartMsg, serviceReconnectMsg,
         Watching, Start
<1> QED
  BY <1>1, <1>2, <1>3, <1>4, ServiceDaemonStep DEF HostNext, DaemonStep

(* A process that ends (Dies) leaves a file with every byte, or says that   *)
(* bytes were lost.                                                         *)
LEMMA DeathKeepsCounters ==
  ASSUME CounterInv, NEW l \in BOOLEAN, Dies(l), l \/ statsFile = total
  PROVE  CounterInv'
<1>1. 0 \in 0..MaxTraffic /\ NotSaving \in 0..NotSaving
  BY TrafficAssumption DEF NotSaving
<1>2. daemon' = DownState /\ lost' = l /\ statsFile' = statsFile /\ total' = total
  BY DEF Dies
<1>3. DownState \in DaemonRecords
  BY <1>1 DEF DownState, DaemonRecords, Phases
<1> QED
  BY <1>2, <1>3 DEF CounterInv, DaemonTypeOK, DaemonRecords, DownState, Serving

(* The counters of the process and of the statistics file, over one step.   *)
LEMMA DaemonKeepsCounters == CounterInv /\ DaemonStep => CounterInv'
<1> SUFFICES ASSUME CounterInv, DaemonStep PROVE CounterInv'
  OBVIOUS
<1>0. /\ daemon \in DaemonRecords /\ statsFile \in 0..MaxTraffic /\ total \in 0..MaxTraffic /\ lost \in BOOLEAN
      /\ MaxTraffic \in Nat /\ NotSaving = MaxTraffic + 1
  BY TrafficAssumption DEF CounterInv, DaemonTypeOK, DaemonRecords, NotSaving
<1> USE <1>0
<1>1. CASE UNCHANGED daemonVars
  BY <1>1 DEF CounterInv, DaemonTypeOK, daemonVars
<1>2. CASE statsFile' = 0 /\ lost' = TRUE /\ UNCHANGED <<daemon, total>>
  BY <1>2 DEF CounterInv, DaemonTypeOK
<1>3. CASE daemon' = [daemon EXCEPT !.term = Running] /\ UNCHANGED <<statsFile, total, lost>>
  BY <1>3 DEF CounterInv, DaemonTypeOK, DaemonRecords, Running, Serving
<1>4. CASE ~Running /\ Launch /\ UNCHANGED <<statsFile, total, lost>>
  <2>1. daemon' = [phase |-> "loading", term |-> FALSE, live |-> 0, snap |-> NotSaving]
    BY <1>4 DEF Launch, DownState
  <2>2. 0 \in 0..MaxTraffic /\ NotSaving \in 0..NotSaving /\ "loading" \in Phases /\ "loading" \notin Serving
    BY DEF Phases, Serving
  <2> HIDE DEF NotSaving
  <2>3. daemon' \in DaemonRecords
    BY <2>1, <2>2 DEF DaemonRecords
  <2> QED
    BY <1>4, <2>1, <2>2, <2>3 DEF CounterInv, DaemonTypeOK, DaemonRecords, Running
<1>5. CASE Killed \/ StopTimesOut
  BY <1>5, DeathKeepsCounters DEF Killed, StopTimesOut
<1>6. ASSUME NEW b \in BOOLEAN, ShutDown(b) PROVE CounterInv'
  BY <1>6 DEF ShutDown, flusherStopped, CounterInv, DaemonTypeOK, DaemonRecords, Serving, Phases
<1>7. CASE LoadStats
  <2>1. PICK ok \in BOOLEAN : /\ daemon' = [daemon EXCEPT !.phase = "applying", !.live = IF ok THEN statsFile ELSE 0]
                              /\ total' = IF lost \/ ~ok THEN IF ok THEN statsFile ELSE 0 ELSE total
    BY <1>7 DEF LoadStats
  <2>2. lost' = FALSE /\ statsFile' = statsFile /\ daemon.phase = "loading"
    BY <1>7 DEF LoadStats
  <2>3. ~lost => statsFile = total
    BY <2>2 DEF CounterInv
  <2>4. (IF ok THEN statsFile ELSE 0) \in 0..MaxTraffic
    OBVIOUS
  <2>5. /\ daemon' \in DaemonRecords /\ daemon'.phase = "applying" /\ daemon'.snap = daemon.snap
        /\ daemon'.live = IF ok THEN statsFile ELSE 0
    BY <2>1, <2>4 DEF DaemonRecords, Phases
  <2>6. daemon'.live = total' /\ total' \in 0..MaxTraffic
    BY <2>1, <2>3, <2>5
  <2>7. daemon.snap = NotSaving
    BY <2>2 DEF CounterInv
  <2> QED
    BY <2>2, <2>5, <2>6, <2>7 DEF CounterInv, DaemonTypeOK, DaemonRecords, Serving
<1>8. CASE InitialSave
  BY <1>8 DEF InitialSave, CounterInv, DaemonTypeOK, DaemonRecords, Serving, Phases
<1>9. CASE StartupFails
  <2>1. Dies(lost \/ daemon.phase = "applying") /\ daemon.phase \in {"loading", "applying"}
    BY <1>9 DEF StartupFails
  <2>2. (lost \/ daemon.phase = "applying") \/ statsFile = total
    BY <2>1 DEF CounterInv
  <2> QED
    BY <2>1, <2>2, DeathKeepsCounters
<1>10. CASE Traffic
  BY <1>10 DEF Traffic, CounterInv, DaemonTypeOK, DaemonRecords, Serving, Phases
<1>11. CASE FlushSnapshot
  BY <1>11 DEF FlushSnapshot, CounterInv, DaemonTypeOK, DaemonRecords, Serving, Phases
<1>12. CASE FlushWrite
  BY <1>12 DEF FlushWrite, CounterInv, DaemonTypeOK, DaemonRecords, Serving, Phases
<1>13. CASE StopAll
  BY <1>13 DEF StopAll, CounterInv, DaemonTypeOK, DaemonRecords, Serving, Phases
<1>14. CASE FinalSave
  BY <1>14 DEF FinalSave, CounterInv, DaemonTypeOK, DaemonRecords, Serving, Phases
<1>15. CASE Exit
  <2>1. Dies(lost) /\ daemon.phase = "saved"
    BY <1>15 DEF Exit
  <2> QED
    BY <2>1, DeathKeepsCounters DEF CounterInv
<1> QED
  BY <1>1, <1>2, <1>3, <1>4, <1>5, <1>6, <1>7, <1>8, <1>9, <1>10, <1>11, <1>12, <1>13, <1>14, <1>15
     DEF DaemonStep, DaemonNext

(* For every bound on the traffic, the process and the statistics file keep *)
(* the counters together (main.go's start, flusher and shutdown), whatever  *)
(* the commands and the service manager do.                                 *)
THEOREM CountersInvariant == HostSpec => []CounterInv
<1>1. HostInit => CounterInv
  <2> SUFFICES ASSUME HostInit PROVE CounterInv
    OBVIOUS
  <2>1. daemon = DownState /\ statsFile = 0 /\ total = 0 /\ lost = FALSE
    BY DEF HostInit, DaemonInit
  <2>2. 0 \in 0..MaxTraffic /\ NotSaving \in 0..NotSaving
    BY TrafficAssumption DEF NotSaving
  <2> QED
    BY <2>1, <2>2 DEF CounterInv, DaemonTypeOK, DownState, Phases, Serving
<1>2. CounterInv /\ [HostNext]_hostVars => CounterInv'
  <2>1. CounterInv /\ UNCHANGED hostVars => CounterInv'
    BY DEF hostVars, daemonVars, CounterInv, DaemonTypeOK
  <2> QED
    BY <2>1, HostDaemonStep, DaemonKeepsCounters
<1> QED
  BY <1>1, <1>2, PTL DEF HostSpec

(* A running process shows every byte counted before it, unless the code    *)
(* said or could not see that some were lost.                               *)
THEOREM CleanRestartKeepsCountersHolds == HostSpec => []CleanRestartKeepsCounters
<1>1. CounterInv => CleanRestartKeepsCounters
  BY DEF CounterInv, CleanRestartKeepsCounters
<1> QED
  BY <1>1, CountersInvariant, PTL

-----------------------------------------------------------------------------
(* The files: configurations, markers, directories and the client profile.  *)

(* The values of the files and of the command under way.                    *)
Flags == [Scopes -> BOOLEAN]
Hosts == [config: [Scopes -> Tokens \union {None}], marker: Flags, dir: Flags, foreign: Flags, tls: Flags,
          profile: Profiles, binary: {"none", "old", "new"}, cached: BOOLEAN]
InitSteps == {"profile", "unsynced", "elevate", "save", "restore", "committed", "install", "installing", "done"}
UninstallSteps == {"service", "stopping", "files", "over"}
Items == {"service", "system", "user", "state", "cache", "profile", "binary"}
Cmds  == [kind: {"none", "init", "uninstall"}, step: {"none"} \union InitSteps \union UninstallSteps, scope: Scopes,
          token: Tokens \union {None}, claim: BOOLEAN, before: Profiles, had: Tokens \union {None},
          created: BOOLEAN, marked: BOOLEAN, made: BOOLEAN, committed: BOOLEAN, saved: BOOLEAN, torn: BOOLEAN,
          excused: BOOLEAN,
          items: SUBSET Items]

(* A command is at a step of its own kind.                                  *)
HostTypeOK ==
    /\ host \in Hosts /\ cmd \in Cmds
    /\ cmd.kind = "none" => cmd = NoCmd
    /\ cmd.kind = "init" => cmd.step \in InitSteps
    /\ cmd.kind = "uninstall" => cmd.step \in UninstallSteps

(* Whatever carries a marker, is claimed or was made by the command under   *)
(* way holds no file of the operator's.                                     *)
FilesInv ==
    /\ destroyed = FALSE
    /\ \A s \in Scopes : (host.marker[s] => ~host.foreign[s]) /\ (host.foreign[s] => host.dir[s])
    /\ cmd.kind = "init" /\ (cmd.claim \/ cmd.made) => ~host.foreign[cmd.scope]

(* Profile and configuration hold the new token, or both are as they were   *)
(* before init.                                                             *)
Together == host.profile = [token |-> cmd.token, scope |-> cmd.scope] /\ host.config[cmd.scope] = cmd.token
Before   == host.profile = cmd.before /\ host.config[cmd.scope] = cmd.had

(* What executeInit has done to profile and configuration, step by step.    *)
(* Only a rollback that reports an error after it removed the configuration *)
(* (torn) leaves the profile without it.                                    *)
CmdInv ==
    cmd.kind = "init" =>
        /\ cmd.step = "profile" => Before /\ ~cmd.committed
        /\ cmd.step \in {"profile", "elevate", "save"} => (cmd.had # None => cmd.token = cmd.had)
        /\ cmd.step \in {"elevate", "save"} =>
              /\ host.profile = [token |-> cmd.token, scope |-> cmd.scope] /\ host.config[cmd.scope] = cmd.had
              /\ ~cmd.committed
        /\ cmd.step = "restore" => IF cmd.committed THEN cmd.scope = "user" ELSE host.config[cmd.scope] = cmd.had
        /\ cmd.step \in {"install", "installing"} => Together
        /\ cmd.step = "committed" => cmd.committed /\ (cmd.torn \/ Together)
        /\ cmd.step \in {"install", "installing"} => cmd.created = (cmd.had = None) /\ ~cmd.committed
        /\ cmd.step = "done" => cmd.excused \/ cmd.torn \/ (cmd.committed /\ cmd.scope = "user") \/ Together \/ Before

(* The part of the host a step of the command touches.                      *)
HostFrame == UNCHANGED <<host, cmd, destroyed>>
HostInv == HostTypeOK /\ FilesInv /\ CmdInv

(* A step that leaves the files and the command alone.                      *)
LEMMA FrameKeepsHost == HostInv /\ HostFrame => HostInv'
  BY DEF HostInv, HostFrame, HostTypeOK, FilesInv, CmdInv, Together, Before

(* The record of no command.                                                *)
LEMMA NoCmdType == NoCmd \in Cmds /\ NoCmd.kind = "none"
<1>1. NoProfile \in Profiles
  BY DEF NoProfile, Profiles, Scopes
<1> QED
  BY <1>1 DEF NoCmd, Cmds, Scopes

(* A command that ends.                                                     *)
LEMMA EndKeepsHost ==
  ASSUME HostInv, cmd' = NoCmd, host' \in Hosts, destroyed' = destroyed,
         host'.marker = host.marker, host'.foreign = host.foreign,
         \A s \in Scopes : host.dir[s] => host'.dir[s]
  PROVE  HostInv'
<1>1. HostTypeOK'
  BY NoCmdType DEF HostTypeOK
<1>2. FilesInv'
  BY NoCmdType DEF FilesInv, HostInv
<1>3. CmdInv'
  BY NoCmdType DEF CmdInv
<1> QED
  BY <1>1, <1>2, <1>3 DEF HostInv

(* executeInit claims a directory only when it does not exist.              *)
LEMMA ExecuteInitKeepsHost ==
  ASSUME HostInv, NEW mode \in {"service", "none"}, executeInit(mode)
  PROVE  HostInv'
<1> DEFINE s == resolveInitDestination(mode)
<1>1. s \in Scopes
  BY DEF resolveInitDestination, Scopes
<1>2. host \in Hosts /\ host' = host /\ destroyed' = destroyed
  BY DEF HostInv, HostTypeOK, executeInit
<1>3. PICK t \in setupAuth(s) :
          cmd' = [NoCmd EXCEPT !.kind = "init", !.step = "profile", !.scope = s, !.token = t,
                               !.claim = ~host.dir[s], !.before = host.profile, !.had = host.config[s]]
  BY DEF executeInit
<1>4. host.config[s] \in Tokens \union {None} /\ host.dir[s] \in BOOLEAN /\ host.profile \in Profiles
  BY <1>1, <1>2 DEF Hosts, Flags
<1>5. t \in Tokens \union {None} /\ (host.config[s] # None => t = host.config[s])
  BY <1>4 DEF setupAuth
<1> HIDE DEF s
<1>6. /\ cmd' \in Cmds /\ cmd'.kind = "init" /\ cmd'.step = "profile" /\ cmd'.scope = s /\ cmd'.token = t
      /\ cmd'.claim = ~host.dir[s] /\ cmd'.before = host.profile /\ cmd'.had = host.config[s]
      /\ cmd'.made = FALSE /\ cmd'.committed = FALSE
  BY <1>1, <1>3, <1>4, <1>5, NoCmdType DEF NoCmd, Cmds, InitSteps
<1>7. HostTypeOK'
  BY <1>2, <1>6 DEF HostTypeOK, InitSteps
<1>8. FilesInv'
  BY <1>1, <1>2, <1>6 DEF FilesInv, HostInv
<1>9. CmdInv'
  BY <1>2, <1>5, <1>6 DEF CmdInv, Before
<1> QED
  BY <1>7, <1>8, <1>9 DEF HostInv

(* A step of the init command that goes on to step k.                       *)
LEMMA StepType ==
  ASSUME HostInv, cmd.kind = "init", NEW k \in InitSteps, cmd' = [cmd EXCEPT !.step = k]
  PROVE  /\ cmd' \in Cmds /\ cmd'.kind = "init" /\ cmd'.step = k
         /\ cmd'.scope = cmd.scope /\ cmd'.token = cmd.token /\ cmd'.claim = cmd.claim /\ cmd'.before = cmd.before
         /\ cmd'.had = cmd.had /\ cmd'.created = cmd.created /\ cmd'.marked = cmd.marked /\ cmd'.made = cmd.made
         /\ cmd'.committed = cmd.committed /\ cmd'.torn = cmd.torn /\ cmd'.excused = cmd.excused
  BY DEF HostInv, HostTypeOK, Cmds

(* replaceClientProfile, and its two failures.                              *)
LEMMA ProfileKeepsHost == HostInv /\ replaceClientProfile => HostInv'
<1> SUFFICES ASSUME HostInv, replaceClientProfile PROVE HostInv'
  OBVIOUS
<1> DEFINE p == [token |-> cmd.token, scope |-> cmd.scope]
<1> DEFINE k == IF cmd.scope = "user" THEN "save" ELSE "elevate"
<1>1. /\ cmd.kind = "init" /\ cmd.step = "profile" /\ destroyed' = destroyed
      /\ host \in Hosts /\ cmd \in Cmds
  BY DEF replaceClientProfile, Quiet, HostInv, HostTypeOK
<1>2. p \in Profiles
  BY <1>1 DEF Cmds, Profiles
<1>3. /\ withProfile(p) \in Hosts /\ withProfile(p).profile = p /\ withProfile(p).config = host.config
      /\ withProfile(p).marker = host.marker /\ withProfile(p).foreign = host.foreign
      /\ \A s \in Scopes : host.dir[s] => withProfile(p).dir[s]
  BY <1>1, <1>2 DEF withProfile, Hosts, Flags, Scopes
<1>4. CASE host' = withProfile(p) /\ Step(k)
  <2>1. k \in {"save", "elevate"} /\ k \in InitSteps /\ cmd' = [cmd EXCEPT !.step = k]
    BY <1>4 DEF InitSteps, Step
  <2> HIDE DEF k
  <2>2. HostTypeOK'
    BY <1>1, <1>3, <1>4, <2>1, StepType DEF HostTypeOK, InitSteps
  <2>3. FilesInv'
    BY <1>1, <1>3, <1>4, <2>1, StepType DEF FilesInv, HostInv
  <2>4. CmdInv'
    BY <1>1, <1>3, <1>4, <2>1, StepType DEF CmdInv, HostInv, Before
  <2> QED
    BY <2>2, <2>3, <2>4 DEF HostInv
<1>5. CASE host' = host /\ Ends
  BY <1>1, <1>5, EndKeepsHost DEF Ends
<1>6. CASE host' = withProfile(p) /\ Step("unsynced")
  <2>1. "unsynced" \in InitSteps /\ cmd' = [cmd EXCEPT !.step = "unsynced"]
    BY <1>6 DEF InitSteps, Step
  <2>2. HostTypeOK'
    BY <1>1, <1>3, <1>6, <2>1, StepType DEF HostTypeOK, InitSteps
  <2>3. FilesInv'
    BY <1>1, <1>3, <1>6, <2>1, StepType DEF FilesInv, HostInv
  <2>4. CmdInv'
    BY <1>1, <1>3, <1>6, <2>1, StepType DEF CmdInv
  <2> QED
    BY <2>2, <2>3, <2>4 DEF HostInv
<1> QED
  BY <1>4, <1>5, <1>6 DEF replaceClientProfile

(* The last steps of a command.                                             *)
LEMMA EndsKeepHost == HostInv /\ (ProfileUnsynced \/ InitDone \/ UninstallDone) => HostInv'
<1> SUFFICES ASSUME HostInv, ProfileUnsynced \/ InitDone \/ UninstallDone PROVE HostInv'
  OBVIOUS
<1>1. cmd' = NoCmd /\ host' = host /\ destroyed' = destroyed
  BY DEF ProfileUnsynced, InitDone, UninstallDone, Ends, Same, Quiet
<1> QED
  BY <1>1, EndKeepsHost DEF HostInv, HostTypeOK

(* The administrator prompt, granted or refused.                            *)
LEMMA ElevateKeepsHost == HostInv /\ elevate => HostInv'
<1> SUFFICES ASSUME HostInv, elevate PROVE HostInv'
  OBVIOUS
<1>1. host' = host /\ destroyed' = destroyed /\ cmd.step = "elevate" /\ cmd.kind = "init" /\ host \in Hosts
  BY NoCmdType DEF elevate, Same, Quiet, HostInv, HostTypeOK, UninstallSteps, Cmds, NoCmd
<1>2. PICK k \in {"save", "restore"} : cmd' = [cmd EXCEPT !.step = k]
  BY DEF elevate, Step
<1>3. k \in InitSteps
  BY DEF InitSteps
<1>4. HostTypeOK'
  BY <1>1, <1>2, <1>3, StepType DEF HostTypeOK
<1>5. FilesInv'
  BY <1>1, <1>2, <1>3, StepType DEF FilesInv, HostInv
<1>6. CmdInv'
  BY <1>1, <1>2, <1>3, StepType DEF CmdInv, HostInv
<1> QED
  BY <1>4, <1>5, <1>6 DEF HostInv

(* What SaveSetupConfig writes: one configuration, and its directory.       *)
LEMMA SavedConfig ==
  ASSUME HostInv, cmd.kind = "init"
  PROVE  LET s == cmd.scope
             saved == SaveSetupConfig(s)
         IN  /\ saved \in Hosts /\ saved.config = [host.config EXCEPT ![s] = cmd.token]
             /\ saved.marker = host.marker /\ saved.foreign = host.foreign /\ saved.profile = host.profile
             /\ \A t \in Scopes : host.dir[t] => saved.dir[t]
             /\ host.config[s] = None => saved.dir[s]
<1>1. host \in Hosts /\ cmd.scope \in Scopes /\ cmd.token \in Tokens \union {None}
  BY DEF HostInv, HostTypeOK, Cmds
<1> QED
  BY <1>1 DEF SaveSetupConfig, createSetupConfig, Hosts, Flags, Scopes

(* What rollbackManagedConfig takes back, and what it leaves.               *)
LEMMA RolledBack ==
  ASSUME NEW h \in Hosts, NEW c \in Cmds, NEW left \in Leftovers(c),
         c.made => ~h.foreign[c.scope], \A t \in Scopes : h.foreign[t] => h.dir[t]
  PROVE  LET back == rollbackManagedConfig(h, c, left) IN
         /\ back \in Hosts /\ back.config[c.scope] = (IF "config" \in left THEN h.config[c.scope] ELSE None)
         /\ back.foreign = h.foreign /\ back.profile = h.profile /\ back.binary = h.binary
         /\ \A t \in Scopes : back.marker[t] => h.marker[t]
         /\ \A t \in Scopes : h.foreign[t] => back.dir[t]
<1>1. c.scope \in Scopes
  BY DEF Cmds
<1> DEFINE back == rollbackManagedConfig(h, c, left)
<1>2. /\ back \in Hosts /\ back.config[c.scope] = (IF "config" \in left THEN h.config[c.scope] ELSE None)
      /\ back.foreign = h.foreign /\ back.profile = h.profile /\ back.binary = h.binary
  BY <1>1 DEF rollbackManagedConfig, Hosts, Flags
<1>3. \A t \in Scopes : back.marker[t] => h.marker[t]
  BY <1>1 DEF rollbackManagedConfig, Hosts, Flags
<1>4. \A t \in Scopes : h.foreign[t] => back.dir[t]
  BY <1>1 DEF rollbackManagedConfig, Hosts, Flags
<1> QED
  BY <1>2, <1>3, <1>4

(* saveManagedSetupConfig: saved and marked, not written, written with an   *)
(* error, or taken back for the marker.                                     *)
LEMMA SaveKeepsHost == HostInv /\ saveManagedSetupConfig => HostInv'
<1> SUFFICES ASSUME HostInv, saveManagedSetupConfig PROVE HostInv'
  OBVIOUS
<1> DEFINE s == cmd.scope
           claim == IF s = "user" THEN cmd.claim ELSE ~host.dir[s]
           saved == SaveSetupConfig(s)
           marks == claimsDirectory(claim, host.marker[s])
           done == [cmd EXCEPT !.created = host.config[s] = None, !.marked = marks, !.made = ~host.dir[s]]
<1>1. /\ cmd.kind = "init" /\ cmd.step = "save" /\ destroyed' = destroyed
      /\ host \in Hosts /\ cmd \in Cmds /\ s \in Scopes
  BY DEF saveManagedSetupConfig, Quiet, HostInv, HostTypeOK, Cmds
<1>2. /\ host.profile = [token |-> cmd.token, scope |-> s] /\ host.config[s] = cmd.had /\ ~cmd.committed
      /\ cmd.had # None => cmd.token = cmd.had
  BY <1>1 DEF HostInv, CmdInv
<1>3. /\ saved \in Hosts /\ saved.config = [host.config EXCEPT ![s] = cmd.token] /\ saved.config[s] = cmd.token
      /\ saved.marker = host.marker /\ saved.foreign = host.foreign /\ saved.profile = host.profile
      /\ \A t \in Scopes : host.dir[t] => saved.dir[t]
  BY <1>1, SavedConfig DEF Hosts
<1>4. marks \in BOOLEAN /\ host.dir[s] \in BOOLEAN /\ (marks => ~host.foreign[s]) /\ (~host.dir[s] => ~host.foreign[s])
  <2>1. cmd.claim \in BOOLEAN /\ host.dir[s] \in BOOLEAN /\ host.marker[s] \in BOOLEAN
    BY <1>1 DEF Cmds, Hosts, Flags
  <2>2. (~host.dir[s] => ~host.foreign[s]) /\ (cmd.claim => ~host.foreign[s])
    BY <1>1 DEF HostInv, FilesInv
  <2> QED
    BY <2>1, <2>2 DEF claimsDirectory
<1> HIDE DEF claim, saved, marks
<1>5. CASE /\ host' = IF marks THEN [saved EXCEPT !.marker[s] = TRUE] ELSE saved
           /\ cmd' = [done EXCEPT !.step = IF s = "user" THEN "done" ELSE "install"]
  <2>1. PICK k \in {"done", "install"} : cmd' = [done EXCEPT !.step = k]
    BY <1>5
  <2>2. /\ cmd' \in Cmds /\ cmd'.kind = "init" /\ cmd'.step = k /\ cmd'.scope = s /\ cmd'.token = cmd.token
        /\ cmd'.claim = cmd.claim /\ cmd'.had = cmd.had /\ cmd'.created = (host.config[s] = None)
        /\ cmd'.made = ~host.dir[s] /\ cmd'.committed = cmd.committed
    <3>1. PICK b \in BOOLEAN : b = (host.config[s] = None)
      OBVIOUS
    <3>2. PICK m \in BOOLEAN : m = ~host.dir[s]
      OBVIOUS
    <3>3. cmd' = [cmd EXCEPT !.created = b, !.marked = marks, !.made = m, !.step = k]
      BY <2>1, <3>1, <3>2
    <3>4. k \in {"none"} \union InitSteps \union UninstallSteps
      BY DEF InitSteps
    <3>5. cmd' \in Cmds
      <4>1. [cmd EXCEPT !.created = b, !.marked = marks] \in Cmds
        BY <1>1, <1>4 DEF Cmds
      <4>2. [[cmd EXCEPT !.created = b, !.marked = marks] EXCEPT !.made = m, !.step = k] \in Cmds
        <5>1. \A c \in Cmds : [c EXCEPT !.made = m, !.step = k] \in Cmds
          BY <3>4 DEF Cmds
        <5> QED
          BY <4>1, <5>1
      <4> QED
        BY <3>3, <4>2
    <3>6. /\ cmd'.kind = "init" /\ cmd'.step = k /\ cmd'.scope = s /\ cmd'.token = cmd.token
          /\ cmd'.claim = cmd.claim /\ cmd'.had = cmd.had /\ cmd'.created = b
          /\ cmd'.made = m /\ cmd'.committed = cmd.committed
      BY <1>1, <3>3, SMTT(30) DEF Cmds
    <3> QED
      BY <3>1, <3>2, <3>5, <3>6
  <2>3. /\ host' \in Hosts /\ host'.config = saved.config /\ host'.foreign = host.foreign
        /\ host'.profile = host.profile /\ host'.dir = saved.dir
        /\ \A t \in Scopes : host'.marker[t] => host.marker[t] \/ (t = s /\ marks)
    BY <1>1, <1>3, <1>5 DEF Hosts, Flags
  <2>4. HostTypeOK'
    BY <2>2, <2>3 DEF HostTypeOK, InitSteps
  <2>5. FilesInv'
    <3>1. \A t \in Scopes : (host'.marker[t] => ~host'.foreign[t]) /\ (host'.foreign[t] => host'.dir[t])
      BY <1>3, <1>4, <2>3 DEF HostInv, FilesInv
    <3>2. cmd.claim => ~host.foreign[s]
      BY <1>1 DEF HostInv, FilesInv
    <3> QED
      BY <1>1, <1>4, <2>2, <2>3, <3>1, <3>2 DEF HostInv, FilesInv
  <2>6. CmdInv'
    BY <1>2, <1>3, <2>2, <2>3 DEF CmdInv, Together
  <2> QED
    BY <2>4, <2>5, <2>6 DEF HostInv
<1>6. CASE host' \in {host, [host EXCEPT !.dir[s] = TRUE]} /\ Step("restore")
  <2>1. "restore" \in InitSteps /\ cmd' = [cmd EXCEPT !.step = "restore"]
    BY <1>6 DEF InitSteps, Step
  <2>h. /\ host' \in Hosts /\ host'.config = host.config /\ host'.profile = host.profile
        /\ host'.marker = host.marker /\ host'.foreign = host.foreign
        /\ \A t \in Scopes : host.dir[t] => host'.dir[t]
    <3>1. CASE host' = host
      BY <1>1, <3>1
    <3>2. CASE host' = [host EXCEPT !.dir[s] = TRUE]
      <4>1. host' = [host EXCEPT !.dir = [host.dir EXCEPT ![s] = TRUE]] /\ [host.dir EXCEPT ![s] = TRUE] \in Flags
        BY <1>1, <3>2 DEF Hosts, Flags
      <4>2. \A t \in Scopes : host.dir[t] => [host.dir EXCEPT ![s] = TRUE][t]
        BY <1>1 DEF Hosts, Flags
      <4> QED
        BY <1>1, <4>1, <4>2 DEF Hosts
    <3> QED
      BY <1>6, <3>1, <3>2
  <2>2. HostTypeOK'
    BY <1>1, <2>h, <2>1, StepType DEF HostTypeOK
  <2>3. FilesInv'
    BY <1>1, <2>h, <2>1, StepType DEF FilesInv, HostInv
  <2>4. CmdInv'
    BY <1>1, <1>2, <2>h, <2>1, StepType DEF CmdInv
  <2> QED
    BY <2>2, <2>3, <2>4 DEF HostInv
<1>7. CASE host' = saved /\ cmd' = [cmd EXCEPT !.step = "committed", !.committed = TRUE]
  <2>1. /\ cmd' \in Cmds /\ cmd'.kind = "init" /\ cmd'.step = "committed" /\ cmd'.scope = s /\ cmd'.token = cmd.token
        /\ cmd'.claim = cmd.claim /\ cmd'.made = cmd.made /\ cmd'.committed
    BY <1>1, <1>7 DEF Cmds, InitSteps
  <2>2. HostTypeOK'
    BY <1>3, <1>7, <2>1 DEF HostTypeOK, InitSteps
  <2>3. FilesInv'
    BY <1>1, <1>3, <1>7, <2>1 DEF FilesInv, HostInv
  <2>4. CmdInv'
    BY <1>2, <1>3, <1>7, <2>1 DEF CmdInv, Together
  <2> QED
    BY <2>2, <2>3, <2>4 DEF HostInv
<1> DEFINE unmarked == [done EXCEPT !.marked = FALSE]
<1>8. ASSUME NEW left \in Leftovers(unmarked), done.created,
             host' = rollbackManagedConfig(saved, unmarked, left),
             cmd' = [cmd EXCEPT !.step = IF left = {} THEN "restore" ELSE "committed",
                                !.committed = left # {}, !.torn = Tears(left)]
      PROVE  HostInv'
  <2>1. /\ unmarked \in Cmds /\ unmarked.made = ~host.dir[s] /\ unmarked.scope = s
        /\ done.created = (host.config[s] = None)
    <3>1. PICK b \in BOOLEAN : b = (host.config[s] = None)
      OBVIOUS
    <3>2. PICK m \in BOOLEAN : m = ~host.dir[s]
      OBVIOUS
    <3>3. done = [cmd EXCEPT !.created = b, !.marked = marks, !.made = m]
      BY <3>1, <3>2
    <3>4. /\ unmarked = [cmd EXCEPT !.created = b, !.marked = FALSE, !.made = m] /\ done.created = b
      BY <1>1, <3>3 DEF Cmds
    <3>5. unmarked \in Cmds /\ unmarked.made = m /\ unmarked.scope = s
      BY <1>1, <3>4 DEF Cmds
    <3> QED
      BY <3>1, <3>2, <3>4, <3>5
  <2> HIDE DEF done, unmarked
  <2>2. /\ unmarked.made => ~saved.foreign[unmarked.scope]
        /\ \A t \in Scopes : saved.foreign[t] => saved.dir[t]
    BY <1>1, <1>3, <1>4, <2>1 DEF HostInv, FilesInv
  <2>3. /\ host' \in Hosts /\ host'.config[s] = (IF "config" \in left THEN cmd.token ELSE None)
        /\ host'.foreign = host.foreign /\ host'.profile = host.profile
        /\ \A t \in Scopes : host'.marker[t] => host.marker[t]
        /\ \A t \in Scopes : host.foreign[t] => host'.dir[t]
    <3>1. /\ host' \in Hosts
          /\ host'.config[unmarked.scope] = (IF "config" \in left THEN saved.config[unmarked.scope] ELSE None)
          /\ host'.foreign = saved.foreign /\ host'.profile = saved.profile
          /\ \A t \in Scopes : host'.marker[t] => saved.marker[t]
          /\ \A t \in Scopes : saved.foreign[t] => host'.dir[t]
      <4> HIDE DEF saved
      <4>1. saved \in Hosts /\ unmarked \in Cmds
        BY <1>3, <2>1
      <4> QED
        BY <1>8, <2>2, <4>1, RolledBack
    <3> QED
      BY <1>3, <2>1, <3>1
  <2>4. PICK k \in {"restore", "committed"}, b \in BOOLEAN, m \in BOOLEAN :
          /\ cmd' = [cmd EXCEPT !.step = k, !.committed = b, !.torn = m]
          /\ left = {} => k = "restore" /\ ~b
          /\ left # {} => k = "committed" /\ b
          /\ k = "committed" /\ "config" \notin left => m
    <3>1. PICK b \in BOOLEAN : b = (left # {})
      OBVIOUS
    <3>2. PICK m \in BOOLEAN : m = Tears(left)
      BY DEF Tears
    <3>3. PICK k \in {"restore", "committed"} : k = IF left = {} THEN "restore" ELSE "committed"
      OBVIOUS
    <3>4. cmd' = [cmd EXCEPT !.step = k, !.committed = b, !.torn = m]
      BY <1>8, <3>1, <3>2, <3>3
    <3>5. k = "committed" /\ "config" \notin left => m
      BY <3>2, <3>3 DEF Tears
    <3> QED
      BY <3>1, <3>3, <3>4, <3>5
  <2>5. /\ cmd' \in Cmds /\ cmd'.kind = "init" /\ cmd'.step = k /\ cmd'.scope = s /\ cmd'.token = cmd.token
        /\ cmd'.claim = cmd.claim /\ cmd'.made = cmd.made /\ cmd'.had = cmd.had
        /\ cmd'.committed = b /\ cmd'.torn = m
    BY <1>1, <2>4 DEF Cmds, InitSteps
  <2>6. HostTypeOK'
    BY <2>3, <2>5 DEF HostTypeOK, InitSteps
  <2>7. FilesInv'
    BY <1>1, <2>3, <2>5 DEF FilesInv, HostInv
  <2>8. CmdInv'
    <3>1. cmd.had = None
      BY <1>2, <1>8, <2>1
    <3>2. CASE k = "restore"
      BY <2>3, <2>4, <2>5, <3>1, <3>2 DEF CmdInv
    <3>3. CASE k = "committed"
      BY <1>2, <2>3, <2>4, <2>5, <3>3 DEF CmdInv, Together
    <3> QED
      BY <3>2, <3>3
  <2> QED
    BY <2>6, <2>7, <2>8 DEF HostInv
<1>9. \/ /\ host' = IF marks THEN [saved EXCEPT !.marker[s] = TRUE] ELSE saved
         /\ cmd' = [done EXCEPT !.step = IF s = "user" THEN "done" ELSE "install"]
      \/ host' \in {host, [host EXCEPT !.dir[s] = TRUE]} /\ Step("restore")
      \/ host' = saved /\ cmd' = [cmd EXCEPT !.step = "committed", !.committed = TRUE]
      \/ /\ done.created
         /\ \E left \in Leftovers(unmarked) :
               /\ host' = rollbackManagedConfig(saved, unmarked, left)
               /\ cmd' = [cmd EXCEPT !.step = IF left = {} THEN "restore" ELSE "committed",
                                     !.committed = left # {}, !.torn = Tears(left)]
  BY DEF saveManagedSetupConfig, Same, claim, saved, marks
<1> QED
  BY <1>5, <1>6, <1>7, <1>8, <1>9

(* An error with the configuration on disk.                                 *)
LEMMA CommittedKeepsHost == HostInv /\ initServiceConfigSaved => HostInv'
<1> SUFFICES ASSUME HostInv, initServiceConfigSaved PROVE HostInv'
  OBVIOUS
<1> DEFINE k == afterCommitted(cmd.scope)
<1>1. host' = host /\ destroyed' = destroyed /\ cmd.step = "committed" /\ cmd.kind = "init" /\ host \in Hosts
  BY NoCmdType DEF initServiceConfigSaved, Same, Quiet, HostInv, HostTypeOK, UninstallSteps, Cmds, NoCmd
<1>2. PICK b \in BOOLEAN : cmd' = [cmd EXCEPT !.step = k, !.saved = b]
  BY DEF initServiceConfigSaved
<1>3. k \in InitSteps /\ k \in {"restore", "done"} /\ (k = "restore" => cmd.scope = "user")
  BY DEF InitSteps, afterCommitted
<1> HIDE DEF k
<1>t. /\ cmd' \in Cmds /\ cmd'.kind = "init" /\ cmd'.step = k /\ cmd'.scope = cmd.scope /\ cmd'.token = cmd.token
      /\ cmd'.claim = cmd.claim /\ cmd'.made = cmd.made /\ cmd'.committed = cmd.committed /\ cmd'.torn = cmd.torn
  BY <1>1, <1>2, <1>3 DEF HostInv, HostTypeOK, Cmds
<1>4. HostTypeOK'
  BY <1>1, <1>3, <1>t DEF HostTypeOK
<1>5. FilesInv'
  BY <1>1, <1>t DEF FilesInv, HostInv
<1>6. CmdInv'
  <2>1. cmd.committed /\ (cmd.torn \/ Together)
    BY <1>1 DEF HostInv, CmdInv
  <2> QED
    BY <1>1, <1>3, <1>t, <2>1 DEF CmdInv, Together
<1> QED
  BY <1>4, <1>5, <1>6 DEF HostInv

(* The helper hands over to the service manager.                            *)
LEMMA InstallStepKeepsHost == HostInv /\ installInitSystemService => HostInv'
<1> SUFFICES ASSUME HostInv, installInitSystemService PROVE HostInv'
  OBVIOUS
<1>1. /\ host' = host /\ destroyed' = destroyed /\ cmd.step = "install" /\ cmd.kind = "init" /\ host \in Hosts
      /\ cmd' = [cmd EXCEPT !.step = "installing"]
  BY NoCmdType DEF installInitSystemService, Step, HostInv, HostTypeOK, UninstallSteps, Cmds, NoCmd
<1>2. "installing" \in InitSteps
  BY DEF InitSteps
<1>3. HostTypeOK'
  BY <1>1, <1>2, StepType DEF HostTypeOK
<1>4. FilesInv'
  BY <1>1, <1>2, StepType DEF FilesInv, HostInv
<1>5. CmdInv'
  BY <1>1, <1>2, StepType DEF CmdInv, Together, HostInv
<1> QED
  BY <1>3, <1>4, <1>5 DEF HostInv

(* The installation ended: the configuration stays, or goes with the        *)
(* profile.                                                                 *)
LEMMA ServiceInstalledKeepsHost == HostInv /\ ServiceInstalled => HostInv'
<1> SUFFICES ASSUME HostInv, ServiceInstalled PROVE HostInv'
  OBVIOUS
<1>1. /\ destroyed' = destroyed /\ cmd.step = "installing" /\ cmd.kind = "init" /\ host \in Hosts
      /\ Together /\ cmd.created = (cmd.had = None) /\ ~cmd.committed
  BY DEF ServiceInstalled, Quiet, HostInv, HostTypeOK, CmdInv
<1>2. ASSUME host' = host,
             NEW b \in BOOLEAN, cmd' = [cmd EXCEPT !.step = "done"] \/ cmd' = [cmd EXCEPT !.step = "done", !.saved = b]
      PROVE  HostInv'
  <2>1. /\ cmd' \in Cmds /\ cmd'.kind = "init" /\ cmd'.step = "done" /\ cmd'.scope = cmd.scope /\ cmd'.token = cmd.token
        /\ cmd'.claim = cmd.claim /\ cmd'.made = cmd.made
    BY <1>1, <1>2 DEF HostInv, HostTypeOK, Cmds, InitSteps
  <2>2. HostTypeOK'
    BY <1>1, <1>2, <2>1 DEF HostTypeOK, InitSteps
  <2>3. FilesInv'
    BY <1>1, <1>2, <2>1 DEF FilesInv, HostInv
  <2>4. CmdInv'
    BY <1>1, <1>2, <2>1 DEF CmdInv, Together
  <2> QED
    BY <2>2, <2>3, <2>4 DEF HostInv
<1>3. ASSUME NEW left \in Leftovers(cmd), cmd.created, host' = rollbackManagedConfig(host, cmd, left),
             cmd' = [cmd EXCEPT !.step = unsavedOrSaved(left), !.saved = left # {}, !.torn = Tears(left)]
      PROVE  HostInv'
  <2>1. PICK k \in {"restore", "done"}, b \in BOOLEAN, m \in BOOLEAN :
          /\ cmd' = [cmd EXCEPT !.step = k, !.saved = b, !.torn = m]
          /\ k = "restore" => left = {}
          /\ k = "done" /\ "config" \notin left => m
    <3>1. PICK b \in BOOLEAN : b = (left # {})
      OBVIOUS
    <3>2. PICK m \in BOOLEAN : m = Tears(left)
      BY DEF Tears
    <3>3. PICK k \in {"restore", "done"} : k = unsavedOrSaved(left)
      BY DEF unsavedOrSaved
    <3>4. cmd' = [cmd EXCEPT !.step = k, !.saved = b, !.torn = m]
      BY <1>3, <3>1, <3>2, <3>3
    <3>5. k = "done" /\ "config" \notin left => m
      BY <3>2, <3>3 DEF Tears, unsavedOrSaved
    <3>6. k = "restore" => left = {}
      BY <3>3 DEF unsavedOrSaved
    <3> QED
      BY <3>4, <3>5, <3>6
  <2>2. /\ cmd' \in Cmds /\ cmd'.kind = "init" /\ cmd'.step = k /\ cmd'.scope = cmd.scope /\ cmd'.token = cmd.token
        /\ cmd'.claim = cmd.claim /\ cmd'.made = cmd.made /\ cmd'.had = cmd.had
        /\ cmd'.committed = cmd.committed /\ cmd'.torn = m
    BY <1>1, <2>1 DEF HostInv, HostTypeOK, Cmds, InitSteps
  <2>3. /\ host' \in Hosts /\ host'.config[cmd.scope] = (IF "config" \in left THEN host.config[cmd.scope] ELSE None)
        /\ host'.foreign = host.foreign /\ host'.profile = host.profile
        /\ \A t \in Scopes : host'.marker[t] => host.marker[t]
        /\ \A t \in Scopes : host.foreign[t] => host'.dir[t]
    BY <1>1, <1>3, RolledBack DEF HostInv, HostTypeOK, FilesInv
  <2>4. HostTypeOK'
    BY <2>2, <2>3 DEF HostTypeOK, InitSteps
  <2>5. FilesInv'
    BY <1>1, <2>2, <2>3 DEF FilesInv, HostInv
  <2>6. CmdInv'
    <3>1. cmd.had = None
      BY <1>1, <1>3
    <3>2. CASE k = "restore"
      BY <1>1, <2>1, <2>2, <2>3, <3>1, <3>2 DEF CmdInv
    <3>3. CASE k = "done"
      BY <1>1, <2>1, <2>2, <2>3, <3>3 DEF CmdInv, Together
    <3> QED
      BY <3>2, <3>3
  <2> QED
    BY <2>4, <2>5, <2>6 DEF HostInv
<1>4. \/ host' = host /\ (cmd' = [cmd EXCEPT !.step = "done"] \/ cmd' = [cmd EXCEPT !.step = "done", !.saved = TRUE])
      \/ /\ cmd.created
         /\ \E left \in Leftovers(cmd) :
               /\ host' = rollbackManagedConfig(host, cmd, left)
               /\ cmd' = [cmd EXCEPT !.step = unsavedOrSaved(left), !.saved = left # {}, !.torn = Tears(left)]
  BY DEF ServiceInstalled, Same, Step
<1> QED
  BY <1>2, <1>3, <1>4

(* The profile from before, or a restore that failed.                       *)
LEMMA RestoreKeepsHost == HostInv /\ restoreProfile => HostInv'
<1> SUFFICES ASSUME HostInv, restoreProfile PROVE HostInv'
  OBVIOUS
<1>1. /\ destroyed' = destroyed /\ cmd.step = "restore" /\ cmd.kind = "init" /\ host \in Hosts /\ cmd \in Cmds
      /\ IF cmd.committed THEN cmd.scope = "user" ELSE host.config[cmd.scope] = cmd.had
  BY DEF restoreProfile, Quiet, HostInv, HostTypeOK, CmdInv
<1>2. CASE host' = [host EXCEPT !.profile = cmd.before] /\ Step("done")
  <2>1. "done" \in InitSteps /\ cmd' = [cmd EXCEPT !.step = "done"]
    BY <1>2 DEF InitSteps, Step
  <2>2. /\ host' \in Hosts /\ host'.profile = cmd.before /\ host'.config = host.config
        /\ host'.marker = host.marker /\ host'.foreign = host.foreign /\ host'.dir = host.dir
    BY <1>1, <1>2 DEF Hosts, Cmds
  <2>3. HostTypeOK'
    BY <1>1, <2>1, <2>2, StepType DEF HostTypeOK
  <2>4. FilesInv'
    BY <1>1, <2>1, <2>2, StepType DEF FilesInv, HostInv
  <2>5. CmdInv'
    BY <1>1, <2>1, <2>2, StepType DEF CmdInv, Before
  <2> QED
    BY <2>3, <2>4, <2>5 DEF HostInv
<1>3. CASE host' = host /\ cmd' = [cmd EXCEPT !.step = "done", !.excused = TRUE]
  <2>1. /\ cmd' \in Cmds /\ cmd'.kind = "init" /\ cmd'.step = "done" /\ cmd'.excused /\ cmd'.scope = cmd.scope
        /\ cmd'.claim = cmd.claim /\ cmd'.made = cmd.made
    BY <1>1, <1>3 DEF Cmds, InitSteps
  <2>2. HostTypeOK'
    BY <1>1, <1>3, <2>1 DEF HostTypeOK, InitSteps
  <2>3. FilesInv'
    BY <1>1, <1>3, <2>1 DEF FilesInv, HostInv
  <2>4. CmdInv'
    BY <2>1 DEF CmdInv
  <2> QED
    BY <2>2, <2>3, <2>4 DEF HostInv
<1> QED
  BY <1>2, <1>3 DEF restoreProfile, Same

(* Every step of vmflow init.                                               *)
LEMMA InitKeepsHost == HostInv /\ InitCommand => HostInv'
  BY ExecuteInitKeepsHost, ProfileKeepsHost, EndsKeepHost, ElevateKeepsHost, SaveKeepsHost, CommittedKeepsHost,
     InstallStepKeepsHost, ServiceInstalledKeepsHost, RestoreKeepsHost DEF InitCommand

(* A step of the uninstallation: what cmd becomes.                          *)
LEMMA UninstallStepKeepsHost ==
  ASSUME HostInv, HostTypeOK', cmd'.kind = "uninstall", destroyed' = destroyed, host' = host
  PROVE  HostInv'
<1>1. FilesInv'
  BY DEF HostInv, FilesInv
<1>2. CmdInv'
  BY DEF CmdInv
<1> QED
  BY <1>1, <1>2 DEF HostInv

(* Plan starts an uninstallation.                                           *)
LEMMA PlanKeepsHost == HostInv /\ Plan => HostInv'
<1> SUFFICES ASSUME HostInv, Plan PROVE HostInv'
  OBVIOUS
<1> DEFINE items == {s \in Scopes : owned(s)} \union {"state", "binary"}
                    \union (IF installed THEN {"service"} ELSE {})
                    \union (IF profileLoads /\ ~planRemovesPath("profile") THEN {"profile"} ELSE {})
                    \union (IF host.cached THEN {"cache"} ELSE {})
<1>1. cmd' = [NoCmd EXCEPT !.kind = "uninstall", !.step = "service", !.items = items]
  BY DEF Plan
<1>2. items \in SUBSET Items
  <2>1. {s \in Scopes : owned(s)} \subseteq Items
    BY DEF Items, Scopes
  <2> HIDE DEF Scopes
  <2> QED
    BY <2>1 DEF Items
<1> HIDE DEF items
<1>3. cmd' \in Cmds /\ cmd'.kind = "uninstall" /\ cmd'.step = "service"
  BY <1>1, <1>2, NoCmdType DEF NoCmd, Cmds, UninstallSteps
<1>4. host' = host /\ destroyed' = destroyed /\ host \in Hosts
  BY DEF Plan, HostInv, HostTypeOK
<1>5. HostTypeOK'
  BY <1>3, <1>4 DEF HostTypeOK, UninstallSteps
<1> QED
  BY <1>3, <1>4, <1>5, UninstallStepKeepsHost

(* The service goes first; no file is touched.                              *)
LEMMA UninstallServiceKeepsHost == HostInv /\ (uninstallService \/ ServiceGone) => HostInv'
<1> SUFFICES ASSUME HostInv, uninstallService \/ ServiceGone PROVE HostInv'
  OBVIOUS
<1>1. /\ host' = host /\ destroyed' = destroyed /\ cmd.kind = "uninstall" /\ host \in Hosts /\ cmd \in Cmds
      /\ \E k \in UninstallSteps : cmd' = [cmd EXCEPT !.step = k]
  BY DEF uninstallService, ServiceGone, Step, Same, Quiet, UninstallSteps, afterService, HostInv, HostTypeOK
<1>2. cmd' \in Cmds /\ cmd'.kind = "uninstall" /\ cmd'.step \in UninstallSteps
  BY <1>1 DEF Cmds
<1>3. HostTypeOK'
  BY <1>1, <1>2 DEF HostTypeOK
<1> QED
  BY <1>1, <1>2, <1>3, UninstallStepKeepsHost

(* Removing an item takes no file of the operator's.                        *)
LEMMA RemovalSparesOperator ==
  ASSUME HostInv, NEW i
  PROVE  /\ removed(i) \in Hosts
         /\ removed(i).foreign = host.foreign /\ removed(i).tls = host.tls
         /\ \A s \in Scopes : removed(i).marker[s] => host.marker[s]
         /\ \A s \in Scopes : host.foreign[s] => removed(i).dir[s]
<1>1. host \in Hosts /\ NoProfile \in Profiles
  BY DEF HostInv, HostTypeOK, NoProfile, Profiles, Scopes
<1>2. \A s \in Scopes : (host.marker[s] => ~host.foreign[s]) /\ (host.foreign[s] => host.dir[s])
  BY DEF HostInv, FilesInv
<1>3. CASE i \in Scopes /\ owned(i)
  <2>1. removed(i) = withoutDir(i)
    <3>1. i \in Scopes => removed(i) = IF owned(i) THEN withoutDir(i) ELSE host
      BY DEF removed, Scopes
    <3> QED
      BY <1>3, <3>1
  <2>2. ~host.foreign[i] /\ ~host.tls[i] /\ host.foreign[i] \in BOOLEAN /\ host.tls[i] \in BOOLEAN
    BY <1>1, <1>2, <1>3 DEF owned, Hosts, Flags
  <2>3. [host.foreign EXCEPT ![i] = FALSE] = host.foreign /\ [host.tls EXCEPT ![i] = FALSE] = host.tls
    BY <1>1, <1>3, <2>2 DEF Hosts, Flags
  <2>4. /\ withoutDir(i) \in Hosts
        /\ withoutDir(i).foreign = [host.foreign EXCEPT ![i] = FALSE]
        /\ withoutDir(i).tls = [host.tls EXCEPT ![i] = FALSE]
        /\ withoutDir(i).marker = [host.marker EXCEPT ![i] = FALSE]
        /\ withoutDir(i).dir = [host.dir EXCEPT ![i] = FALSE]
    BY <1>1, <1>3 DEF withoutDir, Hosts, Flags
  <2>5. \A s \in Scopes : withoutDir(i).marker[s] => host.marker[s]
    BY <1>1, <1>3, <2>4 DEF Hosts, Flags
  <2>6. \A s \in Scopes : host.foreign[s] => withoutDir(i).dir[s]
    BY <1>1, <1>2, <1>3, <2>2, <2>4 DEF Hosts, Flags
  <2> QED
    BY <2>1, <2>3, <2>4, <2>5, <2>6
<1>4. CASE ~(i \in Scopes /\ owned(i))
  <2>1. removed(i) \in {host, [host EXCEPT !.profile = NoProfile], [host EXCEPT !.cached = FALSE],
                        [host EXCEPT !.binary = "none"]}
    BY <1>4 DEF removed
  <2> QED
    BY <1>1, <1>2, <2>1 DEF Hosts
<1> QED
  BY <1>3, <1>4

(* An item of the plan is removed, or not.                                  *)
LEMMA RemoveItemKeepsHost == HostInv /\ RemoveItem => HostInv'
<1> SUFFICES ASSUME HostInv, RemoveItem PROVE HostInv'
  OBVIOUS
<1>1. /\ cmd.kind = "uninstall" /\ cmd.step = "files" /\ host \in Hosts /\ cmd \in Cmds
      /\ cmd' = [cmd EXCEPT !.items = @ \ {"service", nextItem}]
      /\ host' = removed(nextItem) \/ host' = host
      /\ destroyed' = (destroyed \/ \E s \in Scopes : (host.foreign[s] /\ ~host'.foreign[s]) \/ (host.tls[s] /\ ~host'.tls[s]))
  BY DEF RemoveItem, HostInv, HostTypeOK
<1>2. /\ host' \in Hosts /\ host'.foreign = host.foreign /\ host'.tls = host.tls
      /\ \A s \in Scopes : host'.marker[s] => host.marker[s]
      /\ \A s \in Scopes : host.foreign[s] => host'.dir[s]
  BY <1>1, RemovalSparesOperator DEF HostInv, FilesInv
<1>3. cmd' \in Cmds /\ cmd'.kind = "uninstall" /\ cmd'.step = "files"
  <2> DEFINE left == cmd.items \ {"service", nextItem}
  <2>1. cmd' = [cmd EXCEPT !.items = left] /\ left \in SUBSET Items
    BY <1>1 DEF Cmds
  <2> HIDE DEF left
  <2> QED
    BY <1>1, <2>1 DEF Cmds
<1>4. HostTypeOK'
  BY <1>2, <1>3 DEF HostTypeOK, UninstallSteps
<1>5. destroyed' = FALSE
  BY <1>1, <1>2 DEF HostInv, FilesInv
<1>6. FilesInv'
  BY <1>2, <1>3, <1>5 DEF HostInv, FilesInv
<1>7. CmdInv'
  BY <1>3 DEF CmdInv
<1> QED
  BY <1>4, <1>6, <1>7 DEF HostInv

(* Every step of vmflow uninstall.                                          *)
LEMMA UninstallKeepsHost == HostInv /\ UninstallCommand => HostInv'
  BY PlanKeepsHost, UninstallServiceKeepsHost, RemoveItemKeepsHost, EndsKeepHost DEF UninstallCommand

(* Between commands.                                                        *)
LEMMA RestKeepsHost ==
  ASSUME HostInv, cmd.kind = "none", cmd' = cmd, host' \in Hosts, destroyed' = destroyed,
         \A s \in Scopes : (host'.marker[s] => ~host'.foreign[s]) /\ (host'.foreign[s] => host'.dir[s])
  PROVE  HostInv'
  BY DEF HostInv, HostTypeOK, FilesInv, CmdInv

(* An update touches the binary and the cache only.                         *)
LEMMA UpdateKeepsHost == HostInv /\ (runUpdate \/ CacheExpires) => HostInv'
<1> SUFFICES ASSUME HostInv, runUpdate \/ CacheExpires PROVE HostInv'
  OBVIOUS
<1>1. cmd.kind = "none" /\ cmd' = cmd /\ destroyed' = destroyed /\ host \in Hosts
  BY DEF runUpdate, CacheExpires, Begins, Idling, Same, Quiet, HostInv, HostTypeOK
<1>2. \E c \in BOOLEAN : \/ host' = [host EXCEPT !.cached = c]
                         \/ host' = [host EXCEPT !.cached = c, !.binary = "new"]
  <2>1. CASE CacheExpires
    BY <2>1 DEF CacheExpires
  <2>2. CASE runUpdate
    <3>1. PICK check \in CheckForUpdate \union CheckSpecificVersion :
              \/ host' = [host EXCEPT !.cached = check.cached]
              \/ host' \in DownloadAndInstall([host EXCEPT !.cached = check.cached])
      BY <2>2 DEF runUpdate
    <3>2. check.cached \in BOOLEAN
      <4>1. host.cached \in BOOLEAN
        BY <1>1 DEF Hosts
      <4>2. check \in CheckForUpdate => check.cached \in BOOLEAN
        <5>1. CheckForUpdate \subseteq {[release |-> FALSE, cached |-> host.cached]} \union [release : {TRUE}, cached : BOOLEAN]
          BY DEF CheckForUpdate
        <5>2. check = [release |-> FALSE, cached |-> host.cached] => check.cached \in BOOLEAN
          BY <4>1
        <5>3. check \in [release : {TRUE}, cached : BOOLEAN] => check.cached \in BOOLEAN
          OBVIOUS
        <5> QED
          BY <5>1, <5>2, <5>3
      <4>3. check \in CheckSpecificVersion => check.cached \in BOOLEAN
        BY <4>1 DEF CheckSpecificVersion
      <4> QED
        BY <4>2, <4>3
    <3> QED
      BY <1>1, <3>1, <3>2 DEF DownloadAndInstall, AtomicReplace, Hosts
  <2> QED
    BY <2>1, <2>2
<1>3. host' \in Hosts /\ host'.marker = host.marker /\ host'.foreign = host.foreign /\ host'.dir = host.dir
  BY <1>1, <1>2 DEF Hosts
<1> QED
  BY <1>1, <1>3, RestKeepsHost DEF HostInv, FilesInv

(* The operator adds a file of his own to a directory without a marker.     *)
LEMMA OperatorKeepsHost == HostInv /\ Operator => HostInv'
<1> SUFFICES ASSUME HostInv, Operator PROVE HostInv'
  OBVIOUS
<1>1. cmd.kind = "none" /\ cmd' = cmd /\ destroyed' = destroyed /\ host \in Hosts
  BY DEF Operator, Idling, Same, Quiet, HostInv, HostTypeOK
<1>2. PICK s \in Scopes :
          \/ host.dir[s] /\ ~host.marker[s] /\ host' = [host EXCEPT !.foreign[s] = TRUE]
          \/ host' = [host EXCEPT !.tls[s] = TRUE]
  BY DEF Operator
<1>3. host' \in Hosts
  <2>1. [host.foreign EXCEPT ![s] = TRUE] \in Flags /\ [host.tls EXCEPT ![s] = TRUE] \in Flags
    BY <1>1 DEF Hosts, Flags
  <2> QED
    BY <1>1, <1>2, <2>1 DEF Hosts
<1>4. \A t \in Scopes : (host'.marker[t] => ~host'.foreign[t]) /\ (host'.foreign[t] => host'.dir[t])
  BY <1>1, <1>2 DEF Hosts, Flags, HostInv, FilesInv
<1> QED
  BY <1>1, <1>3, <1>4, RestKeepsHost

(* The service manager, the service commands and the recovery screen leave  *)
(* the files alone.                                                         *)
LEMMA OthersFrameHost ==
  runService \/ RecoveryScreen \/ UNCHANGED hostVars
  \/ (ServiceNext /\ UNCHANGED <<host, cmd, commands, recovery, destroyed>>) => HostFrame
  BY DEF HostFrame, runService, RecoveryScreen, statsMsg, serviceInspectMsg, Refresh, startService, serviceStartMsg,
         serviceReconnectMsg, Watching, hostVars

(* For every set of tokens, the inductive invariant of the files: what      *)
(* vmflow claims holds nothing of the operator's, and init keeps            *)
(* configuration and profile together or both as they were, step by step,   *)
(* but for a rollback that removed the configuration and then failed.       *)
THEOREM HostInvariant == HostSpec => []HostInv
<1>1. HostInit => HostInv
  <2> SUFFICES ASSUME HostInit PROVE HostInv
    OBVIOUS
  <2>1. PICK dirs \in SUBSET Scopes :
          host = [config |-> [s \in Scopes |-> None], marker |-> [s \in Scopes |-> FALSE],
                  dir |-> [s \in Scopes |-> s \in dirs], foreign |-> [s \in Scopes |-> s \in dirs],
                  tls |-> [s \in Scopes |-> FALSE], profile |-> NoProfile, binary |-> "old", cached |-> FALSE]
    BY DEF HostInit
  <2>2. cmd = NoCmd /\ destroyed = FALSE
    BY DEF HostInit
  <2>3. NoProfile \in Profiles
    BY DEF NoProfile, Profiles, Scopes
  <2>4. host \in Hosts
    BY <2>1, <2>3 DEF Hosts, Flags
  <2>5. HostTypeOK
    BY <2>2, <2>4, NoCmdType DEF HostTypeOK
  <2>6. FilesInv
    BY <2>1, <2>2, NoCmdType DEF FilesInv
  <2>7. CmdInv
    BY <2>2, NoCmdType DEF CmdInv
  <2> QED
    BY <2>5, <2>6, <2>7 DEF HostInv
<1>2. HostInv /\ [HostNext]_hostVars => HostInv'
  BY InitKeepsHost, UninstallKeepsHost, UpdateKeepsHost, OperatorKeepsHost, OthersFrameHost, FrameKeepsHost
     DEF HostNext
<1> QED
  BY <1>1, <1>2, PTL DEF HostSpec

(* No uninstallation removes a file of the operator's, whatever claimed the *)
(* directory before.                                                        *)
THEOREM OperatorFilesSurviveHolds == HostSpec => []OperatorFilesSurvive
<1>1. HostInv => OperatorFilesSurvive
  BY DEF HostInv, FilesInv, OperatorFilesSurvive
<1> QED
  BY <1>1, HostInvariant, PTL

(* An init that ends leaves configuration and profile with one token, or    *)
(* both as they were, unless it says that the profile could not be          *)
(* restored, its rollback removed the configuration and then failed, or a   *)
(* user configuration was committed with an error.                          *)
THEOREM CredentialsTogetherHolds == HostSpec => CredentialsTogether
<1>1. HostInv => [cmd.kind = "init" /\ cmd.step = "done" /\ ~cmd.excused /\ ~cmd.torn /\ ~(cmd.committed /\ cmd.scope = "user")
       => \/ host.profile = [token |-> cmd.token, scope |-> cmd.scope] /\ host.config[cmd.scope] = cmd.token
          \/ host.profile = cmd.before /\ host.config[cmd.scope] = cmd.had]_cmd
  BY DEF HostInv, CmdInv, Together, Before
<1> QED
  BY <1>1, HostInvariant, PTL DEF CredentialsTogether

-----------------------------------------------------------------------------
(* The service manager and the transaction.                                 *)
Txs == [op: Ops, todo: Seq(Commands), def: Definitions \union {None}, prev: Services, known: BOOLEAN,
        active: BOOLEAN, rolling: BOOLEAN, problems: BOOLEAN, blind: BOOLEAN,
        seen: {"gone", "loaded", "unknown"}, result: {"none", "ok", "failed"}, tainted: BOOLEAN]

(* What is left of the list of commands; the service neither runs nor is to *)
(* run.                                                                     *)
Todo(s) == tx.todo = s
Stopped == ~svc.wanted /\ ~Running

(* The shape of service manager and transaction, and the flags each kind of *)
(* operation leaves alone.                                                  *)
TxTypeOK ==
    /\ platform \in {"systemd", "launchd", "scm"} /\ svc \in Services /\ tx \in Txs
    /\ tx.op = "none" => ~tx.rolling /\ tx.seen = "gone" /\ (tx.problems => tx.tainted)
    /\ tx.op \in {"start", "uninstall"} => ~tx.rolling /\ ~tx.problems /\ tx.seen = "gone"
    /\ tx.op = "install" => tx.def \in Definitions
    /\ tx.op = "install" /\ ~tx.rolling => ~tx.problems /\ tx.seen = "gone"

(* launchd keeps a loaded job running, and nothing else.                    *)
LaunchdInv ==
    /\ svc.wanted => svc.loaded # None
    /\ svc.loaded = None => ~Running
    /\ svc.loaded # None /\ ~svc.wanted => tx.op # "none" /\ Head(tx.todo) \in {"bootout", "cleanup", "kickstart"}

(* A service the SCM does not know has no settings, and no process unless   *)
(* a rollback said that it is incomplete.                                   *)
ScmInv ==
    /\ svc.loaded = None => ~svc.enabled /\ ~svc.recovery /\ ~svc.wanted
    /\ svc.loaded = None /\ Running => tx.tainted \/ tx.problems

(* Nothing runs without a definition, between transactions.                 *)
RestInv ==
    tx.op = "none" /\ ~tx.tainted /\ svc.unit = None =>
        /\ platform = "systemd" => Stopped
        /\ platform = "launchd" => svc.loaded = None

(* What a snapshot says that does not depend on how far the installation is. *)
SystemdSnapshot ==
    /\ ~tx.blind => tx.known = (tx.prev.unit # None \/ tx.prev.enabled \/ tx.active)
    /\ tx.blind => ~tx.known /\ ~tx.active /\ ~tx.prev.enabled
    /\ tx.prev.unit = None /\ ~tx.tainted => ~tx.active /\ ~tx.prev.wanted
    /\ svc.recovery = tx.prev.recovery

(* The same for launchd, whose snapshot is never blind.                     *)
LaunchdSnapshot ==
    /\ ~tx.blind
    /\ tx.prev.loaded # None => tx.prev.unit # None
    /\ tx.prev.wanted = (tx.prev.loaded # None)
    /\ svc.recovery = tx.prev.recovery /\ svc.enabled = tx.prev.enabled

(* The same for the SCM, which knows no unit files.                         *)
ScmSnapshot ==
    /\ ~tx.blind
    /\ tx.prev.loaded = None => ~tx.prev.enabled /\ ~tx.prev.recovery /\ ~tx.prev.wanted
    /\ svc.unit = tx.prev.unit

(* The cases FailedInstallRestores is about.                                *)
Faithful == /\ ~tx.blind /\ tx.active = tx.prev.wanted
            /\ platform = "scm" \/ tx.prev.loaded = tx.prev.unit

-----------------------------------------------------------------------------
(* systemd, going forward: what is left to do, and what has been done.      *)
I5 == <<"isActive">>
I4 == <<"restart", "isActive">>
I3 == <<"enable", "restart", "isActive">>
I2 == <<"reload", "enable", "restart", "isActive">>
I1 == <<"write", "reload", "enable", "restart", "isActive">>

(* The running service is still the one the installation found.             *)
AsBefore ==
    /\ svc.wanted = tx.prev.wanted /\ (~tx.blind => svc.enabled = tx.prev.enabled)
    /\ tx.prev.unit = None /\ ~tx.tainted => Stopped

(* What holds at each rest of installSystemdUnit's list.                    *)
SystemdForward ==
    \/ Todo(I1) /\ AsBefore /\ svc.unit = tx.prev.unit /\ svc.loaded = tx.prev.loaded
    \/ (Todo(I2) \/ Todo(I3)) /\ AsBefore /\ svc.unit = tx.def
    \/ (Todo(I4) \/ Todo(I5)) /\ svc.unit = tx.def

(* systemd, going back.                                                     *)
B5 == <<IF tx.active THEN "restart" ELSE "stop">>
B4 == <<IF tx.prev.enabled THEN "enable" ELSE "disable", IF tx.active THEN "restart" ELSE "stop">>
BK == IF tx.known THEN B4 ELSE <<>>
B3 == <<"reload">> \o BK
B2 == <<"restore", "reload">> \o BK
B1 == <<"disable">> \o B2

(* Nothing is left running, or linked, that was not before.                 *)
Still == /\ tx.prev.unit = None /\ ~tx.tainted => Stopped
         /\ Faithful /\ ~tx.known => ~svc.wanted
Unlinked == Faithful /\ ~tx.known => ~svc.enabled

(* What holds at each rest of rollbackSystemdInstall's lists, unless a      *)
(* command of it failed.                                                    *)
SystemdBack ==
    \/ Todo(<<"stop">> \o B1) /\ ~tx.prev.enabled
    \/ Todo(<<"stop">> \o B2) /\ (~tx.problems => Unlinked)
    \/ Todo(B1) /\ ~tx.prev.enabled /\ (~tx.problems => Still)
    \/ Todo(B2) /\ (~tx.problems => Still /\ Unlinked)
    \/ Todo(B3) /\ (~tx.problems => Still /\ Unlinked /\ svc.unit = tx.prev.unit)
    \/ tx.known /\ Todo(B4) /\ (~tx.problems => Still /\ svc.unit = tx.prev.unit /\ svc.loaded = tx.prev.unit)
    \/ tx.known /\ Todo(B5) /\ (~tx.problems => /\ Still /\ svc.unit = tx.prev.unit /\ svc.loaded = tx.prev.unit
                                               /\ svc.enabled = tx.prev.enabled)

(* The rests of uninstallSystemdService's and startSystemdService's lists.  *)
U4 == <<"reload">>
U3 == <<"remove", "reload">>
U2 == <<"disable", "remove", "reload">>
U1 == <<"stop", "disable", "remove", "reload">>
N2 == <<"start", "isActive">>

(* Once stopped, a unit under removal stays stopped.                        *)
SystemdUninstall ==
    \/ Todo(U1) /\ (svc.unit = None => tx.tainted)
    \/ (Todo(U2) \/ Todo(U3) \/ Todo(U4)) /\ Stopped

(* A transaction on systemd.                                                *)
SystemdInv ==
    /\ tx.op = "install" => SystemdSnapshot
    /\ tx.op = "install" /\ ~tx.rolling => SystemdForward
    /\ tx.op = "install" /\ tx.rolling => SystemdBack
    /\ tx.op = "uninstall" => SystemdUninstall
    /\ tx.op = "start" => (Todo(N2) \/ Todo(I5)) /\ svc.unit # None

-----------------------------------------------------------------------------
(* launchd.                                                                 *)
LB  == <<"bootstrap">>
LOB == <<"bootout", "bootstrap">>
LW  == <<"write", "bootstrap">>
LWO == <<"write", "bootout", "bootstrap">>

(* What holds at each rest of installLaunchdDaemon's list.                  *)
LaunchdForward ==
    \/ Todo(LWO) /\ svc = tx.prev /\ svc.loaded # None
    \/ Todo(LW) /\ svc = tx.prev /\ svc.loaded = None
    \/ Todo(LOB) /\ svc.unit = tx.def /\ svc.loaded = tx.prev.loaded /\ svc.loaded # None
    \/ Todo(LB) /\ svc.unit = tx.def /\ svc.loaded = None

(* The rests of rollbackLaunchdInstall's lists, with the old job still      *)
(* loaded (S) and after the new one was (T).                                *)
S1 == <<"settle">>
S2 == <<"restore", "settle">>
S3 == <<"probe", "restore", "settle">>
T1 == <<"settleNew">>
T2 == <<"restore", "settleNew">>
T3 == <<"probe">> \o T2
T4 == <<"cleanup", "restore", "settleNew">>

(* launchd knows no job but the old one; what the probe said is what        *)
(* launchd holds.                                                           *)
OldJob == tx.prev.loaded # None /\ svc.loaded \in {None, tx.prev.loaded}
Seen   == (tx.seen = "gone" => svc.loaded = None) /\ (tx.seen = "loaded" => svc.loaded # None)

(* What holds at each rest of rollbackLaunchdInstall's lists.               *)
LaunchdBack ==
    /\ tx.seen = "unknown" => tx.problems
    /\ \/ Todo(LB) /\ tx.prev.loaded # None /\ svc.loaded = None /\ svc.unit = tx.prev.unit
       \/ Todo(S3) /\ OldJob
       \/ Todo(S2) /\ OldJob /\ Seen
       \/ Todo(S1) /\ OldJob /\ Seen /\ svc.unit = tx.prev.unit
       \/ Todo(T4) /\ tx.seen = "gone"
       \/ Todo(T3)
       \/ Todo(T2) /\ Seen
       \/ Todo(T1) /\ Seen /\ svc.unit = tx.prev.unit

(* The rests of uninstallLaunchdDaemon's and startLaunchdDaemon's lists.    *)
R1 == <<"remove">>
R2 == <<"gone", "remove">>
R3 == <<"bootout", "gone", "remove">>
K1 == <<"kickstart", "isActive">>
K2 == <<"bootstrap", "isActive">>

(* A job under removal stays unloaded.                                      *)
LaunchdUninstall ==
    \/ Todo(R3) /\ (svc.unit = None => tx.tainted)
    \/ (Todo(R2) \/ Todo(R1)) /\ svc.loaded = None

(* A transaction on launchd.                                                *)
LaunchdTxInv ==
    /\ tx.op = "install" => LaunchdSnapshot
    /\ tx.op = "install" /\ ~tx.rolling => LaunchdForward
    /\ tx.op = "install" /\ tx.rolling => LaunchdBack
    /\ tx.op = "uninstall" => LaunchdUninstall
    /\ tx.op = "start" => (Todo(K1) \/ Todo(K2) \/ Todo(I5)) /\ svc.unit # None

-----------------------------------------------------------------------------
(* The Windows service control manager.                                     *)
WE == <<"ensure">>
WR == <<"recover", "ensure">>
WC == <<"config", "recover", "ensure">>
WS == <<"stop", "config", "recover", "ensure">>
WN == <<"create", "recover", "ensure">>

(* What holds at each rest of the Windows platformInstall's lists.          *)
ScmForward ==
    \/ Todo(WN) /\ svc = tx.prev /\ svc.loaded = None
    \/ (Todo(WE) \/ Todo(WR) \/ Todo(WC) \/ Todo(WS)) /\ svc.loaded # None

(* The rests of rollbackWindowsInstall's lists, for a new service (W) and   *)
(* for one that existed (V).                                                *)
WD  == <<"delete">>
WSD == <<"stop", "delete">>
V3 == IF tx.active THEN <<"restoreRecovery", "ensure">> ELSE <<"restoreRecovery">>
V2 == IF tx.active THEN <<"restoreConfig", "restoreRecovery", "ensure">> ELSE <<"restoreConfig", "restoreRecovery">>
V1 == IF tx.active THEN <<"stop", "restoreConfig", "restoreRecovery", "ensure">>
                   ELSE <<"stop", "restoreConfig", "restoreRecovery">>

(* The configuration restoreConfig writes back.                             *)
ConfigBack == svc.loaded = tx.prev.loaded /\ svc.enabled = tx.prev.enabled

(* What holds at each rest of those lists.                                  *)
ScmBack ==
    /\ svc.loaded # None
    /\ \/ tx.prev.loaded = None /\ Todo(WSD)
       \/ tx.prev.loaded = None /\ Todo(WD) /\ (~tx.problems => Stopped)
       \/ tx.prev.loaded # None /\ Todo(V1)
       \/ tx.prev.loaded # None /\ Todo(V2) /\ (~tx.problems => ~svc.wanted)
       \/ tx.prev.loaded # None /\ Todo(V3) /\ (~tx.problems => ~svc.wanted /\ ConfigBack)
       \/ /\ tx.prev.loaded # None /\ tx.active /\ Todo(WE)
          /\ ~tx.problems => ConfigBack /\ svc.recovery = tx.prev.recovery

(* A service under removal is stopped before it is deleted.                 *)
ScmUninstall == svc.loaded # None /\ (Todo(WSD) \/ (Todo(WD) /\ Stopped))

(* A transaction on Windows.                                                *)
ScmTxInv ==
    /\ tx.op = "install" => ScmSnapshot
    /\ tx.op = "install" /\ ~tx.rolling => ScmForward
    /\ tx.op = "install" /\ tx.rolling => ScmBack
    /\ tx.op = "uninstall" => ScmUninstall
    /\ tx.op = "start" => Todo(WE)

(* The inductive invariant of the service: for every list of commands that  *)
(* may be left, what the service manager holds.                             *)
ServiceInv ==
    /\ TxTypeOK /\ RestInv
    /\ platform = "systemd" => SystemdInv
    /\ platform = "launchd" => LaunchdInv /\ LaunchdTxInv
    /\ platform = "scm" => ScmInv /\ ScmTxInv

-----------------------------------------------------------------------------
(* Lists.                                                                   *)

(* The rests of installSystemdUnit's list.                                  *)
LEMMA ForwardLists ==
  /\ Head(I1) = "write"   /\ Tail(I1) = I2   /\ I1 \in Seq(Commands) /\ I1 # <<>>
  /\ Head(I2) = "reload"  /\ Tail(I2) = I3   /\ I2 \in Seq(Commands) /\ I2 # <<>>
  /\ Head(I3) = "enable"  /\ Tail(I3) = I4   /\ I3 \in Seq(Commands) /\ I3 # <<>>
  /\ Head(I4) = "restart" /\ Tail(I4) = I5   /\ I4 \in Seq(Commands) /\ I4 # <<>>
  /\ Head(I5) = "isActive" /\ Tail(I5) = <<>> /\ I5 \in Seq(Commands) /\ I5 # <<>>
  BY DEF I1, I2, I3, I4, I5, Commands

(* The rests of systemd's uninstall and start.                              *)
LEMMA OtherSystemdLists ==
  /\ Head(U1) = "stop"    /\ Tail(U1) = U2   /\ U1 \in Seq(Commands) /\ U1 # <<>>
  /\ Head(U2) = "disable" /\ Tail(U2) = U3   /\ U2 \in Seq(Commands) /\ U2 # <<>>
  /\ Head(U3) = "remove"  /\ Tail(U3) = U4   /\ U3 \in Seq(Commands) /\ U3 # <<>>
  /\ Head(U4) = "reload"  /\ Tail(U4) = <<>> /\ U4 \in Seq(Commands) /\ U4 # <<>>
  /\ Head(N2) = "start"   /\ Tail(N2) = I5   /\ N2 \in Seq(Commands) /\ N2 # <<>>
  BY DEF U1, U2, U3, U4, N2, I5, Commands

(* A list that begins with one command.                                     *)
LEMMA Prefix ==
  ASSUME NEW c \in Commands, NEW s \in Seq(Commands)
  PROVE  Head(<<c>> \o s) = c /\ Tail(<<c>> \o s) = s /\ <<c>> \o s \in Seq(Commands) /\ <<c>> \o s # <<>>
  OBVIOUS

(* A list that begins with two commands.                                    *)
LEMMA Prefix2 ==
  ASSUME NEW c \in Commands, NEW d \in Commands, NEW s \in Seq(Commands)
  PROVE  /\ Head(<<c, d>> \o s) = c /\ Tail(<<c, d>> \o s) = <<d>> \o s
         /\ <<c, d>> \o s \in Seq(Commands) /\ <<c, d>> \o s # <<>>
  OBVIOUS

(* The rests of rollbackSystemdInstall's list.                              *)
LEMMA BackLists ==
  LET last == IF tx.active THEN "restart" ELSE "stop"
      links == IF tx.prev.enabled THEN "enable" ELSE "disable"
  IN
  /\ Head(B5) = last      /\ Tail(B5) = <<>> /\ B5 \in Seq(Commands) /\ B5 # <<>>
  /\ Head(B4) = links     /\ Tail(B4) = B5   /\ B4 \in Seq(Commands) /\ B4 # <<>>
  /\ Head(B3) = "reload"  /\ Tail(B3) = BK   /\ B3 \in Seq(Commands) /\ B3 # <<>>
  /\ Head(B2) = "restore" /\ Tail(B2) = B3   /\ B2 \in Seq(Commands) /\ B2 # <<>>
  /\ Head(B1) = "disable" /\ Tail(B1) = B2   /\ B1 \in Seq(Commands) /\ B1 # <<>>
  /\ Head(<<"stop">> \o B1) = "stop" /\ Tail(<<"stop">> \o B1) = B1
  /\ <<"stop">> \o B1 \in Seq(Commands) /\ <<"stop">> \o B1 # <<>>
  /\ Head(<<"stop">> \o B2) = "stop" /\ Tail(<<"stop">> \o B2) = B2
  /\ <<"stop">> \o B2 \in Seq(Commands) /\ <<"stop">> \o B2 # <<>>
  /\ BK = IF tx.known THEN B4 ELSE <<>>
<1> DEFINE last == IF tx.active THEN "restart" ELSE "stop"
           links == IF tx.prev.enabled THEN "enable" ELSE "disable"
<1>0. /\ last \in Commands /\ links \in Commands /\ "reload" \in Commands /\ "restore" \in Commands
      /\ "disable" \in Commands /\ "stop" \in Commands
  BY DEF Commands
<1>1. B5 = <<last>> /\ B4 = <<links, last>>
  BY DEF B5, B4
<1> HIDE DEF last, links
<1>2. /\ Head(B5) = last      /\ Tail(B5) = <<>> /\ B5 \in Seq(Commands) /\ B5 # <<>>
      /\ Head(B4) = links     /\ Tail(B4) = B5   /\ B4 \in Seq(Commands) /\ B4 # <<>>
  BY <1>0, <1>1
<1>3. BK \in Seq(Commands)
  BY <1>2 DEF BK
<1>4. Head(B3) = "reload"  /\ Tail(B3) = BK   /\ B3 \in Seq(Commands) /\ B3 # <<>>
  BY <1>0, <1>3, Prefix DEF B3
<1>5. Head(B2) = "restore" /\ Tail(B2) = B3   /\ B2 \in Seq(Commands) /\ B2 # <<>>
  BY <1>0, <1>3, Prefix2 DEF B2, B3
<1>6. Head(B1) = "disable" /\ Tail(B1) = B2   /\ B1 \in Seq(Commands) /\ B1 # <<>>
  BY <1>0, <1>5, Prefix DEF B1
<1>7. /\ Head(<<"stop">> \o B1) = "stop" /\ Tail(<<"stop">> \o B1) = B1
      /\ <<"stop">> \o B1 \in Seq(Commands) /\ <<"stop">> \o B1 # <<>>
  BY <1>0, <1>6, Prefix
<1>8. /\ Head(<<"stop">> \o B2) = "stop" /\ Tail(<<"stop">> \o B2) = B2
      /\ <<"stop">> \o B2 \in Seq(Commands) /\ <<"stop">> \o B2 # <<>>
  BY <1>0, <1>5, Prefix
<1> QED
  BY <1>2, <1>4, <1>5, <1>6, <1>7, <1>8 DEF BK, last, links

(* The rests of launchd's install, uninstall and start.                     *)
LEMMA LaunchdLists ==
  /\ Head(LB) = "bootstrap" /\ Tail(LB) = <<>> /\ LB \in Seq(Commands) /\ LB # <<>>
  /\ Head(LOB) = "bootout"  /\ Tail(LOB) = LB  /\ LOB \in Seq(Commands) /\ LOB # <<>>
  /\ Head(LW) = "write"     /\ Tail(LW) = LB   /\ LW \in Seq(Commands) /\ LW # <<>>
  /\ Head(LWO) = "write"    /\ Tail(LWO) = LOB /\ LWO \in Seq(Commands) /\ LWO # <<>>
  /\ Head(R1) = "remove"    /\ Tail(R1) = <<>> /\ R1 \in Seq(Commands) /\ R1 # <<>>
  /\ Head(R2) = "gone"      /\ Tail(R2) = R1   /\ R2 \in Seq(Commands) /\ R2 # <<>>
  /\ Head(R3) = "bootout"   /\ Tail(R3) = R2   /\ R3 \in Seq(Commands) /\ R3 # <<>>
  /\ Head(K1) = "kickstart" /\ Tail(K1) = I5   /\ K1 \in Seq(Commands) /\ K1 # <<>>
  /\ Head(K2) = "bootstrap" /\ Tail(K2) = I5   /\ K2 \in Seq(Commands) /\ K2 # <<>>
  BY DEF LB, LOB, LW, LWO, R1, R2, R3, K1, K2, I5, Commands

(* The rests of rollbackLaunchdInstall's list.                              *)
LEMMA SettleLists ==
  /\ Head(S1) = "settle"    /\ Tail(S1) = <<>> /\ S1 \in Seq(Commands) /\ S1 # <<>>
  /\ Head(S2) = "restore"   /\ Tail(S2) = S1   /\ S2 \in Seq(Commands) /\ S2 # <<>>
  /\ Head(S3) = "probe"     /\ Tail(S3) = S2   /\ S3 \in Seq(Commands) /\ S3 # <<>>
  /\ Head(T1) = "settleNew" /\ Tail(T1) = <<>> /\ T1 \in Seq(Commands) /\ T1 # <<>>
  /\ Head(T2) = "restore"   /\ Tail(T2) = T1   /\ T2 \in Seq(Commands) /\ T2 # <<>>
  /\ Head(T3) = "probe"     /\ Tail(T3) = T2   /\ T3 \in Seq(Commands) /\ T3 # <<>>
  /\ Head(T4) = "cleanup"   /\ Tail(T4) = T2   /\ T4 \in Seq(Commands) /\ T4 # <<>>
<1>1. /\ Head(S1) = "settle"    /\ Tail(S1) = <<>> /\ S1 \in Seq(Commands) /\ S1 # <<>>
      /\ Head(S2) = "restore"   /\ Tail(S2) = S1   /\ S2 \in Seq(Commands) /\ S2 # <<>>
      /\ Head(S3) = "probe"     /\ Tail(S3) = S2   /\ S3 \in Seq(Commands) /\ S3 # <<>>
  BY DEF S1, S2, S3, Commands
<1>2. /\ Head(T1) = "settleNew" /\ Tail(T1) = <<>> /\ T1 \in Seq(Commands) /\ T1 # <<>>
      /\ Head(T2) = "restore"   /\ Tail(T2) = T1   /\ T2 \in Seq(Commands) /\ T2 # <<>>
      /\ Head(T4) = "cleanup"   /\ Tail(T4) = T2   /\ T4 \in Seq(Commands) /\ T4 # <<>>
  BY DEF T1, T2, T4, Commands
<1>3. "probe" \in Commands
  BY DEF Commands
<1>4. Head(T3) = "probe" /\ Tail(T3) = T2 /\ T3 \in Seq(Commands) /\ T3 # <<>>
  BY <1>2, <1>3, Prefix DEF T3
<1> QED
  BY <1>1, <1>2, <1>4

(* The rests of the lists on Windows.                                       *)
LEMMA ScmLists ==
  /\ Head(WE) = "ensure"  /\ Tail(WE) = <<>> /\ WE \in Seq(Commands) /\ WE # <<>>
  /\ Head(WR) = "recover" /\ Tail(WR) = WE   /\ WR \in Seq(Commands) /\ WR # <<>>
  /\ Head(WC) = "config"  /\ Tail(WC) = WR   /\ WC \in Seq(Commands) /\ WC # <<>>
  /\ Head(WS) = "stop"    /\ Tail(WS) = WC   /\ WS \in Seq(Commands) /\ WS # <<>>
  /\ Head(WN) = "create"  /\ Tail(WN) = WR   /\ WN \in Seq(Commands) /\ WN # <<>>
  /\ Head(WD) = "delete"  /\ Tail(WD) = <<>> /\ WD \in Seq(Commands) /\ WD # <<>>
  /\ Head(WSD) = "stop"   /\ Tail(WSD) = WD  /\ WSD \in Seq(Commands) /\ WSD # <<>>
  BY DEF WE, WR, WC, WS, WN, WD, WSD, Commands

(* The rests of restoreWindowsService.                                      *)
LEMMA RestoreLists ==
  /\ Head(V1) = "stop"            /\ Tail(V1) = V2 /\ V1 \in Seq(Commands) /\ V1 # <<>>
  /\ Head(V2) = "restoreConfig"   /\ Tail(V2) = V3 /\ V2 \in Seq(Commands) /\ V2 # <<>>
  /\ Head(V3) = "restoreRecovery" /\ Tail(V3) = (IF tx.active THEN WE ELSE <<>>) /\ V3 \in Seq(Commands) /\ V3 # <<>>
<1>1. CASE tx.active
  BY <1>1 DEF V1, V2, V3, WE, Commands
<1>2. CASE ~tx.active
  BY <1>2 DEF V1, V2, V3, WE, Commands
<1> QED
  BY <1>1, <1>2

-----------------------------------------------------------------------------
(* Commands.                                                                *)

(* The record s of the service manager has these fields.                    *)
Holds(s, u, l, e, r, w) ==
    s \in Services /\ s.unit = u /\ s.loaded = l /\ s.enabled = e /\ s.recovery = r /\ s.wanted = w

(* A service is its five fields.                                            *)
LEMMA SameService ==
  ASSUME NEW s \in Services, NEW t \in Services, s.unit = t.unit, s.loaded = t.loaded, s.enabled = t.enabled,
         s.recovery = t.recovery, s.wanted = t.wanted
  PROVE  s = t
  BY DEF Services

(* The types of a service's fields.                                         *)
LEMMA ServiceFields ==
  ASSUME svc \in Services
  PROVE  /\ svc.unit \in Definitions \union {None} /\ svc.loaded \in Definitions \union {None}
         /\ svc.enabled \in BOOLEAN /\ svc.recovery \in BOOLEAN /\ svc.wanted \in BOOLEAN
  BY DEF Services

(* The types of a transaction's fields.                                     *)
LEMMA TxFields ==
  ASSUME tx \in Txs
  PROVE  /\ tx.def \in Definitions \union {None} /\ tx.prev \in Services
         /\ tx.known \in BOOLEAN /\ tx.active \in BOOLEAN /\ tx.rolling \in BOOLEAN /\ tx.problems \in BOOLEAN
         /\ tx.blind \in BOOLEAN /\ tx.tainted \in BOOLEAN
         /\ tx.prev.unit \in Definitions \union {None} /\ tx.prev.loaded \in Definitions \union {None}
         /\ tx.prev.enabled \in BOOLEAN /\ tx.prev.recovery \in BOOLEAN /\ tx.prev.wanted \in BOOLEAN
  BY DEF Txs, Services

(* What the commands on the unit file and its links leave.                  *)
LEMMA UnitEffects ==
  ASSUME svc \in Services, tx \in Txs
  PROVE  /\ Holds(Effect("write"), tx.def, svc.loaded, svc.enabled, svc.recovery, svc.wanted)
         /\ Holds(Effect("restore"), tx.prev.unit, svc.loaded, svc.enabled, svc.recovery, svc.wanted)
         /\ Holds(Effect("remove"), None, svc.loaded, svc.enabled, svc.recovery, svc.wanted)
         /\ Holds(Effect("reload"), svc.unit, svc.unit, svc.enabled, svc.recovery, svc.wanted)
         /\ Holds(Effect("enable"), svc.unit, svc.loaded, TRUE, svc.recovery, svc.wanted)
         /\ Holds(Effect("disable"), svc.unit, svc.loaded, FALSE, svc.recovery, svc.wanted)
<1>1. /\ Effect("write") = [svc EXCEPT !.unit = tx.def] /\ Effect("restore") = [svc EXCEPT !.unit = tx.prev.unit]
      /\ Effect("remove") = [svc EXCEPT !.unit = None] /\ Effect("reload") = [svc EXCEPT !.loaded = svc.unit]
      /\ Effect("enable") = [svc EXCEPT !.enabled = TRUE] /\ Effect("disable") = [svc EXCEPT !.enabled = FALSE]
  BY DEF Effect
<1> QED
  BY <1>1, TxFields, ServiceFields DEF Holds, Services

(* What the commands that start, load and look leave.                       *)
LEMMA RunEffects ==
  ASSUME svc \in Services, tx \in Txs
  PROVE  /\ \A c \in {"start", "restart", "kickstart", "ensure"} :
               Holds(Effect(c), svc.unit, svc.loaded, svc.enabled, svc.recovery, TRUE)
         /\ \A c \in {"bootout", "cleanup"} :
               Holds(Effect(c), svc.unit, None, svc.enabled, svc.recovery, svc.wanted)
         /\ Holds(Effect("bootstrap"), svc.unit, svc.unit, svc.enabled, svc.recovery, TRUE)
         /\ \A c \in {"stop", "isActive", "gone", "probe", "settle", "settleNew"} : Effect(c) = svc
<1>1. \A c \in {"start", "restart", "kickstart", "ensure"} : Effect(c) = [svc EXCEPT !.wanted = TRUE]
  BY DEF Effect
<1>2. \A c \in {"bootout", "cleanup"} : Effect(c) = [svc EXCEPT !.loaded = None]
  BY DEF Effect
<1>3. Effect("bootstrap") = [svc EXCEPT !.loaded = svc.unit, !.wanted = TRUE]
  BY DEF Effect
<1>4. \A c \in {"stop", "isActive", "gone", "probe", "settle", "settleNew"} : Effect(c) = svc
  BY DEF Effect
<1>5. Holds([svc EXCEPT !.wanted = TRUE], svc.unit, svc.loaded, svc.enabled, svc.recovery, TRUE)
  BY ServiceFields DEF Holds, Services
<1>6. Holds([svc EXCEPT !.loaded = None], svc.unit, None, svc.enabled, svc.recovery, svc.wanted)
  BY ServiceFields DEF Holds, Services
<1>7. Holds([svc EXCEPT !.loaded = svc.unit, !.wanted = TRUE], svc.unit, svc.unit, svc.enabled, svc.recovery, TRUE)
  BY ServiceFields DEF Holds, Services
<1> QED
  BY <1>1, <1>2, <1>3, <1>4, <1>5, <1>6, <1>7

(* What the commands of the SCM leave.                                      *)
LEMMA ScmEffects ==
  ASSUME svc \in Services, tx \in Txs
  PROVE  /\ \A c \in {"create", "config"} : Holds(Effect(c), svc.unit, tx.def, TRUE, svc.recovery, svc.wanted)
         /\ Holds(Effect("recover"), svc.unit, svc.loaded, svc.enabled, TRUE, svc.wanted)
         /\ Holds(Effect("delete"), svc.unit, None, FALSE, FALSE, FALSE)
         /\ Holds(Effect("restoreConfig"), svc.unit, tx.prev.loaded, tx.prev.enabled, svc.recovery, svc.wanted)
         /\ Holds(Effect("restoreRecovery"), svc.unit, svc.loaded, svc.enabled, tx.prev.recovery, svc.wanted)
<1>1. /\ \A c \in {"create", "config"} : Effect(c) = [svc EXCEPT !.loaded = tx.def, !.enabled = TRUE]
      /\ Effect("recover") = [svc EXCEPT !.recovery = TRUE]
      /\ Effect("delete") = [svc EXCEPT !.loaded = None, !.enabled = FALSE, !.recovery = FALSE, !.wanted = FALSE]
      /\ Effect("restoreConfig") = [svc EXCEPT !.loaded = tx.prev.loaded, !.enabled = tx.prev.enabled]
      /\ Effect("restoreRecovery") = [svc EXCEPT !.recovery = tx.prev.recovery]
  BY DEF Effect
<1>2. Holds([svc EXCEPT !.loaded = tx.def, !.enabled = TRUE], svc.unit, tx.def, TRUE, svc.recovery, svc.wanted)
  BY TxFields, ServiceFields DEF Holds, Services
<1>3. Holds([svc EXCEPT !.recovery = TRUE], svc.unit, svc.loaded, svc.enabled, TRUE, svc.wanted)
  BY TxFields, ServiceFields DEF Holds, Services
<1>4. Holds([svc EXCEPT !.loaded = None, !.enabled = FALSE, !.recovery = FALSE, !.wanted = FALSE],
            svc.unit, None, FALSE, FALSE, FALSE)
  BY TxFields, ServiceFields DEF Holds, Services
<1>5. Holds([svc EXCEPT !.loaded = tx.prev.loaded, !.enabled = tx.prev.enabled],
            svc.unit, tx.prev.loaded, tx.prev.enabled, svc.recovery, svc.wanted)
  BY TxFields, ServiceFields DEF Holds, Services
<1>6. Holds([svc EXCEPT !.recovery = tx.prev.recovery], svc.unit, svc.loaded, svc.enabled, tx.prev.recovery, svc.wanted)
  BY TxFields, ServiceFields DEF Holds, Services
<1> QED
  BY <1>1, <1>2, <1>3, <1>4, <1>5, <1>6

(* When a command can be carried out.                                       *)
LEMMA Preconditions ==
  /\ Possible("enable") <=> svc.unit # None
  /\ \A c \in {"start", "restart", "kickstart", "ensure", "bootout", "cleanup"} : Possible(c) <=> svc.loaded # None
  /\ Possible("bootstrap") <=> svc.loaded = None /\ svc.unit # None
  /\ Possible("gone") <=> svc.loaded = None
  /\ Possible("create") <=> ~Running
  /\ \A c \in {"settle", "settleNew"} : Possible(c)
  BY DEF Possible

(* A command that succeeds, except the ones that look at the result.        *)
LEMMA Succeeds ==
  ASSUME Command, NEW c, NEW rest, Head(tx.todo) = c, Tail(tx.todo) = rest, c \notin {"settle", "settleNew", "probe"}
  PROVE  /\ Possible(c) /\ Ready(c) /\ svc' = Effect(c) /\ platform' = platform /\ daemon' = daemon
         /\ rest = <<>> => Finish(IF tx.rolling THEN "failed" ELSE "ok", tx.problems)
         /\ rest # <<>> => tx' = [tx EXCEPT !.todo = rest]
<1>1. Possible(c) /\ Ready(c) /\ svc' = Effect(c) /\ Succeeded(c) /\ platform' = platform /\ daemon' = daemon
  BY DEF Command, daemonVars
<1>2. Go(rest, tx)
  BY <1>1 DEF Succeeded
<1> QED
  BY <1>1, <1>2 DEF Go

(* A command that fails has done nothing, all of it, or left the job kept   *)
(* alive.                                                                   *)
LEMMA Fails ==
  ASSUME CommandFails, NEW c, Head(tx.todo) = c
  PROVE  /\ Failed(c) /\ platform' = platform /\ daemon' = daemon
         /\ \/ svc' = svc /\ (~Possible(c) \/ c = "ensure")
            \/ svc' = kept /\ Possible(c)
            \/ svc' = Effect(c) /\ Possible(c) /\ Ready(c) /\ c \in LateFailures
         /\ ~(c \in {"settle", "settleNew", "gone"} /\ Possible(c))
  BY DEF CommandFails, daemonVars

(* What changes of a transaction that goes on.                              *)
SameTx == /\ tx' \in Txs /\ tx'.op = tx.op /\ tx'.def = tx.def /\ tx'.prev = tx.prev /\ tx'.known = tx.known
          /\ tx'.active = tx.active /\ tx'.blind = tx.blind /\ tx'.result = tx.result /\ tx'.tainted = tx.tainted

(* A transaction that goes on with the rest of its list.                    *)
LEMMA GoesOn ==
  ASSUME tx \in Txs, NEW s \in Seq(Commands), tx' = [tx EXCEPT !.todo = s]
  PROVE  SameTx /\ tx'.todo = s /\ tx'.rolling = tx.rolling /\ tx'.problems = tx.problems /\ tx'.seen = tx.seen
  BY DEF SameTx, Txs

(* An installation that turns back.                                         *)
LEMMA RollsBack ==
  ASSUME tx \in Txs, NEW s \in Seq(Commands), tx' = [tx EXCEPT !.rolling = TRUE, !.todo = s]
  PROVE  SameTx /\ tx'.todo = s /\ tx'.rolling /\ tx'.problems = tx.problems /\ tx'.seen = tx.seen
  BY DEF SameTx, Txs

(* A rollback that notes a failure and goes on, or ends.                    *)
LEMMA GoesOnAnyway ==
  ASSUME tx \in Txs, NEW s \in Seq(Commands), Go(s, [tx EXCEPT !.problems = TRUE]), tx.rolling
  PROVE  /\ s = <<>> => Finish("failed", TRUE)
         /\ s # <<>> => SameTx /\ tx'.todo = s /\ tx'.rolling /\ tx'.problems /\ tx'.seen = tx.seen
<1>1. [tx EXCEPT !.problems = TRUE].problems = TRUE
  BY DEF Txs
<1>2. s = <<>> => Finish("failed", TRUE)
  BY <1>1 DEF Go
<1>3. ASSUME s # <<>> PROVE SameTx /\ tx'.todo = s /\ tx'.rolling /\ tx'.problems /\ tx'.seen = tx.seen
  <2>1. tx' = [[tx EXCEPT !.problems = TRUE] EXCEPT !.todo = s]
    BY <1>3 DEF Go
  <2> QED
    BY <2>1 DEF SameTx, Txs
<1> QED
  BY <1>2, <1>3

(* A transaction that ends.                                                 *)
LEMMA Finished ==
  ASSUME tx \in Txs, NEW r \in {"ok", "failed"}, NEW p \in BOOLEAN, Finish(r, p)
  PROVE  /\ tx' \in Txs /\ tx'.op = "none" /\ tx'.rolling = FALSE /\ tx'.seen = "gone" /\ tx'.problems = p
         /\ tx'.result = r /\ tx'.tainted = (tx.tainted \/ p)
<1>1. Blank \in Services /\ tx.tainted \in BOOLEAN
  BY DEF Blank, Services, Txs
<1>2. PICK b \in BOOLEAN : b = (tx.tainted \/ p)
  OBVIOUS
<1>3. tx' = NoTx(r, p, b)
  BY <1>2 DEF Finish
<1>4. <<>> \in Seq(Commands)
  OBVIOUS
<1> QED
  BY <1>1, <1>2, <1>3, <1>4 DEF NoTx, Txs, Ops

-----------------------------------------------------------------------------
(* Steps.                                                                   *)

(* What FailedInstallRestores asks of one step.                             *)
Restores ==
    /\ tx.op = "install" /\ tx'.op = "none" /\ tx'.result = "failed" /\ ~tx'.problems
    /\ ~tx.blind /\ tx.active = tx.prev.wanted
    /\ (platform = "scm" \/ tx.prev.loaded = tx.prev.unit)
    => svc' = tx.prev

(* A step that keeps the invariant and does so.                             *)
StepOK == ServiceInv' /\ Restores

-----------------------------------------------------------------------------
(* systemd.                                                                 *)

(* systemd: the end of a transaction, given what it leaves.                 *)
LEMMA SystemdEnds ==
  ASSUME ServiceInv, platform = "systemd", platform' = platform, NEW r \in {"ok", "failed"}, NEW p \in BOOLEAN,
         Finish(r, p), svc' \in Services,
         svc'.unit = None /\ ~tx.tainted /\ ~p => ~svc'.wanted /\ ~Running',
         tx.op = "install" /\ r = "failed" /\ ~p /\ Faithful => svc' = tx.prev
  PROVE  StepOK
<1>1. tx \in Txs
  BY DEF ServiceInv, TxTypeOK
<1>2. /\ tx' \in Txs /\ tx'.op = "none" /\ tx'.rolling = FALSE /\ tx'.seen = "gone" /\ tx'.problems = p
      /\ tx'.result = r /\ tx'.tainted = (tx.tainted \/ p)
  BY <1>1, Finished
<1>3. TxTypeOK'
  BY <1>2 DEF TxTypeOK
<1>4. RestInv'
  BY <1>2 DEF RestInv, Stopped
<1>5. SystemdInv'
  BY <1>2 DEF SystemdInv
<1>6. Restores
  BY <1>2 DEF Restores, Faithful
<1> QED
  BY <1>3, <1>4, <1>5, <1>6 DEF StepOK, ServiceInv

(* systemd: an installation that goes on, forward or back.                  *)
LEMMA SystemdInstallGoesOn ==
  ASSUME ServiceInv, platform = "systemd", platform' = platform, tx.op = "install", SameTx,
         svc' \in Services, svc'.recovery = svc.recovery,
         \/ tx'.rolling = FALSE /\ tx'.problems = FALSE /\ tx'.seen = "gone" /\ SystemdForward'
         \/ tx'.rolling = TRUE /\ SystemdBack'
  PROVE  StepOK
<1>1. TxTypeOK'
  BY DEF ServiceInv, TxTypeOK, SameTx
<1>2. RestInv'
  BY DEF RestInv, SameTx
<1>3. SystemdInv'
  BY DEF ServiceInv, SystemdInv, SystemdSnapshot, SameTx
<1>4. Restores
  BY DEF Restores, SameTx
<1> QED
  BY <1>1, <1>2, <1>3, <1>4 DEF StepOK, ServiceInv

(* systemd: a start or an uninstallation that goes on.                      *)
LEMMA SystemdOtherGoesOn ==
  ASSUME ServiceInv, platform = "systemd", platform' = platform, tx.op \in {"start", "uninstall"}, SameTx,
         svc' \in Services, tx'.rolling = tx.rolling, tx'.problems = tx.problems, tx'.seen = tx.seen,
         tx.op = "uninstall" => SystemdUninstall',
         tx.op = "start" => (Todo(N2) \/ Todo(I5))' /\ svc'.unit # None
  PROVE  StepOK
<1>1. TxTypeOK'
  BY DEF ServiceInv, TxTypeOK, SameTx
<1>2. RestInv'
  BY DEF RestInv, SameTx
<1>3. SystemdInv'
  BY DEF SystemdInv, SameTx
<1>4. Restores
  BY DEF Restores, SameTx
<1> QED
  BY <1>1, <1>2, <1>3, <1>4 DEF StepOK, ServiceInv

(* The rests of the rollback depend on the snapshot alone.                  *)
LEMMA BackStays ==
  ASSUME SameTx, platform' = platform
  PROVE  /\ B1' = B1 /\ B2' = B2 /\ B3' = B3 /\ B4' = B4 /\ B5' = B5 /\ BK' = BK
         /\ Faithful' <=> Faithful
  BY DEF SameTx, B1, B2, B3, B4, B5, BK, Faithful

(* Only launchd keeps a job alive that was told to stop.                    *)
LEMMA SystemdKept == platform # "launchd" => kept = svc
  BY DEF kept

(* The lists rollbackSystemdInstall makes.                                  *)
LEMMA SystemdRollbackLists ==
  ASSUME platform = "systemd"
  PROVE  /\ rollbackInstall("write") = <<>>
         /\ rollbackInstall("reload") = IF tx.active THEN <<"stop">> \o B2 ELSE B2
         /\ rollbackInstall("enable") = IF tx.active THEN <<"stop">> \o (IF tx.prev.enabled THEN B2 ELSE B1)
                                                     ELSE IF tx.prev.enabled THEN B2 ELSE B1
         /\ \A c \in {"restart", "isActive"} :
               rollbackInstall(c) = <<"stop">> \o (IF tx.prev.enabled THEN B2 ELSE B1)
<1>0. B2 = rollbackUnit /\ B1 = <<"disable">> \o rollbackUnit
  BY DEF B1, B2, BK, B4, rollbackUnit
<1>1. rollbackInstall("write") = <<>>
  BY DEF rollbackInstall
<1>2. \A c \in {"reload", "enable", "restart", "isActive"} : rollbackInstall(c) = rollbackSystemdInstall(c)
  BY DEF rollbackInstall
<1>3. /\ rollbackLinks("reload") = B2
      /\ \A c \in {"enable", "restart", "isActive"} : rollbackLinks(c) = IF tx.prev.enabled THEN B2 ELSE B1
  BY <1>0 DEF rollbackLinks
<1> QED
  BY <1>1, <1>2, <1>3 DEF rollbackSystemdInstall

(* systemd: a command of installSystemdUnit succeeds.                       *)
LEMMA SystemdForwardSucceeds ==
  ASSUME ServiceInv, platform = "systemd", tx.op = "install", ~tx.rolling, Command
  PROVE  StepOK
<1>1. /\ SystemdForward /\ svc \in Services /\ tx \in Txs /\ tx.def \in Definitions
      /\ tx.rolling = FALSE /\ tx.problems = FALSE /\ tx.seen = "gone"
  BY TxFields DEF ServiceInv, SystemdInv, TxTypeOK
<1>2. platform' = platform /\ daemon' = daemon
  BY DEF Command, daemonVars
<1>3. CASE Todo(I1)
  <2>1. svc' = Effect("write") /\ tx' = [tx EXCEPT !.todo = I2]
    BY <1>3, Succeeds, ForwardLists DEF Todo
  <2>2. SameTx /\ tx'.todo = I2 /\ tx'.rolling = FALSE /\ tx'.problems = FALSE /\ tx'.seen = "gone"
    BY <1>1, <2>1, GoesOn, ForwardLists
  <2>3. Holds(svc', tx.def, svc.loaded, svc.enabled, svc.recovery, svc.wanted)
    BY <1>1, <2>1, UnitEffects
  <2>4. AsBefore
    BY <1>1, <1>3 DEF SystemdForward, Todo, I1, I2, I3, I4, I5
  <2>5. SystemdForward'
    BY <1>2, <2>2, <2>3, <2>4 DEF SystemdForward, AsBefore, Todo, SameTx, Holds, Stopped, Running
  <2> QED
    BY <1>2, <2>2, <2>3, <2>5, SystemdInstallGoesOn DEF Holds
<1>4. CASE Todo(I2)
  <2>1. svc' = Effect("reload") /\ tx' = [tx EXCEPT !.todo = I3]
    BY <1>4, Succeeds, ForwardLists DEF Todo
  <2>2. SameTx /\ tx'.todo = I3 /\ tx'.rolling = FALSE /\ tx'.problems = FALSE /\ tx'.seen = "gone"
    BY <1>1, <2>1, GoesOn, ForwardLists
  <2>3. Holds(svc', svc.unit, svc.unit, svc.enabled, svc.recovery, svc.wanted)
    BY <1>1, <2>1, UnitEffects
  <2>4. AsBefore /\ svc.unit = tx.def
    BY <1>1, <1>4 DEF SystemdForward, Todo, I1, I2, I3, I4, I5
  <2>5. SystemdForward'
    BY <1>2, <2>2, <2>3, <2>4 DEF SystemdForward, AsBefore, Todo, SameTx, Holds, Stopped, Running
  <2> QED
    BY <1>2, <2>2, <2>3, <2>5, SystemdInstallGoesOn DEF Holds
<1>5. CASE Todo(I3)
  <2>1. svc' = Effect("enable") /\ tx' = [tx EXCEPT !.todo = I4]
    BY <1>5, Succeeds, ForwardLists DEF Todo
  <2>2. SameTx /\ tx'.todo = I4 /\ tx'.rolling = FALSE /\ tx'.problems = FALSE /\ tx'.seen = "gone"
    BY <1>1, <2>1, GoesOn, ForwardLists
  <2>3. Holds(svc', svc.unit, svc.loaded, TRUE, svc.recovery, svc.wanted)
    BY <1>1, <2>1, UnitEffects
  <2>4. svc.unit = tx.def
    BY <1>1, <1>5 DEF SystemdForward, Todo, I1, I2, I3, I4, I5
  <2>5. SystemdForward'
    BY <2>2, <2>3, <2>4 DEF SystemdForward, Todo, SameTx, Holds
  <2> QED
    BY <1>2, <2>2, <2>3, <2>5, SystemdInstallGoesOn DEF Holds
<1>6. CASE Todo(I4)
  <2>1. svc' = Effect("restart") /\ tx' = [tx EXCEPT !.todo = I5]
    BY <1>6, Succeeds, ForwardLists DEF Todo
  <2>2. SameTx /\ tx'.todo = I5 /\ tx'.rolling = FALSE /\ tx'.problems = FALSE /\ tx'.seen = "gone"
    BY <1>1, <2>1, GoesOn, ForwardLists
  <2>3. Holds(svc', svc.unit, svc.loaded, svc.enabled, svc.recovery, TRUE)
    BY <1>1, <2>1, RunEffects
  <2>4. svc.unit = tx.def
    BY <1>1, <1>6 DEF SystemdForward, Todo, I1, I2, I3, I4, I5
  <2>5. SystemdForward'
    BY <2>2, <2>3, <2>4 DEF SystemdForward, Todo, SameTx, Holds
  <2> QED
    BY <1>2, <2>2, <2>3, <2>5, SystemdInstallGoesOn DEF Holds
<1>7. CASE Todo(I5)
  <2>1. svc' = Effect("isActive") /\ Finish("ok", FALSE)
    BY <1>1, <1>7, Succeeds, ForwardLists DEF Todo
  <2>2. svc' = svc
    BY <1>1, <2>1, RunEffects
  <2>3. svc.unit = tx.def
    BY <1>1, <1>7 DEF SystemdForward, Todo, I1, I2, I3, I4, I5
  <2> QED
    BY <1>1, <1>2, <2>1, <2>2, <2>3, SystemdEnds, ServiceAssumption
<1> QED
  BY <1>1, <1>3, <1>4, <1>5, <1>6, <1>7 DEF SystemdForward

(* A command of an installation failed: roll back, or end.                  *)
LEMMA InstallFails ==
  ASSUME tx.op = "install", ~tx.rolling, NEW c, Failed(c)
  PROVE  /\ rollbackInstall(c) = <<>> => Finish("failed", FALSE)
         /\ rollbackInstall(c) # <<>> => tx' = [tx EXCEPT !.rolling = TRUE, !.todo = rollbackInstall(c)]
  BY DEF Failed

(* A command of a rollback failed: note it and go on.                       *)
LEMMA RollbackFails ==
  ASSUME tx.op = "install", tx.rolling, NEW c, Failed(c), c \notin {"cleanup", "probe"},
         c = "restore" => platform # "launchd"
  PROVE  Go(Tail(tx.todo), [tx EXCEPT !.problems = TRUE])
  BY DEF Failed, rollbackFails

(* A command of a start or an uninstallation failed.                        *)
LEMMA OtherFails ==
  ASSUME tx.op # "install", NEW c, Failed(c)
  PROVE  Finish("failed", FALSE)
  BY DEF Failed

(* systemd: a command of installSystemdUnit fails.                          *)
LEMMA SystemdForwardFails ==
  ASSUME ServiceInv, platform = "systemd", tx.op = "install", ~tx.rolling, CommandFails
  PROVE  StepOK
<1>1. /\ SystemdForward /\ SystemdSnapshot /\ svc \in Services /\ tx \in Txs /\ tx.def \in Definitions
      /\ tx.rolling = FALSE /\ tx.problems = FALSE /\ tx.seen = "gone"
  BY TxFields DEF ServiceInv, SystemdInv, TxTypeOK
<1>2. platform' = platform /\ daemon' = daemon
  BY DEF CommandFails, daemonVars
<1>3. CASE Todo(I1)
  <2>1. Failed("write") /\ svc' = svc
    BY <1>3, Fails, ForwardLists, SystemdKept DEF Todo, LateFailures
  <2>2. Finish("failed", FALSE)
    BY <2>1, InstallFails, SystemdRollbackLists
  <2>3. AsBefore /\ svc.unit = tx.prev.unit /\ svc.loaded = tx.prev.loaded
    BY <1>1, <1>3 DEF SystemdForward, Todo, I1, I2, I3, I4, I5
  <2>4. Faithful => svc = tx.prev
    BY <1>1, <2>3, SameService, TxFields DEF Faithful, AsBefore, SystemdSnapshot
  <2>5. svc.unit = None /\ ~tx.tainted => ~svc.wanted /\ ~Running
    BY <2>3 DEF AsBefore, Stopped
  <2> QED
    BY <1>1, <1>2, <2>1, <2>2, <2>4, <2>5, SystemdEnds DEF Running
<1>4. CASE Todo(I2)
  <2>1. Failed("reload") /\ svc' = svc
    BY <1>4, Fails, ForwardLists, SystemdKept DEF Todo, LateFailures
  <2>2. tx' = [tx EXCEPT !.rolling = TRUE, !.todo = IF tx.active THEN <<"stop">> \o B2 ELSE B2]
    <3> DEFINE list == IF tx.active THEN <<"stop">> \o B2 ELSE B2
    <3>1. rollbackInstall("reload") = list /\ list # <<>>
      BY SystemdRollbackLists, BackLists
    <3> HIDE DEF list
    <3>2. tx' = [tx EXCEPT !.rolling = TRUE, !.todo = list]
      BY <2>1, <3>1, InstallFails
    <3> QED
      BY <3>2 DEF list
  <2>3. /\ SameTx /\ tx'.todo = (IF tx.active THEN <<"stop">> \o B2 ELSE B2)
        /\ tx'.rolling = TRUE /\ tx'.problems = FALSE
    BY <1>1, <2>2, RollsBack, BackLists DEF SameTx, Txs
  <2>4. AsBefore
    BY <1>1, <1>4 DEF SystemdForward, Todo, I1, I2, I3, I4, I5
  <2>5. Unlinked
    BY <1>1, <2>4, TxFields DEF Unlinked, Faithful, AsBefore, SystemdSnapshot
  <2>6. ~tx.active => Still
    <3>1. tx.active \in BOOLEAN /\ tx.prev.wanted \in BOOLEAN
      BY <1>1, TxFields
    <3>2. ~tx.active /\ Faithful => ~svc.wanted
      BY <2>4, <3>1 DEF Faithful, AsBefore
    <3> QED
      BY <2>4, <3>2 DEF Still, AsBefore
  <2>7. Unlinked' /\ (~tx.active => Still')
    BY <1>2, <2>1, <2>3, <2>5, <2>6, BackStays DEF Unlinked, Still, Stopped, Running, SameTx
  <2>8. SystemdBack'
    BY <1>2, <2>3, <2>7, BackStays DEF SystemdBack, Todo
  <2> QED
    BY <1>1, <1>2, <2>1, <2>3, <2>8, SystemdInstallGoesOn
<1>5. CASE Todo(I3)
  <2>1. Failed("enable") /\ svc' \in {svc, Effect("enable")}
    BY <1>5, Fails, ForwardLists, SystemdKept DEF Todo
  <2> DEFINE links == IF tx.prev.enabled THEN B2 ELSE B1
             list == IF tx.active THEN <<"stop">> \o links ELSE links
  <2>2. rollbackInstall("enable") = list /\ list # <<>> /\ list \in Seq(Commands)
    BY SystemdRollbackLists, BackLists
  <2> HIDE DEF list
  <2>3. tx' = [tx EXCEPT !.rolling = TRUE, !.todo = list]
    BY <2>1, <2>2, InstallFails
  <2>4. SameTx /\ tx'.todo = list /\ tx'.rolling = TRUE /\ tx'.problems = FALSE
    BY <1>1, <2>2, <2>3, RollsBack DEF SameTx, Txs
  <2>5. AsBefore
    BY <1>1, <1>5 DEF SystemdForward, Todo, I1, I2, I3, I4, I5
  <2>6. svc' \in Services /\ svc'.wanted = svc.wanted /\ svc'.recovery = svc.recovery
    BY <1>1, <2>1, UnitEffects DEF Holds
  <2>7. (~tx.active => Still') /\ (tx.prev.enabled => Unlinked')
    BY <1>1, <1>2, <2>4, <2>5, <2>6, TxFields, BackStays
       DEF Still, Unlinked, Stopped, Running, SameTx, AsBefore, Faithful, SystemdSnapshot
  <2>8. SystemdBack'
    <3>1. tx'.prev = tx.prev /\ tx'.active = tx.active
      BY <2>4 DEF SameTx
    <3>2. B1' = B1 /\ B2' = B2
      BY <1>2, <2>4, BackStays
    <3>3. tx'.todo = IF tx.active THEN <<"stop">> \o (IF tx.prev.enabled THEN B2 ELSE B1) ELSE IF tx.prev.enabled THEN B2 ELSE B1
      BY <2>4 DEF list
    <3> HIDE DEF links
    <3> QED
      BY <2>7, <3>1, <3>2, <3>3 DEF SystemdBack, Todo
  <2> QED
    BY <1>1, <1>2, <2>4, <2>6, <2>8, SystemdInstallGoesOn
<1>6. CASE Todo(I4) \/ Todo(I5)
  <2> DEFINE links == IF tx.prev.enabled THEN B2 ELSE B1
             list == <<"stop">> \o links
  <2>1. PICK c \in {"restart", "isActive"} : Failed(c) /\ svc' \in {svc, Effect(c)}
    <3>1. Head(tx.todo) \in {"restart", "isActive"}
      BY <1>6, ForwardLists DEF Todo
    <3> QED
      BY <3>1, Fails, SystemdKept
  <2>2. rollbackInstall(c) = list /\ list # <<>> /\ list \in Seq(Commands)
    BY SystemdRollbackLists, BackLists
  <2> HIDE DEF list
  <2>3. tx' = [tx EXCEPT !.rolling = TRUE, !.todo = list]
    BY <2>1, <2>2, InstallFails
  <2>4. SameTx /\ tx'.todo = list /\ tx'.rolling = TRUE /\ tx'.problems = FALSE
    BY <1>1, <2>2, <2>3, RollsBack DEF SameTx, Txs
  <2>5. svc' \in Services /\ svc'.recovery = svc.recovery
    BY <1>1, <2>1, RunEffects DEF Holds
  <2>6. tx.prev.enabled => Unlinked'
    BY <1>1, <1>2, <2>4, TxFields, BackStays DEF Unlinked, SameTx, Faithful, SystemdSnapshot
  <2>7. SystemdBack'
    <3>1. tx'.prev = tx.prev
      BY <2>4 DEF SameTx
    <3>2. B1' = B1 /\ B2' = B2
      BY <1>2, <2>4, BackStays
    <3>3. tx'.todo = <<"stop">> \o (IF tx.prev.enabled THEN B2 ELSE B1)
      BY <2>4 DEF list
    <3> HIDE DEF links
    <3> QED
      BY <2>6, <3>1, <3>2, <3>3 DEF SystemdBack, Todo
  <2> QED
    BY <1>1, <1>2, <2>4, <2>5, <2>7, SystemdInstallGoesOn
<1> QED
  BY <1>1, <1>3, <1>4, <1>5, <1>6 DEF SystemdForward

(* A rollback command that succeeds goes on to list s, or ends.             *)
LEMMA BackSucceeds ==
  ASSUME tx \in Txs, tx.rolling, Command, NEW c, NEW s \in Seq(Commands), Head(tx.todo) = c, Tail(tx.todo) = s,
         c \notin {"settle", "settleNew", "probe"}
  PROVE  /\ Possible(c) /\ Ready(c) /\ svc' = Effect(c) /\ platform' = platform /\ daemon' = daemon
         /\ s = <<>> => Finish("failed", tx.problems)
         /\ s # <<>> => SameTx /\ tx'.todo = s /\ tx'.rolling = TRUE /\ tx'.problems = tx.problems /\ tx'.seen = tx.seen
<1>1. tx.rolling = TRUE
  BY TxFields
<1> QED
  BY <1>1, Succeeds, GoesOn

(* systemd: a command of rollbackSystemdInstall succeeds; the last one      *)
(* leaves the service as it was.                                            *)
LEMMA SystemdBackSucceeds ==
  ASSUME ServiceInv, platform = "systemd", tx.op = "install", tx.rolling, Command
  PROVE  StepOK
<1>1. /\ SystemdBack /\ SystemdSnapshot /\ svc \in Services /\ tx \in Txs /\ tx.problems \in BOOLEAN
  BY TxFields DEF ServiceInv, SystemdInv, TxTypeOK
<1>2. platform' = platform /\ daemon' = daemon
  BY DEF Command, daemonVars
<1>3. CASE Todo(<<"stop">> \o B1) /\ ~tx.prev.enabled
  <2>1. /\ Ready("stop") /\ svc' = Effect("stop") /\ SameTx /\ tx'.todo = B1 /\ tx'.rolling = TRUE
    BY <1>1, <1>3, BackSucceeds, BackLists DEF Todo
  <2>2. svc' = svc /\ ~svc.wanted /\ ~Running
    BY <1>1, <2>1, RunEffects DEF Ready, StopCommands
  <2>3. Still'
    BY <1>2, <2>1, <2>2, BackStays DEF Still, Stopped, Running
  <2>4. SystemdBack'
    BY <1>2, <1>3, <2>1, <2>3, BackStays DEF SystemdBack, Todo, SameTx
  <2> QED
    BY <1>1, <1>2, <2>1, <2>2, <2>4, SystemdInstallGoesOn
<1>4. CASE Todo(<<"stop">> \o B2) /\ (~tx.problems => Unlinked)
  <2>1. /\ Ready("stop") /\ svc' = Effect("stop") /\ SameTx /\ tx'.todo = B2 /\ tx'.rolling = TRUE
        /\ tx'.problems = tx.problems
    BY <1>1, <1>4, BackSucceeds, BackLists DEF Todo
  <2>2. svc' = svc /\ ~svc.wanted /\ ~Running
    BY <1>1, <2>1, RunEffects DEF Ready, StopCommands
  <2>3. Still' /\ (Unlinked => Unlinked')
    BY <1>2, <2>1, <2>2, BackStays DEF Still, Unlinked, Stopped, Running, SameTx
  <2>4. SystemdBack'
    BY <1>2, <1>4, <2>1, <2>3, BackStays DEF SystemdBack, Todo
  <2> QED
    BY <1>1, <1>2, <2>1, <2>2, <2>4, SystemdInstallGoesOn
<1>5. CASE Todo(B1) /\ ~tx.prev.enabled /\ (~tx.problems => Still)
  <2>1. /\ svc' = Effect("disable") /\ SameTx /\ tx'.todo = B2 /\ tx'.rolling = TRUE
        /\ tx'.problems = tx.problems
    BY <1>1, <1>5, BackSucceeds, BackLists DEF Todo
  <2>2. Holds(svc', svc.unit, svc.loaded, FALSE, svc.recovery, svc.wanted)
    BY <1>1, <2>1, UnitEffects
  <2>3. Unlinked' /\ (Still => Still')
    BY <1>2, <2>1, <2>2, BackStays DEF Still, Unlinked, Stopped, Running, SameTx, Holds
  <2>4. SystemdBack'
    BY <1>2, <1>5, <2>1, <2>3, BackStays DEF SystemdBack, Todo
  <2> QED
    BY <1>1, <1>2, <2>1, <2>2, <2>4, SystemdInstallGoesOn DEF Holds
<1>6. CASE Todo(B2) /\ (~tx.problems => Still /\ Unlinked)
  <2>1. /\ svc' = Effect("restore") /\ SameTx /\ tx'.todo = B3 /\ tx'.rolling = TRUE
        /\ tx'.problems = tx.problems
    BY <1>1, <1>6, BackSucceeds, BackLists DEF Todo
  <2>2. Holds(svc', tx.prev.unit, svc.loaded, svc.enabled, svc.recovery, svc.wanted)
    BY <1>1, <2>1, UnitEffects
  <2>3. (Unlinked => Unlinked') /\ (Still => Still') /\ svc'.unit = tx'.prev.unit
    BY <1>2, <2>1, <2>2, BackStays DEF Still, Unlinked, Stopped, Running, SameTx, Holds
  <2>4. SystemdBack'
    BY <1>2, <1>6, <2>1, <2>3, BackStays DEF SystemdBack, Todo
  <2> QED
    BY <1>1, <1>2, <2>1, <2>2, <2>4, SystemdInstallGoesOn DEF Holds
<1>7. CASE Todo(B3) /\ (~tx.problems => Still /\ Unlinked /\ svc.unit = tx.prev.unit)
  <2>1. BK \in Seq(Commands)
    BY BackLists DEF BK
  <2>2. /\ svc' = Effect("reload")
        /\ BK = <<>> => Finish("failed", tx.problems)
        /\ BK # <<>> => SameTx /\ tx'.todo = BK /\ tx'.rolling = TRUE /\ tx'.problems = tx.problems
    BY <1>1, <1>7, <2>1, BackSucceeds, BackLists DEF Todo
  <2>3. Holds(svc', svc.unit, svc.unit, svc.enabled, svc.recovery, svc.wanted)
    BY <1>1, <2>2, UnitEffects
  <2>4. CASE tx.known
    <3>1. SameTx /\ tx'.todo = B4 /\ tx'.rolling = TRUE /\ tx'.problems = tx.problems /\ tx'.known
      BY <2>2, <2>4, BackLists DEF SameTx
    <3>2. ~tx.problems => Still' /\ svc'.unit = tx'.prev.unit /\ svc'.loaded = tx'.prev.unit
      BY <1>2, <1>7, <2>3, <3>1, BackStays DEF Still, Stopped, Running, SameTx, Holds
    <3>3. SystemdBack'
      BY <1>2, <3>1, <3>2, BackStays DEF SystemdBack, Todo
    <3> QED
      BY <1>1, <1>2, <2>3, <3>1, <3>3, SystemdInstallGoesOn DEF Holds
  <2>5. CASE ~tx.known
    <3>1. Finish("failed", tx.problems)
      BY <2>2, <2>5, BackLists
    <3>2. ~tx.problems /\ Faithful => svc' = tx.prev
      BY <1>1, <1>7, <2>3, <2>5, SameService, TxFields, ServiceFields DEF Faithful, SystemdSnapshot, Still, Unlinked, Holds
    <3>3. svc'.unit = None /\ ~tx.tainted /\ ~tx.problems => ~svc'.wanted /\ ~Running'
      BY <1>2, <1>7, <2>3 DEF Still, Stopped, Running, Holds
    <3> QED
      BY <1>1, <1>2, <2>3, <3>1, <3>2, <3>3, SystemdEnds DEF Holds
  <2> QED
    BY <2>4, <2>5
<1>8. CASE tx.known /\ Todo(B4) /\ (~tx.problems => Still /\ svc.unit = tx.prev.unit /\ svc.loaded = tx.prev.unit)
  <2>1. /\ svc' = Effect(IF tx.prev.enabled THEN "enable" ELSE "disable")
        /\ SameTx /\ tx'.todo = B5 /\ tx'.rolling = TRUE /\ tx'.problems = tx.problems
    BY <1>1, <1>8, BackSucceeds, BackLists DEF Todo
  <2>2. Holds(svc', svc.unit, svc.loaded, tx.prev.enabled, svc.recovery, svc.wanted)
    BY <1>1, <2>1, UnitEffects, TxFields
  <2>3. tx'.known /\ (~tx.problems => /\ Still' /\ svc'.unit = tx'.prev.unit /\ svc'.loaded = tx'.prev.unit
                                     /\ svc'.enabled = tx'.prev.enabled)
    BY <1>2, <1>8, <2>1, <2>2, BackStays DEF Still, Stopped, Running, SameTx, Holds
  <2>4. SystemdBack'
    BY <1>2, <2>1, <2>3, BackStays DEF SystemdBack, Todo
  <2> QED
    BY <1>1, <1>2, <2>1, <2>2, <2>4, SystemdInstallGoesOn DEF Holds
<1>9. CASE /\ tx.known /\ Todo(B5)
           /\ ~tx.problems => /\ Still /\ svc.unit = tx.prev.unit /\ svc.loaded = tx.prev.unit
                              /\ svc.enabled = tx.prev.enabled
  <2>1. /\ svc' = Effect(IF tx.active THEN "restart" ELSE "stop") /\ Finish("failed", tx.problems)
        /\ Ready(IF tx.active THEN "restart" ELSE "stop")
    <3> DEFINE c == IF tx.active THEN "restart" ELSE "stop"
    <3>1. Head(tx.todo) = c /\ Tail(tx.todo) = <<>> /\ c \notin {"settle", "settleNew", "probe"} /\ <<>> \in Seq(Commands)
      BY <1>9, BackLists DEF Todo
    <3> HIDE DEF c
    <3>2. svc' = Effect(c) /\ Finish("failed", tx.problems) /\ Ready(c)
      BY <1>1, <3>1, BackSucceeds
    <3> QED
      BY <3>2 DEF c
  <2>2. Holds(svc', svc.unit, svc.loaded, svc.enabled, svc.recovery, tx.active)
    <3>1. CASE tx.active
      BY <1>1, <2>1, <3>1, RunEffects, TxFields DEF Holds
    <3>2. CASE ~tx.active
      <4>1. svc' = svc /\ ~svc.wanted
        BY <1>1, <2>1, <3>2, RunEffects DEF Ready, StopCommands
      <4> QED
        BY <1>1, <3>2, <4>1, TxFields, ServiceFields DEF Holds
    <3> QED
      BY <3>1, <3>2
  <2>3. ~Running
    BY <2>1 DEF Ready, StopCommands
  <2>4. ~tx.problems /\ Faithful => svc' = tx.prev
    BY <1>1, <1>9, <2>2, SameService, TxFields DEF Faithful, SystemdSnapshot, Holds
  <2>5. svc'.unit = None /\ ~tx.tainted /\ ~tx.problems => ~svc'.wanted /\ ~Running'
    <3>1. svc'.unit = svc.unit /\ svc'.wanted = tx.active /\ ~Running'
      BY <1>2, <2>2, <2>3 DEF Running, Holds
    <3>2. svc.unit = None /\ ~tx.tainted /\ ~tx.problems => ~tx.active
      BY <1>1, <1>9 DEF SystemdSnapshot
    <3> QED
      BY <3>1, <3>2
  <2> QED
    BY <1>1, <1>2, <2>1, <2>2, <2>4, <2>5, SystemdEnds DEF Holds
<1> QED
  BY <1>1, <1>3, <1>4, <1>5, <1>6, <1>7, <1>8, <1>9 DEF SystemdBack

(* systemd: a command of rollbackSystemdInstall fails, which the result     *)
(* says.                                                                    *)
LEMMA SystemdBackFails ==
  ASSUME ServiceInv, platform = "systemd", tx.op = "install", tx.rolling, CommandFails
  PROVE  StepOK
<1>1. /\ SystemdBack /\ svc \in Services /\ tx \in Txs
  BY DEF ServiceInv, SystemdInv, TxTypeOK
<1>2. platform' = platform /\ daemon' = daemon
  BY DEF CommandFails, daemonVars
<1> DEFINE Cs == {"stop", "disable", "restore", "reload", "enable", "restart"}
<1>3. /\ Head(tx.todo) \in Cs
      /\ \/ Tail(tx.todo) = B1 /\ ~tx.prev.enabled
         \/ Tail(tx.todo) \in {B2, B3}
         \/ tx.known /\ Tail(tx.todo) \in {B4, B5}
         \/ Tail(tx.todo) = <<>>
  <2>1. /\ Tail(<<"stop">> \o B1) = B1 /\ Tail(<<"stop">> \o B2) = B2 /\ Tail(B1) = B2 /\ Tail(B2) = B3 /\ Tail(B3) = BK
        /\ Tail(B4) = B5 /\ Tail(B5) = <<>> /\ (tx.known => BK = B4) /\ (~tx.known => BK = <<>>)
        /\ Head(<<"stop">> \o B1) \in Cs /\ Head(<<"stop">> \o B2) \in Cs /\ Head(B1) \in Cs /\ Head(B2) \in Cs
        /\ Head(B3) \in Cs /\ Head(B4) \in Cs /\ Head(B5) \in Cs
    BY BackLists
  <2> HIDE DEF Cs
  <2> QED
    BY <1>1, <2>1 DEF SystemdBack, Todo
<1>4. Failed(Head(tx.todo)) /\ svc' \in {svc, Effect(Head(tx.todo))}
  BY Fails, SystemdKept
<1>5. svc' \in Services /\ svc'.recovery = svc.recovery
  <2>1. \A c \in Cs : Effect(c) \in Services /\ Effect(c).recovery = svc.recovery
    BY <1>1, UnitEffects, RunEffects DEF Holds
  <2> QED
    BY <1>1, <1>3, <1>4, <2>1
<1>6. Go(Tail(tx.todo), [tx EXCEPT !.problems = TRUE])
  BY <1>3, <1>4, RollbackFails
<1>7. Tail(tx.todo) \in Seq(Commands)
  <2>1. /\ B1 \in Seq(Commands) /\ B2 \in Seq(Commands) /\ B3 \in Seq(Commands) /\ B4 \in Seq(Commands)
        /\ B5 \in Seq(Commands) /\ <<>> \in Seq(Commands)
    BY BackLists
  <2> QED
    BY <1>3, <2>1
<1>8. CASE Tail(tx.todo) = <<>>
  <2>1. Finish("failed", TRUE)
    BY <1>1, <1>6, <1>7, <1>8, GoesOnAnyway
  <2> QED
    BY <1>2, <1>5, <2>1, SystemdEnds
<1>9. CASE Tail(tx.todo) # <<>>
  <2>1. SameTx /\ tx'.todo = Tail(tx.todo) /\ tx'.rolling = TRUE /\ tx'.problems = TRUE
    <3>1. SameTx /\ tx'.todo = Tail(tx.todo) /\ tx'.rolling /\ tx'.problems
      BY <1>1, <1>6, <1>7, <1>9, GoesOnAnyway
    <3> QED
      BY <3>1 DEF SameTx, Txs
  <2>2. tx'.known = tx.known /\ tx'.prev = tx.prev
    BY <2>1 DEF SameTx
  <2>3. B1' = B1 /\ B2' = B2 /\ B3' = B3 /\ B4' = B4 /\ B5' = B5
    BY <1>2, <2>1, BackStays
  <2>4. SystemdBack'
    BY <1>3, <1>9, <2>1, <2>2, <2>3 DEF SystemdBack, Todo
  <2> QED
    BY <1>2, <1>5, <2>1, <2>4, SystemdInstallGoesOn
<1> QED
  BY <1>8, <1>9

(* systemd: a command of an uninstallation.                                 *)
LEMMA SystemdUninstallSteps ==
  ASSUME ServiceInv, platform = "systemd", tx.op = "uninstall", Command \/ CommandFails
  PROVE  StepOK
<1>1. /\ SystemdUninstall /\ RestInv /\ svc \in Services /\ tx \in Txs
      /\ tx.rolling = FALSE /\ tx.problems = FALSE
  BY TxFields DEF ServiceInv, SystemdInv, TxTypeOK
<1>2. platform' = platform /\ daemon' = daemon
  BY DEF Command, CommandFails, daemonVars
<1>3. ASSUME CommandFails PROVE StepOK
  <2>1. Head(tx.todo) \in {"stop", "disable", "remove", "reload"}
    BY <1>1, OtherSystemdLists DEF SystemdUninstall, Todo
  <2>2. svc' = svc /\ Finish("failed", FALSE)
    BY <1>3, <2>1, Fails, SystemdKept, OtherFails DEF LateFailures
  <2>3. svc.unit = None /\ ~tx.tainted => ~svc.wanted /\ ~Running
    BY <1>1 DEF SystemdUninstall, Stopped
  <2> QED
    BY <1>1, <1>2, <2>2, <2>3, SystemdEnds DEF Running
<1>4. ASSUME Command, Todo(U1) PROVE StepOK
  <2>1. svc' = Effect("stop") /\ Ready("stop") /\ tx' = [tx EXCEPT !.todo = U2]
    BY <1>4, Succeeds, OtherSystemdLists DEF Todo
  <2>2. SameTx /\ tx'.todo = U2 /\ tx'.rolling = tx.rolling /\ tx'.problems = tx.problems /\ tx'.seen = tx.seen
    BY <1>1, <2>1, GoesOn, OtherSystemdLists
  <2>3. svc' = svc /\ ~svc.wanted /\ ~Running
    BY <1>1, <2>1, RunEffects DEF Ready, StopCommands
  <2>4. SystemdUninstall'
    BY <1>2, <2>2, <2>3 DEF SystemdUninstall, Todo, Stopped, Running
  <2> QED
    BY <1>1, <1>2, <2>2, <2>3, <2>4, SystemdOtherGoesOn
<1>5. ASSUME Command, (Todo(U2) \/ Todo(U3)), Stopped PROVE StepOK
  <2>1. PICK c \in {"disable", "remove"}, s \in {U3, U4} : svc' = Effect(c) /\ tx' = [tx EXCEPT !.todo = s]
    <3>1. \/ Head(tx.todo) = "disable" /\ Tail(tx.todo) = U3
          \/ Head(tx.todo) = "remove" /\ Tail(tx.todo) = U4
      BY <1>5, OtherSystemdLists DEF Todo
    <3>2. Head(tx.todo) \in {"disable", "remove"} /\ Tail(tx.todo) \in {U3, U4} /\ Tail(tx.todo) # <<>>
      BY <3>1, OtherSystemdLists
    <3>3. svc' = Effect(Head(tx.todo)) /\ tx' = [tx EXCEPT !.todo = Tail(tx.todo)]
      BY <1>5, <3>2, Succeeds
    <3> QED
      BY <3>2, <3>3
  <2>2. SameTx /\ tx'.todo = s /\ tx'.rolling = tx.rolling /\ tx'.problems = tx.problems /\ tx'.seen = tx.seen
    BY <1>1, <2>1, GoesOn, OtherSystemdLists
  <2>3. svc' \in Services /\ ~svc'.wanted /\ ~Running'
    BY <1>1, <1>2, <1>5, <2>1, UnitEffects DEF Holds, Stopped, Running
  <2>4. SystemdUninstall'
    BY <2>2, <2>3 DEF SystemdUninstall, Todo, Stopped
  <2> QED
    BY <1>1, <1>2, <2>2, <2>3, <2>4, SystemdOtherGoesOn
<1>6. ASSUME Command, Todo(U4), Stopped PROVE StepOK
  <2>1. svc' = Effect("reload") /\ Finish("ok", FALSE)
    BY <1>1, <1>6, Succeeds, OtherSystemdLists DEF Todo
  <2>2. svc' \in Services /\ ~svc'.wanted /\ ~Running'
    BY <1>1, <1>2, <1>6, <2>1, UnitEffects DEF Holds, Stopped, Running
  <2> QED
    BY <1>1, <1>2, <2>1, <2>2, SystemdEnds
<1> QED
  BY <1>1, <1>3, <1>4, <1>5, <1>6 DEF SystemdUninstall

(* systemd: a command of a start.                                           *)
LEMMA SystemdStartSteps ==
  ASSUME ServiceInv, platform = "systemd", tx.op = "start", Command \/ CommandFails
  PROVE  StepOK
<1>1. /\ Todo(N2) \/ Todo(I5)
      /\ svc.unit # None /\ svc \in Services /\ tx \in Txs /\ tx.rolling = FALSE /\ tx.problems = FALSE
  BY TxFields DEF ServiceInv, SystemdInv, TxTypeOK
<1>2. platform' = platform /\ daemon' = daemon
  BY DEF Command, CommandFails, daemonVars
<1>3. ASSUME CommandFails PROVE StepOK
  <2>1. Head(tx.todo) \in {"start", "isActive"}
    BY <1>1, OtherSystemdLists, ForwardLists DEF Todo
  <2>2. svc' \in {svc, Effect(Head(tx.todo))} /\ Finish("failed", FALSE)
    BY <1>3, <2>1, Fails, SystemdKept, OtherFails
  <2>3. svc' \in Services /\ svc'.unit # None
    BY <1>1, <2>1, <2>2, RunEffects DEF Holds
  <2> QED
    BY <1>1, <1>2, <2>2, <2>3, SystemdEnds
<1>4. ASSUME Command, Todo(N2) PROVE StepOK
  <2>1. svc' = Effect("start") /\ tx' = [tx EXCEPT !.todo = I5]
    <3>1. Head(tx.todo) = "start" /\ Tail(tx.todo) = I5 /\ I5 # <<>>
      BY <1>4, OtherSystemdLists, ForwardLists DEF Todo
    <3> QED
      BY <1>4, <3>1, Succeeds
  <2>2. SameTx /\ tx'.todo = I5 /\ tx'.rolling = tx.rolling /\ tx'.problems = tx.problems /\ tx'.seen = tx.seen
    BY <1>1, <2>1, GoesOn, ForwardLists
  <2>3. svc' \in Services /\ svc'.unit # None
    BY <1>1, <2>1, RunEffects DEF Holds
  <2> QED
    BY <1>1, <1>2, <2>2, <2>3, SystemdOtherGoesOn DEF Todo
<1>5. ASSUME Command, Todo(I5) PROVE StepOK
  <2>1. svc' = Effect("isActive") /\ Finish("ok", FALSE)
    BY <1>1, <1>5, Succeeds, ForwardLists DEF Todo
  <2>2. svc' = svc
    BY <1>1, <2>1, RunEffects
  <2> QED
    BY <1>1, <1>2, <2>1, <2>2, SystemdEnds
<1> QED
  BY <1>1, <1>3, <1>4, <1>5

(* systemd: any command, whichever way it ends.                             *)
LEMMA SystemdSteps ==
  ASSUME ServiceInv, platform = "systemd", Command \/ CommandFails
  PROVE  StepOK
<1>1. tx.op \in {"install", "start", "uninstall"}
  BY DEF ServiceInv, TxTypeOK, Txs, Ops, Command, CommandFails
<1> QED
  BY <1>1, SystemdForwardSucceeds, SystemdForwardFails, SystemdBackSucceeds, SystemdBackFails,
     SystemdUninstallSteps, SystemdStartSteps

-----------------------------------------------------------------------------
(* launchd.                                                                 *)

(* What LaunchdInv says away from the commands that stop the job.           *)
Steady == /\ svc.wanted = (svc.loaded # None)
          /\ svc.loaded = None => ~Running

(* launchd away from a stop: loaded means kept running.                     *)
LEMMA LaunchdSteady ==
  ASSUME LaunchdInv, svc \in Services, tx.op # "none" => Head(tx.todo) \notin {"bootout", "cleanup", "kickstart"}
  PROVE  Steady
  BY ServiceFields DEF LaunchdInv, Steady

(* And back.                                                                *)
LEMMA SteadyLaunchd ==
  ASSUME svc' \in Services, Steady'
  PROVE  LaunchdInv'
  BY DEF LaunchdInv, Steady

(* launchd: the end of a transaction, given what it leaves.                 *)
LEMMA LaunchdEnds ==
  ASSUME ServiceInv, platform = "launchd", platform' = platform, NEW r \in {"ok", "failed"}, NEW p \in BOOLEAN,
         Finish(r, p), svc' \in Services, Steady',
         svc'.unit = None /\ ~tx.tainted /\ ~p => svc'.loaded = None,
         tx.op = "install" /\ r = "failed" /\ ~p /\ Faithful => svc' = tx.prev
  PROVE  StepOK
<1>1. tx \in Txs
  BY DEF ServiceInv, TxTypeOK
<1>2. /\ tx' \in Txs /\ tx'.op = "none" /\ tx'.rolling = FALSE /\ tx'.seen = "gone" /\ tx'.problems = p
      /\ tx'.result = r /\ tx'.tainted = (tx.tainted \/ p)
  BY <1>1, Finished
<1>3. TxTypeOK'
  BY <1>2 DEF TxTypeOK
<1>4. RestInv'
  BY <1>2 DEF RestInv, Stopped
<1>5. LaunchdInv' /\ LaunchdTxInv'
  BY <1>2, SteadyLaunchd DEF LaunchdTxInv
<1>6. Restores
  BY <1>2 DEF Restores, Faithful
<1> QED
  BY <1>3, <1>4, <1>5, <1>6 DEF StepOK, ServiceInv

(* launchd: an installation that goes on, forward or back.                  *)
LEMMA LaunchdInstallGoesOn ==
  ASSUME ServiceInv, platform = "launchd", platform' = platform, tx.op = "install", SameTx,
         svc' \in Services, svc'.recovery = svc.recovery, svc'.enabled = svc.enabled, Steady',
         \/ tx'.rolling = FALSE /\ tx'.problems = FALSE /\ tx'.seen = "gone" /\ LaunchdForward'
         \/ tx'.rolling = TRUE /\ LaunchdBack'
  PROVE  StepOK
<1>1. TxTypeOK'
  BY DEF ServiceInv, TxTypeOK, SameTx
<1>2. RestInv'
  BY DEF RestInv, SameTx
<1>3. LaunchdTxInv'
  BY DEF ServiceInv, LaunchdTxInv, LaunchdSnapshot, SameTx
<1>4. Restores
  BY DEF Restores, SameTx
<1> QED
  BY <1>1, <1>2, <1>3, <1>4, SteadyLaunchd DEF StepOK, ServiceInv

(* launchd: a start or an uninstallation that goes on.                      *)
LEMMA LaunchdOtherGoesOn ==
  ASSUME ServiceInv, platform = "launchd", platform' = platform, tx.op \in {"start", "uninstall"}, SameTx,
         svc' \in Services, tx'.rolling = tx.rolling, tx'.problems = tx.problems, tx'.seen = tx.seen, Steady',
         tx.op = "uninstall" => LaunchdUninstall',
         tx.op = "start" => (Todo(K1) \/ Todo(K2) \/ Todo(I5))' /\ svc'.unit # None
  PROVE  StepOK
<1>1. TxTypeOK'
  BY DEF ServiceInv, TxTypeOK, SameTx
<1>2. RestInv'
  BY DEF RestInv, SameTx
<1>3. LaunchdTxInv'
  BY DEF LaunchdTxInv, SameTx
<1>4. Restores
  BY DEF Restores, SameTx
<1> QED
  BY <1>1, <1>2, <1>3, <1>4, SteadyLaunchd DEF StepOK, ServiceInv

(* A command of launchd that failed leaves the job loaded and kept alive,   *)
(* or not loaded at all.                                                    *)
LaunchdCommands == {"write", "restore", "remove", "bootstrap", "bootout", "cleanup", "kickstart", "isActive", "probe", "gone"}

(* launchd: what a failed command leaves.                                   *)
LEMMA LaunchdFailure ==
  ASSUME ServiceInv, platform = "launchd", CommandFails, NEW c \in LaunchdCommands, Head(tx.todo) = c
  PROVE  /\ svc' \in Services /\ svc'.unit = svc.unit /\ svc'.enabled = svc.enabled /\ svc'.recovery = svc.recovery
         /\ Steady'
         /\ \/ svc'.loaded = svc.loaded
            \/ c \in {"bootout", "cleanup"} /\ svc'.loaded = None
            \/ c = "bootstrap" /\ svc'.loaded = svc.unit /\ svc.unit # None
<1>1. LaunchdInv /\ svc \in Services /\ tx \in Txs /\ tx.op # "none"
  BY DEF ServiceInv, TxTypeOK, CommandFails
<1>2. daemon' = daemon
  BY DEF CommandFails, daemonVars
<1>3. CASE svc' = svc /\ ~Possible(c)
  <2>1. c \in {"bootout", "cleanup", "kickstart"} => svc.loaded = None
    BY <1>3, Preconditions
  <2>2. Steady
    BY <1>1, <2>1, LaunchdSteady, ServiceFields DEF Steady, LaunchdInv
  <2> QED
    BY <1>1, <1>2, <1>3, <2>2 DEF Steady, Running
<1>4. CASE svc' = kept
  <2>1. svc.loaded = None => ~svc.wanted /\ ~Running
    BY <1>1 DEF LaunchdInv
  <2>2. Holds(kept, svc.unit, svc.loaded, svc.enabled, svc.recovery, svc.loaded # None)
    <3>1. CASE svc.loaded = None
      BY <1>1, <2>1, <3>1, ServiceFields DEF kept, Holds
    <3>2. CASE svc.loaded # None
      BY <1>1, <3>2, ServiceFields DEF kept, Holds, Services
    <3> QED
      BY <3>1, <3>2
  <2> QED
    BY <1>2, <1>4, <2>1, <2>2 DEF Holds, Steady, Running
<1>5. CASE svc' = Effect(c) /\ Possible(c) /\ Ready(c) /\ c \in LateFailures
  <2>1. c \in {"bootstrap", "bootout", "cleanup", "kickstart"}
    BY <1>5 DEF LateFailures, LaunchdCommands
  <2>2. CASE c \in {"bootout", "cleanup"}
    <3>1. Holds(svc', svc.unit, None, svc.enabled, svc.recovery, svc.wanted)
      BY <1>1, <1>5, <2>2, RunEffects
    <3>2. ~svc.wanted /\ ~Running
      BY <1>5, <2>2 DEF Ready, StopCommands
    <3> QED
      BY <1>1, <1>2, <2>2, <3>1, <3>2, ServiceFields DEF Holds, Steady, Running
  <2>3. CASE c = "bootstrap"
    <3>1. Holds(svc', svc.unit, svc.unit, svc.enabled, svc.recovery, TRUE)
      BY <1>1, <1>5, <2>3, RunEffects
    <3>2. svc.unit # None
      BY <1>5, <2>3, Preconditions
    <3> QED
      BY <2>3, <3>1, <3>2 DEF Holds, Steady
  <2>4. CASE c = "kickstart"
    <3>1. Holds(svc', svc.unit, svc.loaded, svc.enabled, svc.recovery, TRUE)
      BY <1>1, <1>5, <2>4, RunEffects
    <3>2. svc.loaded # None
      BY <1>5, <2>4, Preconditions
    <3> QED
      BY <3>1, <3>2 DEF Holds, Steady
  <2> QED
    BY <2>1, <2>2, <2>3, <2>4
<1> QED
  BY <1>3, <1>4, <1>5, Fails DEF LaunchdCommands

(* launchd: a command of installLaunchdDaemon succeeds.                     *)
LEMMA LaunchdForwardSucceeds ==
  ASSUME ServiceInv, platform = "launchd", tx.op = "install", ~tx.rolling, Command
  PROVE  StepOK
<1>1. /\ LaunchdForward /\ LaunchdSnapshot /\ LaunchdInv /\ svc \in Services /\ tx \in Txs /\ tx.def \in Definitions
      /\ tx.rolling = FALSE /\ tx.problems = FALSE /\ tx.seen = "gone"
  BY TxFields DEF ServiceInv, LaunchdTxInv, TxTypeOK
<1>2. platform' = platform /\ daemon' = daemon
  BY DEF Command, daemonVars
<1>3. CASE /\ Todo(LWO) \/ Todo(LW)
           /\ svc = tx.prev
  <2> DEFINE s == Tail(tx.todo)
  <2>1. /\ Head(tx.todo) = "write" /\ s \in {LOB, LB} /\ s # <<>> /\ s \in Seq(Commands)
        /\ (s = LOB /\ Todo(LWO)) \/ (s = LB /\ Todo(LW))
    BY <1>3, LaunchdLists DEF Todo
  <2> HIDE DEF s
  <2>2. svc' = Effect("write") /\ tx' = [tx EXCEPT !.todo = s]
    BY <2>1, Succeeds DEF s
  <2>3. SameTx /\ tx'.todo = s /\ tx'.rolling = FALSE /\ tx'.problems = FALSE /\ tx'.seen = "gone"
    BY <1>1, <2>1, <2>2, GoesOn
  <2>4. Holds(svc', tx.def, svc.loaded, svc.enabled, svc.recovery, svc.wanted)
    BY <1>1, <2>2, UnitEffects
  <2>5. Steady
    BY <1>1, <2>1, LaunchdSteady
  <2>6. (Todo(LWO) => svc.loaded # None) /\ (Todo(LW) => svc.loaded = None)
    BY <1>1 DEF LaunchdForward, Todo, LWO, LW, LOB, LB
  <2>7. LaunchdForward'
    BY <1>3, <2>1, <2>3, <2>4, <2>6 DEF LaunchdForward, Todo, SameTx, Holds
  <2>8. Steady'
    BY <1>2, <2>4, <2>5 DEF Steady, Running, Holds
  <2> QED
    BY <1>1, <1>2, <2>3, <2>4, <2>7, <2>8, LaunchdInstallGoesOn DEF Holds
<1>4. CASE Todo(LOB) /\ svc.unit = tx.def
  <2>1. Ready("bootout") /\ svc' = Effect("bootout") /\ tx' = [tx EXCEPT !.todo = LB]
    <3>1. Head(tx.todo) = "bootout" /\ Tail(tx.todo) = LB /\ LB # <<>>
      BY <1>4, LaunchdLists DEF Todo
    <3> QED
      BY <3>1, Succeeds
  <2>2. SameTx /\ tx'.todo = LB /\ tx'.rolling = FALSE /\ tx'.problems = FALSE /\ tx'.seen = "gone"
    BY <1>1, <2>1, GoesOn, LaunchdLists
  <2>3. Holds(svc', svc.unit, None, svc.enabled, svc.recovery, svc.wanted)
    BY <1>1, <2>1, RunEffects
  <2>4. ~svc.wanted /\ ~Running
    BY <2>1 DEF Ready, StopCommands
  <2>5. LaunchdForward'
    BY <1>4, <2>2, <2>3 DEF LaunchdForward, Todo, SameTx, Holds
  <2>6. Steady'
    BY <1>1, <1>2, <2>3, <2>4, ServiceFields DEF Steady, Running, Holds
  <2> QED
    BY <1>2, <2>2, <2>3, <2>5, <2>6, LaunchdInstallGoesOn DEF Holds
<1>5. CASE Todo(LB) /\ svc.unit = tx.def
  <2>1. svc' = Effect("bootstrap") /\ Finish("ok", FALSE)
    BY <1>1, <1>5, Succeeds, LaunchdLists DEF Todo
  <2>2. Holds(svc', svc.unit, svc.unit, svc.enabled, svc.recovery, TRUE)
    BY <1>1, <2>1, RunEffects
  <2>3. svc.unit # None
    BY <1>1, <1>5, ServiceAssumption
  <2> QED
    BY <1>2, <2>1, <2>2, <2>3, LaunchdEnds DEF Holds, Steady
<1> QED
  BY <1>1, <1>3, <1>4, <1>5 DEF LaunchdForward

(* launchd: a command of installLaunchdDaemon fails.                        *)
LEMMA LaunchdForwardFails ==
  ASSUME ServiceInv, platform = "launchd", tx.op = "install", ~tx.rolling, CommandFails
  PROVE  StepOK
<1>1. /\ LaunchdForward /\ LaunchdSnapshot /\ LaunchdInv /\ svc \in Services /\ tx \in Txs /\ tx.def \in Definitions
      /\ tx.rolling = FALSE /\ tx.problems = FALSE /\ tx.seen = "gone"
  BY TxFields DEF ServiceInv, LaunchdTxInv, TxTypeOK
<1>2. platform' = platform /\ daemon' = daemon
  BY DEF CommandFails, daemonVars
<1>3. CASE /\ Todo(LWO) \/ Todo(LW)
           /\ svc = tx.prev
  <2>1. Head(tx.todo) = "write"
    BY <1>3, LaunchdLists DEF Todo
  <2>2. Failed("write")
    BY <2>1, Fails
  <2>3. Finish("failed", FALSE)
    BY <2>2, InstallFails DEF rollbackInstall
  <2>4. /\ svc' \in Services /\ svc'.unit = svc.unit /\ svc'.enabled = svc.enabled /\ svc'.recovery = svc.recovery
        /\ Steady' /\ svc'.loaded = svc.loaded
    BY <2>1, LaunchdFailure DEF LaunchdCommands
  <2>5. Steady
    BY <1>1, <2>1, LaunchdSteady
  <2>6. svc' = svc
    BY <1>1, <2>4, <2>5, SameService DEF Steady
  <2>7. svc'.unit = None => svc'.loaded = None
    BY <1>1, <1>3, <2>6 DEF LaunchdSnapshot
  <2> QED
    BY <1>2, <1>3, <2>3, <2>4, <2>6, <2>7, LaunchdEnds
<1>4. CASE Todo(LOB) /\ svc.loaded = tx.prev.loaded /\ svc.loaded # None
  <2>1. Head(tx.todo) = "bootout"
    BY <1>4, LaunchdLists DEF Todo
  <2>2. Failed("bootout")
    BY <2>1, Fails
  <2>3. rollbackInstall("bootout") = S3
    BY DEF rollbackInstall, rollbackLaunchdInstall, S3
  <2>4. tx' = [tx EXCEPT !.rolling = TRUE, !.todo = S3]
    BY <2>2, <2>3, InstallFails, SettleLists
  <2>5. SameTx /\ tx'.todo = S3 /\ tx'.rolling = TRUE /\ tx'.seen = "gone"
    BY <1>1, <2>4, RollsBack, SettleLists DEF SameTx, Txs
  <2>6. /\ svc' \in Services /\ svc'.unit = svc.unit /\ svc'.enabled = svc.enabled /\ svc'.recovery = svc.recovery
        /\ Steady' /\ svc'.loaded \in {svc.loaded, None}
    BY <2>1, LaunchdFailure DEF LaunchdCommands
  <2>7. LaunchdBack'
    BY <1>4, <2>5, <2>6 DEF LaunchdBack, OldJob, Todo, SameTx
  <2> QED
    BY <1>2, <2>5, <2>6, <2>7, LaunchdInstallGoesOn
<1>5. CASE Todo(LB)
  <2>1. Head(tx.todo) = "bootstrap"
    BY <1>5, LaunchdLists DEF Todo
  <2>2. Failed("bootstrap")
    BY <2>1, Fails
  <2>3. rollbackInstall("bootstrap") = T4
    BY DEF rollbackInstall, rollbackLaunchdInstall, T4
  <2>4. tx' = [tx EXCEPT !.rolling = TRUE, !.todo = T4]
    BY <2>2, <2>3, InstallFails, SettleLists
  <2>5. SameTx /\ tx'.todo = T4 /\ tx'.rolling = TRUE /\ tx'.seen = "gone"
    BY <1>1, <2>4, RollsBack, SettleLists DEF SameTx, Txs
  <2>6. /\ svc' \in Services /\ svc'.unit = svc.unit /\ svc'.enabled = svc.enabled /\ svc'.recovery = svc.recovery
        /\ Steady'
    BY <2>1, LaunchdFailure DEF LaunchdCommands
  <2>7. LaunchdBack'
    BY <2>5 DEF LaunchdBack, Todo
  <2> QED
    BY <1>2, <2>5, <2>6, <2>7, LaunchdInstallGoesOn
<1> QED
  BY <1>1, <1>3, <1>4, <1>5 DEF LaunchdForward

(* launchctl print said something, or failed.                               *)
LEMMA Probes ==
  ASSUME tx \in Txs, NEW s \in Seq(Commands), Tail(tx.todo) = s, NEW seen \in {"gone", "loaded", "unknown"},
         NEW p \in BOOLEAN, probed(seen, p)
  PROVE  SameTx /\ tx'.todo = s /\ tx'.rolling = tx.rolling /\ tx'.problems = p /\ tx'.seen = seen
<1>1. tx' = [tx EXCEPT !.todo = s, !.seen = seen, !.problems = p]
  BY DEF probed, Txs
<1> QED
  BY <1>1 DEF SameTx, Txs

(* The probe of a rollback, whichever way it ends.                          *)
LEMMA ProbeStep ==
  ASSUME ServiceInv, platform = "launchd", tx.op = "install", tx.rolling, Command \/ CommandFails,
         Head(tx.todo) = "probe", NEW s \in Seq(Commands), Tail(tx.todo) = s
  PROVE  /\ svc' = svc /\ Steady' /\ SameTx /\ tx'.todo = s /\ tx'.rolling = TRUE
         /\ tx'.seen = "unknown" => tx'.problems
         /\ Seen'
<1>1. LaunchdInv /\ LaunchdBack /\ svc \in Services /\ tx \in Txs /\ tx.rolling = TRUE /\ tx.problems \in BOOLEAN
  BY TxFields DEF ServiceInv, TxTypeOK, LaunchdTxInv
<1>2. daemon' = daemon
  BY DEF Command, CommandFails, daemonVars
<1>3. Steady
  BY <1>1, LaunchdSteady
<1>4. CASE Command
  <2>1. svc' = Effect("probe") /\ Succeeded("probe")
    BY <1>4 DEF Command
  <2>2. svc' = svc
    BY <1>1, <2>1, RunEffects
  <2> DEFINE seen == IF svc.loaded = None THEN "gone" ELSE "loaded"
  <2>3. probed(seen, tx.problems)
    BY <2>1 DEF Succeeded
  <2>4. seen \in {"gone", "loaded", "unknown"}
    OBVIOUS
  <2> HIDE DEF seen
  <2>5. SameTx /\ tx'.todo = s /\ tx'.rolling = TRUE /\ tx'.seen = seen
    BY <1>1, <2>3, <2>4, Probes
  <2> QED
    BY <1>2, <1>3, <2>2, <2>5 DEF seen, Seen, Steady, Running
<1>5. CASE CommandFails
  <2>1. /\ Failed("probe") /\ svc' \in Services /\ svc'.unit = svc.unit /\ svc'.enabled = svc.enabled
        /\ svc'.recovery = svc.recovery /\ Steady' /\ svc'.loaded = svc.loaded
    BY <1>5, LaunchdFailure, Fails DEF LaunchdCommands
  <2>2. svc' = svc
    BY <1>1, <1>3, <2>1, SameService DEF Steady
  <2>3. probed("unknown", TRUE)
    BY <1>1, <2>1 DEF Failed, rollbackFails
  <2>4. SameTx /\ tx'.todo = s /\ tx'.rolling = TRUE /\ tx'.problems = TRUE /\ tx'.seen = "unknown"
    BY <1>1, <2>3, Probes
  <2> QED
    BY <2>1, <2>2, <2>4 DEF Seen
<1> QED
  BY <1>4, <1>5

(* settle and settleNew: the end of launchd's rollback.                     *)
LEMMA SettleStep ==
  ASSUME ServiceInv, platform = "launchd", tx.op = "install", tx.rolling, Command \/ CommandFails,
         NEW c \in {"settle", "settleNew"}, Head(tx.todo) = c, Seen, svc.unit = tx.prev.unit,
         c = "settle" => OldJob
  PROVE  StepOK
<1>1. /\ LaunchdInv /\ LaunchdBack /\ LaunchdSnapshot /\ svc \in Services /\ tx \in Txs /\ tx.rolling = TRUE
      /\ tx.problems \in BOOLEAN /\ tx.seen \in {"gone", "loaded", "unknown"}
  BY TxFields DEF ServiceInv, TxTypeOK, LaunchdTxInv, Txs
<1>2. Command
  BY Fails, Preconditions
<1>3. platform' = platform /\ daemon' = daemon /\ svc' = Effect(c) /\ settled(c)
  BY <1>2 DEF Command, daemonVars, Succeeded
<1>4. svc' = svc
  BY <1>1, <1>3, RunEffects
<1>5. Steady
  BY <1>1, LaunchdSteady
<1>6. Steady' /\ svc' \in Services
  BY <1>1, <1>3, <1>4, <1>5 DEF Steady, Running
<1>7. CASE tx.seen = "unknown" \/ (tx.seen = "loaded" /\ c = "settleNew")
  <2>1. Finish("failed", TRUE)
    BY <1>3, <1>7 DEF settled
  <2> QED
    BY <1>3, <1>6, <2>1, LaunchdEnds
<1>8. CASE tx.seen = "gone" /\ tx.prev.loaded # None
  <2>1. tx' = [tx EXCEPT !.todo = LB]
    BY <1>3, <1>8 DEF settled, LB
  <2>2. SameTx /\ tx'.todo = LB /\ tx'.rolling = TRUE /\ tx'.seen = "gone"
    BY <1>1, <1>8, <2>1, GoesOn, LaunchdLists
  <2>3. LaunchdBack'
    BY <1>4, <1>8, <2>2 DEF LaunchdBack, Seen, Todo, SameTx
  <2> QED
    BY <1>3, <1>4, <1>6, <2>2, <2>3, LaunchdInstallGoesOn
<1>9. CASE (tx.seen = "gone" /\ tx.prev.loaded = None) \/ (tx.seen = "loaded" /\ c = "settle")
  <2>1. Finish("failed", tx.problems)
    BY <1>3, <1>9 DEF settled
  <2>2. svc.loaded = tx.prev.loaded
    <3>1. CASE tx.seen = "gone"
      BY <1>9, <3>1 DEF Seen
    <3>2. CASE tx.seen = "loaded"
      BY <1>9, <3>2 DEF Seen, OldJob
    <3> QED
      BY <1>9, <3>1, <3>2
  <2>3. svc = tx.prev
    BY <1>1, <1>5, <2>2, SameService, TxFields DEF Steady, LaunchdSnapshot
  <2>4. svc.unit = None => svc.loaded = None
    BY <1>1, <2>3 DEF LaunchdSnapshot
  <2> QED
    BY <1>1, <1>3, <1>4, <1>6, <2>1, <2>3, <2>4, LaunchdEnds
<1> QED
  BY <1>1, <1>7, <1>8, <1>9

(* launchd: a command of rollbackLaunchdInstall, whichever way it ends.     *)
LEMMA LaunchdBackSteps ==
  ASSUME ServiceInv, platform = "launchd", tx.op = "install", tx.rolling, Command \/ CommandFails
  PROVE  StepOK
<1>1. /\ LaunchdInv /\ LaunchdBack /\ LaunchdSnapshot /\ svc \in Services /\ tx \in Txs /\ tx.rolling = TRUE
      /\ tx.problems \in BOOLEAN
  BY TxFields DEF ServiceInv, TxTypeOK, LaunchdTxInv
<1>2. platform' = platform /\ daemon' = daemon
  BY DEF Command, CommandFails, daemonVars
<1>3. CASE Todo(LB) /\ tx.prev.loaded # None /\ svc.unit = tx.prev.unit
  <2>1. Head(tx.todo) = "bootstrap" /\ Tail(tx.todo) = <<>> /\ <<>> \in Seq(Commands)
    BY <1>3, LaunchdLists DEF Todo
  <2>2. svc.unit # None
    BY <1>1, <1>3 DEF LaunchdSnapshot
  <2>3. CASE Command
    <3>1. svc' = Effect("bootstrap") /\ Finish("failed", tx.problems)
      BY <1>1, <2>1, <2>3, BackSucceeds
    <3>2. Holds(svc', svc.unit, svc.unit, svc.enabled, svc.recovery, TRUE)
      BY <1>1, <3>1, RunEffects
    <3>3. Faithful => svc' = tx.prev
      BY <1>1, <1>3, <3>2, SameService, TxFields DEF Faithful, LaunchdSnapshot, Holds
    <3> QED
      BY <1>1, <1>2, <2>2, <3>1, <3>2, <3>3, LaunchdEnds DEF Holds, Steady
  <2>4. CASE CommandFails
    <3>1. Failed("bootstrap") /\ svc' \in Services /\ Steady'
      BY <2>1, <2>4, Fails, LaunchdFailure DEF LaunchdCommands
    <3>2. Go(<<>>, [tx EXCEPT !.problems = TRUE])
      BY <2>1, <3>1, RollbackFails
    <3>3. Finish("failed", TRUE)
      BY <1>1, <2>1, <3>2, GoesOnAnyway
    <3> QED
      BY <1>2, <3>1, <3>3, LaunchdEnds
  <2> QED
    BY <2>3, <2>4
<1>4. CASE Todo(S3) /\ OldJob
  <2>1. Head(tx.todo) = "probe" /\ Tail(tx.todo) = S2 /\ S2 \in Seq(Commands)
    BY <1>4, SettleLists DEF Todo
  <2>2. /\ svc' = svc /\ Steady' /\ SameTx /\ tx'.todo = S2 /\ tx'.rolling = TRUE
        /\ tx'.seen = "unknown" => tx'.problems
        /\ Seen'
    BY <2>1, ProbeStep
  <2>3. LaunchdBack'
    BY <1>4, <2>2 DEF LaunchdBack, OldJob, Todo, SameTx
  <2> QED
    BY <1>1, <1>2, <2>2, <2>3, LaunchdInstallGoesOn
<1>5. CASE Todo(T3)
  <2>1. Head(tx.todo) = "probe" /\ Tail(tx.todo) = T2 /\ T2 \in Seq(Commands)
    BY <1>5, SettleLists DEF Todo
  <2>2. /\ svc' = svc /\ Steady' /\ SameTx /\ tx'.todo = T2 /\ tx'.rolling = TRUE
        /\ tx'.seen = "unknown" => tx'.problems
        /\ Seen'
    BY <2>1, ProbeStep
  <2>3. LaunchdBack'
    BY <2>2 DEF LaunchdBack, Todo
  <2> QED
    BY <1>1, <1>2, <2>2, <2>3, LaunchdInstallGoesOn
<1>6. CASE (Todo(S2) /\ OldJob /\ Seen) \/ (Todo(T2) /\ Seen)
  <2> DEFINE s == Tail(tx.todo)
  <2>1. /\ Head(tx.todo) = "restore" /\ s \in Seq(Commands) /\ s # <<>>
        /\ (s = S1 /\ OldJob) \/ s = T1
    BY <1>6, SettleLists DEF Todo
  <2> HIDE DEF s
  <2>2. CASE Command
    <3>1. svc' = Effect("restore") /\ SameTx /\ tx'.todo = s /\ tx'.rolling = TRUE /\ tx'.problems = tx.problems /\ tx'.seen = tx.seen
      BY <1>1, <2>1, <2>2, BackSucceeds DEF s
    <3>2. Holds(svc', tx.prev.unit, svc.loaded, svc.enabled, svc.recovery, svc.wanted)
      BY <1>1, <3>1, UnitEffects
    <3>3. Steady
      BY <1>1, <2>1, LaunchdSteady
    <3>4. Steady'
      BY <1>2, <3>2, <3>3 DEF Steady, Running, Holds
    <3>5. Seen' /\ (OldJob => OldJob') /\ svc'.unit = tx'.prev.unit
      BY <1>6, <3>1, <3>2 DEF Seen, OldJob, SameTx, Holds
    <3>6. LaunchdBack'
      BY <1>1, <2>1, <3>1, <3>5 DEF LaunchdBack, Todo
    <3> QED
      BY <1>2, <3>1, <3>2, <3>4, <3>6, LaunchdInstallGoesOn DEF Holds
  <2>3. CASE CommandFails
    <3>1. Failed("restore") /\ svc' \in Services /\ Steady'
      BY <2>1, <2>3, Fails, LaunchdFailure DEF LaunchdCommands
    <3>2. Finish("failed", TRUE)
      BY <1>1, <3>1 DEF Failed, rollbackFails
    <3> QED
      BY <1>2, <3>1, <3>2, LaunchdEnds
  <2> QED
    BY <2>2, <2>3
<1>7. CASE Todo(T4) /\ tx.seen = "gone"
  <2>1. Head(tx.todo) = "cleanup" /\ Tail(tx.todo) = T2 /\ T2 \in Seq(Commands) /\ T2 # <<>>
    BY <1>7, SettleLists DEF Todo
  <2>2. CASE Command
    <3>1. /\ svc' = Effect("cleanup") /\ Ready("cleanup")
          /\ SameTx /\ tx'.todo = T2 /\ tx'.rolling = TRUE /\ tx'.seen = tx.seen
      BY <1>1, <2>1, <2>2, BackSucceeds
    <3>2. Holds(svc', svc.unit, None, svc.enabled, svc.recovery, svc.wanted)
      BY <1>1, <3>1, RunEffects
    <3>3. ~svc.wanted /\ ~Running
      BY <3>1 DEF Ready, StopCommands
    <3>4. Steady'
      BY <1>1, <1>2, <3>2, <3>3, ServiceFields DEF Steady, Running, Holds
    <3>5. LaunchdBack'
      BY <1>7, <3>1, <3>2 DEF LaunchdBack, Seen, Todo, Holds
    <3> QED
      BY <1>2, <3>1, <3>2, <3>4, <3>5, LaunchdInstallGoesOn DEF Holds
  <2>3. CASE CommandFails
    <3>1. /\ Failed("cleanup") /\ svc' \in Services /\ svc'.enabled = svc.enabled /\ svc'.recovery = svc.recovery /\ Steady'
      BY <2>1, <2>3, Fails, LaunchdFailure DEF LaunchdCommands
    <3>2. tx' = [tx EXCEPT !.todo = T3]
      <4>1. tx' = [tx EXCEPT !.todo = <<"probe">> \o Tail(@)]
        BY <1>1, <3>1 DEF Failed, rollbackFails
      <4> QED
        BY <1>1, <2>1, <4>1 DEF T3, Txs
    <3>3. SameTx /\ tx'.todo = T3 /\ tx'.rolling = TRUE /\ tx'.seen = "gone"
      BY <1>1, <1>7, <3>2, GoesOn, SettleLists
    <3>4. LaunchdBack'
      BY <3>3 DEF LaunchdBack, Todo
    <3> QED
      BY <1>2, <3>1, <3>3, <3>4, LaunchdInstallGoesOn
  <2> QED
    BY <2>2, <2>3
<1>8. CASE Todo(S1) /\ OldJob /\ Seen /\ svc.unit = tx.prev.unit
  BY <1>8, SettleStep, SettleLists DEF Todo
<1>9. CASE Todo(T1) /\ Seen /\ svc.unit = tx.prev.unit
  BY <1>9, SettleStep, SettleLists DEF Todo
<1> QED
  BY <1>1, <1>3, <1>4, <1>5, <1>6, <1>7, <1>8, <1>9 DEF LaunchdBack

(* launchd: a command of an uninstallation.                                 *)
LEMMA LaunchdUninstallSteps ==
  ASSUME ServiceInv, platform = "launchd", tx.op = "uninstall", Command \/ CommandFails
  PROVE  StepOK
<1>1. /\ LaunchdUninstall /\ LaunchdInv /\ svc \in Services /\ tx \in Txs
      /\ tx.rolling = FALSE /\ tx.problems = FALSE
  BY TxFields DEF ServiceInv, LaunchdTxInv, TxTypeOK
<1>2. platform' = platform /\ daemon' = daemon
  BY DEF Command, CommandFails, daemonVars
<1>3. CASE Todo(R3) /\ (svc.unit = None => tx.tainted)
  <2>1. Head(tx.todo) = "bootout" /\ Tail(tx.todo) = R2 /\ R2 # <<>> /\ R2 \in Seq(Commands)
    BY <1>3, LaunchdLists DEF Todo
  <2>2. CASE Command
    <3>1. svc' = Effect("bootout") /\ Ready("bootout") /\ tx' = [tx EXCEPT !.todo = R2]
      BY <2>1, <2>2, Succeeds
    <3>2. SameTx /\ tx'.todo = R2 /\ tx'.rolling = tx.rolling /\ tx'.problems = tx.problems /\ tx'.seen = tx.seen
      BY <1>1, <2>1, <3>1, GoesOn
    <3>3. Holds(svc', svc.unit, None, svc.enabled, svc.recovery, svc.wanted)
      BY <1>1, <3>1, RunEffects
    <3>4. ~svc.wanted /\ ~Running
      BY <3>1 DEF Ready, StopCommands
    <3>5. Steady'
      BY <1>1, <1>2, <3>3, <3>4, ServiceFields DEF Steady, Running, Holds
    <3>6. LaunchdUninstall'
      BY <3>2, <3>3 DEF LaunchdUninstall, Todo, Holds
    <3> QED
      BY <1>2, <3>2, <3>3, <3>5, <3>6, LaunchdOtherGoesOn DEF Holds
  <2>3. CASE CommandFails
    <3>1. Failed("bootout") /\ svc' \in Services /\ svc'.unit = svc.unit /\ Steady'
      BY <2>1, <2>3, Fails, LaunchdFailure DEF LaunchdCommands
    <3>2. Finish("failed", FALSE)
      BY <3>1, OtherFails
    <3> QED
      BY <1>2, <1>3, <3>1, <3>2, LaunchdEnds
  <2> QED
    BY <2>2, <2>3
<1>4. CASE (Todo(R2) \/ Todo(R1)) /\ svc.loaded = None
  <2>1. \/ Head(tx.todo) = "gone" /\ Tail(tx.todo) = R1 /\ R1 # <<>> /\ R1 \in Seq(Commands)
        \/ Head(tx.todo) = "remove" /\ Tail(tx.todo) = <<>>
    BY <1>4, LaunchdLists DEF Todo
  <2>2. Steady
    BY <1>1, <2>1, LaunchdSteady
  <2>3. CASE CommandFails
    <3>1. Failed(Head(tx.todo)) /\ svc' \in Services /\ svc'.loaded = svc.loaded /\ Steady'
      BY <2>1, <2>3, Fails, LaunchdFailure DEF LaunchdCommands
    <3>2. Finish("failed", FALSE)
      BY <3>1, OtherFails
    <3> QED
      BY <1>2, <1>4, <3>1, <3>2, LaunchdEnds
  <2>4. CASE Command /\ Head(tx.todo) = "gone"
    <3>1. svc' = Effect("gone") /\ tx' = [tx EXCEPT !.todo = R1]
      BY <2>1, <2>4, Succeeds
    <3>2. SameTx /\ tx'.todo = R1 /\ tx'.rolling = tx.rolling /\ tx'.problems = tx.problems /\ tx'.seen = tx.seen
      BY <1>1, <2>1, <2>4, <3>1, GoesOn
    <3>3. svc' = svc
      BY <1>1, <3>1, RunEffects
    <3>4. Steady' /\ LaunchdUninstall'
      BY <1>2, <1>4, <2>2, <3>2, <3>3 DEF Steady, Running, LaunchdUninstall, Todo
    <3> QED
      BY <1>1, <1>2, <3>2, <3>3, <3>4, LaunchdOtherGoesOn
  <2>5. CASE Command /\ Head(tx.todo) = "remove"
    <3>1. svc' = Effect("remove") /\ Finish("ok", FALSE)
      BY <1>1, <2>1, <2>5, Succeeds
    <3>2. Holds(svc', None, svc.loaded, svc.enabled, svc.recovery, svc.wanted)
      BY <1>1, <3>1, UnitEffects
    <3>3. Steady'
      BY <1>2, <2>2, <3>2 DEF Steady, Running, Holds
    <3> QED
      BY <1>2, <1>4, <3>1, <3>2, <3>3, LaunchdEnds DEF Holds
  <2> QED
    BY <2>1, <2>3, <2>4, <2>5
<1> QED
  BY <1>1, <1>3, <1>4 DEF LaunchdUninstall

(* launchd: a command of a start.                                           *)
LEMMA LaunchdStartSteps ==
  ASSUME ServiceInv, platform = "launchd", tx.op = "start", Command \/ CommandFails
  PROVE  StepOK
<1>1. /\ Todo(K1) \/ Todo(K2) \/ Todo(I5)
      /\ svc.unit # None /\ LaunchdInv /\ svc \in Services /\ tx \in Txs /\ tx.rolling = FALSE /\ tx.problems = FALSE
  BY TxFields DEF ServiceInv, LaunchdTxInv, TxTypeOK
<1>2. platform' = platform /\ daemon' = daemon
  BY DEF Command, CommandFails, daemonVars
<1>3. CASE CommandFails
  <2>1. Head(tx.todo) \in {"kickstart", "bootstrap", "isActive"}
    BY <1>1, LaunchdLists, ForwardLists DEF Todo
  <2>2. Failed(Head(tx.todo)) /\ svc' \in Services /\ svc'.unit = svc.unit /\ Steady'
    BY <1>3, <2>1, Fails, LaunchdFailure DEF LaunchdCommands
  <2>3. Finish("failed", FALSE)
    BY <2>2, OtherFails
  <2> QED
    BY <1>1, <1>2, <2>2, <2>3, LaunchdEnds
<1>4. CASE Command /\ (Todo(K1) \/ Todo(K2))
  <2>1. Head(tx.todo) \in {"kickstart", "bootstrap"} /\ Tail(tx.todo) = I5 /\ I5 # <<>> /\ I5 \in Seq(Commands)
    BY <1>4, LaunchdLists, ForwardLists DEF Todo
  <2>2. Possible(Head(tx.todo)) /\ svc' = Effect(Head(tx.todo)) /\ tx' = [tx EXCEPT !.todo = I5]
    BY <1>4, <2>1, Succeeds
  <2>3. SameTx /\ tx'.todo = I5 /\ tx'.rolling = tx.rolling /\ tx'.problems = tx.problems /\ tx'.seen = tx.seen
    BY <1>1, <2>1, <2>2, GoesOn
  <2>4. svc' \in Services /\ svc'.unit = svc.unit /\ svc'.loaded # None /\ svc'.wanted = TRUE
    <3>1. CASE Head(tx.todo) = "kickstart"
      BY <1>1, <2>2, <3>1, RunEffects, Preconditions DEF Holds
    <3>2. CASE Head(tx.todo) = "bootstrap"
      BY <1>1, <2>2, <3>2, RunEffects, Preconditions DEF Holds
    <3> QED
      BY <2>1, <3>1, <3>2
  <2>5. Steady'
    BY <2>4 DEF Steady
  <2> QED
    BY <1>1, <1>2, <2>3, <2>4, <2>5, LaunchdOtherGoesOn DEF Todo
<1>5. CASE Command /\ Todo(I5)
  <2>1. svc' = Effect("isActive") /\ Finish("ok", FALSE) /\ Head(tx.todo) = "isActive"
    BY <1>1, <1>5, Succeeds, ForwardLists DEF Todo
  <2>2. svc' = svc
    BY <1>1, <2>1, RunEffects
  <2>3. Steady
    BY <1>1, <2>1, LaunchdSteady
  <2>4. Steady'
    BY <1>2, <2>2, <2>3 DEF Steady, Running
  <2> QED
    BY <1>1, <1>2, <2>1, <2>2, <2>4, LaunchdEnds
<1> QED
  BY <1>1, <1>3, <1>4, <1>5

(* launchd: any command, whichever way it ends.                             *)
LEMMA LaunchdSteps ==
  ASSUME ServiceInv, platform = "launchd", Command \/ CommandFails
  PROVE  StepOK
<1>1. tx.op \in {"install", "start", "uninstall"}
  BY DEF ServiceInv, TxTypeOK, Txs, Ops, Command, CommandFails
<1> QED
  BY <1>1, LaunchdForwardSucceeds, LaunchdForwardFails, LaunchdBackSteps, LaunchdUninstallSteps, LaunchdStartSteps

-----------------------------------------------------------------------------
(* The Windows service control manager.                                     *)

(* Windows: the end of a transaction, given what it leaves.                 *)
LEMMA ScmEnds ==
  ASSUME ServiceInv, platform = "scm", platform' = platform, NEW r \in {"ok", "failed"}, NEW p \in BOOLEAN,
         Finish(r, p), svc' \in Services,
         svc'.loaded = None => ~svc'.enabled /\ ~svc'.recovery /\ ~svc'.wanted,
         svc'.loaded = None /\ Running' => tx.tainted \/ p,
         tx.op = "install" /\ r = "failed" /\ ~p /\ Faithful => svc' = tx.prev
  PROVE  StepOK
<1>1. tx \in Txs
  BY DEF ServiceInv, TxTypeOK
<1>2. /\ tx' \in Txs /\ tx'.op = "none" /\ tx'.rolling = FALSE /\ tx'.seen = "gone" /\ tx'.problems = p
      /\ tx'.result = r /\ tx'.tainted = (tx.tainted \/ p)
  BY <1>1, Finished
<1>3. TxTypeOK'
  BY <1>2 DEF TxTypeOK
<1>4. RestInv'
  BY DEF RestInv
<1>5. ScmInv' /\ ScmTxInv'
  BY <1>2 DEF ScmInv, ScmTxInv
<1>6. Restores
  BY <1>2 DEF Restores, Faithful
<1> QED
  BY <1>3, <1>4, <1>5, <1>6 DEF StepOK, ServiceInv

(* Windows: an installation that goes on, forward or back.                  *)
LEMMA ScmInstallGoesOn ==
  ASSUME ServiceInv, platform = "scm", platform' = platform, tx.op = "install", SameTx,
         svc' \in Services, svc'.unit = svc.unit, svc'.loaded # None,
         \/ tx'.rolling = FALSE /\ tx'.problems = FALSE /\ tx'.seen = "gone" /\ ScmForward'
         \/ tx'.rolling = TRUE /\ ScmBack'
  PROVE  StepOK
<1>1. TxTypeOK'
  BY DEF ServiceInv, TxTypeOK, SameTx
<1>2. RestInv'
  BY DEF RestInv, SameTx
<1>3. ScmTxInv'
  BY DEF ServiceInv, ScmTxInv, ScmSnapshot, SameTx
<1>4. Restores
  BY DEF Restores, SameTx
<1>5. ScmInv'
  BY DEF ScmInv
<1> QED
  BY <1>1, <1>2, <1>3, <1>4, <1>5 DEF StepOK, ServiceInv

(* The rests of restoreWindowsService depend on the snapshot alone.         *)
LEMMA RestoreStays ==
  ASSUME SameTx, platform' = platform
  PROVE  V1' = V1 /\ V2' = V2 /\ V3' = V3 /\ (Faithful' <=> Faithful)
  BY DEF SameTx, V1, V2, V3, Faithful

(* Windows: a command of an installation succeeds.                          *)
LEMMA ScmForwardSucceeds ==
  ASSUME ServiceInv, platform = "scm", tx.op = "install", ~tx.rolling, Command
  PROVE  StepOK
<1>1. /\ ScmForward /\ svc \in Services /\ tx \in Txs /\ tx.def \in Definitions
      /\ tx.rolling = FALSE /\ tx.problems = FALSE /\ tx.seen = "gone"
  BY TxFields DEF ServiceInv, ScmTxInv, TxTypeOK
<1>2. platform' = platform /\ daemon' = daemon
  BY DEF Command, daemonVars
<1>3. CASE Todo(WE) /\ svc.loaded # None
  <2>1. svc' = Effect("ensure") /\ Finish("ok", FALSE)
    BY <1>1, <1>3, Succeeds, ScmLists DEF Todo
  <2>2. Holds(svc', svc.unit, svc.loaded, svc.enabled, svc.recovery, TRUE)
    BY <1>1, <2>1, RunEffects
  <2> QED
    BY <1>2, <1>3, <2>1, <2>2, ScmEnds DEF Holds
<1>4. CASE Todo(WR) /\ svc.loaded # None
  <2>0. Head(tx.todo) = "recover" /\ Tail(tx.todo) = WE /\ WE # <<>>
    BY <1>4, ScmLists DEF Todo
  <2>1. svc' = Effect("recover") /\ tx' = [tx EXCEPT !.todo = WE]
    BY <2>0, Succeeds
  <2>2. SameTx /\ tx'.todo = WE /\ tx'.rolling = FALSE /\ tx'.problems = FALSE /\ tx'.seen = "gone"
    BY <1>1, <2>1, GoesOn, ScmLists
  <2>3. Holds(svc', svc.unit, svc.loaded, svc.enabled, TRUE, svc.wanted)
    BY <1>1, <2>1, ScmEffects
  <2>4. ScmForward'
    BY <1>4, <2>2, <2>3 DEF ScmForward, Todo, Holds
  <2> QED
    BY <1>2, <1>4, <2>2, <2>3, <2>4, ScmInstallGoesOn DEF Holds
<1>5. CASE Todo(WC) \/ Todo(WN)
  <2>1. Head(tx.todo) \in {"config", "create"} /\ Tail(tx.todo) = WR /\ WR # <<>>
    BY <1>5, ScmLists DEF Todo
  <2>2. svc' = Effect(Head(tx.todo)) /\ tx' = [tx EXCEPT !.todo = WR]
    BY <2>1, Succeeds
  <2>3. SameTx /\ tx'.todo = WR /\ tx'.rolling = FALSE /\ tx'.problems = FALSE /\ tx'.seen = "gone"
    BY <1>1, <2>2, GoesOn, ScmLists
  <2>4. Holds(svc', svc.unit, tx.def, TRUE, svc.recovery, svc.wanted)
    BY <1>1, <2>1, <2>2, ScmEffects
  <2>5. tx.def # None
    BY <1>1, ServiceAssumption
  <2>6. ScmForward'
    BY <2>3, <2>4, <2>5 DEF ScmForward, Todo, Holds
  <2> QED
    BY <1>2, <2>3, <2>4, <2>5, <2>6, ScmInstallGoesOn DEF Holds
<1>6. CASE Todo(WS) /\ svc.loaded # None
  <2>1. svc' = Effect("stop") /\ tx' = [tx EXCEPT !.todo = WC]
    BY <1>6, Succeeds, ScmLists DEF Todo
  <2>2. SameTx /\ tx'.todo = WC /\ tx'.rolling = FALSE /\ tx'.problems = FALSE /\ tx'.seen = "gone"
    BY <1>1, <2>1, GoesOn, ScmLists
  <2>3. svc' = svc
    BY <1>1, <2>1, RunEffects
  <2>4. ScmForward'
    BY <1>6, <2>2, <2>3 DEF ScmForward, Todo
  <2> QED
    BY <1>1, <1>2, <1>6, <2>2, <2>3, <2>4, ScmInstallGoesOn
<1> QED
  BY <1>1, <1>3, <1>4, <1>5, <1>6 DEF ScmForward

(* Windows: a command of an installation fails.                             *)
LEMMA ScmForwardFails ==
  ASSUME ServiceInv, platform = "scm", tx.op = "install", ~tx.rolling, CommandFails
  PROVE  StepOK
<1>1. /\ ScmForward /\ ScmInv /\ svc \in Services /\ tx \in Txs /\ tx.def \in Definitions
      /\ tx.rolling = FALSE /\ tx.problems = FALSE /\ tx.seen = "gone"
  BY TxFields DEF ServiceInv, ScmTxInv, TxTypeOK
<1>2. platform' = platform /\ daemon' = daemon
  BY DEF CommandFails, daemonVars
<1>3. CASE Todo(WN) /\ svc = tx.prev
  <2>1. Failed("create") /\ svc' = svc
    BY <1>3, Fails, ScmLists, SystemdKept DEF Todo, LateFailures
  <2>2. Finish("failed", FALSE)
    BY <2>1, InstallFails DEF rollbackInstall
  <2> QED
    BY <1>1, <1>2, <1>3, <2>1, <2>2, ScmEnds DEF ScmInv, Running
<1>4. CASE (Todo(WE) \/ Todo(WR) \/ Todo(WC) \/ Todo(WS)) /\ svc.loaded # None
  <2>1. Head(tx.todo) \in {"ensure", "recover", "config", "stop"}
    BY <1>4, ScmLists DEF Todo
  <2>2. PICK c \in {"ensure", "recover", "config", "stop"} : c = Head(tx.todo)
    BY <2>1
  <2>3. Failed(c) /\ (svc' = svc \/ (svc' = Effect(c) /\ c \in {"recover", "config"}))
    BY <2>2, Fails, SystemdKept DEF LateFailures
  <2>4. tx.def # None
    BY <1>1, ServiceAssumption
  <2>5. svc' \in Services /\ svc'.unit = svc.unit /\ svc'.loaded # None
    <3>1. CASE svc' = svc
      BY <1>1, <1>4, <3>1
    <3>2. CASE svc' = Effect(c) /\ c = "recover"
      BY <1>1, <1>4, <3>2, ScmEffects DEF Holds
    <3>3. CASE svc' = Effect(c) /\ c = "config"
      BY <1>1, <2>4, <3>3, ScmEffects DEF Holds
    <3> QED
      BY <2>3, <3>1, <3>2, <3>3
  <2> DEFINE list == IF tx.prev.loaded = None THEN WSD ELSE V1
  <2>6. list \in Seq(Commands) /\ list # <<>>
    BY ScmLists, RestoreLists
  <2>7. rollbackInstall(c) = list
    BY DEF rollbackInstall, rollbackWindowsInstall, WSD, V1
  <2> HIDE DEF list
  <2>8. tx' = [tx EXCEPT !.rolling = TRUE, !.todo = list]
    BY <2>3, <2>6, <2>7, InstallFails
  <2>9. SameTx /\ tx'.todo = list /\ tx'.rolling = TRUE
    BY <1>1, <2>6, <2>8, RollsBack DEF SameTx, Txs
  <2>10. ScmBack'
    BY <1>2, <2>5, <2>9, RestoreStays DEF ScmBack, Todo, list, SameTx
  <2> QED
    BY <1>2, <2>5, <2>9, <2>10, ScmInstallGoesOn
<1> QED
  BY <1>1, <1>3, <1>4 DEF ScmForward

(* Windows: a command of rollbackWindowsInstall succeeds; the last one      *)
(* leaves the service as it was.                                            *)
LEMMA ScmBackSucceeds ==
  ASSUME ServiceInv, platform = "scm", tx.op = "install", tx.rolling, Command
  PROVE  StepOK
<1>1. /\ ScmBack /\ ScmSnapshot /\ svc \in Services /\ tx \in Txs /\ tx.problems \in BOOLEAN /\ svc.loaded # None
      /\ tx.prev \in Services
  BY TxFields DEF ServiceInv, ScmTxInv, TxTypeOK, ScmBack
<1>2. platform' = platform /\ daemon' = daemon
  BY DEF Command, daemonVars
<1>3. CASE tx.prev.loaded = None /\ Todo(WSD)
  <2>1. Ready("stop") /\ svc' = Effect("stop") /\ SameTx /\ tx'.todo = WD /\ tx'.rolling = TRUE
    BY <1>1, <1>3, BackSucceeds, ScmLists DEF Todo
  <2>2. svc' = svc /\ ~svc.wanted /\ ~Running
    BY <1>1, <2>1, RunEffects DEF Ready, StopCommands
  <2>3. ScmBack'
    BY <1>1, <1>2, <1>3, <2>1, <2>2 DEF ScmBack, Todo, SameTx, Stopped, Running
  <2> QED
    BY <1>1, <1>2, <2>1, <2>2, <2>3, ScmInstallGoesOn
<1>4. CASE tx.prev.loaded = None /\ Todo(WD) /\ (~tx.problems => Stopped)
  <2>0. Head(tx.todo) = "delete" /\ Tail(tx.todo) = <<>> /\ <<>> \in Seq(Commands)
    BY <1>4, ScmLists DEF Todo
  <2>1. svc' = Effect("delete") /\ Finish("failed", tx.problems)
    BY <1>1, <2>0, BackSucceeds
  <2>2. Holds(svc', svc.unit, None, FALSE, FALSE, FALSE)
    BY <1>1, <2>1, ScmEffects
  <2>3. svc' = tx.prev
    <3>1. /\ tx.prev.enabled = FALSE /\ tx.prev.recovery = FALSE /\ tx.prev.wanted = FALSE
          /\ svc.unit = tx.prev.unit
      BY <1>1, <1>4, TxFields DEF ScmSnapshot
    <3> QED
      BY <1>1, <1>4, <2>2, <3>1, SameService DEF Holds
  <2>4. Running' => tx.problems
    BY <1>2, <1>4 DEF Stopped, Running
  <2> QED
    BY <1>1, <1>2, <2>1, <2>2, <2>3, <2>4, ScmEnds DEF Holds
<1>5. CASE tx.prev.loaded # None /\ Todo(V1)
  <2>1. Ready("stop") /\ svc' = Effect("stop") /\ SameTx /\ tx'.todo = V2 /\ tx'.rolling = TRUE
    BY <1>1, <1>5, BackSucceeds, RestoreLists DEF Todo
  <2>2. svc' = svc /\ ~svc.wanted
    BY <1>1, <2>1, RunEffects DEF Ready, StopCommands
  <2>3. ScmBack'
    BY <1>1, <1>2, <1>5, <2>1, <2>2, RestoreStays DEF ScmBack, Todo, SameTx
  <2> QED
    BY <1>1, <1>2, <2>1, <2>2, <2>3, ScmInstallGoesOn
<1>6. CASE tx.prev.loaded # None /\ Todo(V2) /\ (~tx.problems => ~svc.wanted)
  <2>1. svc' = Effect("restoreConfig") /\ SameTx /\ tx'.todo = V3 /\ tx'.rolling = TRUE /\ tx'.problems = tx.problems
    BY <1>1, <1>6, BackSucceeds, RestoreLists DEF Todo
  <2>2. Holds(svc', svc.unit, tx.prev.loaded, tx.prev.enabled, svc.recovery, svc.wanted)
    BY <1>1, <2>1, ScmEffects
  <2>3. ConfigBack'
    BY <2>1, <2>2 DEF ConfigBack, Holds, SameTx
  <2>4. ScmBack'
    BY <1>1, <1>2, <1>6, <2>1, <2>2, <2>3, RestoreStays DEF ScmBack, Todo, SameTx, Holds
  <2> QED
    BY <1>1, <1>2, <1>6, <2>1, <2>2, <2>4, ScmInstallGoesOn DEF Holds
<1>7. CASE tx.prev.loaded # None /\ Todo(V3) /\ (~tx.problems => ~svc.wanted /\ ConfigBack)
  <2> DEFINE rest == IF tx.active THEN WE ELSE <<>>
  <2>1. Head(tx.todo) = "restoreRecovery" /\ Tail(tx.todo) = rest /\ rest \in Seq(Commands)
    BY <1>7, RestoreLists, ScmLists DEF Todo
  <2>2. (rest = <<>> <=> ~tx.active) /\ (tx.active => rest = WE)
    BY ScmLists
  <2> HIDE DEF rest
  <2>3. /\ svc' = Effect("restoreRecovery")
        /\ rest = <<>> => Finish("failed", tx.problems)
        /\ rest # <<>> => SameTx /\ tx'.todo = rest /\ tx'.rolling = TRUE /\ tx'.problems = tx.problems
    BY <1>1, <2>1, BackSucceeds
  <2>4. Holds(svc', svc.unit, svc.loaded, svc.enabled, tx.prev.recovery, svc.wanted)
    BY <1>1, <2>3, ScmEffects
  <2>5. CASE tx.active
    <3>1. SameTx /\ tx'.todo = WE /\ tx'.rolling = TRUE /\ tx'.problems = tx.problems
      BY <2>2, <2>3, <2>5
    <3>2. tx'.prev.loaded # None /\ tx'.active /\ svc'.loaded # None
      BY <1>1, <1>7, <2>4, <2>5, <3>1 DEF SameTx, Holds
    <3>3. ~tx.problems => ConfigBack' /\ svc'.recovery = tx'.prev.recovery
      BY <1>7, <2>4, <3>1 DEF SameTx, Holds, ConfigBack
    <3>4. ScmBack'
      BY <3>1, <3>2, <3>3 DEF ScmBack, Todo
    <3> QED
      BY <1>2, <2>4, <3>1, <3>2, <3>4, ScmInstallGoesOn DEF Holds
  <2>6. CASE ~tx.active
    <3>1. Finish("failed", tx.problems)
      BY <2>2, <2>3, <2>6
    <3>2. ASSUME ~tx.problems, Faithful PROVE svc' = tx.prev
      <4>1. tx.prev.wanted = FALSE /\ svc.wanted = FALSE
        BY <1>1, <1>7, <2>6, <3>2, TxFields, ServiceFields DEF Faithful
      <4>2. ConfigBack /\ svc.unit = tx.prev.unit
        BY <1>1, <1>7, <3>2 DEF ScmSnapshot
      <4> QED
        BY <1>1, <2>4, <4>1, <4>2, SameService DEF Holds, ConfigBack
    <3> QED
      BY <1>1, <1>2, <2>4, <3>1, <3>2, ScmEnds DEF Holds
  <2> QED
    BY <2>5, <2>6
<1>8. CASE /\ tx.prev.loaded # None /\ tx.active /\ Todo(WE)
           /\ ~tx.problems => ConfigBack /\ svc.recovery = tx.prev.recovery
  <2>0. Head(tx.todo) = "ensure" /\ Tail(tx.todo) = <<>> /\ <<>> \in Seq(Commands)
    BY <1>8, ScmLists DEF Todo
  <2>1. svc' = Effect("ensure") /\ Finish("failed", tx.problems)
    BY <1>1, <2>0, BackSucceeds
  <2>2. Holds(svc', svc.unit, svc.loaded, svc.enabled, svc.recovery, TRUE)
    BY <1>1, <2>1, RunEffects
  <2>3. ASSUME ~tx.problems, Faithful PROVE svc' = tx.prev
    <3>1. tx.prev.wanted = TRUE
      BY <1>1, <1>8, <2>3, TxFields DEF Faithful
    <3>2. ConfigBack /\ svc.unit = tx.prev.unit
      BY <1>1, <1>8, <2>3 DEF ScmSnapshot
    <3> QED
      BY <1>1, <1>8, <2>2, <2>3, <3>1, <3>2, SameService DEF Holds, ConfigBack
  <2> QED
    BY <1>1, <1>2, <2>1, <2>2, <2>3, ScmEnds DEF Holds
<1> QED
  BY <1>1, <1>3, <1>4, <1>5, <1>6, <1>7, <1>8 DEF ScmBack

(* Windows: a command of rollbackWindowsInstall fails, which the result     *)
(* says.                                                                    *)
LEMMA ScmBackFails ==
  ASSUME ServiceInv, platform = "scm", tx.op = "install", tx.rolling, CommandFails
  PROVE  StepOK
<1>1. /\ ScmBack /\ svc \in Services /\ tx \in Txs /\ svc.loaded # None
  BY DEF ServiceInv, ScmTxInv, TxTypeOK, ScmBack
<1>2. platform' = platform /\ daemon' = daemon
  BY DEF CommandFails, daemonVars
<1> DEFINE c == Head(tx.todo)
           s == Tail(tx.todo)
<1>3. /\ c \in {"stop", "delete", "restoreConfig", "restoreRecovery", "ensure"}
      /\ s \in Seq(Commands)
      /\ \/ s = <<>>
         \/ tx.prev.loaded = None /\ s = WD
         \/ tx.prev.loaded # None /\ (s = V2 \/ s = V3 \/ (tx.active /\ s = WE))
  <2>1. <<>> \in Seq(Commands)
    OBVIOUS
  <2>2. CASE tx.prev.loaded = None /\ (Todo(WSD) \/ Todo(WD))
    BY <2>1, <2>2, ScmLists DEF Todo
  <2>3. CASE tx.prev.loaded # None /\ (Todo(V1) \/ Todo(V2))
    BY <2>3, RestoreLists DEF Todo
  <2>4. CASE tx.prev.loaded # None /\ Todo(V3)
    BY <2>1, <2>4, RestoreLists, ScmLists DEF Todo
  <2>5. CASE tx.prev.loaded # None /\ tx.active /\ Todo(WE)
    BY <2>1, <2>5, ScmLists DEF Todo
  <2> QED
    BY <1>1, <2>2, <2>3, <2>4, <2>5 DEF ScmBack
<1> HIDE DEF c, s
<1>4. Failed(c) /\ svc' = svc
  BY <1>3, Fails, SystemdKept DEF c, LateFailures
<1>5. Go(s, [tx EXCEPT !.problems = TRUE])
  BY <1>3, <1>4, RollbackFails DEF s
<1>6. CASE s = <<>>
  <2>1. Finish("failed", TRUE)
    BY <1>1, <1>3, <1>5, <1>6, GoesOnAnyway
  <2> QED
    BY <1>1, <1>2, <1>4, <2>1, ScmEnds
<1>7. CASE s # <<>>
  <2>1. SameTx /\ tx'.todo = s /\ tx'.rolling /\ tx'.problems
    BY <1>1, <1>3, <1>5, <1>7, GoesOnAnyway
  <2>2. ScmBack'
    BY <1>1, <1>2, <1>3, <1>4, <1>7, <2>1, RestoreStays DEF ScmBack, Todo, SameTx
  <2>3. tx'.rolling = TRUE
    BY <2>1 DEF SameTx, Txs
  <2> QED
    BY <1>1, <1>2, <1>4, <2>1, <2>2, <2>3, ScmInstallGoesOn
<1> QED
  BY <1>6, <1>7

(* Windows: a command of an uninstallation.                                 *)
LEMMA ScmUninstallSteps ==
  ASSUME ServiceInv, platform = "scm", tx.op = "uninstall", Command \/ CommandFails
  PROVE  StepOK
<1>1. /\ ScmUninstall /\ svc \in Services /\ tx \in Txs /\ svc.loaded # None
      /\ tx.rolling = FALSE /\ tx.problems = FALSE
  BY TxFields DEF ServiceInv, ScmTxInv, TxTypeOK, ScmUninstall
<1>2. platform' = platform /\ daemon' = daemon
  BY DEF Command, CommandFails, daemonVars
<1>3. CASE CommandFails
  <2>1. Head(tx.todo) \in {"stop", "delete"}
    BY <1>1, ScmLists DEF ScmUninstall, Todo
  <2>2. Failed(Head(tx.todo)) /\ svc' = svc
    BY <1>3, <2>1, Fails, SystemdKept DEF LateFailures
  <2>3. Finish("failed", FALSE)
    BY <2>2, OtherFails
  <2> QED
    BY <1>1, <1>2, <2>2, <2>3, ScmEnds
<1>4. CASE Command /\ Todo(WSD)
  <2>1. Ready("stop") /\ svc' = Effect("stop") /\ tx' = [tx EXCEPT !.todo = WD]
    BY <1>4, Succeeds, ScmLists DEF Todo
  <2>2. SameTx /\ tx'.todo = WD /\ tx'.rolling = tx.rolling /\ tx'.problems = tx.problems /\ tx'.seen = tx.seen
    BY <1>1, <2>1, GoesOn, ScmLists
  <2>3. svc' = svc /\ ~svc.wanted /\ ~Running
    BY <1>1, <2>1, RunEffects DEF Ready, StopCommands
  <2>4. TxTypeOK'
    BY <1>2, <2>2, <2>3 DEF ServiceInv, TxTypeOK, SameTx
  <2>5. RestInv' /\ Restores
    BY <2>2 DEF RestInv, Restores, SameTx
  <2>6. ScmInv' /\ ScmTxInv'
    BY <1>1, <1>2, <2>2, <2>3 DEF ScmInv, ScmTxInv, ScmUninstall, Todo, SameTx, Stopped, Running
  <2> QED
    BY <1>2, <2>4, <2>5, <2>6 DEF StepOK, ServiceInv
<1>5. CASE Command /\ Todo(WD) /\ Stopped
  <2>1. svc' = Effect("delete") /\ Finish("ok", FALSE)
    BY <1>1, <1>5, Succeeds, ScmLists DEF Todo
  <2>2. Holds(svc', svc.unit, None, FALSE, FALSE, FALSE)
    BY <1>1, <2>1, ScmEffects
  <2> QED
    BY <1>2, <1>5, <2>1, <2>2, ScmEnds DEF Holds, Stopped, Running
<1> QED
  BY <1>1, <1>3, <1>4, <1>5 DEF ScmUninstall

(* Windows: the command of a start.                                         *)
LEMMA ScmStartSteps ==
  ASSUME ServiceInv, platform = "scm", tx.op = "start", Command \/ CommandFails
  PROVE  StepOK
<1>1. /\ Todo(WE) /\ ScmInv /\ svc \in Services /\ tx \in Txs /\ tx.rolling = FALSE /\ tx.problems = FALSE
  BY TxFields DEF ServiceInv, ScmTxInv, TxTypeOK
<1>2. platform' = platform /\ daemon' = daemon
  BY DEF Command, CommandFails, daemonVars
<1>3. CASE CommandFails
  <2>1. Failed("ensure") /\ svc' = svc
    BY <1>1, <1>3, Fails, ScmLists, SystemdKept DEF LateFailures, Todo
  <2>2. Finish("failed", FALSE)
    BY <2>1, OtherFails
  <2> QED
    BY <1>1, <1>2, <2>1, <2>2, ScmEnds DEF ScmInv, Running
<1>4. CASE Command
  <2>1. Possible("ensure") /\ svc' = Effect("ensure") /\ Finish("ok", FALSE)
    BY <1>1, <1>4, Succeeds, ScmLists DEF Todo
  <2>2. Holds(svc', svc.unit, svc.loaded, svc.enabled, svc.recovery, TRUE)
    BY <1>1, <2>1, RunEffects
  <2>3. svc.loaded # None
    BY <2>1, Preconditions
  <2> QED
    BY <1>2, <2>1, <2>2, <2>3, ScmEnds DEF Holds
<1> QED
  BY <1>3, <1>4

(* Windows: any command, whichever way it ends.                             *)
LEMMA ScmSteps ==
  ASSUME ServiceInv, platform = "scm", Command \/ CommandFails
  PROVE  StepOK
<1>1. tx.op \in {"install", "start", "uninstall"}
  BY DEF ServiceInv, TxTypeOK, Txs, Ops, Command, CommandFails
<1> QED
  BY <1>1, ScmForwardSucceeds, ScmForwardFails, ScmBackSucceeds, ScmBackFails, ScmUninstallSteps, ScmStartSteps

(* A command of a transaction, on any platform.                             *)
LEMMA CommandSteps ==
  ASSUME ServiceInv, Command \/ CommandFails
  PROVE  StepOK
<1>1. platform \in {"systemd", "launchd", "scm"}
  BY DEF ServiceInv, TxTypeOK
<1> QED
  BY <1>1, SystemdSteps, LaunchdSteps, ScmSteps

-----------------------------------------------------------------------------
(* Steps of the daemon.                                                     *)

(* The daemon does not start itself.                                        *)
LEMMA DaemonKeepsDown ==
  ASSUME CounterInv, DaemonNext \/ Killed \/ ShutDown(TRUE) \/ StopTimesOut, Running'
  PROVE  Running
<1>1. daemon.snap # NotSaving => daemon.phase = "up"
  BY DEF CounterInv
<1>2. \A l : ~Dies(l)
  BY DEF Dies, DownState, Running
<1>3. LoadStats \/ InitialSave \/ Traffic \/ FlushSnapshot \/ FlushWrite \/ ShutDown(FALSE) \/ ShutDown(TRUE) \/ StopAll \/ FinalSave
  BY <1>2 DEF DaemonNext, StartupFails, Exit, StopTimesOut, Killed
<1> QED
  BY <1>1, <1>3 DEF LoadStats, InitialSave, Traffic, FlushSnapshot, FlushWrite, ShutDown, StopAll, FinalSave, Running,
                    Serving

(* What depends on the transaction alone.                                   *)
LEMMA SameTransaction ==
  ASSUME UNCHANGED tx, UNCHANGED platform
  PROVE  /\ B1' = B1 /\ B2' = B2 /\ B3' = B3 /\ B4' = B4 /\ B5' = B5 /\ BK' = BK
         /\ V1' = V1 /\ V2' = V2 /\ V3' = V3 /\ (Faithful' <=> Faithful)
  BY DEF B1, B2, B3, B4, B5, BK, V1, V2, V3, Faithful

(* A step of the process between the commands of a transaction: the process *)
(* may come up only where the manager wants it.                             *)
LEMMA DaemonAlone ==
  ASSUME ServiceInv, UNCHANGED <<platform, svc, tx>>, Running' => Running \/ (svc.wanted /\ svc.loaded # None)
  PROVE  ServiceInv'
<1>1. UNCHANGED tx /\ UNCHANGED platform /\ UNCHANGED svc
  OBVIOUS
<1>2. Stopped => Stopped'
  BY <1>1 DEF Stopped
<1>3. TxTypeOK' /\ RestInv'
  BY <1>1, <1>2 DEF ServiceInv, TxTypeOK, RestInv
<1>4. ASSUME platform = "systemd" PROVE SystemdInv'
  <2>1. SystemdInv
    BY <1>4 DEF ServiceInv
  <2>2. (AsBefore => AsBefore') /\ (Still => Still') /\ (Unlinked => Unlinked')
    BY <1>1, <1>2, SameTransaction DEF AsBefore, Still, Unlinked
  <2>3. SystemdForward => SystemdForward'
    BY <1>1, <2>2 DEF SystemdForward, Todo
  <2>4. SystemdBack => SystemdBack'
    BY <1>1, <2>2, SameTransaction DEF SystemdBack, Todo
  <2>5. SystemdUninstall => SystemdUninstall'
    BY <1>1, <1>2 DEF SystemdUninstall, Todo
  <2> QED
    BY <1>1, <2>1, <2>3, <2>4, <2>5 DEF SystemdInv, SystemdSnapshot, Todo
<1>5. ASSUME platform = "launchd" PROVE LaunchdInv' /\ LaunchdTxInv'
  <2>1. LaunchdInv /\ LaunchdTxInv
    BY <1>5 DEF ServiceInv
  <2>2. LaunchdInv'
    BY <1>1, <2>1 DEF LaunchdInv
  <2>3. LaunchdTxInv'
    BY <1>1, <2>1 DEF LaunchdTxInv, LaunchdSnapshot, LaunchdForward, LaunchdBack, LaunchdUninstall, OldJob, Seen, Todo
  <2> QED
    BY <2>2, <2>3
<1>6. ASSUME platform = "scm" PROVE ScmInv' /\ ScmTxInv'
  <2>1. ScmInv /\ ScmTxInv
    BY <1>6 DEF ServiceInv
  <2>2. ScmInv'
    BY <1>1, <2>1 DEF ScmInv
  <2>3. ScmBack => ScmBack'
    BY <1>1, <1>2, SameTransaction DEF ScmBack, ConfigBack, Todo
  <2>4. ScmTxInv'
    BY <1>1, <1>2, <2>1, <2>3 DEF ScmTxInv, ScmSnapshot, ScmForward, ScmUninstall, Todo
  <2> QED
    BY <2>2, <2>4
<1> QED
  BY <1>1, <1>3, <1>4, <1>5, <1>6 DEF ServiceInv

-----------------------------------------------------------------------------
(* Signals.                                                                 *)

(* The commands each platform may be asked for next.                        *)
SystemdHeads == {"write", "reload", "enable", "restart", "isActive", "stop", "disable", "restore", "remove", "start"}
LaunchdHeads == LaunchdCommands \union {"settle", "settleNew"}

(* The next command for systemd.                                            *)
LEMMA SystemdHead ==
  ASSUME ServiceInv, platform = "systemd", tx.op # "none"
  PROVE  Head(tx.todo) \in SystemdHeads
<1>1. SystemdInv /\ tx.op \in {"install", "uninstall", "start"} /\ tx.rolling \in BOOLEAN
  BY DEF ServiceInv, TxTypeOK, Txs, Ops
<1>2. SystemdForward => Head(tx.todo) \in SystemdHeads
  BY ForwardLists DEF SystemdForward, Todo, SystemdHeads
<1>3. SystemdBack => Head(tx.todo) \in SystemdHeads
  BY BackLists DEF SystemdBack, Todo, SystemdHeads
<1>4. SystemdUninstall => Head(tx.todo) \in SystemdHeads
  BY OtherSystemdLists DEF SystemdUninstall, Todo, SystemdHeads
<1>5. Todo(N2) \/ Todo(I5) => Head(tx.todo) \in SystemdHeads
  BY OtherSystemdLists, ForwardLists DEF Todo, SystemdHeads
<1> QED
  BY <1>1, <1>2, <1>3, <1>4, <1>5 DEF SystemdInv

(* The next command for launchd.                                            *)
LEMMA LaunchdHead ==
  ASSUME ServiceInv, platform = "launchd", tx.op # "none"
  PROVE  Head(tx.todo) \in LaunchdHeads
<1>1. LaunchdTxInv /\ tx.op \in {"install", "uninstall", "start"} /\ tx.rolling \in BOOLEAN
  BY DEF ServiceInv, TxTypeOK, Txs, Ops
<1>2. LaunchdForward => Head(tx.todo) \in LaunchdHeads
  BY LaunchdLists DEF LaunchdForward, Todo, LaunchdHeads, LaunchdCommands
<1>3. LaunchdBack => Head(tx.todo) \in LaunchdHeads
  BY LaunchdLists, SettleLists DEF LaunchdBack, Todo, LaunchdHeads, LaunchdCommands
<1>4. LaunchdUninstall => Head(tx.todo) \in LaunchdHeads
  BY LaunchdLists DEF LaunchdUninstall, Todo, LaunchdHeads, LaunchdCommands
<1>5. Todo(K1) \/ Todo(K2) \/ Todo(I5) => Head(tx.todo) \in LaunchdHeads
  BY LaunchdLists, ForwardLists DEF Todo, LaunchdHeads, LaunchdCommands
<1> QED
  BY <1>1, <1>2, <1>3, <1>4, <1>5 DEF LaunchdTxInv

(* A stop that reached the process leaves the rest of the service as it     *)
(* was.                                                                     *)
LEMMA SignalKeepsService ==
  ASSUME ServiceInv, DaemonTypeOK, Signal
  PROVE  ServiceInv'
<1>1. /\ tx.op # "none" /\ Head(tx.todo) \in StopCommands /\ svc \in Services
      /\ UNCHANGED tx /\ UNCHANGED platform
  BY DEF Signal, ServiceInv, TxTypeOK
<1>2. /\ svc' \in Services /\ svc'.unit = svc.unit /\ svc'.loaded = svc.loaded /\ svc'.enabled = svc.enabled
      /\ svc'.recovery = svc.recovery /\ svc'.wanted = FALSE
  BY <1>1 DEF Signal, Services
<1>3. Running' <=> Running
  BY DEF Signal, DaemonTypeOK, Running
<1>4. Stopped => Stopped'
  BY <1>2, <1>3 DEF Stopped
<1>5. TxTypeOK' /\ RestInv'
  BY <1>1, <1>2 DEF ServiceInv, TxTypeOK, RestInv
<1>6. ASSUME platform = "systemd" PROVE SystemdInv'
  <2>1. SystemdInv
    BY <1>6 DEF ServiceInv
  <2>2. (Still => Still') /\ (Unlinked => Unlinked')
    BY <1>1, <1>2, <1>4, SameTransaction DEF Still, Unlinked
  <2>3. SystemdForward => SystemdForward'
    BY <1>1, <1>2, ForwardLists DEF SystemdForward, Todo, StopCommands
  <2>4. SystemdBack => SystemdBack'
    BY <1>1, <1>2, <2>2, SameTransaction DEF SystemdBack, Todo
  <2>5. SystemdUninstall => SystemdUninstall'
    BY <1>1, <1>2, <1>4 DEF SystemdUninstall, Todo
  <2> QED
    BY <1>1, <1>2, <2>1, <2>3, <2>4, <2>5 DEF SystemdInv, SystemdSnapshot, Todo
<1>7. ASSUME platform = "launchd" PROVE LaunchdInv' /\ LaunchdTxInv'
  <2>1. LaunchdInv /\ LaunchdTxInv
    BY <1>7 DEF ServiceInv
  <2>2. Head(tx.todo) \in {"bootout", "cleanup", "kickstart"}
    BY <1>1, <1>7, LaunchdHead DEF LaunchdHeads, LaunchdCommands, StopCommands
  <2>3. LaunchdInv'
    BY <1>1, <1>2, <1>3, <2>1, <2>2 DEF LaunchdInv
  <2>4. LaunchdForward => LaunchdForward'
    BY <1>1, <1>2, <2>2, LaunchdLists DEF LaunchdForward, Todo
  <2>5. LaunchdBack => LaunchdBack'
    BY <1>1, <1>2 DEF LaunchdBack, OldJob, Seen, Todo
  <2>6. LaunchdTxInv'
    BY <1>1, <1>2, <2>1, <2>4, <2>5 DEF LaunchdTxInv, LaunchdSnapshot, LaunchdUninstall, Todo
  <2> QED
    BY <2>3, <2>6
<1>8. ASSUME platform = "scm" PROVE ScmInv' /\ ScmTxInv'
  <2>1. ScmInv /\ ScmTxInv
    BY <1>8 DEF ServiceInv
  <2>2. ScmInv'
    BY <1>1, <1>2, <1>3, <2>1 DEF ScmInv
  <2>3. ScmForward => ScmForward'
    BY <1>1, <1>2, ScmLists DEF ScmForward, Todo, StopCommands
  <2>4. ScmBack => ScmBack'
    BY <1>1, <1>2, <1>4, SameTransaction DEF ScmBack, ConfigBack, Todo
  <2>5. ScmTxInv'
    BY <1>1, <1>2, <1>4, <2>1, <2>3, <2>4 DEF ScmTxInv, ScmSnapshot, ScmUninstall, Todo
  <2> QED
    BY <2>2, <2>5
<1> QED
  BY <1>1, <1>5, <1>6, <1>7, <1>8 DEF ServiceInv

(* ensure asks for a start, on Windows only.                                *)
LEMMA EnsureKeepsService ==
  ASSUME ServiceInv, EnsureStarts
  PROVE  ServiceInv'
<1>1. /\ tx.op # "none" /\ Head(tx.todo) = "ensure" /\ svc \in Services /\ Possible("ensure")
      /\ UNCHANGED tx /\ UNCHANGED platform /\ daemon' = daemon
  BY DEF EnsureStarts, ServiceInv, TxTypeOK, daemonVars
<1>2. /\ svc' \in Services /\ svc'.unit = svc.unit /\ svc'.loaded = svc.loaded /\ svc'.enabled = svc.enabled
      /\ svc'.recovery = svc.recovery /\ svc.loaded # None
  BY <1>1, Preconditions DEF EnsureStarts, Services
<1>3. TxTypeOK' /\ RestInv'
  BY <1>1, <1>2 DEF ServiceInv, TxTypeOK, RestInv
<1>4. platform = "scm"
  BY <1>1, SystemdHead, LaunchdHead DEF ServiceInv, TxTypeOK, SystemdHeads, LaunchdHeads, LaunchdCommands
<1>5. ScmInv /\ ScmTxInv
  BY <1>4 DEF ServiceInv
<1>6. ScmInv'
  BY <1>2 DEF ScmInv
<1>7. ScmForward => ScmForward'
  BY <1>1, <1>2, ScmLists DEF ScmForward, Todo
<1>8. ScmBack => ScmBack'
  BY <1>1, <1>2, SameTransaction, ScmLists, RestoreLists DEF ScmBack, ConfigBack, Todo
<1>9. ~ScmUninstall
  BY <1>1, ScmLists DEF ScmUninstall, Todo
<1>10. ScmTxInv'
  BY <1>1, <1>2, <1>5, <1>7, <1>8, <1>9 DEF ScmTxInv, ScmSnapshot, Todo
<1> QED
  BY <1>1, <1>3, <1>4, <1>6, <1>10 DEF ServiceInv

(* Every step of the service manager and the process.                       *)
LEMMA ServiceSteps ==
  ASSUME ServiceInv, CounterInv, ServiceNext
  PROVE  StepOK
<1>0. DaemonTypeOK
  BY DEF CounterInv
<1>1. tx' = tx => Restores
  BY DEF Restores
<1>2. CASE Signal
  BY <1>0, <1>1, <1>2, SignalKeepsService DEF StepOK, Signal
<1>3. CASE EnsureStarts
  BY <1>1, <1>3, EnsureKeepsService DEF StepOK, EnsureStarts
<1>4. CASE Command \/ CommandFails
  BY <1>4, CommandSteps
<1>5. CASE Supervise
  <2>1. UNCHANGED <<platform, svc, tx>> /\ svc.wanted /\ svc.loaded # None
    BY <1>5 DEF Supervise, serviceVars
  <2> QED
    BY <1>1, <2>1, DaemonAlone DEF StepOK
<1>6. CASE DaemonCrashes \/ (StopTimesOut /\ UNCHANGED serviceVars) \/ (DaemonNext /\ UNCHANGED serviceVars)
  <2>1. UNCHANGED <<platform, svc, tx>> /\ (DaemonNext \/ Killed \/ ShutDown(TRUE) \/ StopTimesOut)
    BY <1>6 DEF DaemonCrashes, serviceVars
  <2>2. ServiceInv'
    BY <2>1, DaemonKeepsDown, DaemonAlone
  <2> QED
    BY <1>1, <2>1, <2>2 DEF StepOK
<1> QED
  BY <1>2, <1>3, <1>4, <1>5, <1>6 DEF ServiceNext

-----------------------------------------------------------------------------
(* Beginning a transaction.                                                 *)

(* A service command that ends where it began.                              *)
LEMMA QuietFinish ==
  ASSUME ServiceInv, tx.op = "none", NEW r \in {"ok", "failed"}, Finish(r, FALSE), UNCHANGED <<platform, svc, daemon>>
  PROVE  ServiceInv' /\ tx'.op = "none" /\ tx'.result = r /\ tx'.tainted = tx.tainted
<1>1. tx \in Txs /\ tx.tainted \in BOOLEAN
  BY TxFields DEF ServiceInv, TxTypeOK
<1>2. /\ tx' \in Txs /\ tx'.op = "none" /\ tx'.rolling = FALSE /\ tx'.seen = "gone" /\ tx'.problems = FALSE
      /\ tx'.result = r /\ tx'.tainted = tx.tainted
  BY <1>1, Finished
<1>3. TxTypeOK'
  BY <1>2 DEF ServiceInv, TxTypeOK
<1>4. RestInv'
  BY <1>2 DEF ServiceInv, RestInv, Stopped, Running
<1>5. platform = "systemd" => SystemdInv'
  BY <1>2 DEF SystemdInv
<1>6. platform = "launchd" => LaunchdInv' /\ LaunchdTxInv'
  BY <1>2 DEF ServiceInv, LaunchdInv, LaunchdTxInv, Running
<1>7. platform = "scm" => ScmInv' /\ ScmTxInv'
  BY <1>2 DEF ServiceInv, TxTypeOK, ScmInv, ScmTxInv, Running
<1> QED
  BY <1>2, <1>3, <1>4, <1>5, <1>6, <1>7 DEF ServiceInv

(* launchd between two transactions, and whatever follows.                  *)
LEMMA LaunchdAtRest ==
  ASSUME ServiceInv, platform = "launchd", tx.op = "none", UNCHANGED <<svc, daemon>>
  PROVE  Steady /\ LaunchdInv'
<1>1. Steady
  BY LaunchdSteady DEF ServiceInv, TxTypeOK
<1> QED
  BY <1>1, SteadyLaunchd DEF ServiceInv, TxTypeOK, Steady, Running

(* A start or an uninstallation begins.                                     *)
LEMMA OtherBegins ==
  ASSUME ServiceInv, tx.op = "none", NEW o \in {"start", "uninstall"}, NEW s \in Seq(Commands),
         tx' = [tx EXCEPT !.op = o, !.todo = s, !.problems = FALSE], UNCHANGED <<platform, svc, daemon>>,
         platform = "systemd" => IF o = "start" THEN s = N2 /\ svc.unit # None
                                 ELSE \/ s = U1 /\ (svc.unit = None => tx.tainted)
                                      \/ s = U2 /\ Stopped,
         platform = "launchd" => IF o = "start" THEN s \in {K1, K2} /\ svc.unit # None
                                 ELSE \/ s = R3 /\ (svc.unit = None => tx.tainted)
                                      \/ s = R1 /\ svc.loaded = None,
         platform = "scm" => IF o = "start" THEN s = WE ELSE s = WSD /\ svc.loaded # None
  PROVE  ServiceInv' /\ tx'.op = o
<1>1. tx \in Txs /\ tx.rolling = FALSE /\ tx.seen = "gone" /\ svc \in Services /\ (tx.problems => tx.tainted)
  BY TxFields DEF ServiceInv, TxTypeOK
<1>2. /\ tx' \in Txs /\ tx'.op = o /\ tx'.todo = s /\ tx'.rolling = FALSE /\ tx'.problems = FALSE /\ tx'.seen = "gone"
      /\ tx'.tainted = tx.tainted
  BY <1>1 DEF Txs, Ops
<1>3. TxTypeOK' /\ RestInv'
  BY <1>1, <1>2 DEF ServiceInv, TxTypeOK, RestInv
<1>4. platform = "systemd" => SystemdInv'
  BY <1>2 DEF SystemdInv, SystemdUninstall, Stopped, Running, Todo
<1>5. platform = "launchd" => LaunchdInv' /\ LaunchdTxInv'
  BY <1>2, LaunchdAtRest DEF LaunchdTxInv, LaunchdUninstall, Todo
<1>6. platform = "scm" => ScmInv' /\ ScmTxInv'
  BY <1>1, <1>2 DEF ServiceInv, ScmInv, ScmTxInv, ScmUninstall, Todo, Running
<1> QED
  BY <1>2, <1>3, <1>4, <1>5, <1>6 DEF ServiceInv

(* service.Start.                                                           *)
LEMMA StartKeepsService ==
  ASSUME ServiceInv, Start
  PROVE  ServiceInv'
<1>1. tx.op = "none" /\ UNCHANGED <<platform, svc, daemon>> /\ platform \in {"systemd", "launchd", "scm"}
  BY DEF Start, daemonVars, ServiceInv, TxTypeOK
<1>2. CASE ~installed \/ Active
  <2>1. Finish("failed", FALSE) \/ Finish("ok", FALSE)
    BY <1>2 DEF Start
  <2> QED
    BY <1>1, <2>1, QuietFinish
<1>3. CASE installed /\ ~Active
  <2> DEFINE s == startSteps
  <2>1. tx' = [tx EXCEPT !.op = "start", !.todo = s, !.problems = FALSE]
    BY <1>3 DEF Start
  <2>2. platform = "systemd" => s = N2 /\ svc.unit # None
    BY <1>3 DEF startSteps, startSystemdService, N2, installed
  <2>3. platform = "launchd" => s \in {K1, K2} /\ svc.unit # None
    BY <1>3 DEF startSteps, startLaunchdDaemon, K1, K2, installed
  <2>4. platform = "scm" => s = WE
    BY DEF startSteps, WE
  <2>5. s \in Seq(Commands)
    BY <1>1, <2>2, <2>3, <2>4, OtherSystemdLists, LaunchdLists, ScmLists
  <2> HIDE DEF s
  <2> QED
    BY <1>1, <2>1, <2>2, <2>3, <2>4, <2>5, OtherBegins
<1> QED
  BY <1>2, <1>3

(* Nothing to remove, or the list of an uninstallation.                     *)
LEMMA UninstallBegins ==
  ASSUME ServiceInv, Uninstall
  PROVE  /\ ServiceInv' /\ tx'.op \in {"none", "uninstall"}
         /\ tx'.op = "none" /\ ~tx'.tainted => Stopped'
<1>1. tx.op = "none" /\ UNCHANGED <<platform, svc, daemon>> /\ platform \in {"systemd", "launchd", "scm"}
  BY DEF Uninstall, daemonVars, ServiceInv, TxTypeOK
<1>2. RestInv
  BY DEF ServiceInv
<1>3. CASE nothingToRemove
  <2>1. Finish("ok", FALSE)
    BY <1>3 DEF Uninstall
  <2>2. ServiceInv' /\ tx'.op = "none" /\ tx'.tainted = tx.tainted
    BY <1>1, <2>1, QuietFinish
  <2>3. ~tx.tainted => Stopped
    <3>1. CASE platform = "systemd"
      BY <1>3, <3>1 DEF nothingToRemove, Stopped
    <3>2. CASE platform = "launchd"
      BY <1>3, <3>2 DEF nothingToRemove
    <3>3. CASE platform = "scm"
      BY <1>1, <1>3, <3>3 DEF nothingToRemove, Stopped, ServiceInv, ScmInv, TxTypeOK
    <3> QED
      BY <1>1, <3>1, <3>2, <3>3
  <2> QED
    BY <1>1, <2>2, <2>3 DEF Stopped, Running
<1>4. CASE ~nothingToRemove
  <2> DEFINE s == uninstallSteps
  <2>1. tx' = [tx EXCEPT !.op = "uninstall", !.todo = s, !.problems = FALSE]
    BY <1>4 DEF Uninstall
  <2>2. ASSUME platform = "systemd"
        PROVE  \/ s = U1 /\ (svc.unit = None => tx.tainted)
               \/ s = U2 /\ Stopped
    BY <1>1, <1>2, <2>2 DEF uninstallSteps, uninstallSystemdService, U1, U2, RestInv, Stopped
  <2>3. ASSUME platform = "launchd"
        PROVE  \/ s = R3 /\ (svc.unit = None => tx.tainted)
               \/ s = R1 /\ svc.loaded = None
    BY <1>1, <1>2, <2>3 DEF uninstallSteps, uninstallLaunchdDaemon, R3, R1, RestInv
  <2>4. platform = "scm" => s = WSD /\ svc.loaded # None
    BY <1>4 DEF uninstallSteps, WSD, nothingToRemove
  <2>5. s \in Seq(Commands)
    BY <1>1, <2>2, <2>3, <2>4, OtherSystemdLists, LaunchdLists, ScmLists
  <2> HIDE DEF s
  <2>6. ServiceInv' /\ tx'.op = "uninstall"
    BY <1>1, <2>1, <2>2, <2>3, <2>4, <2>5, OtherBegins
  <2> QED
    BY <2>6
<1> QED
  BY <1>3, <1>4

(* service.Install takes its snapshot, or refuses.                          *)
LEMMA InstallBegins ==
  ASSUME ServiceInv, NEW d \in Definitions, Install(d)
  PROVE  ServiceInv'
<1>1. /\ tx.op = "none" /\ UNCHANGED <<platform, svc, daemon>> /\ platform \in {"systemd", "launchd", "scm"}
      /\ tx \in Txs /\ svc \in Services /\ RestInv
  BY DEF Install, daemonVars, ServiceInv, TxTypeOK
<1>2. CASE platform = "launchd" /\ svc.loaded # None /\ svc.unit = None
  BY <1>1, <1>2, QuietFinish DEF Install
<1>3. CASE ~(platform = "launchd" /\ svc.loaded # None /\ svc.unit = None)
  <2>1. PICK blind \in BOOLEAN :
            /\ blind => platform = "systemd"
            /\ LET prev == snapshotSystemdState(blind) IN
               tx' = [tx EXCEPT !.op = "install", !.todo = installSteps, !.def = d, !.problems = FALSE, !.blind = blind,
                                !.prev = prev.svc, !.active = prev.active,
                                !.known = ~blind /\ (svc.unit # None \/ svc.enabled \/ Active)]
    BY <1>3 DEF Install
  <2>2. PICK a \in BOOLEAN : a = (~blind /\ Active)
    OBVIOUS
  <2>3. PICK k \in BOOLEAN : k = (~blind /\ (svc.unit # None \/ svc.enabled \/ Active))
    OBVIOUS
  <2> DEFINE p == IF blind THEN [svc EXCEPT !.enabled = FALSE] ELSE svc
  <2>4. /\ p \in Services /\ p.unit = svc.unit /\ p.loaded = svc.loaded /\ p.recovery = svc.recovery
        /\ p.wanted = svc.wanted /\ p.enabled = (~blind /\ svc.enabled)
    BY <1>1, ServiceFields DEF Services
  <2>5. ~blind => p = svc
    OBVIOUS
  <2> DEFINE s == installSteps
  <2>6. tx' = [tx EXCEPT !.op = "install", !.todo = s, !.def = d, !.problems = FALSE, !.blind = blind,
                         !.prev = p, !.active = a, !.known = k]
    BY <2>1, <2>2, <2>3 DEF snapshotSystemdState
  <2>7. platform = "systemd" => s = I1
    BY DEF installSteps, installSystemdUnit, I1
  <2>8. platform = "launchd" => s = IF svc.loaded # None THEN LWO ELSE LW
    BY DEF installSteps, installLaunchdDaemon, LWO, LW
  <2>9. platform = "scm" => s = IF svc.loaded = None THEN WN ELSE WS
    BY DEF installSteps, installWindows, WN, WS
  <2>10. s \in Seq(Commands)
    BY <1>1, <2>7, <2>8, <2>9, ForwardLists, LaunchdLists, ScmLists
  <2> HIDE DEF s, p
  <2>11. /\ tx' \in Txs /\ tx'.op = "install" /\ tx'.todo = s /\ tx'.def = d /\ tx'.problems = FALSE /\ tx'.blind = blind
         /\ tx'.prev = p /\ tx'.active = a /\ tx'.known = k /\ tx'.rolling = tx.rolling /\ tx'.seen = tx.seen
         /\ tx'.tainted = tx.tainted
    BY <1>1, <2>4, <2>6, <2>10 DEF Txs, Ops
  <2>12. tx'.rolling = FALSE /\ tx'.seen = "gone"
    BY <1>1, <2>11, TxFields DEF ServiceInv, TxTypeOK
  <2>13. TxTypeOK' /\ RestInv'
    BY <1>1, <2>11, <2>12 DEF TxTypeOK, RestInv
  <2>14. ASSUME platform = "systemd" PROVE SystemdInv'
    <3>1. svc.unit = None /\ ~tx.tainted => Stopped
      BY <1>1, <2>14 DEF RestInv
    <3>2. Stopped => ~Active
      BY DEF Stopped, Active
    <3>3. SystemdSnapshot'
      BY <1>1, <2>2, <2>3, <2>4, <2>11, <3>1, <3>2 DEF SystemdSnapshot, Stopped
    <3>4. AsBefore'
      BY <1>1, <2>4, <2>5, <2>11, <3>1 DEF AsBefore, Stopped, Running
    <3>5. SystemdForward'
      BY <1>1, <2>4, <2>7, <2>11, <2>14, <3>4 DEF SystemdForward, Todo
    <3> QED
      BY <2>11, <2>12, <3>3, <3>5 DEF SystemdInv
  <2>15. ASSUME platform = "launchd" PROVE LaunchdInv' /\ LaunchdTxInv'
    <3>1. Steady /\ LaunchdInv' /\ ~blind
      BY <1>1, <2>1, <2>15, LaunchdAtRest
    <3>2. p = svc
      BY <2>5, <3>1
    <3>3. LaunchdSnapshot'
      BY <1>1, <1>3, <2>11, <2>15, <3>1, <3>2 DEF LaunchdSnapshot, Steady
    <3>4. LaunchdForward'
      BY <1>1, <2>8, <2>11, <2>15, <3>2 DEF LaunchdForward, Todo
    <3> QED
      BY <2>11, <2>12, <3>1, <3>3, <3>4 DEF LaunchdTxInv
  <2>16. ASSUME platform = "scm" PROVE ScmInv' /\ ScmTxInv'
    <3>1. ScmInv /\ ~blind /\ (tx.problems => tx.tainted)
      BY <1>1, <2>1, <2>16 DEF ServiceInv, TxTypeOK
    <3>2. p = svc
      BY <2>5, <3>1
    <3>3. ScmSnapshot'
      BY <1>1, <2>11, <3>1, <3>2 DEF ScmSnapshot, ScmInv
    <3>4. ScmForward'
      BY <1>1, <2>9, <2>11, <2>16, <3>2 DEF ScmForward, Todo
    <3>5. ScmInv'
      BY <1>1, <2>11, <3>1 DEF ScmInv, Running
    <3> QED
      BY <2>11, <2>12, <3>3, <3>4, <3>5 DEF ScmTxInv
  <2> QED
    BY <1>1, <2>13, <2>14, <2>15, <2>16 DEF ServiceInv
<1> QED
  BY <1>2, <1>3

-----------------------------------------------------------------------------
(* The whole host.                                                          *)

(* The service manager, its transaction and the process are left alone.     *)
ServiceFrame == UNCHANGED <<platform, svc, tx, daemon>>

(* A step that leaves the service alone.                                    *)
LEMMA FrameKeepsService == ServiceInv /\ ServiceFrame => StepOK
<1> SUFFICES ASSUME ServiceInv, ServiceFrame PROVE StepOK
  OBVIOUS
<1>1. UNCHANGED <<platform, svc, tx>> /\ (Running' => Running)
  BY DEF ServiceFrame, Running
<1> QED
  BY <1>1, DaemonAlone DEF StepOK, Restores

(* init touches the service through Install only.                           *)
LEMMA InitFramesService == InitCommand => ServiceFrame \/ \E d \in Definitions : Install(d)
  BY DEF InitCommand, executeInit, replaceClientProfile, ProfileUnsynced, elevate, saveManagedSetupConfig,
         initServiceConfigSaved, installInitSystemService, ServiceInstalled, restoreProfile, InitDone, Quiet,
         ServiceFrame, daemonVars, serviceVars

(* uninstall touches the service through Uninstall only.                    *)
LEMMA UninstallFramesService == UninstallCommand => ServiceFrame \/ Uninstall
<1>1. RemoveItem => ServiceFrame
  BY DEF RemoveItem, ServiceFrame, daemonVars
<1>2. Plan \/ uninstallService \/ ServiceGone \/ UninstallDone => ServiceFrame \/ Uninstall
  BY DEF Plan, uninstallService, ServiceGone, UninstallDone, Quiet, ServiceFrame, daemonVars, serviceVars
<1> QED
  BY <1>1, <1>2 DEF UninstallCommand

(* The other commands touch it through Start, Uninstall and Install.        *)
LEMMA RestFramesService ==
  /\ runUpdate \/ CacheExpires \/ Operator \/ UNCHANGED hostVars => ServiceFrame
  /\ RecoveryScreen => ServiceFrame \/ Start
  /\ runService => Start \/ Uninstall \/ \E d \in Definitions : Install(d)
<1>1. runUpdate \/ CacheExpires \/ Operator \/ UNCHANGED hostVars => ServiceFrame
  BY DEF runUpdate, CacheExpires, Operator, Quiet, ServiceFrame, daemonVars, serviceVars, hostVars
<1>2. RecoveryScreen => ServiceFrame \/ Start
  BY DEF RecoveryScreen, statsMsg, serviceInspectMsg, Refresh, startService, serviceStartMsg, serviceReconnectMsg,
         Watching, ServiceFrame, daemonVars, serviceVars
<1> QED
  BY <1>1, <1>2 DEF runService

(* A host without the service, or with one installed earlier.               *)
LEMMA ServiceInitially == HostInit => ServiceInv
<1> SUFFICES ASSUME HostInit PROVE ServiceInv
  OBVIOUS
<1>1. /\ platform \in {"systemd", "launchd", "scm"} /\ ~Running
      /\ tx = NoTx("none", FALSE, FALSE)
  BY ServiceAssumption DEF HostInit, ServiceInit, DaemonInit, DownState, Running
<1>2. PICK d \in Definitions \union {None}, e \in BOOLEAN, r \in BOOLEAN, w \in BOOLEAN :
          /\ d = None => ~e /\ ~r /\ ~w
          /\ platform = "launchd" => ~e /\ w = (d # None)
          /\ r => platform = "scm"
          /\ svc = [unit |-> IF platform = "scm" THEN None ELSE d, loaded |-> d, enabled |-> e,
                    recovery |-> r, wanted |-> w]
  BY DEF HostInit, ServiceInit
<1>3. svc \in Services
  BY <1>2 DEF Services
<1>4. Blank \in Services /\ <<>> \in Seq(Commands)
  BY DEF Blank, Services
<1>5. tx \in Txs /\ tx.op = "none" /\ tx.rolling = FALSE /\ tx.seen = "gone" /\ tx.problems = FALSE /\ tx.tainted = FALSE
  BY <1>1, <1>4 DEF NoTx, Txs, Ops
<1>6. TxTypeOK
  BY <1>1, <1>3, <1>5 DEF TxTypeOK
<1>7. RestInv
  BY <1>1, <1>2 DEF RestInv, Stopped
<1>8. SystemdInv /\ LaunchdTxInv /\ ScmTxInv
  BY <1>5 DEF SystemdInv, LaunchdTxInv, ScmTxInv
<1>9. platform = "launchd" => LaunchdInv
  BY <1>1, <1>2 DEF LaunchdInv
<1>10. platform = "scm" => ScmInv
  BY <1>1, <1>2 DEF ScmInv
<1> QED
  BY <1>6, <1>7, <1>8, <1>9, <1>10 DEF ServiceInv

(* Every step of the host.                                                  *)
LEMMA HostKeepsService == ServiceInv /\ CounterInv /\ [HostNext]_hostVars => StepOK
<1> SUFFICES ASSUME ServiceInv, CounterInv, [HostNext]_hostVars PROVE StepOK
  OBVIOUS
<1>1. CASE Start \/ Uninstall \/ \E d \in Definitions : Install(d)
  <2>1. ServiceInv'
    BY <1>1, StartKeepsService, UninstallBegins, InstallBegins
  <2>2. Restores
    BY <1>1 DEF Restores, Start, Uninstall, Install
  <2> QED
    BY <2>1, <2>2 DEF StepOK
<1>2. CASE ServiceFrame
  BY <1>2, FrameKeepsService
<1>3. CASE ServiceNext
  BY <1>3, ServiceSteps
<1> QED
  BY <1>1, <1>2, <1>3, InitFramesService, UninstallFramesService, RestFramesService DEF HostNext

(* For every set of definitions and number of faults, on the three          *)
(* platforms, a transaction's remaining commands say what the service       *)
(* manager holds.                                                           *)
THEOREM ServiceInvariant == HostSpec => []ServiceInv
<1>1. HostInit => ServiceInv
  BY ServiceInitially
<1>2. ServiceInv /\ CounterInv /\ [HostNext]_hostVars => ServiceInv'
  BY HostKeepsService DEF StepOK
<1> QED
  BY <1>1, <1>2, CountersInvariant, PTL DEF HostSpec

(* An installation that failed and reports no incomplete rollback has       *)
(* restored the service, on the three platforms and after any failures.     *)
THEOREM FailedInstallRestoresHolds == HostSpec => FailedInstallRestores
<1>1. ServiceInv /\ CounterInv /\ [HostNext]_hostVars =>
      [tx.op = "install" /\ tx'.op = "none" /\ tx'.result = "failed" /\ ~tx'.problems
       /\ ~tx.blind /\ tx.active = tx.prev.wanted
       /\ (platform = "scm" \/ tx.prev.loaded = tx.prev.unit)
       => svc' = tx.prev]_<<tx, svc>>
  BY HostKeepsService DEF StepOK, Restores
<1> QED
  BY <1>1, ServiceInvariant, CountersInvariant, PTL DEF HostSpec, FailedInstallRestores

-----------------------------------------------------------------------------
(* The binary.                                                              *)

(* Once an uninstallation has passed the service, and nothing was reported  *)
(* incomplete, no daemon runs.                                              *)
BinaryInv ==
    /\ cmd.kind = "uninstall" /\ cmd.step # "stopping" => tx.op = "none"
    /\ cmd.kind = "uninstall" => tx.op \in {"uninstall", "none"}
    /\ cmd.kind = "uninstall" /\ ~tx.tainted =>
          /\ cmd.step = "service" /\ "service" \notin cmd.items => Stopped
          /\ cmd.step = "stopping" /\ tx.op = "none" /\ tx.result = "ok" => Stopped
          /\ cmd.step = "files" => Stopped

(* An uninstallation that reports success has stopped the service.          *)
LEMMA UninstallStops ==
  ASSUME ServiceInv, Command \/ CommandFails, tx.op = "uninstall"
  PROVE  /\ tx'.op \in {"uninstall", "none"}
         /\ tx'.op = "none" /\ tx'.result = "ok" => Stopped'
<1>1. /\ svc \in Services /\ tx \in Txs /\ tx.rolling = FALSE /\ tx.problems = FALSE
      /\ platform \in {"systemd", "launchd", "scm"}
  BY TxFields DEF ServiceInv, TxTypeOK
<1>2. CASE CommandFails
  <2>1. Failed(Head(tx.todo))
    BY <1>2, Fails
  <2>2. Finish("failed", FALSE)
    BY <2>1, OtherFails
  <2> QED
    BY <1>1, <2>2, Finished
<1>3. CASE Command
  <2>1. daemon' = daemon
    BY <1>3 DEF Command, daemonVars
  <2> DEFINE c == Head(tx.todo)
             s == Tail(tx.todo)
  <2>2. /\ s \in Seq(Commands) /\ c \notin {"settle", "settleNew", "probe"}
        /\ s = <<>> => \/ c = "reload" /\ Stopped
                       \/ c = "remove" /\ svc.loaded = None /\ LaunchdInv
                       \/ c = "delete" /\ Stopped
    <3>0. <<>> \in Seq(Commands)
      OBVIOUS
    <3>1. CASE platform = "systemd"
      BY <3>0, <3>1, OtherSystemdLists DEF ServiceInv, SystemdInv, SystemdUninstall, Todo
    <3>2. CASE platform = "launchd"
      BY <3>0, <3>2, LaunchdLists DEF ServiceInv, LaunchdTxInv, LaunchdUninstall, Todo
    <3>3. CASE platform = "scm"
      BY <3>0, <3>3, ScmLists DEF ServiceInv, ScmTxInv, ScmUninstall, Todo
    <3> QED
      BY <1>1, <3>1, <3>2, <3>3
  <2> HIDE DEF c, s
  <2>3. /\ svc' = Effect(c)
        /\ s = <<>> => Finish("ok", FALSE)
        /\ s # <<>> => tx' = [tx EXCEPT !.todo = s]
    BY <1>1, <1>3, <2>2, Succeeds DEF c, s
  <2>4. CASE s # <<>>
    <3>1. SameTx
      BY <1>1, <2>2, <2>3, <2>4, GoesOn
    <3> QED
      BY <3>1 DEF SameTx
  <2>5. CASE s = <<>>
    <3>1. tx'.op = "none"
      BY <1>1, <2>3, <2>5, Finished
    <3>2. ~svc.wanted /\ ~Running
      BY <2>2, <2>5 DEF Stopped, LaunchdInv
    <3>3. svc'.wanted = FALSE
      BY <1>1, <2>2, <2>3, <2>5, <3>2, UnitEffects, ScmEffects, ServiceFields DEF Holds
    <3> QED
      BY <2>1, <3>1, <3>2, <3>3 DEF Stopped, Running
  <2> QED
    BY <2>4, <2>5
<1> QED
  BY <1>2, <1>3

(* A step after which no uninstallation is under way.                       *)
LEMMA OtherCommandKeepsBinary ==
  ASSUME cmd'.kind # "uninstall"
  PROVE  BinaryInv'
  BY DEF BinaryInv

(* The service manager and the process during an uninstallation.            *)
LEMMA ServiceKeepsBinary ==
  ASSUME ServiceInv, CounterInv, BinaryInv, ServiceNext, UNCHANGED cmd
  PROVE  BinaryInv'
<1>1. CASE Signal \/ EnsureStarts
  BY <1>1 DEF Signal, EnsureStarts, BinaryInv
<1>2. CASE Command \/ CommandFails
  <2>1. tx.op # "none"
    BY <1>2 DEF Command, CommandFails
  <2> QED
    BY <1>2, <2>1, UninstallStops DEF BinaryInv
<1>3. CASE Supervise
  BY <1>3 DEF Supervise, serviceVars, BinaryInv, Stopped
<1>4. CASE DaemonCrashes \/ (StopTimesOut /\ UNCHANGED serviceVars) \/ (DaemonNext /\ UNCHANGED serviceVars)
  <2>1. UNCHANGED <<svc, tx>> /\ (DaemonNext \/ Killed \/ ShutDown(TRUE) \/ StopTimesOut)
    BY <1>4 DEF DaemonCrashes, serviceVars
  <2>2. Stopped => Stopped'
    BY <2>1, DaemonKeepsDown DEF Stopped
  <2> QED
    BY <2>1, <2>2 DEF BinaryInv
<1> QED
  BY <1>1, <1>2, <1>3, <1>4 DEF ServiceNext

(* The uninstallation's own steps.                                          *)
LEMMA UninstallKeepsBinary ==
  ASSUME ServiceInv, HostInv, BinaryInv, UninstallCommand
  PROVE  BinaryInv'
<1>1. cmd \in Cmds /\ platform \in {"systemd", "launchd", "scm"} /\ RestInv
  BY DEF HostInv, HostTypeOK, ServiceInv, TxTypeOK
<1>2. CASE Plan
  <2>1. tx.op = "none" /\ UNCHANGED <<svc, tx, daemon>>
    BY <1>2 DEF Plan, Begins, Idling, daemonVars, serviceVars
  <2>2. PICK items \in SUBSET Items : /\ cmd' = [NoCmd EXCEPT !.kind = "uninstall", !.step = "service", !.items = items]
                                      /\ "service" \notin items => ~installed
    <3> DEFINE items == {t \in Scopes : owned(t)} \union {"state", "binary"}
                        \union (IF installed THEN {"service"} ELSE {})
                        \union (IF profileLoads /\ ~planRemovesPath("profile") THEN {"profile"} ELSE {})
                        \union (IF host.cached THEN {"cache"} ELSE {})
    <3>1. items \in SUBSET Items /\ ("service" \notin items => ~installed)
      BY DEF Items, Scopes
    <3> QED
      BY <1>2, <3>1 DEF Plan
  <2>3. cmd'.kind = "uninstall" /\ cmd'.step = "service" /\ cmd'.items = items
    BY <2>2, NoCmdType DEF Cmds
  <2>4. ~installed /\ ~tx.tainted => Stopped
    <3>1. CASE platform = "systemd"
      BY <1>1, <2>1, <3>1 DEF installed, RestInv
    <3>2. CASE platform = "launchd"
      BY <1>1, <2>1, <3>2 DEF installed, RestInv, ServiceInv, LaunchdInv, Stopped
    <3>3. CASE platform = "scm"
      BY <2>1, <3>3 DEF installed, ServiceInv, ScmInv, TxTypeOK, Stopped
    <3> QED
      BY <1>1, <3>1, <3>2, <3>3
  <2> QED
    BY <2>1, <2>2, <2>3, <2>4 DEF BinaryInv, Stopped, Running
<1>3. CASE uninstallService
  <2>1. cmd.kind = "uninstall" /\ cmd.step = "service"
    BY <1>3 DEF uninstallService
  <2>2. CASE "service" \in cmd.items
    <3>1. Uninstall /\ Step("stopping")
      BY <1>3, <2>2 DEF uninstallService
    <3>2. cmd'.step = "stopping"
      BY <1>1, <3>1 DEF Step, Cmds
    <3> QED
      BY <3>1, <3>2, UninstallBegins DEF BinaryInv
  <2>3. CASE "service" \notin cmd.items
    <3>1. UNCHANGED <<svc, tx, daemon>> /\ Step("files")
      BY <1>3, <2>3 DEF uninstallService, daemonVars, serviceVars
    <3>2. cmd'.step = "files"
      BY <1>1, <3>1 DEF Step, Cmds
    <3> QED
      BY <2>1, <2>3, <3>1, <3>2 DEF BinaryInv, Stopped, Running
  <2> QED
    BY <2>2, <2>3
<1>4. CASE ServiceGone
  <2>1. /\ cmd.kind = "uninstall" /\ cmd.step = "stopping" /\ tx.op = "none" /\ Step(afterService(tx.result))
        /\ UNCHANGED <<svc, tx, daemon>>
    BY <1>4 DEF ServiceGone, Quiet, daemonVars
  <2>2. cmd'.step = (IF tx.result = "ok" THEN "files" ELSE "over")
    BY <1>1, <2>1 DEF Step, Cmds, afterService
  <2> QED
    BY <2>1, <2>2 DEF BinaryInv, Stopped, Running
<1>5. CASE RemoveItem
  <2>1. cmd.kind = "uninstall" /\ cmd.step = "files" /\ UNCHANGED <<svc, tx, daemon>>
    BY <1>5 DEF RemoveItem, daemonVars
  <2>2. cmd'.step = "files"
    BY <1>1, <1>5, <2>1 DEF RemoveItem, Cmds
  <2> QED
    BY <2>1, <2>2 DEF BinaryInv, Stopped, Running
<1>6. CASE UninstallDone
  BY <1>6, NoCmdType, OtherCommandKeepsBinary DEF UninstallDone, Ends
<1> QED
  BY <1>2, <1>3, <1>4, <1>5, <1>6 DEF UninstallCommand

(* init is not an uninstallation.                                           *)
LEMMA InitKeepsBinary ==
  ASSUME HostInv, InitCommand
  PROVE  cmd'.kind # "uninstall"
<1>1. cmd \in Cmds /\ HostTypeOK
  BY DEF HostInv, HostTypeOK
<1>2. cmd.step \in InitSteps => cmd.kind # "uninstall"
  BY <1>1 DEF HostTypeOK, InitSteps, UninstallSteps
<1>3. NoCmd.kind = "none"
  BY NoCmdType
<1>4. \A t : Step(t) => cmd'.kind = cmd.kind
  BY <1>1 DEF Step, Cmds
<1>5. CASE \E mode \in {"service", "none"} : executeInit(mode)
  BY <1>5, NoCmdType DEF executeInit, Cmds
<1>6. CASE saveManagedSetupConfig
  <2>1. cmd.kind = "init"
    BY <1>6 DEF saveManagedSetupConfig
  <2> DEFINE t == cmd.scope
             claim == IF t = "user" THEN cmd.claim ELSE ~host.dir[t]
             done == [cmd EXCEPT !.created = host.config[t] = None, !.marked = claimsDirectory(claim, host.marker[t]),
                                 !.made = ~host.dir[t]]
  <2>2. \/ cmd' = [done EXCEPT !.step = IF t = "user" THEN "done" ELSE "install"]
        \/ Step("restore")
        \/ \E left : cmd' = [cmd EXCEPT !.step = IF left = {} THEN "restore" ELSE "committed",
                                        !.committed = left # {}, !.torn = Tears(left)]
        \/ cmd' = [cmd EXCEPT !.step = "committed", !.committed = TRUE]
    BY <1>6 DEF saveManagedSetupConfig
  <2>3. done.kind = cmd.kind /\ \A k : [done EXCEPT !.step = k].kind = cmd.kind
    BY <1>1 DEF Cmds
  <2>4. /\ [cmd EXCEPT !.step = "committed", !.committed = TRUE].kind = cmd.kind
        /\ \A left : [cmd EXCEPT !.step = IF left = {} THEN "restore" ELSE "committed",
                                 !.committed = left # {}, !.torn = Tears(left)].kind = cmd.kind
    BY <1>1 DEF Cmds
  <2> HIDE DEF done
  <2> QED
    BY <1>4, <2>1, <2>2, <2>3, <2>4
<1>7. CASE restoreProfile
  <2>1. cmd.kind = "init" /\ (Step("done") \/ cmd' = [cmd EXCEPT !.step = "done", !.excused = TRUE])
    BY <1>7 DEF restoreProfile
  <2> QED
    BY <1>1, <1>4, <2>1 DEF Cmds
<1>8. CASE ProfileUnsynced \/ InitDone
  BY <1>3, <1>8 DEF ProfileUnsynced, InitDone, Ends
<1>9. CASE elevate \/ installInitSystemService \/ replaceClientProfile
  BY <1>2, <1>3, <1>4, <1>9 DEF elevate, installInitSystemService, replaceClientProfile, Ends, InitSteps
<1>10. CASE initServiceConfigSaved
  <2>1. PICK k, b : cmd' = [cmd EXCEPT !.step = k, !.saved = b]
    BY <1>10 DEF initServiceConfigSaved
  <2> QED
    BY <1>1, <1>2, <1>10, <2>1 DEF initServiceConfigSaved, Cmds, InitSteps
<1>11. CASE ServiceInstalled
  <2>1. \/ Step("done")
        \/ \E left : cmd' = [cmd EXCEPT !.step = unsavedOrSaved(left), !.saved = left # {}, !.torn = Tears(left)]
        \/ cmd' = [cmd EXCEPT !.step = "done", !.saved = TRUE]
    BY <1>11 DEF ServiceInstalled
  <2>2. cmd.kind = "init"
    BY <1>11 DEF ServiceInstalled
  <2>3. /\ \A left : [cmd EXCEPT !.step = unsavedOrSaved(left), !.saved = left # {}, !.torn = Tears(left)].kind = cmd.kind
        /\ [cmd EXCEPT !.step = "done", !.saved = TRUE].kind = cmd.kind
    BY <1>1 DEF Cmds
  <2> QED
    BY <1>4, <2>1, <2>2, <2>3
<1> QED
  BY <1>5, <1>6, <1>7, <1>8, <1>9, <1>10, <1>11 DEF InitCommand

(* Every step of the host.                                                  *)
LEMMA HostKeepsBinary ==
  ASSUME ServiceInv, CounterInv, HostInv, BinaryInv, [HostNext]_hostVars
  PROVE  BinaryInv'
<1>1. CASE InitCommand
  BY <1>1, InitKeepsBinary, OtherCommandKeepsBinary
<1>2. CASE UninstallCommand
  BY <1>2, UninstallKeepsBinary
<1>3. CASE runUpdate \/ CacheExpires \/ Operator \/ runService
  <2>1. cmd.kind = "none" /\ cmd' = cmd
    BY <1>3 DEF runUpdate, CacheExpires, Operator, runService, Begins, Idling, Same
  <2> QED
    BY <2>1, OtherCommandKeepsBinary
<1>4. CASE startService
  <2>1. cmd.kind = "none" /\ cmd' = cmd
    BY <1>4 DEF startService, Idling
  <2> QED
    BY <2>1, OtherCommandKeepsBinary
<1>5. CASE UNCHANGED hostVars \/ statsMsg \/ serviceInspectMsg \/ Refresh \/ serviceStartMsg \/ serviceReconnectMsg
  <2>1. UNCHANGED <<cmd, svc, tx, daemon>>
    BY <1>5 DEF statsMsg, serviceInspectMsg, Refresh, serviceStartMsg, serviceReconnectMsg, Watching, hostVars,
                serviceVars, daemonVars
  <2> QED
    BY <2>1 DEF BinaryInv, Stopped, Running
<1>6. CASE ServiceNext /\ UNCHANGED cmd
  BY <1>6, ServiceKeepsBinary
<1> QED
  BY <1>1, <1>2, <1>3, <1>4, <1>5, <1>6 DEF HostNext, RecoveryScreen

(* Only RemoveItem takes the binary away.                                   *)
LEMMA OnlyUninstallRemoves ==
  ASSUME HostInv, [HostNext]_hostVars, host.binary # "none", host'.binary = "none"
  PROVE  RemoveItem
<1>1. host \in Hosts
  BY DEF HostInv, HostTypeOK
<1>2. ~InitCommand
  <2>1. executeInit("service") \/ executeInit("none") \/ ProfileUnsynced \/ elevate \/ initServiceConfigSaved
        \/ installInitSystemService \/ InitDone => host' = host
    BY DEF executeInit, ProfileUnsynced, elevate, initServiceConfigSaved, installInitSystemService, InitDone, Same
  <2>2. replaceClientProfile => host'.binary = host.binary
    BY <1>1 DEF replaceClientProfile, withProfile, Hosts
  <2>3. saveManagedSetupConfig => host'.binary = host.binary
    <3> SUFFICES ASSUME saveManagedSetupConfig PROVE host'.binary = host.binary
      OBVIOUS
    <3>1. \A t : SaveSetupConfig(t).binary = host.binary /\ [SaveSetupConfig(t) EXCEPT !.marker[t] = TRUE].binary = host.binary
      BY <1>1 DEF SaveSetupConfig, createSetupConfig, Hosts
    <3> DEFINE s == cmd.scope
               claim == IF s = "user" THEN cmd.claim ELSE ~host.dir[s]
               marks == claimsDirectory(claim, host.marker[s])
               done == [cmd EXCEPT !.created = host.config[s] = None, !.marked = marks, !.made = ~host.dir[s]]
               unmarked == [done EXCEPT !.marked = FALSE]
    <3>2. \/ host' = SaveSetupConfig(s)
          \/ host' = [SaveSetupConfig(s) EXCEPT !.marker[s] = TRUE]
          \/ host' \in {host, [host EXCEPT !.dir[s] = TRUE]}
          \/ \E left \in Leftovers(unmarked) : host' = rollbackManagedConfig(SaveSetupConfig(s), unmarked, left)
      BY DEF saveManagedSetupConfig
    <3> HIDE DEF unmarked
    <3>3. ASSUME NEW c, NEW left, host' = rollbackManagedConfig(SaveSetupConfig(cmd.scope), c, left)
          PROVE  host'.binary = host.binary
      <4>1. SaveSetupConfig(cmd.scope) \in Hosts
        <5>1. cmd.kind = "init"
          BY DEF saveManagedSetupConfig
        <5> QED
          BY <5>1, SavedConfig
      <4>2. ASSUME NEW h \in Hosts PROVE rollbackManagedConfig(h, c, left).binary = h.binary
        BY DEF rollbackManagedConfig, Hosts
      <4> QED
        BY <3>1, <3>3, <4>1, <4>2
    <3>4. [host EXCEPT !.dir[s] = TRUE].binary = host.binary
      BY <1>1 DEF Hosts
    <3>5. CASE host' = SaveSetupConfig(s) \/ host' = [SaveSetupConfig(s) EXCEPT !.marker[s] = TRUE]
      BY <3>1, <3>5
    <3>6. CASE host' \in {host, [host EXCEPT !.dir[s] = TRUE]}
      BY <3>4, <3>6
    <3>7. CASE \E left \in Leftovers(unmarked) : host' = rollbackManagedConfig(SaveSetupConfig(s), unmarked, left)
      BY <3>3, <3>7
    <3> QED
      BY <3>2, <3>5, <3>6, <3>7
  <2>4. ServiceInstalled => host'.binary = host.binary
    <3>1. ServiceInstalled => host' = host \/ \E left \in Leftovers(cmd) : host' = rollbackManagedConfig(host, cmd, left)
      BY DEF ServiceInstalled, Same
    <3>2. \A left : rollbackManagedConfig(host, cmd, left).binary = host.binary
      BY <1>1 DEF rollbackManagedConfig, Hosts
    <3> QED
      BY <3>1, <3>2
  <2>5. restoreProfile => host'.binary = host.binary
    BY <1>1 DEF restoreProfile, Same, Hosts
  <2> QED
    BY <2>1, <2>2, <2>3, <2>4, <2>5 DEF InitCommand
<1>3. ~(runUpdate \/ CacheExpires)
  <2>1. CacheExpires => host'.binary = host.binary
    BY <1>1 DEF CacheExpires, Hosts
  <2>2. runUpdate => host'.binary \in {host.binary, "new"}
    <3> SUFFICES ASSUME runUpdate PROVE host'.binary \in {host.binary, "new"}
      OBVIOUS
    <3>1. PICK c : host' \in {[host EXCEPT !.cached = c], AtomicReplace([host EXCEPT !.cached = c])}
      BY DEF runUpdate, DownloadAndInstall
    <3> QED
      BY <1>1, <3>1 DEF AtomicReplace, Hosts
  <2> QED
    BY <2>1, <2>2
<1>4. ~Operator
  BY <1>1 DEF Operator, Hosts
<1>5. ~(Plan \/ uninstallService \/ ServiceGone \/ UninstallDone)
  BY DEF Plan, uninstallService, ServiceGone, UninstallDone, Same
<1>6. ~(runService \/ RecoveryScreen \/ UNCHANGED hostVars
        \/ (ServiceNext /\ UNCHANGED <<host, cmd, commands, recovery, destroyed>>))
  BY OthersFrameHost DEF HostFrame
<1> QED
  BY <1>2, <1>3, <1>4, <1>5, <1>6 DEF HostNext, UninstallCommand

(* The binary is never deleted under a daemon that runs or is kept running, *)
(* unless a rollback reported itself incomplete.                            *)
THEOREM BinaryOutlivesServiceHolds == HostSpec => BinaryOutlivesService
<1>1. HostInit => BinaryInv
  BY NoCmdType DEF HostInit, BinaryInv
<1>2. ServiceInv /\ CounterInv /\ HostInv /\ BinaryInv /\ [HostNext]_hostVars => BinaryInv'
  BY HostKeepsBinary
<1>3. HostInv /\ BinaryInv /\ [HostNext]_hostVars =>
      [host.binary # "none" /\ host'.binary = "none" /\ ~tx.tainted => ~svc.wanted /\ ~Running]_host
  <2> SUFFICES ASSUME HostInv, BinaryInv, [HostNext]_hostVars, host.binary # "none", host'.binary = "none", ~tx.tainted
               PROVE  ~svc.wanted /\ ~Running
    OBVIOUS
  <2>1. RemoveItem
    BY OnlyUninstallRemoves
  <2> QED
    BY <2>1 DEF RemoveItem, BinaryInv, Stopped
<1> QED
  BY <1>1, <1>2, <1>3, ServiceInvariant, CountersInvariant, HostInvariant, PTL DEF HostSpec, BinaryOutlivesService

-----------------------------------------------------------------------------
(* The certificate store.                                                   *)

(* The values of memory, files and operation.                               *)
Ids == Nat \cup {Absent}
Pairs == [key : Ids, cert : Ids]
Metas == [Domains -> Entries \cup {Absent}]

(* The values of the operation under way.                                   *)
OpSteps == ImportSteps \cup DeleteSteps \cup {"record"}
OpRecords == [step : OpSteps, domain : Domains, touched : SUBSET Domains, entry : Entries,
              oldMeta : Metas, oldCert : Ids, oldPair : Pairs]

(* The shape of the store.                                                  *)
StoreTypeOK ==
    /\ up \in BOOLEAN /\ skewed \in BOOLEAN
    /\ meta \in Metas /\ certs \in [Domains -> Ids]
    /\ file \subseteq Entries /\ IsFiniteSet(file)
    /\ pair \in [Domains -> Pairs]
    /\ op \in OpRecords \cup {Idle}
    /\ recording \subseteq Entries
    /\ made \in Nat
    /\ promised \in [Domains -> SUBSET Ids] /\ torn \subseteq Domains /\ claimed \subseteq Domains

(* A manual certificate is in use under d in memory, and listed in a file.  *)
Manual(m, d) == m[d] # Absent /\ m[d].source = "manual"
Listed(f, d) == \E e \in f : e.domain = d /\ e.source = "manual"

(* What Load makes of a pair of files.                                      *)
Loads(p, listed) == IF X509KeyPair(p) /\ listed THEN p.cert ELSE Absent

(* A manual entry is filed under its own domain only.                       *)
Filed(m) == \A d \in Domains : Manual(m, d) => m[d].domain = d

(* The steps at which the memory is as certs.json should be; before they    *)
(* the memory has the new entries and certs.json the old.                   *)
AheadSteps == {"persist", "unlist", "record"}
RemovingSteps == {"rmcert", "rmkey"}
SettledSteps == {"idle", "key", "cert", "backkey", "backcert", "dropcert", "dropkey"}

(* What the operation under way has done to the memory, step by step.       *)
OpInv ==
    /\ ~up => op = Idle /\ recording = {}
    /\ Filed(meta)
    /\ \A e \in recording : e.source = "acme"
    /\ op # Idle =>
        /\ Filed(op.oldMeta)
        /\ op.step # "record" => op.touched = {op.domain}
        /\ op.step = "record" => op.entry.source = "acme" /\ op.touched = op.entry.sans
        /\ op.step \in ImportSteps => op.entry.source = "manual" /\ op.entry.domain = op.domain
        /\ \A d \in Domains \ op.touched : meta[d] = op.oldMeta[d]
        /\ op.step \in (SettledSteps \cup {"relist"}) => meta = op.oldMeta /\ certs[op.domain] = op.oldCert
        /\ op.step = "record" => \A d \in op.touched : meta[d] = op.entry
        /\ op.step = "persist" => meta[op.domain] = op.entry /\ certs[op.domain] = op.entry.id
        /\ op.step \in {"unlist"} \cup RemovingSteps => meta[op.domain] = Absent /\ certs[op.domain] = Absent

(* The files of the pair, step by step.                                     *)
PairAt ==
    LET p == pair[op.domain]
        at(S) == op.step \in S
    IN  /\ at({"persist", "backkey", "dropcert"}) => p.key = op.entry.id /\ p.cert = op.entry.id
        /\ at({"cert"}) => p.key = op.entry.id /\ p.cert = op.oldPair.cert
        /\ at({"backcert"}) => p.key = op.oldPair.key /\ p.cert = op.entry.id
        /\ at({"dropkey"}) => p.key = op.entry.id /\ p.cert = Absent
        /\ at({"rmkey"}) => p.key = op.oldPair.key /\ p.cert = Absent
        /\ at({"relist"}) => op.domain \in torn \/ p = op.oldPair
        /\ at({"key", "unlist", "rmcert", "record"}) => p = op.oldPair

(* A rollback puts back the pair there was, and drops one only where there  *)
(* was none.                                                                *)
PairInv ==
    op # Idle =>
        /\ PairAt
        /\ op.step \in {"dropcert", "dropkey"} => op.oldPair = NoPair
        /\ op.step \in {"backkey", "backcert"} => op.oldPair # NoPair

(* certs.json lists what the memory has, or had before the operation,       *)
(* unless a rollback of it failed.                                          *)
MetaInv ==
    /\ up /\ ~skewed /\ op.step \in SettledSteps \cup RemovingSteps => file = metadataSnapshot(meta)
    /\ ~skewed /\ op.step \in AheadSteps => file = metadataSnapshot(op.oldMeta)
    /\ op.step \in RemovingSteps => ~skewed

(* A domain outside the operation.                                          *)
Sound(m, c, p, f, d) ==
    /\ Loads(p, Listed(f, d)) \in promised[d]
    /\ Listed(f, d) => X509KeyPair(p)
    /\ up => /\ c \in promised[d]
             /\ Manual(m, d) <=> Listed(f, d)
             /\ Manual(m, d) => c # Absent

(* What a restart or a rollback would serve under each domain whose files   *)
(* are whole and unclaimed is promised.                                     *)
ServeInv ==
    \A d \in Domains \ (torn \cup claimed) :
        IF op = Idle THEN Sound(meta, certs[d], pair[d], file, d)
        ELSE IF d # op.domain /\ op.step # "record" THEN Sound(meta, certs[d], pair[d], file, d)
        ELSE IF op.step = "record" THEN Sound(op.oldMeta, certs[d], pair[d], file, d)
        ELSE /\ op.step \notin RemovingSteps \cup {"relist"} => Sound(op.oldMeta, op.oldCert, op.oldPair, file, d)
             /\ op.step \in RemovingSteps \cup {"relist"} =>
                   /\ ~Listed(file, d)
                   /\ Loads(op.oldPair, Manual(op.oldMeta, d)) \in promised[d]
                   /\ Manual(op.oldMeta, d) => X509KeyPair(op.oldPair) /\ op.oldCert # Absent
                   /\ op.oldCert \in promised[d]

(* The inductive invariant of the store.                                    *)
StoreInv == StoreTypeOK /\ OpInv /\ PairInv /\ MetaInv /\ ServeInv

-----------------------------------------------------------------------------

(* The image of a finite set is finite.                                     *)
LEMMA ImageFinite ==
  ASSUME NEW S, IsFiniteSet(S), NEW T, NEW g \in [S -> T]
  PROVE  IsFiniteSet({g[x] : x \in S})
  <1> DEFINE I == {g[x] : x \in S}
  <1>1. g \in Surjection(S, I) BY DEF Surjection
  <1>2. IsFiniteSet(I) BY <1>1, FS_Surjection
  <1> QED BY <1>2

(* A store has finitely many domains.                                       *)
LEMMA DomainsFinite == IsFiniteSet(Domains)
  <1>1. Order \in Seq(ToSet(Order)) BY StoreAssumption
  <1>2. Len(Order) \in Nat /\ DOMAIN Order = 1 .. Len(Order) BY <1>1
  <1>3. IsFiniteSet(DOMAIN Order) BY <1>2, FS_Interval
  <1> DEFINE S == DOMAIN Order
             T == ToSet(Order)
  <1>4. Order \in [S -> T] BY <1>1, <1>2
  <1> HIDE DEF S, T
  <1>5. IsFiniteSet({Order[i] : i \in S}) BY <1>3, <1>4, ImageFinite DEF S
  <1> QED BY <1>5 DEF Domains, ToSet, S

(* No certificate and no entry is Absent.                                   *)
LEMMA AbsentFacts == Absent \notin Nat /\ Absent \notin Entries
  BY StoreAssumption

(* What metadataSnapshot writes is finite and lists the manual certificates *)
(* in use, no more and no fewer.                                            *)
LEMMA SnapshotFacts ==
  ASSUME NEW m \in Metas
  PROVE  /\ metadataSnapshot(m) \subseteq Entries
         /\ IsFiniteSet(metadataSnapshot(m))
         /\ Filed(m) => \A d \in Domains : Listed(metadataSnapshot(m), d) <=> Manual(m, d)
  <1>1. metadataSnapshot(m) \subseteq Entries BY DEF metadataSnapshot, Metas
  <1>2. IsFiniteSet({m[d] : d \in Domains}) BY DomainsFinite, ImageFinite DEF Metas
  <1>3. IsFiniteSet(metadataSnapshot(m)) BY <1>2, FS_Subset DEF metadataSnapshot
  <1>4. ASSUME Filed(m), NEW d \in Domains PROVE Listed(metadataSnapshot(m), d) <=> Manual(m, d)
    <2>1. ASSUME Listed(metadataSnapshot(m), d) PROVE Manual(m, d)
      BY <1>4, <2>1 DEF Listed, Manual, Filed, metadataSnapshot
    <2>2. ASSUME Manual(m, d) PROVE Listed(metadataSnapshot(m), d)
      BY <1>4, <2>2 DEF Listed, Manual, Filed, metadataSnapshot
    <2> QED BY <2>1, <2>2
  <1> QED BY <1>1, <1>3, <1>4

(* A sorting of certs.json has each of its entries.                         *)
LEMMA SortingIsAll ==
  ASSUME NEW f, IsFiniteSet(f), NEW s \in Sortings(f)
  PROVE  /\ Cardinality(f) \in Nat /\ DOMAIN s = 1 .. Cardinality(f)
         /\ s \in [1 .. Cardinality(f) -> f] /\ ToSet(s) = f
  <1>1. Cardinality(f) \in Nat BY FS_CardinalityType
  <1> DEFINE n == Cardinality(f)
             D == 1 .. n
  <1>2. s \in [D -> f] /\ \A i, j \in D : i # j => s[i] # s[j]
    BY DEF Sortings, SetToSeqs
  <1>3. s \in Injection(D, f) BY <1>2 DEF Injection, IsInjective
  <1>4. Cardinality(D) = n BY <1>1, FS_Interval
  <1>5. s \in Surjection(D, f) BY <1>3, <1>4, FS_Injection
  <1>6. ToSet(s) = f BY <1>2, <1>5 DEF Surjection, ToSet
  <1> QED BY <1>1, <1>2, <1>6

(* A set of numbers up to n has a largest.                                  *)
LEMMA MaxExists ==
  ASSUME NEW n \in Nat, NEW S \in SUBSET (1 .. n), S # {}
  PROVE  \E i \in S : \A j \in S : j <= i
  <1> DEFINE R == OpToRel(<, Nat)
             T == {n - i : i \in S}
  <1>1. IsWellFoundedOn(R, Nat) BY NatLessThanWellFounded
  <1>2. T \subseteq Nat /\ T # {}
    <2>1. \A i \in S : n - i \in Nat OBVIOUS
    <2>2. PICK i \in S : TRUE OBVIOUS
    <2>3. n - i \in T BY <2>2
    <2> QED BY <2>1, <2>3
  <1>3. PICK x \in T : \A y \in T : <<y, x>> \notin R BY <1>1, <1>2, WFMin
  <1>4. PICK i \in S : x = n - i OBVIOUS
  <1>5. ASSUME NEW j \in S PROVE j <= i
    <2>1. n - j \in T OBVIOUS
    <2>2. <<n - j, x>> \notin R BY <1>3, <2>1
    <2>3. ~(n - j < x) BY <2>2, <1>2, <1>3, <2>1 DEF OpToRel
    <2> QED BY <1>4, <2>3
  <1> QED BY <1>5

(* What Load files under a domain: an entry of certs.json that claims it,   *)
(* and something whenever one does.                                         *)
LEMMA LoadedFacts ==
  ASSUME NEW f \in SUBSET Entries, IsFiniteSet(f), NEW s \in Sortings(f), NEW d \in Domains
  PROVE  /\ loadedMeta(s)[d] \in f \cup {Absent}
         /\ loadedMeta(s)[d] # Absent => d \in claims(loadedMeta(s)[d])
  <1> DEFINE n == Cardinality(f)
             C == {i \in DOMAIN s : d \in claims(s[i])}
  <1>1. n \in Nat /\ DOMAIN s = 1 .. n /\ s \in [1 .. n -> f] BY SortingIsAll
  <1>2. loadedMeta(s)[d] = IF C = {} THEN Absent ELSE s[CHOOSE i \in C : \A j \in C : j <= i]
    BY DEF loadedMeta
  <1>3. CASE C = {} BY <1>2, <1>3
  <1>4. CASE C # {}
    <2>1. \E i \in C : \A j \in C : j <= i BY <1>1, <1>4, MaxExists
    <2> DEFINE k == CHOOSE i \in C : \A j \in C : j <= i
    <2>2. k \in C BY <2>1
    <2>3. s[k] \in f /\ d \in claims(s[k]) BY <1>1, <2>2
    <2>4. loadedMeta(s)[d] = s[k] BY <1>2, <1>4
    <2> HIDE DEF k
    <2> QED BY <2>3, <2>4
  <1> QED BY <1>3, <1>4

-----------------------------------------------------------------------------
(* The operation record.                                                    *)

(* The fields of the operation under way.                                   *)
LEMMA OpFacts ==
  ASSUME op \in OpRecords \cup {Idle}
  PROVE  /\ op.step = "idle" <=> op = Idle
         /\ op # Idle <=> op \in OpRecords
         /\ op \in OpRecords => /\ op.step \in OpSteps /\ op.domain \in Domains
                          /\ op.touched \subseteq Domains /\ op.entry \in Entries
                          /\ op.oldMeta \in Metas /\ op.oldCert \in Ids /\ op.oldPair \in Pairs
                          /\ op.entry.id \in Nat
  <1>1. Idle.step = "idle" BY DEF Idle
  <1>2. op \in OpRecords => op.step # "idle" BY DEF OpRecords, OpSteps, ImportSteps, DeleteSteps
  <1>3. op \in OpRecords => /\ op.step \in OpSteps /\ op.domain \in Domains
                      /\ op.touched \subseteq Domains /\ op.entry \in Entries
                      /\ op.oldMeta \in Metas /\ op.oldCert \in Ids /\ op.oldPair \in Pairs
    BY DEF OpRecords
  <1>4. op \in OpRecords => op.entry.id \in Nat BY <1>3 DEF Entries
  <1> QED BY <1>1, <1>2, <1>3, <1>4

(* Goto changes the step only.                                              *)
LEMMA GotoFacts ==
  ASSUME op \in OpRecords, NEW s \in OpSteps, Goto(s)
  PROVE  /\ op' \in OpRecords /\ op'.step = s /\ op'.domain = op.domain /\ op'.touched = op.touched
         /\ op'.entry = op.entry /\ op'.oldMeta = op.oldMeta /\ op'.oldCert = op.oldCert
         /\ op'.oldPair = op.oldPair
  BY DEF Goto, OpRecords

(* Begin remembers what it may have to restore.                             *)
LEMMA BeginFacts ==
  ASSUME StoreTypeOK, NEW s \in OpSteps, NEW d \in Domains, NEW ts \in SUBSET Domains, NEW e \in Entries,
         Begin(s, d, ts, e)
  PROVE  /\ op' \in OpRecords /\ op'.step = s /\ op'.domain = d /\ op'.touched = ts
         /\ op'.entry = e /\ op'.oldMeta = meta /\ op'.oldCert = certs[d]
         /\ op'.oldPair = pair[d]
  BY DEF Begin, OpRecords, StoreTypeOK

(* A file of the pair is replaced or left.                                  *)
LEMMA PutFacts ==
  ASSUME StoreTypeOK, op \in OpRecords, NEW r \in Results, NEW part \in {"key", "cert"}, NEW v \in Ids, Put(r, part, v)
  PROVE  /\ pair' \in [Domains -> Pairs]
         /\ \A d \in Domains \ {op.domain} : pair'[d] = pair[d]
         /\ ~Landed(r) => pair'[op.domain] = pair[op.domain]
         /\ Landed(r) /\ part = "key" => pair'[op.domain].key = v /\ pair'[op.domain].cert = pair[op.domain].cert
         /\ Landed(r) /\ part = "cert" => pair'[op.domain].cert = v /\ pair'[op.domain].key = pair[op.domain].key
  <1>1. op.domain \in Domains BY DEF OpRecords
  <1>2. pair \in [Domains -> Pairs] BY DEF StoreTypeOK
  <1> QED BY <1>1, <1>2 DEF Put, Pairs

(* certs.json is replaced or left.                                          *)
LEMMA PersistFacts ==
  ASSUME StoreTypeOK, NEW r \in Results, Persist(r, metadataSnapshot(meta))
  PROVE  /\ file' \subseteq Entries /\ IsFiniteSet(file')
         /\ file' = IF Landed(r) THEN metadataSnapshot(meta) ELSE file
  BY SnapshotFacts DEF Persist, StoreTypeOK

(* What a rollback puts back in memory.                                     *)
LEMMA RollbackFacts ==
  ASSUME StoreTypeOK, OpInv, op \in OpRecords
  PROVE  /\ restoredMeta = op.oldMeta
         /\ restoredCerts \in [Domains -> Ids]
         /\ restoredCerts[op.domain] = op.oldCert
         /\ \A d \in Domains \ {op.domain} : restoredCerts[d] = certs[d]
  <1>1. op # Idle /\ op.oldMeta \in Metas /\ op.domain \in Domains /\ op.oldCert \in Ids
    BY OpFacts
  <1>2. restoredMeta = op.oldMeta BY <1>1 DEF restoredMeta, Metas, OpInv
  <1>3. certs \in [Domains -> Ids] BY DEF StoreTypeOK
  <1> QED BY <1>1, <1>2, <1>3 DEF restoredCerts

-----------------------------------------------------------------------------

(* Every step keeps the types.                                              *)
LEMMA TypeStep ==
  ASSUME StoreTypeOK, OpInv, Next
  PROVE  StoreTypeOK'
  <1> USE AbsentFacts DEF StoreTypeOK
  <1>o. op \in OpRecords => op.domain \in Domains /\ op.entry.id \in Ids /\ op.entry \in Entries
                      /\ op.oldPair.key \in Ids /\ op.oldPair.cert \in Ids /\ op.oldMeta \in Metas
                      /\ op.touched \subseteq Domains
    BY OpFacts DEF Ids, Pairs
  <1>i. op.step # "idle" => op \in OpRecords BY OpFacts
  <1>s. OpSteps = ImportSteps \cup DeleteSteps \cup {"record"} BY DEF OpSteps
  <1>1. ASSUME NEW d \in Domains, Import(d) PROVE StoreTypeOK'
    <2>1. [domain |-> d, sans |-> {d}, source |-> "manual", id |-> made + 1] \in Entries BY DEF Entries
    <2>2. op' \in OpRecords BY <1>1, <2>1, BeginFacts DEF Import, OpSteps, ImportSteps
    <2> QED BY <1>1, <2>2 DEF Import, store, ghosts
  <1>2. ASSUME NEW d \in Domains, Delete(d) PROVE StoreTypeOK'
    <2>1. meta[d] \in Entries BY <1>2 DEF Delete, Metas
    <2>2. op' \in OpRecords BY <1>2, <2>1, BeginFacts DEF Delete, OpSteps, DeleteSteps
    <2>3. meta' \in Metas /\ certs' \in [Domains -> Ids] BY <1>2 DEF Delete, Metas, Ids
    <2> QED BY <1>2, <2>2, <2>3 DEF Delete, ghosts
  <1>3. ASSUME WriteKey PROVE StoreTypeOK'
    <2>0. op \in OpRecords BY <1>3, <1>i DEF WriteKey
    <2>1. PICK r \in Results : Put(r, "key", op.entry.id) /\ (IF r = "ok" THEN Goto("cert") ELSE Return)
          /\ torn' = IF r = "unsynced" THEN torn \cup {op.domain} ELSE torn
      BY <1>3 DEF WriteKey
    <2>2. pair' \in [Domains -> Pairs] BY <2>0, <2>1, <1>o, PutFacts
    <2>3. op' \in OpRecords \cup {Idle} BY <2>0, <2>1, GotoFacts DEF Return, OpSteps, ImportSteps
    <2> QED BY <1>3, <2>0, <2>1, <2>2, <2>3, <1>o DEF WriteKey
  <1>4. ASSUME WriteCert PROVE StoreTypeOK'
    <2>0. op \in OpRecords BY <1>4, <1>i DEF WriteCert
    <2>1. PICK r \in Results : WriteCert!2!(r) BY <1>4 DEF WriteCert
    <2>2. pair' \in [Domains -> Pairs] BY <2>0, <2>1, <1>o, PutFacts
    <2>3. op' \in OpRecords \cup {Idle} BY <2>0, <2>1, GotoFacts DEF Return, OpSteps, ImportSteps
    <2>4. meta' \in Metas /\ certs' \in [Domains -> Ids] BY <2>0, <2>1, <1>o DEF Metas
    <2> QED BY <1>4, <2>0, <2>1, <2>2, <2>3, <2>4, <1>o DEF WriteCert
  <1>5. ASSUME PersistImport PROVE StoreTypeOK'
    <2>0. op \in OpRecords BY <1>5, <1>i DEF PersistImport
    <2>1. PICK r \in Results : PersistImport!2!(r) BY <1>5 DEF PersistImport
    <2>2. file' \subseteq Entries /\ IsFiniteSet(file') BY <2>1, PersistFacts
    <2>3. op' \in OpRecords \cup {Idle} BY <2>0, <2>1, GotoFacts DEF Return, undoStep, OpSteps, ImportSteps
    <2>4. meta' \in Metas /\ certs' \in [Domains -> Ids] BY <2>0, <2>1, <1>o, RollbackFacts DEF rollback
    <2>5. promised' \in [Domains -> SUBSET Ids] BY <2>0, <2>1, <1>o
    <2>6. torn' \subseteq Domains /\ skewed' \in BOOLEAN BY <2>0, <2>1, <1>o
    <2> QED BY <1>5, <2>2, <2>3, <2>4, <2>5, <2>6 DEF PersistImport
  <1>6. ASSUME NEW from \in OpSteps, NEW part \in {"key", "cert"}, NEW v, op \in OpRecords => v \in Ids,
               NEW next \in OpSteps \cup {"idle"}, Undo(from, part, v, next)
        PROVE  StoreTypeOK'
    <2>0. op \in OpRecords BY <1>6, <1>i DEF Undo, OpSteps, ImportSteps, DeleteSteps
    <2>1. PICK r \in Results : /\ Put(r, part, v)
                               /\ IF r = "ok" /\ next # "idle" THEN Goto(next) ELSE Return
                               /\ torn' = IF r = "ok" THEN torn ELSE torn \cup {op.domain}
      BY <1>6 DEF Undo, Removals, Results
    <2>2. pair' \in [Domains -> Pairs] BY <2>0, <2>1, <1>6, PutFacts
    <2>3. op' \in OpRecords \cup {Idle} BY <2>0, <2>1, <1>6, GotoFacts DEF Return
    <2> QED BY <1>6, <2>0, <2>1, <2>2, <2>3, <1>o DEF Undo
  <1>7. ASSUME UndoImport PROVE StoreTypeOK'
    <2>1. {"backkey", "backcert", "dropcert", "dropkey"} \subseteq OpSteps BY DEF OpSteps, ImportSteps
    <2>2. Absent \in Ids BY DEF Ids
    <2> QED BY <1>6, <1>7, <2>1, <2>2, <1>o DEF UndoImport
  <1>8. ASSUME PersistDelete PROVE StoreTypeOK'
    <2>0. op \in OpRecords BY <1>8, <1>i DEF PersistDelete
    <2>1. PICK r \in Results : PersistDelete!2!(r) BY <1>8 DEF PersistDelete
    <2>2. file' \subseteq Entries /\ IsFiniteSet(file') BY <2>1, PersistFacts
    <2>3. op' \in OpRecords \cup {Idle} BY <2>0, <2>1, GotoFacts DEF Return, Deleted, OpSteps, DeleteSteps
    <2>4. meta' \in Metas /\ certs' \in [Domains -> Ids] BY <2>0, <2>1, <1>o, RollbackFacts DEF rollback
    <2>5. promised' \in [Domains -> SUBSET Ids] BY <2>0, <2>1, <1>o DEF Deleted, Ids
    <2>6. torn' \subseteq Domains /\ claimed' \subseteq Domains /\ skewed' \in BOOLEAN BY <2>0, <2>1, <1>o DEF Deleted
    <2> QED BY <1>8, <2>2, <2>3, <2>4, <2>5, <2>6 DEF PersistDelete
  <1>9. ASSUME NEW from \in OpSteps, NEW part \in {"key", "cert"},
               NEW next \in OpSteps \cup {"idle"}, RemoveFile(from, part, next)
        PROVE  StoreTypeOK'
    <2>0. op \in OpRecords BY <1>9, <1>i DEF RemoveFile, OpSteps, ImportSteps, DeleteSteps
    <2>1. PICK r \in Removals(next) : RemoveFile(from, part, next)!2!(r) BY <1>9 DEF RemoveFile
    <2>r. r \in Results BY DEF Removals, Results
    <2>2. pair' \in [Domains -> Pairs] BY <2>0, <2>1, <2>r, <1>9, PutFacts DEF Ids
    <2>3. op' \in OpRecords \cup {Idle} BY <2>0, <2>1, <1>9, GotoFacts DEF Return, Deleted, OpSteps, DeleteSteps
    <2>4. meta' \in Metas /\ certs' \in [Domains -> Ids] BY <2>0, <2>1, <1>o, RollbackFacts DEF rollback
    <2>5. promised' \in [Domains -> SUBSET Ids] BY <2>0, <2>1, <1>o DEF Deleted, Ids
    <2>6. torn' \subseteq Domains /\ claimed' \subseteq Domains BY <2>0, <2>1, <1>o DEF Deleted
    <2> QED BY <1>9, <2>2, <2>3, <2>4, <2>5, <2>6 DEF RemoveFile
  <1>10. ASSUME RemovePair PROVE StoreTypeOK'
    <2>1. {"rmcert", "rmkey"} \subseteq OpSteps BY DEF OpSteps, DeleteSteps
    <2> QED BY <1>9, <1>10, <2>1 DEF RemovePair
  <1>11. ASSUME RestoreMetadata PROVE StoreTypeOK'
    <2>0. op \in OpRecords BY <1>11, <1>i DEF RestoreMetadata
    <2>1. PICK r \in Results : RestoreMetadata!2!(r) BY <1>11 DEF RestoreMetadata
    <2>2. file' \subseteq Entries /\ IsFiniteSet(file') BY <2>1, PersistFacts
    <2>3. torn' \subseteq Domains /\ skewed' \in BOOLEAN BY <2>0, <2>1, <1>o
    <2> QED BY <1>11, <2>2, <2>3 DEF RestoreMetadata, Return
  <1>12. ASSUME NEW q \in Requests, Obtain(q) PROVE StoreTypeOK'
    <2>1. q \in Seq(Domains) /\ q # << >> BY StoreAssumption
    <2>2. Head(q) \in Domains /\ ToSet(q) \subseteq Domains BY <2>1 DEF ToSet
    <2>3. [domain |-> Head(q), sans |-> ToSet(q), source |-> "acme", id |-> made + 1] \in Entries
      BY <2>1, <2>2 DEF Entries
    <2> QED BY <1>12, <2>3 DEF Obtain, store, ghosts
  <1>13. ASSUME NEW e \in recording, recordACMECert(e) PROVE StoreTypeOK'
    <2>1. e \in Entries /\ e.domain \in Domains /\ e.sans \subseteq Domains BY DEF Entries
    <2>2. op' \in OpRecords BY <1>13, <2>1, BeginFacts DEF recordACMECert, OpSteps
    <2>3. meta' \in Metas BY <1>13, <2>1 DEF recordACMECert, Metas
    <2> QED BY <1>13, <2>2, <2>3 DEF recordACMECert, ghosts
  <1>14. ASSUME PersistRecord PROVE StoreTypeOK'
    <2>0. op \in OpRecords BY <1>14, <1>i DEF PersistRecord
    <2>1. PICK r \in Results : PersistRecord!2!(r) BY <1>14 DEF PersistRecord
    <2>2. file' \subseteq Entries /\ IsFiniteSet(file') BY <2>1, PersistFacts
    <2>3. torn' \subseteq Domains /\ skewed' \in BOOLEAN BY <2>0, <2>1, <1>o
    <2>4. meta' \in Metas BY <2>0, <2>1, <1>o, RollbackFacts
    <2>5. promised' \in [Domains -> SUBSET Ids] BY <2>1 DEF Ids
    <2> QED BY <1>14, <2>2, <2>3, <2>4, <2>5 DEF PersistRecord, Return
  <1>15. ASSUME Crash PROVE StoreTypeOK'
    <2>1. meta' \in Metas /\ certs' \in [Domains -> Ids] BY <1>15 DEF Crash, Metas, Ids
    <2>2. op # Idle => op \in OpRecords BY OpFacts
    <2>3. promised' \in [Domains -> SUBSET Ids] /\ torn' \subseteq Domains
      <3>1. CASE op = Idle BY <1>15, <3>1 DEF Crash
      <3>2. CASE op # Idle
        <4> DEFINE X == CASE op.step \in ImportSteps -> {op.entry.id}
                          [] op.step \in DeleteSteps -> {Absent}
                          [] OTHER -> {}
        <4>1. X \subseteq Ids BY <3>2, <2>2, <1>o DEF Ids
        <4>2. promised' = [promised EXCEPT ![op.domain] = @ \cup X] BY <1>15, <3>2 DEF Crash
        <4>3. torn' \subseteq Domains BY <1>15, <3>2, <2>2, <1>o DEF Crash
        <4> HIDE DEF X
        <4> QED BY <4>1, <4>2, <4>3, <3>2, <2>2, <1>o
      <3> QED BY <3>1, <3>2
    <2> QED BY <1>15, <2>1, <2>3 DEF Crash
  <1>16. ASSUME Load PROVE StoreTypeOK'
    <2>1. PICK s \in Sortings(file) : meta' = loadedMeta(s) /\ certs' = loadedCerts(s) BY <1>16 DEF Load
    <2>2. \A d \in Domains : loadedMeta(s)[d] \in file \cup {Absent} BY LoadedFacts
    <2>3. meta' = [d \in Domains |-> meta'[d]] BY <2>1 DEF loadedMeta
    <2>4. meta' \in Metas BY <2>1, <2>2, <2>3 DEF Metas
    <2>5. certs' \in [Domains -> Ids] BY <2>1 DEF loadedCerts, Pairs, Ids
    <2>6. \A e \in file : e.domain \in Domains BY DEF Entries
    <2> QED BY <1>16, <2>4, <2>5, <2>6 DEF Load
  <1> QED
    BY <1>1, <1>2, <1>3, <1>4, <1>5, <1>7, <1>8, <1>10, <1>11, <1>12, <1>13, <1>14, <1>15, <1>16 DEF Next

-----------------------------------------------------------------------------

(* What holds of the operation record in every step below.                  *)
LEMMA Common ==
  ASSUME StoreTypeOK
  PROVE  /\ op.step # "idle" => op \in OpRecords
         /\ op \in OpRecords => /\ op # Idle /\ op.step # "idle" /\ op.step \in OpSteps
                          /\ op.domain \in Domains /\ op.entry.id \in Nat /\ op.entry.id # Absent
                          /\ op.entry \in Entries /\ op.oldMeta \in Metas /\ op.touched \subseteq Domains
                          /\ op.oldPair \in Pairs /\ op.oldCert \in Ids
         /\ Idle.step = "idle"
         /\ meta = [d \in Domains |-> meta[d]] /\ certs = [d \in Domains |-> certs[d]]
         /\ \A d \in Domains : pair[d] \in Pairs
  <1>1. Idle.step = "idle" BY DEF Idle
  <1>2. meta = [d \in Domains |-> meta[d]] /\ certs = [d \in Domains |-> certs[d]] /\ \A d \in Domains : pair[d] \in Pairs
    BY DEF StoreTypeOK, Metas
  <1> QED BY <1>1, <1>2, OpFacts, AbsentFacts DEF StoreTypeOK

(* Import validates and goes to the key file.                               *)
LEMMA ImportKeeps ==
  ASSUME StoreInv, StoreTypeOK', NEW d \in Domains, Import(d)
  PROVE  OpInv' /\ PairInv' /\ MetaInv' /\ ServeInv'
  <1>1. [domain |-> d, sans |-> {d}, source |-> "manual", id |-> made + 1] \in Entries
    BY DEF Entries, StoreTypeOK, StoreInv
  <1>2. /\ op' \in OpRecords /\ op'.step = "key" /\ op'.domain = d /\ op'.touched = {d}
        /\ op'.entry.source = "manual" /\ op'.entry.domain = d
        /\ op'.oldMeta = meta /\ op'.oldCert = certs[d] /\ op'.oldPair = pair[d]
    BY <1>1, BeginFacts DEF Import, OpSteps, ImportSteps, StoreInv
  <1>3. /\ up /\ op = Idle /\ op.step = "idle" /\ up' = up /\ meta' = meta /\ certs' = certs /\ file' = file /\ pair' = pair
        /\ recording' = recording /\ promised' = promised /\ torn' = torn /\ claimed' = claimed /\ skewed' = skewed
    BY Common DEF Import, store, ghosts, StoreInv
  <1>4. OpInv'
    BY <1>2, <1>3 DEF StoreInv, OpInv, RemovingSteps, SettledSteps, Filed, Manual
  <1>5. PairInv' BY <1>2, <1>3 DEF PairInv, PairAt
  <1>6. MetaInv' BY <1>2, <1>3 DEF StoreInv, MetaInv, SettledSteps, RemovingSteps, AheadSteps, metadataSnapshot
  <1>7. ServeInv'
    BY <1>2, <1>3 DEF StoreInv, ServeInv, Sound, Loads, Listed, Manual, RemovingSteps, X509KeyPair
  <1> QED BY <1>4, <1>5, <1>6, <1>7

(* Delete forgets the entry in memory.                                      *)
LEMMA DeleteKeeps ==
  ASSUME StoreInv, StoreTypeOK', NEW d \in Domains, Delete(d)
  PROVE  OpInv' /\ PairInv' /\ MetaInv' /\ ServeInv'
  <1>1. meta[d] \in Entries BY DEF Delete, Metas, StoreTypeOK, StoreInv
  <1>2. /\ op' \in OpRecords /\ op'.step = "unlist" /\ op'.domain = d /\ op'.touched = {d}
        /\ op'.oldMeta = meta /\ op'.oldCert = certs[d] /\ op'.oldPair = pair[d]
    <2>1. op' = [step |-> "unlist", domain |-> d, touched |-> {d}, entry |-> meta[d],
                 oldMeta |-> meta, oldCert |-> certs[d], oldPair |-> pair[d]]
      BY DEF Delete, Begin
    <2> QED BY <1>1, <2>1 DEF StoreInv, StoreTypeOK, OpRecords, OpSteps, DeleteSteps
  <1>3. /\ up /\ op = Idle /\ op.step = "idle" /\ up' = up /\ file' = file /\ pair' = pair
        /\ recording' = recording /\ promised' = promised /\ torn' = torn /\ claimed' = claimed /\ skewed' = skewed
    BY Common DEF Delete, ghosts, StoreInv
  <1>4. /\ meta'[d] = Absent /\ certs'[d] = Absent
        /\ \A x \in Domains \ {d} : meta'[x] = meta[x] /\ certs'[x] = certs[x]
    BY Common DEF Delete, StoreInv
  <1>5. OpInv'
    BY <1>2, <1>3, <1>4 DEF StoreInv, OpInv, RemovingSteps, SettledSteps, ImportSteps, Filed, Manual
  <1>6. PairInv' BY <1>2, <1>3 DEF PairInv, PairAt
  <1>7. MetaInv' BY <1>2, <1>3 DEF StoreInv, MetaInv, SettledSteps, RemovingSteps, AheadSteps, metadataSnapshot
  <1>8. ServeInv'
    BY <1>2, <1>3, <1>4 DEF StoreInv, ServeInv, Sound, Loads, Listed, Manual, RemovingSteps, X509KeyPair
  <1> QED BY <1>5, <1>6, <1>7, <1>8

(* recordACMECert files an entry under each of its names.                   *)
LEMMA RecordKeeps ==
  ASSUME StoreInv, StoreTypeOK', NEW e \in recording, recordACMECert(e)
  PROVE  OpInv' /\ PairInv' /\ MetaInv' /\ ServeInv'
  <1>1. e \in Entries /\ e.domain \in Domains /\ e.sans \subseteq Domains /\ e.source = "acme"
    BY DEF Entries, StoreInv, StoreTypeOK, OpInv
  <1>2. /\ op' \in OpRecords /\ op'.step = "record" /\ op'.domain = e.domain /\ op'.touched = e.sans
        /\ op'.entry = e /\ op'.oldMeta = meta /\ op'.oldCert = certs[e.domain] /\ op'.oldPair = pair[e.domain]
    BY <1>1, BeginFacts DEF recordACMECert, OpSteps, StoreInv
  <1>3. /\ up /\ op = Idle /\ op.step = "idle" /\ up' = up /\ file' = file /\ pair' = pair /\ certs' = certs
        /\ recording' \subseteq recording /\ promised' = promised /\ torn' = torn /\ claimed' = claimed /\ skewed' = skewed
    BY Common DEF recordACMECert, ghosts, StoreInv
  <1>4. /\ \A x \in e.sans : meta'[x] = e
        /\ \A x \in Domains \ e.sans : meta'[x] = meta[x]
    BY <1>1 DEF recordACMECert
  <1>5. OpInv'
    BY <1>1, <1>2, <1>3, <1>4 DEF StoreInv, OpInv, RemovingSteps, SettledSteps, ImportSteps, Filed, Manual
  <1>6. PairInv' BY <1>2, <1>3 DEF PairInv, PairAt
  <1>7. MetaInv' BY <1>2, <1>3 DEF StoreInv, MetaInv, SettledSteps, RemovingSteps, AheadSteps, metadataSnapshot
  <1>8. ServeInv'
    BY <1>2, <1>3, <1>4 DEF StoreInv, ServeInv, Sound, Loads, Listed, Manual, RemovingSteps, X509KeyPair
  <1> QED BY <1>5, <1>6, <1>7, <1>8

(* The key of the pair is written first.                                    *)
LEMMA WriteKeyKeeps ==
  ASSUME StoreInv, StoreTypeOK', WriteKey
  PROVE  OpInv' /\ PairInv' /\ MetaInv' /\ ServeInv'
  <1> USE DEF StoreInv
  <1>0. op \in OpRecords /\ op.step = "key" BY Common DEF WriteKey
  <1>c. /\ op # Idle /\ op.domain \in Domains /\ op.entry.id \in Ids /\ op.oldPair \in Pairs BY <1>0, Common DEF Ids
  <1>1. PICK r \in Results : WriteKey!2!(r) BY DEF WriteKey
  <1>2. /\ up' = up /\ meta' = meta /\ certs' = certs /\ file' = file
        /\ recording' = recording /\ promised' = promised /\ claimed' = claimed /\ skewed' = skewed
    BY DEF WriteKey
  <1>3. /\ \A x \in Domains \ {op.domain} : pair'[x] = pair[x]
        /\ ~Landed(r) => pair'[op.domain] = pair[op.domain]
        /\ Landed(r) => pair'[op.domain].key = op.entry.id /\ pair'[op.domain].cert = pair[op.domain].cert
    BY <1>0, <1>c, <1>1, PutFacts
  <1>4. up BY <1>c DEF OpInv
  <1>5. pair[op.domain] = op.oldPair BY <1>0, <1>c DEF PairInv, PairAt
  <1>6. CASE r = "ok"
    <2>1. /\ op' \in OpRecords /\ op'.step = "cert" /\ op'.domain = op.domain /\ op'.touched = op.touched
          /\ op'.entry = op.entry /\ op'.oldMeta = op.oldMeta /\ op'.oldCert = op.oldCert /\ op'.oldPair = op.oldPair
      BY <1>0, <1>1, <1>6, GotoFacts DEF OpSteps, ImportSteps
    <2>2. torn' = torn /\ Landed(r) BY <1>1, <1>6 DEF Landed
    <2>3. OpInv' BY <1>0, <1>c, <1>2, <2>1 DEF OpInv, RemovingSteps, SettledSteps, ImportSteps, Filed, Manual
    <2>4. PairInv' BY <1>3, <1>5, <2>1, <2>2 DEF PairInv, PairAt
    <2>5. MetaInv' BY <1>0, <1>2, <2>1 DEF MetaInv, SettledSteps, RemovingSteps, AheadSteps, metadataSnapshot
    <2>6. ServeInv'
      BY <1>0, <1>c, <1>2, <1>3, <2>1, <2>2, Common DEF ServeInv, Sound, Loads, Listed, Manual, RemovingSteps, X509KeyPair
    <2> QED BY <2>3, <2>4, <2>5, <2>6
  <1>7. CASE r # "ok"
    <2>1. op' = Idle /\ op'.step = "idle" BY <1>1, <1>7, Common DEF Return
    <2>2. /\ r = "failed" => torn' = torn /\ pair'[op.domain] = pair[op.domain]
          /\ r = "unsynced" => torn' = torn \cup {op.domain}
          /\ r \in {"failed", "unsynced"}
      BY <1>1, <1>7, <1>3 DEF Landed, Results
    <2>3. OpInv' BY <1>2, <1>4, <2>1 DEF OpInv, Filed, Manual
    <2>4. PairInv' BY <2>1 DEF PairInv
    <2>5. MetaInv' BY <1>0, <1>2, <2>1 DEF MetaInv, SettledSteps, RemovingSteps, AheadSteps, metadataSnapshot
    <2>6. ServeInv'
      BY <1>0, <1>c, <1>2, <1>3, <1>5, <2>1, <2>2
      DEF ServeInv, OpInv, Sound, Loads, Listed, Manual, RemovingSteps, SettledSteps, X509KeyPair
    <2> QED BY <2>3, <2>4, <2>5, <2>6
  <1> QED BY <1>6, <1>7

(* Then the certificate.                                                    *)
LEMMA WriteCertKeeps ==
  ASSUME StoreInv, StoreTypeOK', WriteCert
  PROVE  OpInv' /\ PairInv' /\ MetaInv' /\ ServeInv'
  <1> USE DEF StoreInv
  <1>0. op \in OpRecords /\ op.step = "cert" BY Common DEF WriteCert
  <1>c. /\ op # Idle /\ op.domain \in Domains /\ op.entry.id \in Ids /\ op.oldPair \in Pairs
        /\ op.touched = {op.domain} /\ op.entry \in Entries
    BY <1>0, Common DEF Ids, OpInv
  <1>1. PICK r \in Results : WriteCert!2!(r) BY DEF WriteCert
  <1>2. /\ up' = up /\ file' = file
        /\ recording' = recording /\ promised' = promised /\ claimed' = claimed /\ skewed' = skewed
    BY DEF WriteCert
  <1>3. /\ \A x \in Domains \ {op.domain} : pair'[x] = pair[x]
        /\ Landed(r) => pair'[op.domain].cert = op.entry.id /\ pair'[op.domain].key = pair[op.domain].key
    BY <1>0, <1>c, <1>1, PutFacts
  <1>4. up BY <1>c DEF OpInv
  <1>5. pair[op.domain].key = op.entry.id BY <1>0, <1>c DEF PairInv, PairAt
  <1>6. CASE r = "ok"
    <2>1. /\ op' \in OpRecords /\ op'.step = "persist" /\ op'.domain = op.domain /\ op'.touched = op.touched
          /\ op'.entry = op.entry /\ op'.oldMeta = op.oldMeta /\ op'.oldCert = op.oldCert /\ op'.oldPair = op.oldPair
      BY <1>0, <1>1, <1>6, GotoFacts DEF OpSteps, ImportSteps
    <2>2. torn' = torn /\ Landed(r) BY <1>1, <1>6 DEF Landed
    <2>m. /\ meta'[op.domain] = op.entry /\ certs'[op.domain] = op.entry.id
          /\ \A x \in Domains \ {op.domain} : meta'[x] = meta[x] /\ certs'[x] = certs[x]
      BY <1>1, <1>6, <1>c, Common
    <2>3. OpInv' BY <1>0, <1>c, <1>2, <2>1, <2>m DEF OpInv, RemovingSteps, SettledSteps, ImportSteps, Filed, Manual
    <2>4. PairInv' BY <1>3, <1>5, <2>1, <2>2 DEF PairInv, PairAt
    <2>5. MetaInv' BY <1>0, <1>4, <1>c, <1>2, <2>1 DEF MetaInv, OpInv, SettledSteps, RemovingSteps, AheadSteps, metadataSnapshot
    <2>6. ServeInv'
      BY <1>0, <1>c, <1>2, <1>3, <2>1, <2>2, <2>m, Common DEF ServeInv, Sound, Loads, Listed, Manual, RemovingSteps, X509KeyPair
    <2> QED BY <2>3, <2>4, <2>5, <2>6
  <1>7. CASE r # "ok"
    <2>1. op' = Idle /\ op'.step = "idle" BY <1>1, <1>7, Common DEF Return
    <2>2. torn' = torn \cup {op.domain} /\ meta' = meta /\ certs' = certs BY <1>1, <1>7
    <2>3. OpInv' BY <1>2, <1>4, <2>1, <2>2 DEF OpInv, Filed, Manual
    <2>4. PairInv' BY <2>1 DEF PairInv
    <2>5. MetaInv' BY <1>0, <1>2, <2>1, <2>2 DEF MetaInv, SettledSteps, RemovingSteps, AheadSteps, metadataSnapshot
    <2>6. ServeInv'
      BY <1>0, <1>c, <1>2, <1>3, <1>5, <2>1, <2>2
      DEF ServeInv, Sound, Loads, Listed, Manual, RemovingSteps, SettledSteps, X509KeyPair
    <2> QED BY <2>3, <2>4, <2>5, <2>6
  <1> QED BY <1>6, <1>7

(* Then certs.json; the import is acknowledged, or taken back.              *)
LEMMA PersistImportKeeps ==
  ASSUME StoreInv, StoreTypeOK', PersistImport
  PROVE  OpInv' /\ PairInv' /\ MetaInv' /\ ServeInv'
  <1> USE DEF StoreInv
  <1>0. op \in OpRecords /\ op.step = "persist" BY Common DEF PersistImport
  <1>c. /\ op # Idle /\ op.domain \in Domains /\ op.entry.id \in Nat /\ op.entry.id # Absent /\ op.oldPair \in Pairs
        /\ op.touched = {op.domain} /\ op.entry \in Entries /\ op.oldMeta \in Metas /\ Filed(op.oldMeta)
        /\ op.entry.source = "manual" /\ op.entry.domain = op.domain
    BY <1>0, Common DEF OpInv, ImportSteps
  <1>1. PICK r \in Results : PersistImport!2!(r) BY DEF PersistImport
  <1>2. /\ up' = up /\ pair' = pair /\ recording' = recording BY DEF PersistImport
  <1>3. file' = IF Landed(r) THEN metadataSnapshot(meta) ELSE file BY <1>1, PersistFacts
  <1>4. up BY <1>c DEF OpInv
  <1>5. pair[op.domain].key = op.entry.id /\ pair[op.domain].cert = op.entry.id BY <1>0, <1>c DEF PairInv, PairAt
  <1>l. \A x \in Domains : Listed(metadataSnapshot(meta), x) <=> Manual(meta, x)
    BY SnapshotFacts DEF StoreTypeOK, OpInv
  <1>m. /\ meta[op.domain] = op.entry /\ certs[op.domain] = op.entry.id
        /\ \A x \in Domains \ {op.domain} : meta[x] = op.oldMeta[x]
    BY <1>0, <1>c DEF OpInv
  <1>6. CASE r = "ok"
    <2>1. op' = Idle /\ op'.step = "idle" BY <1>1, <1>6, Common DEF Return
    <2>2. /\ file' = metadataSnapshot(meta) /\ meta' = meta /\ certs' = certs /\ torn' = torn \ {op.domain}
          /\ promised'[op.domain] = {op.entry.id} /\ claimed' = claimed \ {op.domain}
          /\ \A x \in Domains \ {op.domain} : promised'[x] = promised[x]
      BY <1>1, <1>3, <1>6, <1>c DEF Landed, StoreTypeOK
    <2>3. OpInv' BY <1>2, <1>4, <2>1, <2>2 DEF OpInv, Filed, Manual
    <2>4. PairInv' BY <2>1 DEF PairInv
    <2>5. MetaInv' BY <2>1, <2>2 DEF MetaInv, SettledSteps, RemovingSteps, AheadSteps, metadataSnapshot
    <2>6. ASSUME NEW x \in Domains \ (torn' \cup claimed') PROVE Sound(meta, certs[x], pair[x], file, x)'
      <3>1. CASE x = op.domain
        <4>1. Manual(meta, x) BY <1>c, <1>m, <3>1, AbsentFacts DEF Manual
        <4>2. Listed(file', x) /\ Manual(meta', x) BY <4>1, <1>l, <2>2
        <4>3. X509KeyPair(pair'[x]) BY <3>1, <1>2, <1>5, <1>c DEF X509KeyPair
        <4> QED BY <3>1, <4>1, <4>2, <4>3, <1>2, <1>5, <1>m, <1>c, <2>2 DEF Sound, Loads
      <3>2. CASE x # op.domain
        <4>1. Sound(meta, certs[x], pair[x], file, x) BY <3>2, <1>0, <1>c, <2>2 DEF ServeInv
        <4>2. Listed(file, x) <=> Listed(file', x) BY <4>1, <1>4, <1>l, <2>2 DEF Sound
        <4> QED BY <3>2, <4>1, <4>2, <1>2, <1>4, <2>2 DEF Sound, Loads, Manual
      <3> QED BY <3>1, <3>2
    <2>7. ServeInv' BY <2>1, <2>6 DEF ServeInv
    <2> QED BY <2>3, <2>4, <2>5, <2>7
  <1>7. CASE r # "ok"
    <2> DEFINE s == undoStep
    <2>1. /\ op' \in OpRecords /\ op'.step = s /\ op'.domain = op.domain /\ op'.touched = op.touched
          /\ op'.entry = op.entry /\ op'.oldMeta = op.oldMeta /\ op'.oldCert = op.oldCert /\ op'.oldPair = op.oldPair
          /\ s \in {"dropcert", "backkey"} /\ (s = "dropcert" <=> op.oldPair = NoPair)
      <3>1. s \in {"dropcert", "backkey"} /\ (s = "dropcert" <=> op.oldPair = NoPair) BY DEF undoStep
      <3>2. Goto(s) /\ s \in OpSteps BY <3>1, <1>1, <1>7 DEF OpSteps, ImportSteps
      <3> QED BY <1>0, <3>1, <3>2, GotoFacts
    <2> HIDE DEF s
    <2>2. /\ meta' = op.oldMeta /\ certs'[op.domain] = op.oldCert
          /\ \A x \in Domains \ {op.domain} : certs'[x] = certs[x]
      BY <1>0, <1>1, <1>7, RollbackFacts DEF rollback
    <2>3. /\ r = "failed" => torn' = torn /\ file' = file /\ skewed' = skewed
          /\ r = "unsynced" => torn' = torn \cup {op.domain} /\ file' = metadataSnapshot(meta) /\ skewed'
          /\ r \in {"failed", "unsynced"} /\ promised' = promised /\ claimed' = claimed
      BY <1>1, <1>7, <1>3 DEF Landed, Results, StoreTypeOK
    <2>4. OpInv' BY <1>0, <1>c, <1>2, <1>4, <2>1, <2>2 DEF OpInv, RemovingSteps, SettledSteps, ImportSteps, Filed, Manual
    <2>5. PairInv' BY <1>2, <1>5, <2>1, <2>3 DEF PairInv, PairAt
    <2>6. MetaInv' BY <1>0, <2>1, <2>2, <2>3 DEF MetaInv, SettledSteps, RemovingSteps, AheadSteps, metadataSnapshot
    <2>7. ASSUME NEW x \in Domains \ (torn' \cup claimed'), x # op.domain PROVE Sound(meta, certs[x], pair[x], file, x)'
      <3>1. Sound(meta, certs[x], pair[x], file, x) BY <2>7, <1>0, <1>c, <2>3 DEF ServeInv
      <3>2. Listed(file, x) <=> Listed(file', x) BY <3>1, <1>4, <1>l, <2>3 DEF Sound
      <3> QED BY <2>7, <3>1, <3>2, <1>2, <1>4, <1>m, <2>2, <2>3 DEF Sound, Loads, Manual
    <2>8. ASSUME op.domain \notin (torn' \cup claimed') PROVE Sound(op.oldMeta, op.oldCert, op.oldPair, file, op.domain)'
      <3>1. r = "failed" BY <2>8, <2>3
      <3>2. Sound(op.oldMeta, op.oldCert, op.oldPair, file, op.domain)
        BY <2>8, <3>1, <2>3, <1>0, <1>c DEF ServeInv, RemovingSteps
      <3> QED BY <3>1, <3>2, <1>2, <2>1, <2>3 DEF Sound, Loads, Manual, Listed
    <2>9. ServeInv' BY <2>1, <2>7, <2>8, Common DEF ServeInv, RemovingSteps
    <2> QED BY <2>4, <2>5, <2>6, <2>9
  <1> QED BY <1>6, <1>7

(* An import that failed puts the old pair back, or removes the new one.    *)
LEMMA UndoKeeps ==
  ASSUME StoreInv, StoreTypeOK', NEW from, NEW part, NEW v, NEW next, Undo(from, part, v, next),
         \/ from = "backkey" /\ part = "key" /\ v = op.oldPair.key /\ next = "backcert"
         \/ from = "backcert" /\ part = "cert" /\ v = op.oldPair.cert /\ next = "idle"
         \/ from = "dropcert" /\ part = "cert" /\ v = Absent /\ next = "dropkey"
         \/ from = "dropkey" /\ part = "key" /\ v = Absent /\ next = "idle"
  PROVE  OpInv' /\ PairInv' /\ MetaInv' /\ ServeInv'
  <1> USE DEF StoreInv
  <1>0. op \in OpRecords /\ op.step = from BY Common DEF Undo
  <1>c. /\ op # Idle /\ op.domain \in Domains /\ op.oldPair \in Pairs /\ op.entry.id \in Nat
        /\ op.touched = {op.domain} /\ v \in Ids /\ op'.step # "record"
    <2>1. op # Idle /\ op.domain \in Domains /\ op.oldPair \in Pairs /\ op.entry.id \in Nat BY <1>0, Common
    <2>2. op.touched = {op.domain} BY <1>0, <2>1 DEF OpInv
    <2>3. v \in Ids BY <2>1 DEF Pairs, Ids
    <2>4. op'.step # "record" BY <1>0, Common, GotoFacts DEF Undo, Return, OpSteps, ImportSteps
    <2> QED BY <2>1, <2>2, <2>3, <2>4
  <1>1. PICK r \in Results : /\ Put(r, part, v)
                             /\ IF r = "ok" /\ next # "idle" THEN Goto(next) ELSE Return
                             /\ torn' = IF r = "ok" THEN torn ELSE torn \cup {op.domain}
    BY DEF Undo, Removals, Results
  <1>2. /\ up' = up /\ meta' = meta /\ certs' = certs /\ file' = file
        /\ recording' = recording /\ promised' = promised /\ claimed' = claimed /\ skewed' = skewed
    BY DEF Undo
  <1>3. /\ \A x \in Domains \ {op.domain} : pair'[x] = pair[x]
        /\ Landed(r) /\ part = "key" => pair'[op.domain].key = v /\ pair'[op.domain].cert = pair[op.domain].cert
        /\ Landed(r) /\ part = "cert" => pair'[op.domain].cert = v /\ pair'[op.domain].key = pair[op.domain].key
    BY <1>0, <1>c, <1>1, PutFacts
  <1>4. up BY <1>c DEF OpInv
  <1>5. /\ from \in {"backkey", "dropcert"} => pair[op.domain].key = op.entry.id /\ pair[op.domain].cert = op.entry.id
        /\ from = "backcert" => pair[op.domain].key = op.oldPair.key /\ pair[op.domain].cert = op.entry.id
        /\ from = "dropkey" => pair[op.domain].key = op.entry.id /\ pair[op.domain].cert = Absent
        /\ from \in {"backkey", "backcert"} => op.oldPair # NoPair
        /\ from \in {"dropkey", "dropcert"} => op.oldPair = NoPair
    BY <1>0, <1>c DEF PairInv, PairAt
  <1>s. from \in SettledSteps \cap ImportSteps BY DEF SettledSteps, ImportSteps
  <1>m. meta = op.oldMeta /\ certs[op.domain] = op.oldCert BY <1>0, <1>c, <1>s DEF OpInv
  <1>o. \A x \in Domains \ (torn \cup claimed) : x # op.domain => Sound(meta, certs[x], pair[x], file, x)
    BY <1>0, <1>c, <1>s DEF ServeInv, ImportSteps
  <1>w. op.domain \notin (torn \cup claimed) => Sound(op.oldMeta, op.oldCert, op.oldPair, file, op.domain)
    BY <1>0, <1>c, <1>s DEF ServeInv, ImportSteps, RemovingSteps
  <1>6. CASE r = "ok" /\ next # "idle"
    <2>1. /\ op' \in OpRecords /\ op'.step = next /\ op'.domain = op.domain /\ op'.touched = op.touched
          /\ op'.entry = op.entry /\ op'.oldMeta = op.oldMeta /\ op'.oldCert = op.oldCert /\ op'.oldPair = op.oldPair
      BY <1>0, <1>1, <1>6, GotoFacts DEF OpSteps, ImportSteps
    <2>2. torn' = torn /\ Landed(r) /\ next \in {"backcert", "dropkey"} /\ op' # Idle BY <1>1, <1>6, <2>1, Common DEF Landed
    <2>3. OpInv' BY <1>0, <1>c, <1>s, <1>2, <2>1, <2>2 DEF OpInv, RemovingSteps, SettledSteps, ImportSteps, Filed, Manual
    <2>4. PairInv' BY <1>3, <1>5, <2>1, <2>2 DEF PairInv, PairAt
    <2>5. MetaInv' BY <1>0, <1>s, <1>2, <2>1, <2>2 DEF MetaInv, SettledSteps, RemovingSteps, AheadSteps, metadataSnapshot
    <2>6. \A x \in Domains \ (torn' \cup claimed') : x # op.domain => Sound(meta, certs[x], pair[x], file, x)'
      BY <1>o, <1>2, <1>3, <2>2 DEF Sound, Manual, Listed, Loads
    <2>7. op.domain \notin (torn' \cup claimed') => Sound(op.oldMeta, op.oldCert, op.oldPair, file, op.domain)'
      BY <1>w, <1>2, <2>1, <2>2 DEF Sound, Manual, Listed, Loads
    <2>8. ServeInv' BY <2>1, <2>2, <2>6, <2>7 DEF ServeInv, RemovingSteps
    <2> QED BY <2>3, <2>4, <2>5, <2>8
  <1>7. CASE ~(r = "ok" /\ next # "idle")
    <2>1. op' = Idle /\ op'.step = "idle" BY <1>1, <1>7, Common DEF Return
    <2>2. ASSUME op.domain \notin (torn' \cup claimed') PROVE op.domain \notin (torn \cup claimed) /\ pair'[op.domain] = op.oldPair
      <3>1. r = "ok" /\ Landed(r) /\ next = "idle" /\ op.domain \notin (torn \cup claimed) BY <2>2, <1>1, <1>2, <1>7 DEF Landed
      <3>2. pair'[op.domain].key = op.oldPair.key /\ pair'[op.domain].cert = op.oldPair.cert
        BY <3>1, <1>3, <1>5 DEF NoPair
      <3>3. pair'[op.domain] \in Pairs BY <1>c DEF StoreTypeOK
      <3> QED BY <3>1, <3>2, <3>3, <1>c DEF Pairs
    <2>3. OpInv' BY <1>2, <1>4, <2>1 DEF OpInv, Filed, Manual
    <2>4. PairInv' BY <2>1 DEF PairInv
    <2>5. MetaInv' BY <1>0, <1>s, <1>2, <2>1 DEF MetaInv, SettledSteps, RemovingSteps, AheadSteps, metadataSnapshot
    <2>6. torn \subseteq torn' BY <1>1
    <2>7. \A x \in Domains \ (torn' \cup claimed') : x # op.domain => Sound(meta, certs[x], pair[x], file, x)'
      BY <1>o, <1>2, <1>3, <2>6 DEF Sound, Manual, Listed, Loads
    <2>8. ASSUME NEW x \in Domains, x = op.domain, x \notin (torn' \cup claimed') PROVE Sound(meta, certs[x], pair[x], file, x)'
      <3>1. Sound(op.oldMeta, op.oldCert, op.oldPair, file, x) /\ pair'[x] = op.oldPair BY <1>w, <2>2, <2>8
      <3> QED BY <3>1, <2>8, <1>m, <1>2 DEF Sound, Manual, Listed, Loads
    <2>9. ServeInv' BY <2>1, <2>7, <2>8 DEF ServeInv
    <2> QED BY <2>3, <2>4, <2>5, <2>9
  <1> QED BY <1>6, <1>7

(* certs.json without the entry, then the files go.                         *)
LEMMA PersistDeleteKeeps ==
  ASSUME StoreInv, StoreTypeOK', PersistDelete
  PROVE  OpInv' /\ PairInv' /\ MetaInv' /\ ServeInv'
  <1> USE DEF StoreInv
  <1>0. op \in OpRecords /\ op.step = "unlist" BY Common DEF PersistDelete
  <1>c. /\ op # Idle /\ op.domain \in Domains /\ op.oldPair \in Pairs
        /\ op.touched = {op.domain} /\ op.entry \in Entries /\ op.oldMeta \in Metas /\ Filed(op.oldMeta)
    BY <1>0, Common DEF OpInv
  <1>1. PICK r \in Results : PersistDelete!2!(r) BY DEF PersistDelete
  <1>2. /\ up' = up /\ pair' = pair /\ recording' = recording BY DEF PersistDelete
  <1>3. file' = IF Landed(r) THEN metadataSnapshot(meta) ELSE file BY <1>1, PersistFacts
  <1>4. up BY <1>c DEF OpInv
  <1>5. pair[op.domain] = op.oldPair BY <1>0, <1>c DEF PairInv, PairAt
  <1>l. \A x \in Domains : Listed(metadataSnapshot(meta), x) <=> Manual(meta, x)
    BY SnapshotFacts DEF StoreTypeOK, OpInv
  <1>m. /\ meta[op.domain] = Absent /\ certs[op.domain] = Absent
        /\ \A x \in Domains \ {op.domain} : meta[x] = op.oldMeta[x]
    BY <1>0, <1>c DEF OpInv
  <1>o. \A x \in Domains \ (torn \cup claimed) : x # op.domain => Sound(meta, certs[x], pair[x], file, x)
    BY <1>0, <1>c DEF ServeInv
  <1>w. op.domain \notin (torn \cup claimed) => Sound(op.oldMeta, op.oldCert, op.oldPair, file, op.domain)
    BY <1>0, <1>c DEF ServeInv, RemovingSteps
  <1>6. CASE r # "ok"
    <2>1. op' = Idle /\ op'.step = "idle" BY <1>1, <1>6, Common DEF Return
    <2>2. /\ meta' = op.oldMeta /\ certs'[op.domain] = op.oldCert
          /\ \A x \in Domains \ {op.domain} : certs'[x] = certs[x]
      BY <1>0, <1>1, <1>6, RollbackFacts DEF rollback
    <2>3. /\ r = "failed" => torn' = torn /\ file' = file /\ skewed' = skewed
          /\ r = "unsynced" => torn' = torn \cup {op.domain} /\ file' = metadataSnapshot(meta) /\ skewed'
          /\ r \in {"failed", "unsynced"} /\ promised' = promised /\ claimed' = claimed
      BY <1>1, <1>6, <1>3 DEF Landed, Results, StoreTypeOK
    <2>4. OpInv' BY <1>c, <1>2, <1>4, <2>1, <2>2 DEF OpInv, Filed, Manual
    <2>5. PairInv' BY <2>1 DEF PairInv
    <2>6. MetaInv' BY <1>0, <2>1, <2>2, <2>3 DEF MetaInv, SettledSteps, RemovingSteps, AheadSteps, metadataSnapshot
    <2>7. ASSUME NEW x \in Domains \ (torn' \cup claimed'), x # op.domain PROVE Sound(meta, certs[x], pair[x], file, x)'
      <3>1. Sound(meta, certs[x], pair[x], file, x) BY <2>7, <1>o, <2>3
      <3>2. Listed(file, x) <=> Listed(file', x) BY <3>1, <1>4, <1>l, <2>3 DEF Sound
      <3> QED BY <2>7, <3>1, <3>2, <1>2, <1>4, <1>m, <2>2, <2>3 DEF Sound, Loads, Manual
    <2>8. ASSUME NEW x \in Domains \ (torn' \cup claimed'), x = op.domain PROVE Sound(meta, certs[x], pair[x], file, x)'
      <3>1. r = "failed" BY <2>8, <2>3
      <3>2. Sound(op.oldMeta, op.oldCert, op.oldPair, file, x) BY <2>8, <3>1, <2>3, <1>w
      <3> QED BY <2>8, <3>1, <3>2, <1>2, <1>5, <2>2, <2>3 DEF Sound, Loads, Manual, Listed
    <2>9. ServeInv' BY <2>1, <2>7, <2>8 DEF ServeInv
    <2> QED BY <2>4, <2>5, <2>6, <2>9
  <1>7. CASE r = "ok"
    <2>1. /\ file' = metadataSnapshot(meta) /\ meta' = meta /\ certs' = certs /\ skewed' = FALSE
      BY <1>1, <1>3, <1>7 DEF Landed
    <2>2. ~Listed(file', op.domain) BY <1>c, <1>l, <1>m, <2>1 DEF Manual
    <2>3. ASSUME NEW x \in Domains \ (torn \cup claimed), x # op.domain, promised'[x] = promised[x]
          PROVE  Sound(meta, certs[x], pair[x], file, x)'
      <3>1. Sound(meta, certs[x], pair[x], file, x) BY <2>3, <1>o
      <3>2. Listed(file, x) <=> Listed(file', x) BY <3>1, <1>4, <1>l, <2>1 DEF Sound
      <3> QED BY <2>3, <3>1, <3>2, <1>2, <1>4, <2>1 DEF Sound, Loads, Manual
    <2>4. CASE op.entry.source = "manual"
      <3>1. /\ op' \in OpRecords /\ op'.step = "rmcert" /\ op'.domain = op.domain /\ op'.touched = op.touched
            /\ op'.entry = op.entry /\ op'.oldMeta = op.oldMeta /\ op'.oldCert = op.oldCert /\ op'.oldPair = op.oldPair
        BY <1>0, <1>1, <1>7, <2>4, GotoFacts DEF OpSteps, DeleteSteps
      <3>2. torn' = torn /\ claimed' = claimed /\ promised' = promised /\ op' # Idle BY <1>1, <1>7, <2>4, <3>1, Common
      <3>3. OpInv' BY <1>0, <1>c, <1>2, <1>4, <1>m, <2>1, <3>1, <3>2
        DEF OpInv, RemovingSteps, SettledSteps, ImportSteps, Filed, Manual
      <3>4. PairInv' BY <1>2, <1>5, <3>1 DEF PairInv, PairAt
      <3>5. MetaInv' BY <2>1, <3>1 DEF MetaInv, SettledSteps, RemovingSteps, AheadSteps, metadataSnapshot
      <3>6. ASSUME op.domain \notin (torn \cup claimed)
            PROVE  /\ Loads(op.oldPair, Manual(op.oldMeta, op.domain)) \in promised[op.domain]
                   /\ Manual(op.oldMeta, op.domain) => X509KeyPair(op.oldPair) /\ op.oldCert # Absent
                   /\ op.oldCert \in promised[op.domain]
        BY <3>6, <1>w, <1>4 DEF Sound, Loads
      <3>7. ASSUME NEW x \in Domains \ (torn' \cup claimed'), x = op.domain
            PROVE  /\ ~Listed(file', x)
                   /\ Loads(op'.oldPair, Manual(op'.oldMeta, x)) \in promised'[x]
                   /\ Manual(op'.oldMeta, x) => X509KeyPair(op'.oldPair) /\ op'.oldCert # Absent
                   /\ op'.oldCert \in promised'[x]
        BY <3>7, <3>6, <2>2, <3>1, <3>2
      <3>8. ServeInv' BY <2>3, <3>1, <3>2, <3>7 DEF ServeInv, RemovingSteps
      <3> QED BY <3>3, <3>4, <3>5, <3>8
    <2>5. CASE op.entry.source # "manual"
      <3>1. op' = Idle /\ op'.step = "idle" BY <1>1, <1>7, <2>5, Common DEF Return, Deleted
      <3>2. /\ torn' = torn \ {op.domain} /\ claimed' = claimed \ {op.domain} /\ promised'[op.domain] = {Absent}
            /\ \A x \in Domains \ {op.domain} : promised'[x] = promised[x]
        BY <1>1, <1>7, <2>5, <1>c DEF Deleted, StoreTypeOK
      <3>3. OpInv' BY <1>2, <1>4, <2>1, <3>1 DEF OpInv, Filed, Manual
      <3>4. PairInv' BY <3>1 DEF PairInv
      <3>5. MetaInv' BY <2>1, <3>1 DEF MetaInv, SettledSteps, RemovingSteps, AheadSteps, metadataSnapshot
      <3>6. ASSUME NEW x \in Domains, x = op.domain PROVE Sound(meta, certs[x], pair[x], file, x)'
        BY <3>6, <2>1, <2>2, <3>2, <1>m DEF Sound, Loads, Manual
      <3>7. ServeInv' BY <2>3, <3>1, <3>2, <3>6 DEF ServeInv
      <3> QED BY <3>3, <3>4, <3>5, <3>7
    <2> QED BY <2>4, <2>5
  <1> QED BY <1>6, <1>7

(* A file of a deleted certificate is removed, or the deletion is taken     *)
(* back.                                                                    *)
LEMMA RemoveFileKeeps ==
  ASSUME StoreInv, StoreTypeOK', NEW from, NEW part, NEW next, RemoveFile(from, part, next),
         \/ from = "rmcert" /\ part = "cert" /\ next = "rmkey"
         \/ from = "rmkey" /\ part = "key" /\ next = "idle"
  PROVE  OpInv' /\ PairInv' /\ MetaInv' /\ ServeInv'
  <1> USE DEF StoreInv
  <1>0. op \in OpRecords /\ op.step = from BY Common DEF RemoveFile
  <1>c. /\ op # Idle /\ op.domain \in Domains /\ op.oldPair \in Pairs /\ Absent \in Ids
        /\ op.touched = {op.domain} /\ op.oldMeta \in Metas /\ Filed(op.oldMeta)
    BY <1>0, Common DEF OpInv, Ids
  <1>1. PICK r \in Removals(next) : RemoveFile(from, part, next)!2!(r) BY DEF RemoveFile
  <1>r. r \in Results BY DEF Removals, Results
  <1>2. /\ up' = up /\ file' = file /\ recording' = recording /\ skewed' = skewed BY DEF RemoveFile
  <1>3. /\ \A x \in Domains \ {op.domain} : pair'[x] = pair[x]
        /\ ~Landed(r) => pair'[op.domain] = pair[op.domain]
        /\ Landed(r) /\ part = "key" => pair'[op.domain].key = Absent /\ pair'[op.domain].cert = pair[op.domain].cert
        /\ Landed(r) /\ part = "cert" => pair'[op.domain].cert = Absent /\ pair'[op.domain].key = pair[op.domain].key
    BY <1>0, <1>c, <1>r, <1>1, PutFacts
  <1>4. up BY <1>c DEF OpInv
  <1>5. from = "rmcert" => pair[op.domain] = op.oldPair BY <1>0, <1>c DEF PairInv, PairAt
  <1>m. /\ meta[op.domain] = Absent /\ certs[op.domain] = Absent
        /\ \A x \in Domains \ {op.domain} : meta[x] = op.oldMeta[x]
    BY <1>0, <1>c DEF OpInv, RemovingSteps
  <1>o. \A x \in Domains \ (torn \cup claimed) : x # op.domain => Sound(meta, certs[x], pair[x], file, x)
    BY <1>0, <1>c DEF ServeInv
  <1>w. op.domain \notin (torn \cup claimed) =>
          /\ ~Listed(file, op.domain)
          /\ Loads(op.oldPair, Manual(op.oldMeta, op.domain)) \in promised[op.domain]
          /\ Manual(op.oldMeta, op.domain) => X509KeyPair(op.oldPair) /\ op.oldCert # Absent
          /\ op.oldCert \in promised[op.domain]
    BY <1>0, <1>c DEF ServeInv, RemovingSteps
  <1>u. ~Listed(file, op.domain)
    <2>1. file = metadataSnapshot(meta) BY <1>0, <1>4 DEF MetaInv, RemovingSteps
    <2> QED BY <2>1, <1>c, <1>m, SnapshotFacts DEF OpInv, StoreTypeOK, Manual
  <1>f. file = metadataSnapshot(meta) /\ ~skewed BY <1>0, <1>4 DEF MetaInv, RemovingSteps
  <1>6. CASE r = "ok" /\ next # "idle"
    <2>1. /\ op' \in OpRecords /\ op'.step = "rmkey" /\ op'.domain = op.domain /\ op'.touched = op.touched
          /\ op'.entry = op.entry /\ op'.oldMeta = op.oldMeta /\ op'.oldCert = op.oldCert /\ op'.oldPair = op.oldPair
      BY <1>0, <1>1, <1>6, GotoFacts DEF OpSteps, DeleteSteps
    <2>2. /\ torn' = torn /\ claimed' = claimed /\ Landed(r) /\ from = "rmcert" /\ op' # Idle
          /\ meta' = meta /\ certs' = certs /\ promised' = promised
      BY <1>1, <1>6, <2>1, Common DEF Landed
    <2>3. OpInv' BY <1>0, <1>c, <1>2, <1>4, <1>m, <2>1, <2>2
      DEF OpInv, RemovingSteps, SettledSteps, ImportSteps, Filed, Manual
    <2>4. PairInv' BY <1>3, <1>5, <2>1, <2>2 DEF PairInv, PairAt
    <2>5. MetaInv' BY <1>2, <1>f, <2>1, <2>2 DEF MetaInv, SettledSteps, RemovingSteps, AheadSteps, metadataSnapshot
    <2>6. \A x \in Domains \ (torn' \cup claimed') : x # op.domain => Sound(meta, certs[x], pair[x], file, x)'
      BY <1>o, <1>2, <1>3, <2>2 DEF Sound, Manual, Listed, Loads
    <2>7. ASSUME NEW x \in Domains \ (torn' \cup claimed'), x = op.domain
          PROVE  /\ ~Listed(file', x)
                 /\ Loads(op'.oldPair, Manual(op'.oldMeta, x)) \in promised'[x]
                 /\ Manual(op'.oldMeta, x) => X509KeyPair(op'.oldPair) /\ op'.oldCert # Absent
                 /\ op'.oldCert \in promised'[x]
      BY <2>7, <1>w, <1>2, <2>1, <2>2 DEF Listed
    <2>8. ServeInv' BY <2>1, <2>2, <2>6, <2>7 DEF ServeInv, RemovingSteps
    <2> QED BY <2>3, <2>4, <2>5, <2>8
  <1>7. CASE r = "ok" /\ next = "idle"
    <2>1. op' = Idle /\ op'.step = "idle" BY <1>1, <1>7, Common DEF Return, Deleted
    <2>2. /\ torn' = torn \ {op.domain} /\ claimed' = claimed \ {op.domain} /\ promised'[op.domain] = {Absent}
          /\ \A x \in Domains \ {op.domain} : promised'[x] = promised[x]
          /\ meta' = meta /\ certs' = certs
      BY <1>1, <1>7, <1>c DEF Deleted, StoreTypeOK
    <2>3. OpInv' BY <1>2, <1>4, <2>1, <2>2 DEF OpInv, Filed, Manual
    <2>4. PairInv' BY <2>1 DEF PairInv
    <2>5. MetaInv' BY <1>2, <1>f, <2>1, <2>2 DEF MetaInv, SettledSteps, RemovingSteps, AheadSteps, metadataSnapshot
    <2>6. \A x \in Domains \ (torn' \cup claimed') : x # op.domain => Sound(meta, certs[x], pair[x], file, x)'
      BY <1>o, <1>2, <1>3, <2>2 DEF Sound, Manual, Listed, Loads
    <2>7. ASSUME NEW x \in Domains, x = op.domain PROVE Sound(meta, certs[x], pair[x], file, x)'
      BY <2>7, <1>2, <1>u, <2>2, <1>m DEF Sound, Loads, Manual, Listed
    <2>8. ServeInv' BY <2>1, <2>2, <2>6, <2>7 DEF ServeInv
    <2> QED BY <2>3, <2>4, <2>5, <2>8
  <1>8. CASE r # "ok"
    <2>0. /\ rollback /\ Goto("relist") /\ promised' = promised
          /\ claimed' = claimed /\ torn' = IF pair'[op.domain] = op.oldPair THEN torn ELSE torn \cup {op.domain}
      BY <1>1, <1>8
    <2>1. /\ op' \in OpRecords /\ op'.step = "relist" /\ op'.domain = op.domain /\ op'.touched = op.touched
          /\ op'.entry = op.entry /\ op'.oldMeta = op.oldMeta /\ op'.oldCert = op.oldCert /\ op'.oldPair = op.oldPair
      BY <1>0, <2>0, GotoFacts DEF OpSteps, DeleteSteps
    <2>2. /\ meta' = op.oldMeta /\ certs'[op.domain] = op.oldCert
          /\ \A x \in Domains \ {op.domain} : certs'[x] = certs[x]
      BY <1>0, <2>0, RollbackFacts DEF rollback
    <2>i. op' # Idle BY <2>1, Common
    <2>3. OpInv' BY <1>0, <1>c, <1>2, <1>4, <2>1, <2>2
      DEF OpInv, RemovingSteps, SettledSteps, ImportSteps, Filed, Manual
    <2>4. PairInv' BY <2>0, <2>1, <1>c DEF PairInv, PairAt
    <2>5. MetaInv' BY <2>1 DEF MetaInv, SettledSteps, RemovingSteps, AheadSteps
    <2>6. \A x \in Domains \ (torn' \cup claimed') : x # op.domain => Sound(meta, certs[x], pair[x], file, x)'
      BY <1>o, <1>2, <1>3, <1>m, <2>0, <2>2 DEF Sound, Manual, Listed, Loads
    <2>7. ASSUME NEW x \in Domains \ (torn' \cup claimed'), x = op.domain
          PROVE  /\ ~Listed(file', x)
                 /\ Loads(op'.oldPair, Manual(op'.oldMeta, x)) \in promised'[x]
                 /\ Manual(op'.oldMeta, x) => X509KeyPair(op'.oldPair) /\ op'.oldCert # Absent
                 /\ op'.oldCert \in promised'[x]
      BY <2>7, <1>w, <1>2, <2>0, <2>1 DEF Listed
    <2>8. ServeInv' BY <2>1, <2>i, <2>6, <2>7 DEF ServeInv, RemovingSteps
    <2> QED BY <2>3, <2>4, <2>5, <2>8
  <1> QED BY <1>6, <1>7, <1>8

(* The entry of a failed deletion returns to certs.json.                    *)
LEMMA RestoreMetadataKeeps ==
  ASSUME StoreInv, StoreTypeOK', RestoreMetadata
  PROVE  OpInv' /\ PairInv' /\ MetaInv' /\ ServeInv'
  <1> USE DEF StoreInv
  <1>0. op \in OpRecords /\ op.step = "relist" BY Common DEF RestoreMetadata
  <1>c. /\ op # Idle /\ op.domain \in Domains /\ op.oldPair \in Pairs BY <1>0, Common
  <1>1. PICK r \in Results : RestoreMetadata!2!(r) BY DEF RestoreMetadata
  <1>2. /\ up' = up /\ meta' = meta /\ certs' = certs /\ pair' = pair /\ recording' = recording /\ promised' = promised
        /\ claimed' = claimed /\ op' = Idle /\ op'.step = "idle"
    BY Common DEF RestoreMetadata, Return
  <1>3. file' = IF Landed(r) THEN metadataSnapshot(meta) ELSE file BY <1>1, PersistFacts
  <1>4. up BY <1>c DEF OpInv
  <1>m. meta = op.oldMeta /\ certs[op.domain] = op.oldCert BY <1>0, <1>c DEF OpInv
  <1>5. op.domain \in torn \/ pair[op.domain] = op.oldPair BY <1>0, <1>c DEF PairInv, PairAt
  <1>l. \A x \in Domains : Listed(metadataSnapshot(meta), x) <=> Manual(meta, x)
    BY SnapshotFacts DEF StoreTypeOK, OpInv
  <1>o. \A x \in Domains \ (torn \cup claimed) : x # op.domain => Sound(meta, certs[x], pair[x], file, x)
    BY <1>0, <1>c DEF ServeInv
  <1>w. op.domain \notin (torn \cup claimed) =>
          /\ Loads(op.oldPair, Manual(op.oldMeta, op.domain)) \in promised[op.domain]
          /\ Manual(op.oldMeta, op.domain) => X509KeyPair(op.oldPair) /\ op.oldCert # Absent
          /\ op.oldCert \in promised[op.domain]
    BY <1>0, <1>c DEF ServeInv, RemovingSteps
  <1>6. torn' = (IF Landed(r) THEN torn ELSE torn \cup {op.domain}) /\ skewed' = (r = "failed") BY <1>1
  <1>7. OpInv' BY <1>2, <1>4 DEF OpInv, Filed, Manual
  <1>8. PairInv' BY <1>2 DEF PairInv
  <1>9. MetaInv' BY <1>2, <1>3, <1>6 DEF MetaInv, SettledSteps, RemovingSteps, AheadSteps, metadataSnapshot, Landed
  <1>10. ASSUME NEW x \in Domains \ (torn' \cup claimed'), x # op.domain PROVE Sound(meta, certs[x], pair[x], file, x)'
    <2>1. Sound(meta, certs[x], pair[x], file, x) BY <1>10, <1>o, <1>2, <1>6
    <2>2. Listed(file, x) <=> Listed(file', x) BY <2>1, <1>3, <1>4, <1>l DEF Sound
    <2> QED BY <2>1, <2>2, <1>2 DEF Sound, Loads, Manual
  <1>11. ASSUME NEW x \in Domains \ (torn' \cup claimed'), x = op.domain PROVE Sound(meta, certs[x], pair[x], file, x)'
    <2>1. Landed(r) /\ x \notin (torn \cup claimed) BY <1>11, <1>2, <1>6
    <2>2. Listed(file', x) <=> Manual(meta', x) BY <2>1, <1>l, <1>2, <1>3 DEF Manual
    <2> QED BY <2>1, <2>2, <1>11, <1>2, <1>5, <1>m, <1>w DEF Sound, Loads, Manual
  <1>12. ServeInv' BY <1>2, <1>10, <1>11 DEF ServeInv
  <1> QED BY <1>7, <1>8, <1>9, <1>12

(* certs.json with the ACME entry, or the memory as it was.                 *)
LEMMA PersistRecordKeeps ==
  ASSUME StoreInv, StoreTypeOK', PersistRecord
  PROVE  OpInv' /\ PairInv' /\ MetaInv' /\ ServeInv'
  <1> USE DEF StoreInv
  <1>0. op \in OpRecords /\ op.step = "record" BY Common DEF PersistRecord
  <1>c. /\ op # Idle /\ op.touched \subseteq Domains /\ op.oldMeta \in Metas /\ Filed(op.oldMeta)
        /\ op.entry.source = "acme"
    BY <1>0, Common DEF OpInv
  <1>1. PICK r \in Results : PersistRecord!2!(r) BY DEF PersistRecord
  <1>2. /\ up' = up /\ certs' = certs /\ pair' = pair /\ recording' = recording /\ claimed' = claimed
        /\ op' = Idle /\ op'.step = "idle"
    BY Common DEF PersistRecord, Return
  <1>3. file' = IF Landed(r) THEN metadataSnapshot(meta) ELSE file BY <1>1, PersistFacts
  <1>4. up BY <1>c DEF OpInv
  <1>5. /\ torn' = torn \cup (IF r = "unsynced" THEN {d \in op.touched : certs[d] # Absent} ELSE {})
        /\ \A d \in Domains : promised'[d] = IF r = "ok" /\ d \in op.touched THEN promised[d] \cup {Absent} ELSE promised[d]
        /\ meta' = IF r = "ok" THEN meta ELSE op.oldMeta
        /\ r = "ok" => ~skewed'
        /\ r = "unsynced" => skewed'
        /\ r = "failed" => skewed' = skewed
    BY <1>0, <1>1, RollbackFacts DEF StoreTypeOK
  <1>m. /\ \A x \in op.touched : meta[x] = op.entry
        /\ \A x \in Domains \ op.touched : meta[x] = op.oldMeta[x]
    BY <1>0, <1>c DEF OpInv
  <1>l. \A x \in Domains : Listed(metadataSnapshot(meta), x) <=> Manual(meta, x)
    BY SnapshotFacts DEF StoreTypeOK, OpInv
  <1>o. \A x \in Domains \ (torn \cup claimed) : Sound(op.oldMeta, certs[x], pair[x], file, x)
    BY <1>0, <1>c DEF ServeInv
  <1>r. r \in {"ok", "failed", "unsynced"} BY DEF Results
  <1>6. OpInv'
    <2>1. Filed(meta') BY <1>5, <1>c DEF OpInv, Filed
    <2> QED BY <2>1, <1>2, <1>4 DEF OpInv, Filed, Manual
  <1>7. PairInv' BY <1>2 DEF PairInv
  <1>8. MetaInv'
    <2>1. ~skewed' => file' = metadataSnapshot(meta')
      <3>1. CASE r = "ok" BY <3>1, <1>3, <1>5 DEF Landed
      <3>2. CASE r = "failed" BY <3>2, <1>0, <1>3, <1>5 DEF Landed, MetaInv, AheadSteps
      <3>3. CASE r = "unsynced" BY <3>3, <1>5
      <3> QED BY <3>1, <3>2, <3>3, <1>r
    <2> QED BY <2>1, <1>2 DEF MetaInv, RemovingSteps, AheadSteps, metadataSnapshot
  <1>9. ASSUME NEW x \in Domains \ (torn' \cup claimed') PROVE Sound(meta, certs[x], pair[x], file, x)'
    <2>1. Sound(op.oldMeta, certs[x], pair[x], file, x) BY <1>9, <1>o, <1>2, <1>5
    <2>2. CASE x \notin op.touched \/ ~Landed(r)
      <3>1. Listed(file', x) <=> Listed(file, x) BY <2>1, <2>2, <1>3, <1>4, <1>l, <1>m DEF Sound, Manual
      <3>2. Manual(meta', x) <=> Manual(op.oldMeta, x) BY <2>2, <1>5, <1>m DEF Manual, Landed
      <3>3. promised[x] \subseteq promised'[x] BY <1>5
      <3> QED BY <2>1, <3>1, <3>2, <3>3, <1>2 DEF Sound, Loads, Manual
    <2>4. CASE x \in op.touched /\ r = "ok"
      <3>1. ~Manual(meta, x) BY <2>4, <1>m, <1>c DEF Manual
      <3>2. ~Listed(file', x) BY <2>4, <3>1, <1>3, <1>l DEF Landed
      <3>3. ~Manual(meta', x) BY <2>4, <3>1, <1>5
      <3>4. Absent \in promised'[x] /\ certs[x] \in promised'[x] BY <2>1, <2>4, <1>4, <1>5 DEF Sound
      <3> QED BY <3>2, <3>3, <3>4, <1>2 DEF Sound, Loads
    <2>3. CASE x \in op.touched /\ r = "unsynced"
      <3>1. certs[x] = Absent BY <2>3, <1>9, <1>5
      <3>2. ~Manual(op.oldMeta, x) BY <2>1, <3>1, <1>4 DEF Sound
      <3>3. ~Manual(meta, x) BY <2>3, <1>m, <1>c DEF Manual
      <3>4. ~Listed(file', x) BY <2>3, <3>3, <1>3, <1>l DEF Landed
      <3>5. ~Manual(meta', x) BY <3>2, <3>3, <1>5
      <3>6. Absent \in promised'[x] BY <2>1, <2>3, <3>1, <1>2, <1>4, <1>5 DEF Sound
      <3> QED BY <3>1, <3>4, <3>5, <3>6, <1>2 DEF Sound, Loads
    <2> QED BY <2>2, <2>3, <2>4, <1>r DEF Landed
  <1>10. ServeInv' BY <1>2, <1>9 DEF ServeInv
  <1> QED BY <1>6, <1>7, <1>8, <1>10

(* The ACME client hands a certificate over.                                *)
LEMMA ObtainKeeps ==
  ASSUME StoreInv, NEW q \in Requests, Obtain(q)
  PROVE  OpInv' /\ PairInv' /\ MetaInv' /\ ServeInv'
  <1>1. /\ up /\ up' = up /\ meta' = meta /\ certs' = certs /\ file' = file /\ pair' = pair /\ op' = op
        /\ promised' = promised /\ torn' = torn /\ claimed' = claimed /\ skewed' = skewed
        /\ \A e \in recording' : e \in recording \/ e.source = "acme"
    BY DEF Obtain, store, ghosts
  <1>2. OpInv' BY <1>1 DEF StoreInv, OpInv, Filed, Manual
  <1>3. PairInv' BY <1>1 DEF StoreInv, PairInv, PairAt
  <1>4. MetaInv' BY <1>1 DEF StoreInv, MetaInv, metadataSnapshot
  <1>5. ServeInv' BY <1>1 DEF StoreInv, ServeInv, Sound, Loads, Listed, Manual
  <1> QED BY <1>2, <1>3, <1>4, <1>5

(* The crash: what the files say in the middle of an operation.             *)
LEMMA CrashKeeps ==
  ASSUME StoreInv, StoreTypeOK', Crash
  PROVE  OpInv' /\ PairInv' /\ MetaInv' /\ ServeInv'
  <1> USE DEF StoreInv
  <1>1. /\ up /\ ~up' /\ op' = Idle /\ op'.step = "idle" /\ recording' = {} /\ file' = file /\ pair' = pair
        /\ skewed' = skewed /\ \A x \in Domains : meta'[x] = Absent
    BY Common DEF Crash
  <1>2. OpInv' BY <1>1 DEF OpInv, Filed, Manual
  <1>3. PairInv' BY <1>1 DEF PairInv
  <1>4. MetaInv' BY <1>1 DEF MetaInv, RemovingSteps, AheadSteps
  <1>5. ASSUME NEW x \in Domains \ (torn' \cup claimed')
        PROVE  Loads(pair[x], Listed(file, x)) \in promised'[x] /\ (Listed(file, x) => X509KeyPair(pair[x]))
    <2>1. CASE op = Idle
      <3>1. promised' = promised /\ torn' = torn /\ claimed' = claimed BY <2>1 DEF Crash
      <3> QED BY <3>1, <2>1, <1>5 DEF ServeInv, Sound
    <2>2. CASE op # Idle
      <3>0. op \in OpRecords /\ op.domain \in Domains /\ op.oldPair \in Pairs /\ op.entry.id \in Nat
            /\ op.entry.id # Absent /\ pair[op.domain] \in Pairs /\ op.step \in OpSteps
        BY <2>2, Common, OpFacts DEF StoreTypeOK
      <3> DEFINE X == CASE op.step \in ImportSteps -> {op.entry.id}
                        [] op.step \in DeleteSteps -> {Absent}
                        [] OTHER -> {}
      <3>1. promised' = [promised EXCEPT ![op.domain] = @ \cup X] BY <2>2 DEF Crash
      <3>2. /\ op.step \in ImportSteps => op.entry.id \in X
            /\ op.step \in DeleteSteps => Absent \in X
        BY DEF ImportSteps, DeleteSteps
      <3> HIDE DEF X
      <3>3. /\ torn \subseteq torn' /\ claimed' = claimed
            /\ op.domain \notin (torn' \cup claimed') => pair[op.domain] \in {op.oldPair, NoPair} \/ X509KeyPair(pair[op.domain])
        BY <2>2 DEF Crash
      <3>4. /\ promised[x] \subseteq promised'[x]
            /\ x = op.domain => X \subseteq promised'[x]
        BY <3>0, <3>1 DEF StoreTypeOK
      <3>5. x \in Domains \ (torn \cup claimed) BY <1>5, <3>3
      <3>6. CASE x # op.domain \/ op.step = "record"
        <4>1. \E m \in {meta, op.oldMeta} : Sound(m, certs[x], pair[x], file, x) BY <3>5, <3>6, <2>2 DEF ServeInv
        <4> QED BY <4>1, <3>4 DEF Sound
      <3>7. CASE x = op.domain /\ op.step \in ImportSteps
        <4>1. Sound(op.oldMeta, op.oldCert, op.oldPair, file, x)
          BY <3>5, <3>7, <2>2 DEF ServeInv, ImportSteps, RemovingSteps
        <4>2. pair[x] = op.oldPair \/ (X509KeyPair(pair[x]) /\ pair[x].cert = op.entry.id)
          <5>1. PairAt BY <2>2 DEF PairInv
          <5>2. pair[x] \in {op.oldPair, NoPair} \/ X509KeyPair(pair[x]) BY <3>3, <3>7, <1>5
          <5>3. CASE op.step \in {"persist", "backkey", "dropcert"}
            BY <5>1, <5>3, <3>0, <3>7 DEF PairAt, X509KeyPair
          <5>4. CASE op.step = "key" BY <5>1, <5>4, <3>7 DEF PairAt
          <5>5. CASE op.step \in {"cert", "backcert", "dropkey"}
            <6>1. pair[x].key = op.entry.id \/ pair[x].cert = op.entry.id BY <5>1, <5>5, <3>7 DEF PairAt
            <6>2. pair[x] # NoPair BY <6>1, <3>0 DEF NoPair
            <6>3. X509KeyPair(pair[x]) => pair[x].cert = op.entry.id BY <6>1 DEF X509KeyPair
            <6> QED BY <5>2, <6>2, <6>3
          <5> QED BY <5>3, <5>4, <5>5, <3>7 DEF ImportSteps
        <4>3. CASE pair[x] = op.oldPair BY <4>1, <4>3, <3>4 DEF Sound
        <4>4. CASE X509KeyPair(pair[x]) /\ pair[x].cert = op.entry.id
          <5>1. CASE Listed(file, x) BY <5>1, <4>4, <3>2, <3>4, <3>7 DEF Loads
          <5>2. CASE ~Listed(file, x) BY <5>2, <4>1, <3>4 DEF Loads, Sound
          <5> QED BY <5>1, <5>2
        <4> QED BY <4>2, <4>3, <4>4
      <3>8. CASE x = op.domain /\ op.step \in DeleteSteps
        <4>1. Absent \in promised'[x] BY <3>2, <3>4, <3>8
        <4>2. CASE op.step = "unlist"
          <5>1. Sound(op.oldMeta, op.oldCert, op.oldPair, file, x)
            BY <3>5, <3>8, <4>2, <2>2 DEF ServeInv, RemovingSteps
          <5>2. pair[x] = op.oldPair BY <2>2, <3>8, <4>2 DEF PairInv, PairAt
          <5> QED BY <5>1, <5>2, <3>4 DEF Sound
        <4>3. CASE op.step # "unlist"
          <5>1. ~Listed(file, x) BY <3>5, <3>8, <4>3, <2>2 DEF ServeInv, RemovingSteps, DeleteSteps
          <5> QED BY <5>1, <4>1 DEF Loads
        <4> QED BY <4>2, <4>3
      <3> QED BY <3>0, <3>6, <3>7, <3>8 DEF OpSteps
    <2> QED BY <2>1, <2>2
  <1>6. ServeInv' BY <1>1, <1>5 DEF ServeInv, Sound
  <1> QED BY <1>2, <1>3, <1>4, <1>6

(* Load reads certs.json and the pairs at start.                            *)
LEMMA LoadKeeps ==
  ASSUME StoreInv, StoreTypeOK', Load
  PROVE  OpInv' /\ PairInv' /\ MetaInv' /\ ServeInv'
  <1> USE DEF StoreInv
  <1>1. /\ ~up /\ up' /\ op = Idle /\ op' = Idle /\ op'.step = "idle" /\ recording' = recording
        /\ file' = file /\ pair' = pair /\ promised' = promised /\ torn' = torn /\ claimed \subseteq claimed'
    BY Common DEF Load, OpInv
  <1>2. PICK s \in Sortings(file) : meta' = loadedMeta(s) /\ certs' = loadedCerts(s) BY DEF Load
  <1>3. \A x \in Domains : /\ meta'[x] \in file \cup {Absent}
                           /\ meta'[x] # Absent => x \in claims(meta'[x])
    BY <1>2, LoadedFacts DEF StoreTypeOK
  <1>4. ToSet(s) = file BY SortingIsAll DEF StoreTypeOK
  <1>5. \A x \in Domains : certs'[x] = Loads(pair[x], Listed(file, x))
    BY <1>2, <1>4 DEF loadedCerts, Loads, Listed
  <1>6. \A x \in Domains : Manual(meta', x) => meta'[x].domain = x /\ Listed(file, x)
    BY <1>3 DEF Manual, claims, Listed
  <1>7. OpInv' BY <1>1, <1>6 DEF OpInv, Filed, Manual
  <1>8. PairInv' BY <1>1 DEF PairInv
  <1>9. MetaInv' BY <1>1 DEF Load, MetaInv, RemovingSteps, AheadSteps, metadataSnapshot
  <1>10. ASSUME NEW x \in Domains \ (torn' \cup claimed') PROVE Sound(meta, certs[x], pair[x], file, x)'
    <2>1. Sound(meta, certs[x], pair[x], file, x) BY <1>10, <1>1 DEF Load, ServeInv
    <2>2. ASSUME Listed(file, x) PROVE Manual(meta', x)
      <3>1. PICK e \in file : e.domain = x /\ e.source = "manual" BY <2>2 DEF Listed
      <3>2. meta'[x] = e BY <3>1, <1>10 DEF Load
      <3>3. e # Absent BY AbsentFacts DEF StoreTypeOK
      <3> QED BY <3>1, <3>2, <3>3 DEF Manual
    <2>3. X509KeyPair(pair[x]) => pair[x].cert # Absent BY DEF X509KeyPair
    <2> QED BY <2>1, <2>2, <2>3, <1>1, <1>5, <1>6 DEF Sound, Loads, Manual
  <1>11. ServeInv' BY <1>1, <1>10 DEF ServeInv
  <1> QED BY <1>7, <1>8, <1>9, <1>11

-----------------------------------------------------------------------------

(* An empty store.                                                          *)
LEMMA StoreInit == Init => StoreInv
  <1> SUFFICES ASSUME Init PROVE StoreInv OBVIOUS
  <1>1. StoreTypeOK
    <2>1. IsFiniteSet(file) BY FS_EmptySet DEF Init
    <2> QED BY <2>1 DEF Init, StoreTypeOK, Metas, Ids, Pairs, NoPair
  <1>2. op = Idle /\ op.step = "idle" BY DEF Init, Idle
  <1>3. OpInv BY <1>2 DEF Init, OpInv, Filed, Manual
  <1>4. PairInv BY <1>2 DEF PairInv
  <1>5. MetaInv BY <1>2 DEF Init, MetaInv, RemovingSteps, AheadSteps, metadataSnapshot
  <1>6. ServeInv BY <1>2 DEF Init, ServeInv, Sound, Loads, Listed, Manual
  <1> QED BY <1>1, <1>3, <1>4, <1>5, <1>6 DEF StoreInv

(* Every step of the store.                                                 *)
LEMMA StoreStep == StoreInv /\ [Next]_vars => StoreInv'
  <1> SUFFICES ASSUME StoreInv, [Next]_vars PROVE StoreInv' OBVIOUS
  <1>1. CASE UNCHANGED vars
    BY <1>1 DEF vars, store, ghosts, StoreInv, StoreTypeOK, OpInv, PairInv, PairAt, MetaInv, ServeInv,
       Sound, Loads, Listed, Manual, Filed, metadataSnapshot
  <1>2. CASE Next
    <2>t. StoreTypeOK' BY <1>2, TypeStep DEF StoreInv
    <2> DEFINE Rest == OpInv' /\ PairInv' /\ MetaInv' /\ ServeInv'
    <2>1. ASSUME UndoImport PROVE Rest BY <2>1, <2>t, UndoKeeps DEF UndoImport
    <2>2. ASSUME RemovePair PROVE Rest BY <2>2, <2>t, RemoveFileKeeps DEF RemovePair
    <2>3. Rest
      BY <1>2, <2>t, <2>1, <2>2, ImportKeeps, DeleteKeeps, WriteKeyKeeps, WriteCertKeeps, PersistImportKeeps,
         PersistDeleteKeeps, RestoreMetadataKeeps, ObtainKeeps, RecordKeeps, PersistRecordKeeps, CrashKeeps, LoadKeeps
      DEF Next
    <2> QED BY <2>t, <2>3 DEF StoreInv
  <1> QED BY <1>1, <1>2

(* For every set of domains and requests, memory, certs.json and the key    *)
(* pairs stand as the step of the operation under way says.                 *)
THEOREM StoreInvariant == Spec => []StoreInv
  BY StoreInit, StoreStep, PTL DEF Spec

(* When no operation is under way, certs.json lists exactly the entries in  *)
(* memory, whichever file operations failed before (the exceptions are the  *)
(* property's).                                                             *)
THEOREM MetadataMatchesFileHolds == Spec => []MetadataMatchesFile
  <1>1. StoreInv => MetadataMatchesFile
    BY Common DEF StoreInv, MetaInv, MetadataMatchesFile, SettledSteps
  <1> QED BY <1>1, StoreInvariant, PTL

(* A domain serves the certificate of its last acknowledged import, after   *)
(* failed operations, crashes and restarts too, or an ACME certificate      *)
(* recorded since; the exceptions are the property's, torn files and a Load *)
(* that gave the entry up for an ACME certificate of another domain.        *)
THEOREM ServesAcknowledgedHolds == Spec => []ServesAcknowledged
  <1>1. StoreInv => ServesAcknowledged
    BY DEF StoreInv, ServeInv, Sound, ServesAcknowledged
  <1> QED BY <1>1, StoreInvariant, PTL
=============================================================================
