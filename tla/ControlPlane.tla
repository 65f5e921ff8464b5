---------------------------- MODULE ControlPlane ----------------------------
(***************************************************************************)
(* The configuration operations of the control API: PUT of the rules and   *)
(* of the bot settings, reload, start and stop of the bot, over the file   *)
(* of ConfigStore, the bot of BotManager and the engine's rule manager.    *)
(*                                                                         *)
(* reloadMu lets one operation in at a time; job is that operation.  The   *)
(* operator's editor writes the file at any time.  Of the rule manager     *)
(* only the rules it runs (rules) and the outcome of its transaction       *)
(* appear: applied, rolled back, or rollback failed (Mixed).               *)
(***************************************************************************)
EXTENDS BotManager, ConfigStore

CONSTANTS
    RuleSets, Caps,  \* rules and udp_max_sessions of a configuration
    Settings,        \* bot settings with token and chat
    Mixed,           \* the rules running after a rollback that failed
    MaxEdits

VARIABLES
    rules, limit, degraded,
    baseline,   \* bot settings of StartupConfig
    booting,    \* bot settings the start of the daemon has read and not applied
    job,
    edits,
    \* For the properties only: the last document acknowledged and not edited
    \* since; edits of the rules, of the bot settings, the daemon has not
    \* taken over; a bot that could not be put back; a bot the start of the
    \* daemon put in the place of a newer one.
    acked, drift, botDrift, restoreFailed, overtaken

runtimeVars == <<rules, limit, degraded>>
bootVars == <<booting, overtaken>>
ghostVars == <<acked, drift, botDrift, restoreFailed>>
vars == <<storeVars, botVars, runtimeVars, baseline, bootVars, job, edits, ghostVars>>

Docs == [rules : RuleSets, limit : Caps, bot : Settings \cup {Off}]

Lower(m, n) == IF m < n THEN m ELSE n

Init ==
    /\ \E doc \in Docs :
          /\ InitStore(doc)
          /\ rules = doc.rules /\ limit = doc.limit
          /\ baseline = doc.bot /\ booting = {doc.bot}
    /\ InitBot
    /\ degraded = FALSE
    /\ job = None
    /\ edits = 0
    /\ acked = None /\ drift = FALSE /\ botDrift = FALSE
    /\ restoreFailed = FALSE /\ overtaken = FALSE

At(kinds, state) == job # None /\ job.kind \in kinds /\ job.at = state

(* What an operation remembers: the document it read, the one it wants, and  *)
(* the runtime it found.                                                     *)
NewJob(kind, at, revision, cand) ==
    [kind |-> kind, at |-> at, revision |-> revision, src |-> file, cand |-> cand,
     prev |-> limit, before |-> rules, wasOn |-> FALSE, late |-> FALSE, drift |-> drift]

-----------------------------------------------------------------------------
(* PUT: the part the rules and the bot settings share. *)

BuildCandidate(r, l) == [file EXCEPT !.rules = r, !.limit = l]

putRulesConfig(revision, r, l) ==
    /\ job = None
    /\ revisionMatches(revision)
    /\ job' = NewJob("rules", "stage", revision, BuildCandidate(r, l))
    /\ UNCHANGED <<storeVars, botVars, runtimeVars, baseline, bootVars, edits, ghostVars>>

BuildBotCandidate(b) == [file EXCEPT !.bot = b]

putBotConfig(revision, b) ==
    /\ job = None
    /\ revisionMatches(revision)
    /\ job' = NewJob("bot", "stage", revision, BuildBotCandidate(b))
    /\ UNCHANGED <<storeVars, botVars, runtimeVars, baseline, bootVars, edits, ghostVars>>

(* A conflict, or an error writing the temporary file. *)
StageFails ==
    /\ At({"rules", "bot"}, "stage")
    /\ job' = None
    /\ UNCHANGED <<storeVars, botVars, runtimeVars, baseline, bootVars, edits, ghostVars>>

(* A smaller session limit holds before the rules change, a larger one after.*)
tightened(n) == Lower(limit, n)

StageRules ==
    /\ At({"rules"}, "stage") /\ CanStage(job.src)
    /\ Stage
    /\ limit' = tightened(job.cand.limit)
    /\ job' = [job EXCEPT !.at = "begin", !.prev = limit, !.before = rules]
    /\ UNCHANGED <<botVars, rules, degraded, baseline, bootVars, edits, ghostVars>>

StageBot ==
    /\ At({"bot"}, "stage") /\ CanStage(job.src)
    /\ Stage
    /\ job' = [job EXCEPT !.at = "apply", !.wasOn = running]
    /\ UNCHANGED <<botVars, runtimeVars, baseline, bootVars, edits, ghostVars>>

-----------------------------------------------------------------------------
(* Reload: settings that need a restart are refused, among them bot settings *)
(* other than the baseline.                                                  *)

restartRequiredFields == IF file.bot = baseline THEN {} ELSE {"bot"}

Reload ==
    /\ job = None
    /\ restartRequiredFields = {}
    /\ limit' = tightened(file.limit)
    /\ job' = NewJob("reload", "begin", file, file)
    /\ drift' = FALSE
    /\ UNCHANGED <<storeVars, botVars, rules, degraded, baseline, bootVars, edits, acked, botDrift, restoreFailed>>

ReloadOk ==
    /\ At({"reload"}, "begin")
    /\ rules' = job.cand.rules
    /\ limit' = job.cand.limit
    /\ degraded' = FALSE
    /\ job' = None
    /\ UNCHANGED <<storeVars, botVars, baseline, bootVars, edits, ghostVars>>

ReloadFails ==
    /\ At({"reload"}, "begin")
    /\ rules' \in {job.before, Mixed}
    /\ limit' = job.prev
    /\ degraded' = TRUE
    /\ job' = None
    /\ drift' = (drift \/ job.drift)
    /\ UNCHANGED <<storeVars, botVars, baseline, bootVars, edits, acked, botDrift, restoreFailed>>

-----------------------------------------------------------------------------
(* PUT of the rules: BeginApplySnapshotTransactional. *)

BeginOk ==
    /\ At({"rules"}, "begin")
    /\ rules' = job.cand.rules
    /\ job' = [job EXCEPT !.at = "commit"]
    /\ UNCHANGED <<storeVars, botVars, limit, degraded, baseline, bootVars, edits, ghostVars>>

undone_KeepsLimit ==
    /\ rules' \in {job.before, Mixed}
    /\ UNCHANGED limit
    /\ degraded' = (degraded \/ rules' = Mixed)

(* Back to the rules and the limit before, as far as the rollback succeeds.  *)
undone ==
    /\ rules' \in {job.before, Mixed}
    /\ limit' = job.prev
    /\ degraded' = (degraded \/ rules' = Mixed)

BeginFails ==
    /\ At({"rules"}, "begin")
    /\ undone
    /\ Discard
    /\ job' = None
    /\ UNCHANGED <<botVars, baseline, bootVars, edits, ghostVars>>

(* PUT of the bot settings: the candidate must be ready. *)
ApplyBot ==
    /\ At({"bot"}, "apply")
    /\ BotApply(job.cand.bot)
    /\ restoreFailed' = FALSE /\ overtaken' = FALSE
    /\ job' = [job EXCEPT !.at = "commit"]
    /\ UNCHANGED <<storeVars, runtimeVars, baseline, booting, edits, acked, drift, botDrift>>

ApplyBotFails ==
    /\ At({"bot"}, "apply")
    /\ BotApplyFails(job.cand.bot)
    /\ Discard
    /\ job' = None
    /\ UNCHANGED <<runtimeVars, baseline, bootVars, edits, ghostVars>>

-----------------------------------------------------------------------------
(* Commit. *)

CommitLooks ==
    /\ At({"rules", "bot"}, "commit")
    /\ unchangedSinceStage(job.src)
    /\ job' = [job EXCEPT !.at = "rename"]
    /\ UNCHANGED <<storeVars, botVars, runtimeVars, baseline, bootVars, edits, ghostVars>>

(* Commit fails before the rename: a conflict, or an error. *)
NotCommitted(kind) == At({kind}, "commit") \/ At({kind}, "rename")

RulesNotCommitted ==
    /\ NotCommitted("rules")
    /\ undone
    /\ Discard
    /\ job' = None
    /\ UNCHANGED <<botVars, baseline, bootVars, edits, ghostVars>>

(* The bot that ran before runs again, with the settings of the document     *)
(* read; its readiness check may fail this time.                             *)
restoreBotRuntime ==
    IF ~job.wasOn
    THEN BotStop /\ UNCHANGED <<degraded, restoreFailed, overtaken>>
    ELSE \/ /\ BotApply(job.src.bot) /\ overtaken' = FALSE
            /\ UNCHANGED <<degraded, restoreFailed>>
         \/ /\ BotApplyFails(job.src.bot) /\ degraded' = TRUE /\ restoreFailed' = TRUE
            /\ UNCHANGED overtaken

BotNotCommitted ==
    /\ NotCommitted("bot")
    /\ restoreBotRuntime
    /\ Discard
    /\ job' = None
    /\ UNCHANGED <<rules, limit, baseline, booting, edits, acked, drift, botDrift>>

Rename ==
    /\ At({"rules", "bot"}, "rename")
    /\ Replace(job.cand)
    /\ job' = [job EXCEPT !.at = "sync"]
    /\ drift' = (job.kind = "bot" /\ drift)
    /\ UNCHANGED <<botVars, runtimeVars, baseline, bootVars, edits, acked, botDrift, restoreFailed>>

(* What a PUT that replaced the file leaves in the runtime. *)
Committed ==
    /\ job' = None
    /\ IF job.kind = "rules"
       THEN limit' = job.cand.limit /\ UNCHANGED <<baseline, botDrift>>
       ELSE /\ baseline' = job.cand.bot
            /\ botDrift' = (file.bot # job.cand.bot)
            /\ UNCHANGED limit
    /\ UNCHANGED <<botVars, bootVars, rules, edits, drift, restoreFailed>>

SyncOk ==
    /\ At({"rules", "bot"}, "sync")
    /\ syncDirectory
    /\ Committed
    /\ degraded' = (job.kind = "bot" /\ degraded)
    /\ acked' = IF file = job.cand THEN file ELSE None

SyncFails_Acknowledged ==
    /\ At({"rules", "bot"}, "sync")
    /\ Committed
    /\ degraded' = (job.kind = "bot" /\ degraded)
    /\ acked' = IF file = job.cand THEN file ELSE None
    /\ UNCHANGED storeVars

(* The rename stands, its durability is unknown. *)
SyncFails ==
    /\ At({"rules", "bot"}, "sync")
    /\ Committed
    /\ degraded' = TRUE
    /\ UNCHANGED <<storeVars, acked>>

-----------------------------------------------------------------------------
(* POST bot/start and bot/stop; the goroutines; the editor; the process.     *)

handleBotStart ==
    /\ job = None
    /\ BotApply(file.bot)
    /\ restoreFailed' = FALSE /\ overtaken' = FALSE
    /\ UNCHANGED <<storeVars, runtimeVars, baseline, booting, job, edits, acked, drift, botDrift>>

handleBotStop ==
    /\ job = None
    /\ BotStop
    /\ restoreFailed' = FALSE /\ overtaken' = FALSE
    /\ UNCHANGED <<storeVars, runtimeVars, baseline, booting, job, edits, acked, drift, botDrift>>

BotReturns ==
    /\ \E t \in Tasks : BotExits(t)
    /\ UNCHANGED <<storeVars, runtimeVars, baseline, bootVars, job, edits, ghostVars>>

EditConfig(doc) ==
    /\ edits < MaxEdits
    /\ doc # file
    /\ Edit(doc)
    /\ edits' = edits + 1
    /\ acked' = None
    /\ drift' = (drift \/ doc.rules # file.rules \/ doc.limit # file.limit)
    /\ botDrift' = (botDrift \/ doc.bot # file.bot)
    /\ job' = IF At({"rules", "bot"}, "rename") THEN [job EXCEPT !.late = TRUE] ELSE job
    /\ UNCHANGED <<botVars, runtimeVars, baseline, bootVars, restoreFailed>>

(* The settings of the bot that should run: a PUT at work has put its own in.*)
Expected ==
    IF \E state \in {"commit", "rename", "sync"} : At({"bot"}, state) THEN job.cand.bot ELSE baseline

(* The daemon starts its bot only after it serves requests: without          *)
(* reloadMu, and with the settings it read when it began to start.           *)
StartupApply ==
    /\ \E s \in booting :
          \/ /\ BotApply(s)
             /\ restoreFailed' = FALSE /\ overtaken' = (s # Expected)
          \/ BotApplyFails(s) /\ UNCHANGED <<restoreFailed, overtaken>>
    /\ booting' = {}
    /\ UNCHANGED <<storeVars, runtimeVars, baseline, job, edits, acked, drift, botDrift>>

(* The daemon dies and is started again, up to the moment it serves: rules,  *)
(* limit and baseline are those of the file, the bot comes with StartupApply.*)
Restart ==
    /\ StoreCrash
    /\ BotDies
    /\ rules' = file'.rules /\ limit' = file'.limit
    /\ degraded' = FALSE
    /\ baseline' = file'.bot /\ booting' = {file'.bot}
    /\ job' = None
    /\ acked' = IF file' = acked THEN acked ELSE None
    /\ drift' = FALSE /\ botDrift' = FALSE /\ restoreFailed' = FALSE /\ overtaken' = FALSE
    /\ UNCHANGED edits

Operation ==
    \/ \E revision \in Docs \cup {file}, r \in RuleSets, l \in Caps : putRulesConfig(revision, r, l)
    \/ \E revision \in Docs \cup {file}, b \in Settings \cup {Off} : putBotConfig(revision, b)
    \/ StageFails \/ StageRules \/ StageBot
    \/ Reload \/ ReloadOk \/ ReloadFails
    \/ BeginOk \/ BeginFails \/ ApplyBot \/ ApplyBotFails
    \/ CommitLooks \/ RulesNotCommitted \/ BotNotCommitted
    \/ Rename \/ SyncOk \/ SyncFails
    \/ handleBotStart \/ handleBotStop \/ StartupApply \/ BotReturns
    \/ \E doc \in Docs : EditConfig(doc)

Next == Operation \/ Restart

Spec == Init /\ [][Next]_vars

-----------------------------------------------------------------------------
(* Properties. *)

(* Shape of the state; the temporary file of a PUT is there exactly while    *)
(* the PUT is between Stage and the rename, however it ends.                 *)
TypeOK ==
    /\ file \in Docs /\ durable \in Docs
    /\ rules \in RuleSets \cup {Mixed} /\ limit \in Caps
    /\ bot \in Settings \cup {Off} /\ baseline \in Settings \cup {Off}
    /\ booting \subseteq Settings \cup {Off}
    /\ current \in Tasks \cup {None}
    /\ acked \in Docs \cup {None}
    /\ temp <=> job # None /\ job.kind # "reload" /\ job.at \in {"begin", "apply", "commit", "rename"}

(* Between operations a daemon that does not call itself degraded runs the   *)
(* rules and the session limit of its file, edits since aside: every failing *)
(* PUT puts both back, every failing reload says so.  So does the bot that   *)
(* runs, whose settings are those reload compares with (updateBotBaseline):  *)
(* edits, a restore that failed, and a bot that StartupApply put in the      *)
(* place of a newer one aside (RunsAsAcknowledged is about the last).        *)
RuntimeMatchesFile ==
    job = None =>
        /\ ~degraded /\ ~drift => rules = file.rules /\ limit = file.limit
        /\ ~botDrift => baseline = file.bot /\ (running /\ ~restoreFailed /\ ~overtaken => bot = file.bot)

(* controlapi/server.go:224: while the rules of a new configuration are      *)
(* applied and not yet committed, the session limit is the smaller of the    *)
(* old and the new one.                                                      *)
LimitTightWhileApplying ==
    job # None /\ job.kind # "bot" /\ job.at # "stage" => limit = Lower(job.prev, job.cand.limit)

(* The runtime against the file, between operations and during one.          *)
RuntimeInStep == RuntimeMatchesFile /\ LimitTightWhileApplying

(* A PUT replaces exactly the document whose revision its client sent: no    *)
(* other PUT and no edit in between is overwritten.  The exception is an     *)
(* edit between Commit's second look and its rename.                         *)
NoLostUpdate ==
    [][job # None /\ job.at = "rename" /\ job' # None /\ job'.at = "sync" =>
          file = job.revision \/ job.late]_vars

(* A PUT answered 200 is on disk: no power loss takes it back. *)
AckedIsDurable == acked # None => durable = acked

(* README.md:654: a save of the bot settings "persists to `config.yaml`, and *)
(* rebuilds the bot goroutine in place": after a PUT answered 200 and no     *)
(* edit since, a bot that runs has the settings of the acknowledged file.    *)
(* The code does not keep it while the daemon starts: see overtaken.         *)
RunsAsAcknowledged ==
    job = None /\ acked # None /\ running /\ ~botDrift /\ ~restoreFailed => bot = acked.bot
=============================================================================
