-------------------------- MODULE ControlPlaneProofs --------------------------
(***************************************************************************)
(* Proofs about ControlPlane with its clients, for any number of rules,    *)
(* callers, bot goroutines, edits and calls: the runtime stays in step     *)
(* with the configuration file, what was acknowledged is durable, at most  *)
(* one bot polls, no update is lost, and a command for one rule changes    *)
(* that rule alone.                                                        *)
(***************************************************************************)
EXTENDS ManagementClients, FiniteSetTheorems, TLAPS

-----------------------------------------------------------------------------
(* The inductive invariant. *)

States == {"absent", "on", "off"}
AnyRules == [Ids -> States]
Documents == [rules : AnyRules, limit : Caps, bot : Settings \cup {Off}]
Jobs == [kind : {"rules", "bot", "reload"},
         at : {"stage", "begin", "apply", "commit", "rename", "sync"},
         revision : Documents, src : Documents, cand : Documents, prev : Caps,
         before : AnyRules \cup {Mixed},
         wasOn : BOOLEAN, late : BOOLEAN, drift : BOOLEAN]
Calls == [at : {"idle", "read", "put"}, does : {"none", "upsert", "delete", "set"},
          rule : Ids \cup {None}, named : States \cup {None}]
Puts == [caller : Callers, rule : Ids, named : States, etag : Documents, limit : Caps, rules : AnyRules]

(* The configuration, the runtime and the clients have their types, whatever *)
(* rules the clients' commands make of the documents.                        *)
StoreType ==
    /\ file \in Documents /\ durable \in Documents
    /\ moved \in BOOLEAN /\ temp \in BOOLEAN

RuntimeType ==
    /\ rules \in AnyRules \cup {Mixed} /\ limit \in Caps /\ degraded \in BOOLEAN
    /\ baseline \in Settings \cup {Off}
    /\ acked \in Documents \cup {None}
    /\ drift \in BOOLEAN /\ botDrift \in BOOLEAN /\ restoreFailed \in BOOLEAN
    /\ overtaken \in BOOLEAN /\ booting \subseteq Settings \cup {Off}

(* The bot that polls is the current one. *)
BotInv ==
    /\ bot \in Settings \cup {Off} /\ running \in BOOLEAN /\ current \in Tasks \cup {None}
    /\ alive \subseteq Tasks /\ cancelled \subseteq alive
    /\ alive \ cancelled \subseteq {current}
    /\ current # None => current \in alive \ cancelled
    /\ running <=> current # None

(* Which operation passes through which states, and when its temporary file  *)
(* is there.                                                                 *)
JobInv ==
    /\ job = None \/ job \in Jobs
    /\ job # None =>
          /\ job.kind = "rules" => job.at # "apply"
          /\ job.kind = "bot" => job.at # "begin"
          /\ job.kind = "reload" => job.at = "begin"
    /\ temp <=> job # None /\ job.kind # "reload" /\ job.at \in {"begin", "apply", "commit", "rename"}

(* The document an operation read is the one its client named, and its       *)
(* candidate differs from it only where the operation may change it.  Until  *)
(* the rename the file is that document, edits aside.                        *)
SourceInv ==
    job # None /\ job.kind # "reload" =>
        /\ job.src = job.revision
        /\ job.kind = "rules" => job.cand.bot = job.src.bot
        /\ job.kind = "bot" => job.cand.rules = job.src.rules /\ job.cand.limit = job.src.limit
        /\ job.at \notin {"rename", "sync"} => ~job.late
        /\ job.at = "rename" /\ ~job.late => file = job.src
        /\ job.at # "sync" =>
              /\ ~drift => file.rules = job.src.rules /\ file.limit = job.src.limit
              /\ ~botDrift => file.bot = job.src.bot

(* The rules r and the limit l are those of the file, edits aside, in a      *)
(* daemon that is not degraded.                                              *)
Holds(r, l) == ~degraded /\ ~drift => r = file.rules /\ l = file.limit

BotHolds ==
    ~botDrift => baseline = file.bot /\ (running /\ ~restoreFailed /\ ~overtaken => bot = file.bot)

(* What the runtime, or else what the operation remembers, says about the    *)
(* file.                                                                     *)
IdleInv == job = None => Holds(rules, limit) /\ BotHolds

RulesInv ==
    job # None /\ job.kind = "rules" =>
        /\ BotHolds
        /\ job.at = "stage" => Holds(rules, limit)
        /\ job.at \in {"begin", "commit", "rename"} => Holds(job.before, job.prev)
        /\ job.at \in {"commit", "rename", "sync"} => rules = job.cand.rules
        /\ job.at = "sync" /\ ~drift => file.rules = job.cand.rules /\ file.limit = job.cand.limit

BotJobInv ==
    job # None /\ job.kind = "bot" =>
        /\ Holds(rules, limit)
        /\ job.at \in {"stage", "apply"} => BotHolds
        /\ job.at \in {"commit", "rename"} /\ ~botDrift => baseline = file.bot
        /\ job.at \in {"commit", "rename", "sync"} /\ running /\ ~overtaken => bot = job.cand.bot

ReloadInv ==
    job # None /\ job.kind = "reload" =>
        /\ BotHolds
        /\ ~drift => file.rules = job.cand.rules /\ file.limit = job.cand.limit

ControlInv ==
    /\ StoreType /\ RuntimeType /\ BotInv /\ JobInv /\ SourceInv
    /\ IdleInv /\ RulesInv /\ BotJobInv /\ ReloadInv
    /\ LimitTightWhileApplying /\ AckedIsDurable

(* A PUT of a client is the document it read with the one change it names.   *)
PutOK(p) ==
    /\ p \in Puts
    /\ p.limit = p.etag.limit
    /\ p.rules = [p.etag.rules EXCEPT ![p.rule] = p.named]

ClientInv ==
    /\ calls \in [Callers -> Calls]
    /\ \A c \in Callers : calls[c].at # "idle" => calls[c].rule \in Ids /\ calls[c].named \in States
    /\ asked \subseteq [rule : Ids, named : Enabled]
    /\ \A p \in puts : PutOK(p)
    /\ serving # None =>
          /\ PutOK(serving)
          /\ job # None /\ job.kind = "rules"
          /\ job.cand = [job.src EXCEPT !.rules = serving.rules]
          /\ serving.etag = job.src

ClientsInv == ControlInv /\ ClientInv

-----------------------------------------------------------------------------
(* Operations as records. *)

(* None is no operation. *)
LEMMA NoneIsNoJob == None \notin Jobs /\ None \notin Tasks
  BY NilAssumption DEF Jobs, Documents, AnyRules, States

(* The documents of ControlPlane are documents. *)
LEMMA DocsAreDocuments == Docs \subseteq Documents /\ RuleSets \subseteq AnyRules
  BY ClientsAssumption DEF Docs, Documents, AnyRules, States

(* An operation that moves on. *)
LEMMA MovedJob ==
  ASSUME job \in Jobs, NEW a \in {"stage", "begin", "apply", "commit", "rename", "sync"},
         NEW j, j = [job EXCEPT !.at = a]
  PROVE  /\ j \in Jobs /\ j # None /\ j.kind = job.kind /\ j.at = a
         /\ j.revision = job.revision /\ j.src = job.src /\ j.cand = job.cand
         /\ j.prev = job.prev /\ j.before = job.before /\ j.wasOn = job.wasOn
         /\ j.late = job.late /\ j.drift = job.drift
  <1>1. /\ j \in Jobs /\ j.kind = job.kind /\ j.at = a
        /\ j.revision = job.revision /\ j.src = job.src /\ j.cand = job.cand
        /\ j.prev = job.prev /\ j.before = job.before /\ j.wasOn = job.wasOn
        /\ j.late = job.late /\ j.drift = job.drift
    BY DEF Jobs
  <1> QED
    BY <1>1, NoneIsNoJob

-----------------------------------------------------------------------------
(* The bot. *)

(* Each operation of the bot manager keeps its books. *)
LEMMA BotMoves ==
  ASSUME BotInv,
         \/ UNCHANGED botVars
         \/ BotStop
         \/ \E s \in Settings \cup {Off} : BotApply(s) \/ BotApplyFails(s)
         \/ \E t \in Tasks : BotExits(t)
         \/ BotDies
  PROVE  BotInv'
  <1>1. CASE UNCHANGED botVars
    BY <1>1 DEF BotInv, botVars
  <1>2. ASSUME BotStop PROVE BotInv'
    BY <1>2 DEF BotInv, BotStop, stopLocked
  <1>3. ASSUME NEW s \in Settings \cup {Off}, NEW t \in Tasks, BotStart(s, t) PROVE BotInv'
    BY <1>3, NoneIsNoJob DEF BotInv, BotStart, stopLocked
  <1>4. ASSUME NEW t \in Tasks, BotExits(t) PROVE BotInv'
    <2>1. CASE isCurrent(t)
      BY <1>4, <2>1 DEF BotInv, BotExits, isCurrent
    <2>2. CASE ~isCurrent(t)
      BY <1>4, <2>2 DEF BotInv, BotExits, isCurrent
    <2> QED
      BY <2>1, <2>2
  <1>5. CASE BotDies
    BY <1>5 DEF BotInv, BotDies
  <1> QED
    BY <1>1, <1>2, <1>3, <1>4, <1>5 DEF BotApply, BotApplyFails

(* The settings of a bot that runs after an operation of the bot manager. *)
LEMMA AppliedSettings ==
  ASSUME NEW s, BotApply(s)
  PROVE  running' => bot' = s
  BY DEF BotApply, BotStop, BotStart

-----------------------------------------------------------------------------
(* The operations, one by one.                                               *)

OpInv ==
    /\ StoreType /\ RuntimeType /\ JobInv /\ SourceInv
    /\ IdleInv /\ RulesInv /\ BotJobInv /\ ReloadInv
    /\ LimitTightWhileApplying /\ AckedIsDurable

(* A PUT of the rules is taken. *)
LEMMA PutRulesStep ==
  ASSUME ControlInv, NEW revision, NEW r \in AnyRules, NEW l \in Caps, putRulesConfig(revision, r, l)
  PROVE  OpInv'
  <1> DEFINE c == BuildCandidate(r, l)
  <1>1. revision = file /\ revision \in Documents /\ job = None
    BY DEF putRulesConfig, revisionMatches, ControlInv, StoreType
  <1>2. c \in Documents /\ c.bot = file.bot
    BY DEF BuildCandidate, ControlInv, StoreType, Documents
  <1>3. job' = NewJob("rules", "stage", revision, c)
    BY DEF putRulesConfig
  <1>4. UNCHANGED <<storeVars, botVars, runtimeVars, baseline, bootVars, ghostVars>>
    BY DEF putRulesConfig
  <1> HIDE DEF c
  <1>5. /\ job' \in Jobs /\ job'.kind = "rules" /\ job'.at = "stage"
        /\ job'.revision = revision /\ job'.cand = c /\ job'.src = file /\ ~job'.late
    BY <1>1, <1>2, <1>3 DEF ControlInv, StoreType, RuntimeType, NewJob, Jobs
  <1>no. job' # None
    BY <1>5, NoneIsNoJob
  <1> USE DEF bootVars, storeVars, botVars, runtimeVars, ghostVars
  <1>6. StoreType' /\ RuntimeType' /\ JobInv' /\ AckedIsDurable' /\ LimitTightWhileApplying'
    BY <1>1, <1>4, <1>5, <1>no DEF ControlInv, StoreType, RuntimeType, JobInv, AckedIsDurable, LimitTightWhileApplying
  <1>7. SourceInv'
    BY <1>1, <1>2, <1>4, <1>5, <1>no DEF SourceInv
  <1>8. IdleInv' /\ RulesInv' /\ BotJobInv' /\ ReloadInv'
    BY <1>1, <1>4, <1>5, <1>no DEF ControlInv, IdleInv, RulesInv, BotJobInv, ReloadInv, Holds, BotHolds
  <1> QED
    BY <1>6, <1>7, <1>8 DEF OpInv

(* A PUT of the bot settings is taken. *)
LEMMA PutBotStep ==
  ASSUME ControlInv, NEW revision, NEW b \in Settings \cup {Off}, putBotConfig(revision, b)
  PROVE  OpInv'
  <1> DEFINE c == BuildBotCandidate(b)
  <1>1. revision = file /\ revision \in Documents /\ job = None
    BY DEF putBotConfig, revisionMatches, ControlInv, StoreType
  <1>2. c \in Documents /\ c.rules = file.rules /\ c.limit = file.limit
    BY DEF BuildBotCandidate, ControlInv, StoreType, Documents
  <1>3. job' = NewJob("bot", "stage", revision, c)
    BY DEF putBotConfig
  <1>4. UNCHANGED <<storeVars, botVars, runtimeVars, baseline, bootVars, ghostVars>>
    BY DEF putBotConfig
  <1> HIDE DEF c
  <1>5. /\ job' \in Jobs /\ job'.kind = "bot" /\ job'.at = "stage"
        /\ job'.revision = revision /\ job'.cand = c /\ job'.src = file /\ ~job'.late
    BY <1>1, <1>2, <1>3 DEF ControlInv, StoreType, RuntimeType, NewJob, Jobs
  <1>no. job' # None
    BY <1>5, NoneIsNoJob
  <1> USE DEF bootVars, storeVars, botVars, runtimeVars, ghostVars
  <1>6. StoreType' /\ RuntimeType' /\ JobInv' /\ AckedIsDurable' /\ LimitTightWhileApplying'
    BY <1>1, <1>4, <1>5, <1>no DEF ControlInv, StoreType, RuntimeType, JobInv, AckedIsDurable, LimitTightWhileApplying
  <1>7. SourceInv'
    BY <1>1, <1>2, <1>4, <1>5, <1>no DEF SourceInv
  <1>8. IdleInv' /\ RulesInv' /\ BotJobInv' /\ ReloadInv'
    BY <1>1, <1>4, <1>5, <1>no DEF ControlInv, IdleInv, RulesInv, BotJobInv, ReloadInv, Holds, BotHolds
  <1> QED
    BY <1>6, <1>7, <1>8 DEF OpInv

(* A reload begins: edits that were pending are now its candidate. *)
LEMMA ReloadStep ==
  ASSUME ControlInv, Reload
  PROVE  OpInv'
  <1>1. job' = NewJob("reload", "begin", file, file) /\ job = None /\ file \in Documents
    BY DEF Reload, ControlInv, StoreType
  <1>2. /\ job' \in Jobs /\ job'.kind = "reload" /\ job'.at = "begin"
        /\ job'.cand = file /\ job'.prev = limit
    BY <1>1 DEF ControlInv, StoreType, RuntimeType, NewJob, Jobs
  <1>no. job' # None
    BY <1>2, NoneIsNoJob
  <1>3. /\ UNCHANGED <<storeVars, botVars, rules, degraded, baseline, bootVars, acked, botDrift, restoreFailed>>
        /\ drift' = FALSE /\ limit' = Lower(limit, file.limit)
    BY DEF Reload, tightened
  <1> USE DEF bootVars, storeVars, botVars
  <1>4. limit' \in Caps
    BY <1>3, <1>1 DEF Lower, ControlInv, RuntimeType, Documents
  <1>5. StoreType' /\ RuntimeType' /\ JobInv' /\ AckedIsDurable' /\ LimitTightWhileApplying'
    BY <1>1, <1>2, <1>no, <1>3, <1>4
       DEF ControlInv, StoreType, RuntimeType, JobInv, AckedIsDurable, LimitTightWhileApplying
  <1>6. SourceInv' /\ IdleInv' /\ RulesInv' /\ BotJobInv' /\ ReloadInv'
    BY <1>1, <1>2, <1>no, <1>3 DEF ControlInv, SourceInv, IdleInv, RulesInv, BotJobInv, ReloadInv, Holds, BotHolds
  <1> QED
    BY <1>5, <1>6 DEF OpInv

(* An operation ends, with the file as it is. *)
LEMMA EndStep ==
  ASSUME ControlInv, job' = None, StoreType', RuntimeType', temp' = FALSE,
         (Holds(rules, limit))', BotHolds', AckedIsDurable'
  PROVE  OpInv'
  <1>1. JobInv' /\ SourceInv' /\ IdleInv' /\ LimitTightWhileApplying'
    BY DEF JobInv, SourceInv, IdleInv, LimitTightWhileApplying
  <1>2. RulesInv' /\ BotJobInv' /\ ReloadInv'
    BY DEF RulesInv, BotJobInv, ReloadInv
  <1> QED
    BY <1>1, <1>2 DEF OpInv

(* A reload ends. *)
LEMMA ReloadEnds ==
  ASSUME ControlInv, ReloadOk \/ ReloadFails
  PROVE  OpInv'
  <1>1. job # None /\ job \in Jobs /\ job.kind = "reload" /\ job' = None /\ temp = FALSE
    BY DEF ReloadOk, ReloadFails, At, ControlInv, JobInv, StoreType
  <1>2. UNCHANGED <<storeVars, botVars, baseline, bootVars, acked, botDrift, restoreFailed>>
    BY DEF ReloadOk, ReloadFails, ghostVars
  <1> USE DEF bootVars, storeVars, botVars
  <1>3. StoreType' /\ temp' = FALSE /\ AckedIsDurable' /\ BotHolds'
    BY <1>1, <1>2 DEF ControlInv, StoreType, AckedIsDurable, ReloadInv, BotHolds
  <1>4. CASE ReloadOk
    <2>1. /\ rules' = job.cand.rules /\ limit' = job.cand.limit /\ degraded' = FALSE /\ UNCHANGED drift
      BY <1>4 DEF ReloadOk, ghostVars
    <2>2. RuntimeType'
      BY <1>1, <1>2, <2>1 DEF ControlInv, RuntimeType, Jobs, Documents
    <2>3. (Holds(rules, limit))'
      BY <1>1, <1>2, <2>1 DEF ControlInv, ReloadInv, Holds
    <2> QED
      BY <1>1, <1>3, <2>2, <2>3, EndStep
  <1>5. CASE ReloadFails
    <2>1. /\ rules' \in {job.before, Mixed} /\ limit' = job.prev /\ degraded' = TRUE
          /\ drift' = (drift \/ job.drift)
      BY <1>5 DEF ReloadFails
    <2>2. RuntimeType'
      BY <1>1, <1>2, <2>1 DEF ControlInv, RuntimeType, Jobs
    <2>3. (Holds(rules, limit))'
      BY <2>1 DEF Holds
    <2> QED
      BY <1>1, <1>3, <2>2, <2>3, EndStep
  <1> QED
    BY <1>4, <1>5

(* A PUT that could not be staged ends. *)
LEMMA StageFailsStep ==
  ASSUME ControlInv, StageFails
  PROVE  OpInv'
  <1>1. /\ job # None /\ job \in Jobs /\ job.kind \in {"rules", "bot"} /\ job.at = "stage"
        /\ job' = None /\ temp = FALSE
    BY DEF StageFails, At, ControlInv, JobInv, StoreType
  <1>2. UNCHANGED <<storeVars, botVars, runtimeVars, baseline, bootVars, ghostVars>>
    BY DEF StageFails
  <1> USE DEF bootVars, storeVars, botVars, runtimeVars, ghostVars
  <1>3. StoreType' /\ RuntimeType' /\ temp' = FALSE /\ AckedIsDurable'
    BY <1>1, <1>2 DEF ControlInv, StoreType, RuntimeType, AckedIsDurable
  <1>4. (Holds(rules, limit))' /\ BotHolds'
    BY <1>1, <1>2 DEF ControlInv, RulesInv, BotJobInv, Holds, BotHolds
  <1> QED
    BY <1>1, <1>3, <1>4, EndStep

(* A PUT of the rules that applied nothing, or did not reach the rename,     *)
(* puts back what it remembers.                                              *)
LEMMA UndoneStep ==
  ASSUME ControlInv, BeginFails \/ RulesNotCommitted
  PROVE  OpInv'
  <1>1. /\ job # None /\ job \in Jobs /\ job.kind = "rules" /\ job.at \in {"begin", "commit", "rename"}
        /\ job' = None /\ undone /\ Discard
    BY DEF BeginFails, RulesNotCommitted, NotCommitted, At, ControlInv, JobInv
  <1>2. UNCHANGED <<botVars, baseline, bootVars, ghostVars>>
    BY DEF BeginFails, RulesNotCommitted
  <1>3. /\ rules' \in {job.before, Mixed} /\ limit' = job.prev
        /\ degraded' = (degraded \/ rules' = Mixed)
        /\ temp' = FALSE /\ UNCHANGED <<file, durable, moved>>
    BY <1>1 DEF undone, Discard
  <1> USE DEF bootVars, botVars, ghostVars
  <1>4. StoreType' /\ AckedIsDurable' /\ BotHolds'
    BY <1>1, <1>2, <1>3 DEF ControlInv, StoreType, AckedIsDurable, RulesInv, BotHolds
  <1>5. RuntimeType'
    BY <1>1, <1>2, <1>3 DEF ControlInv, RuntimeType, Jobs
  <1>6. (Holds(rules, limit))'
    BY <1>1, <1>2, <1>3 DEF ControlInv, RulesInv, Holds, RuntimeType
  <1> QED
    BY <1>1, <1>3, <1>4, <1>5, <1>6, EndStep

(* A bot whose settings were refused leaves the old one. *)
LEMMA ApplyBotFailsStep ==
  ASSUME ControlInv, ApplyBotFails
  PROVE  OpInv'
  <1>1. /\ job # None /\ job \in Jobs /\ job.kind = "bot" /\ job.at = "apply" /\ job' = None
        /\ UNCHANGED botVars /\ Discard
    BY DEF ApplyBotFails, At, ControlInv, JobInv, BotApplyFails
  <1>2. UNCHANGED <<runtimeVars, baseline, bootVars, ghostVars>>
    BY DEF ApplyBotFails
  <1>3. temp' = FALSE /\ UNCHANGED <<file, durable, moved>>
    BY <1>1 DEF Discard
  <1> USE DEF bootVars, botVars, runtimeVars, ghostVars
  <1>4. StoreType' /\ RuntimeType' /\ AckedIsDurable'
    BY <1>2, <1>3 DEF ControlInv, StoreType, RuntimeType, AckedIsDurable
  <1>5. (Holds(rules, limit))' /\ BotHolds'
    BY <1>1, <1>2, <1>3 DEF ControlInv, BotJobInv, Holds, BotHolds
  <1> QED
    BY <1>1, <1>3, <1>4, <1>5, EndStep

(* A PUT of the bot settings that did not reach the rename restores the bot  *)
(* of the document it read, or says that it could not.                       *)
LEMMA BotNotCommittedStep ==
  ASSUME ControlInv, BotNotCommitted
  PROVE  OpInv'
  <1>1. /\ job # None /\ job \in Jobs /\ job.kind = "bot" /\ job.at \in {"commit", "rename"}
        /\ job' = None /\ restoreBotRuntime /\ Discard
    BY DEF BotNotCommitted, NotCommitted, At, ControlInv, JobInv
  <1>2. UNCHANGED <<rules, limit, baseline, booting, acked, drift, botDrift>>
    BY DEF BotNotCommitted
  <1>3. temp' = FALSE /\ UNCHANGED <<file, durable, moved>>
    BY <1>1 DEF Discard
  <1>4. ~botDrift => baseline = file.bot /\ job.src.bot = file.bot
    BY <1>1 DEF ControlInv, BotJobInv, SourceInv
  <1>5. /\ \/ UNCHANGED <<degraded, restoreFailed>>
           \/ degraded' = TRUE /\ restoreFailed' = TRUE
        /\ overtaken' \in {overtaken, FALSE}
        /\ restoreFailed' = TRUE \/ (running' => bot' = job.src.bot)
    <2>1. CASE ~job.wasOn
      BY <1>1, <2>1 DEF restoreBotRuntime, BotStop
    <2>2. CASE job.wasOn /\ BotApply(job.src.bot) /\ overtaken' = FALSE /\ UNCHANGED <<degraded, restoreFailed>>
      BY <2>2, AppliedSettings
    <2>3. CASE job.wasOn /\ degraded' = TRUE /\ restoreFailed' = TRUE /\ UNCHANGED overtaken
      BY <2>3
    <2> QED
      BY <1>1, <2>1, <2>2, <2>3 DEF restoreBotRuntime
  <1>6. StoreType' /\ RuntimeType' /\ AckedIsDurable'
    BY <1>2, <1>3, <1>5 DEF ControlInv, StoreType, RuntimeType, AckedIsDurable
  <1>7. (Holds(rules, limit))'
    BY <1>1, <1>2, <1>3, <1>5 DEF ControlInv, BotJobInv, Holds
  <1>8. BotHolds'
    BY <1>2, <1>3, <1>4, <1>5 DEF BotHolds
  <1> QED
    BY <1>1, <1>3, <1>6, <1>7, <1>8, EndStep

(* A PUT that replaced the file ends: synced and acknowledged, or not. *)
LEMMA SyncStep ==
  ASSUME ControlInv, SyncOk \/ SyncFails
  PROVE  OpInv'
  <1>1. /\ job # None /\ job \in Jobs /\ job.kind \in {"rules", "bot"} /\ job.at = "sync"
        /\ Committed /\ job' = None /\ temp = FALSE
    BY DEF SyncOk, SyncFails, At, ControlInv, JobInv, StoreType, Committed
  <1>2. /\ UNCHANGED <<botVars, bootVars, rules, drift, restoreFailed>>
        /\ job.kind = "rules" => limit' = job.cand.limit /\ UNCHANGED <<baseline, botDrift>>
        /\ job.kind = "bot" => /\ baseline' = job.cand.bot
                               /\ botDrift' = (file.bot # job.cand.bot)
                               /\ UNCHANGED limit
    BY <1>1 DEF Committed
  <1>3. /\ UNCHANGED <<file, moved, temp>>
        /\ durable' \in {file, durable}
        /\ degraded' = TRUE \/ degraded' = (job.kind = "bot" /\ degraded)
        /\ \/ durable' = file /\ acked' \in {file, None}
           \/ UNCHANGED <<durable, acked>>
    BY DEF SyncOk, SyncFails, syncDirectory, storeVars
  <1> USE DEF bootVars, botVars
  <1>4. StoreType' /\ temp' = FALSE
    BY <1>1, <1>3 DEF ControlInv, StoreType
  <1>5. AckedIsDurable'
    BY <1>3 DEF ControlInv, AckedIsDurable
  <1>6. RuntimeType'
    BY <1>1, <1>2, <1>3 DEF ControlInv, StoreType, RuntimeType, Jobs, Documents
  <1>7. (Holds(rules, limit))'
    BY <1>1, <1>2, <1>3 DEF ControlInv, RulesInv, BotJobInv, Holds
  <1>8. BotHolds'
    <2>1. CASE job.kind = "rules"
      BY <1>1, <1>2, <1>3, <2>1 DEF ControlInv, RulesInv, BotHolds
    <2>2. CASE job.kind = "bot"
      <3>1. botDrift' <=> file.bot # job.cand.bot
        BY <1>2, <2>2
      <3>2. running /\ ~overtaken => bot = job.cand.bot
        BY <1>1, <2>2 DEF ControlInv, BotJobInv
      <3> QED
        BY <1>2, <1>3, <2>2, <3>1, <3>2 DEF BotHolds
    <2> QED
      BY <1>1, <2>1, <2>2
  <1> QED
    BY <1>1, <1>4, <1>5, <1>6, <1>7, <1>8, EndStep

(* A PUT of the rules is staged: what it remembers is the runtime as it was, *)
(* and the session limit is the tighter one from here.                       *)
LEMMA StageRulesStep ==
  ASSUME ControlInv, StageRules
  PROVE  OpInv'
  <1>1. /\ job # None /\ job \in Jobs /\ job.kind = "rules" /\ job.at = "stage" /\ file = job.src
        /\ Stage
    BY DEF StageRules, At, CanStage, ControlInv, JobInv
  <1>2. UNCHANGED <<botVars, rules, degraded, baseline, bootVars, ghostVars>> /\ limit' = Lower(limit, job.cand.limit)
    BY DEF StageRules, tightened
  <1>3. temp' = TRUE /\ moved' = FALSE /\ UNCHANGED <<file, durable>>
    BY <1>1 DEF Stage
  <1>4. /\ job' \in Jobs /\ job'.kind = "rules" /\ job'.at = "begin"
        /\ job'.revision = job.revision /\ job'.src = job.src /\ job'.cand = job.cand
        /\ job'.prev = limit /\ job'.before = rules /\ job'.late = job.late
    BY <1>1 DEF StageRules, Jobs, ControlInv, RuntimeType
  <1>5. job' # None
    BY <1>4, NoneIsNoJob
  <1>6. limit' \in Caps
    BY <1>1, <1>2 DEF Lower, ControlInv, RuntimeType, Jobs, Documents
  <1> USE DEF bootVars, botVars, ghostVars
  <1>7. StoreType' /\ RuntimeType' /\ JobInv' /\ AckedIsDurable' /\ LimitTightWhileApplying'
    BY <1>2, <1>3, <1>4, <1>5, <1>6
       DEF ControlInv, StoreType, RuntimeType, JobInv, AckedIsDurable, LimitTightWhileApplying
  <1>8. SourceInv'
    BY <1>1, <1>2, <1>3, <1>4, <1>5 DEF ControlInv, SourceInv
  <1>9. IdleInv' /\ RulesInv' /\ BotJobInv' /\ ReloadInv'
    BY <1>1, <1>2, <1>3, <1>4, <1>5
       DEF ControlInv, IdleInv, RulesInv, BotJobInv, ReloadInv, Holds, BotHolds
  <1> QED
    BY <1>7, <1>8, <1>9 DEF OpInv

(* A PUT of the bot settings is staged. *)
LEMMA StageBotStep ==
  ASSUME ControlInv, StageBot
  PROVE  OpInv'
  <1>1. /\ job # None /\ job \in Jobs /\ job.kind = "bot" /\ job.at = "stage" /\ Stage
    BY DEF StageBot, At, ControlInv, JobInv
  <1>2. UNCHANGED <<botVars, runtimeVars, baseline, bootVars, ghostVars>>
    BY DEF StageBot
  <1>3. temp' = TRUE /\ moved' = FALSE /\ UNCHANGED <<file, durable>>
    BY <1>1 DEF Stage
  <1>4. /\ job' \in Jobs /\ job'.kind = "bot" /\ job'.at = "apply"
        /\ job'.revision = job.revision /\ job'.src = job.src /\ job'.cand = job.cand
        /\ job'.late = job.late
    BY <1>1 DEF StageBot, Jobs, ControlInv, BotInv
  <1>5. job' # None
    BY <1>4, NoneIsNoJob
  <1> USE DEF bootVars, botVars, runtimeVars, ghostVars
  <1>7. StoreType' /\ RuntimeType' /\ JobInv' /\ AckedIsDurable' /\ LimitTightWhileApplying'
    BY <1>2, <1>3, <1>4, <1>5
       DEF ControlInv, StoreType, RuntimeType, JobInv, AckedIsDurable, LimitTightWhileApplying
  <1>8. SourceInv'
    BY <1>1, <1>2, <1>3, <1>4, <1>5 DEF ControlInv, SourceInv
  <1>9. IdleInv' /\ RulesInv' /\ BotJobInv' /\ ReloadInv'
    BY <1>1, <1>2, <1>3, <1>4, <1>5
       DEF ControlInv, IdleInv, RulesInv, BotJobInv, ReloadInv, Holds, BotHolds
  <1> QED
    BY <1>7, <1>8, <1>9 DEF OpInv

(* The rules of a PUT run. *)
LEMMA BeginOkStep ==
  ASSUME ControlInv, BeginOk
  PROVE  OpInv'
  <1>1. /\ job # None /\ job \in Jobs /\ job.kind = "rules" /\ job.at = "begin"
        /\ job' = [job EXCEPT !.at = "commit"]
    BY DEF BeginOk, At, ControlInv, JobInv
  <1>2. UNCHANGED <<storeVars, botVars, limit, degraded, baseline, bootVars, ghostVars>> /\ rules' = job.cand.rules
    BY DEF BeginOk
  <1>3. /\ job' \in Jobs /\ job' # None /\ job'.kind = "rules" /\ job'.at = "commit"
        /\ job'.revision = job.revision /\ job'.src = job.src /\ job'.cand = job.cand
        /\ job'.prev = job.prev /\ job'.before = job.before /\ job'.late = job.late
    BY <1>1, MovedJob
  <1> USE DEF bootVars, storeVars, botVars, ghostVars
  <1>4. RuntimeType'
    BY <1>1, <1>2 DEF ControlInv, RuntimeType, Jobs, Documents
  <1>5. StoreType' /\ JobInv' /\ AckedIsDurable' /\ LimitTightWhileApplying'
    BY <1>1, <1>2, <1>3 DEF ControlInv, StoreType, JobInv, AckedIsDurable, LimitTightWhileApplying
  <1>6. SourceInv'
    BY <1>1, <1>2, <1>3 DEF ControlInv, SourceInv
  <1>7. IdleInv' /\ RulesInv' /\ BotJobInv' /\ ReloadInv'
    BY <1>1, <1>2, <1>3 DEF ControlInv, IdleInv, RulesInv, BotJobInv, ReloadInv, Holds, BotHolds
  <1> QED
    BY <1>4, <1>5, <1>6, <1>7 DEF OpInv

(* The bot of a PUT runs. *)
LEMMA ApplyBotStep ==
  ASSUME ControlInv, ApplyBot
  PROVE  OpInv'
  <1>1. /\ job # None /\ job \in Jobs /\ job.kind = "bot" /\ job.at = "apply"
        /\ job' = [job EXCEPT !.at = "commit"]
    BY DEF ApplyBot, At, ControlInv, JobInv
  <1>2. /\ UNCHANGED <<storeVars, runtimeVars, baseline, booting, acked, drift, botDrift>> /\ restoreFailed' = FALSE /\ overtaken' = FALSE
        /\ running' => bot' = job.cand.bot
    BY AppliedSettings DEF ApplyBot
  <1>3. /\ job' \in Jobs /\ job' # None /\ job'.kind = "bot" /\ job'.at = "commit"
        /\ job'.revision = job.revision /\ job'.src = job.src /\ job'.cand = job.cand
        /\ job'.prev = job.prev /\ job'.before = job.before /\ job'.late = job.late
    BY <1>1, MovedJob
  <1> USE DEF bootVars, storeVars, runtimeVars
  <1>4. RuntimeType'
    BY <1>1, <1>2 DEF ControlInv, RuntimeType
  <1>5. StoreType' /\ JobInv' /\ AckedIsDurable' /\ LimitTightWhileApplying'
    BY <1>1, <1>2, <1>3 DEF ControlInv, StoreType, JobInv, AckedIsDurable, LimitTightWhileApplying
  <1>6. SourceInv'
    BY <1>1, <1>2, <1>3 DEF ControlInv, SourceInv
  <1>7. IdleInv' /\ RulesInv' /\ BotJobInv' /\ ReloadInv'
    BY <1>1, <1>2, <1>3 DEF ControlInv, IdleInv, RulesInv, BotJobInv, ReloadInv, Holds, BotHolds
  <1> QED
    BY <1>4, <1>5, <1>6, <1>7 DEF OpInv

(* Commit's second look finds the file that was read. *)
LEMMA CommitLooksStep ==
  ASSUME ControlInv, CommitLooks
  PROVE  OpInv'
  <1>1. /\ job # None /\ job \in Jobs /\ job.kind \in {"rules", "bot"} /\ job.at = "commit"
        /\ job' = [job EXCEPT !.at = "rename"] /\ file = job.src
    BY DEF CommitLooks, At, unchangedSinceStage, ControlInv, JobInv
  <1>2. UNCHANGED <<storeVars, botVars, runtimeVars, baseline, bootVars, ghostVars>>
    BY DEF CommitLooks
  <1>3. /\ job' \in Jobs /\ job' # None /\ job'.kind = job.kind /\ job'.at = "rename"
        /\ job'.revision = job.revision /\ job'.src = job.src /\ job'.cand = job.cand
        /\ job'.prev = job.prev /\ job'.before = job.before /\ job'.late = job.late
    BY <1>1, MovedJob
  <1> USE DEF bootVars, storeVars, botVars, runtimeVars, ghostVars
  <1>5. StoreType' /\ RuntimeType' /\ JobInv' /\ AckedIsDurable' /\ LimitTightWhileApplying'
    BY <1>1, <1>2, <1>3
       DEF ControlInv, StoreType, RuntimeType, JobInv, AckedIsDurable, LimitTightWhileApplying
  <1>6. SourceInv'
    BY <1>1, <1>2, <1>3 DEF ControlInv, SourceInv
  <1>7. IdleInv' /\ RulesInv' /\ BotJobInv' /\ ReloadInv'
    BY <1>1, <1>2, <1>3 DEF ControlInv, IdleInv, RulesInv, BotJobInv, ReloadInv, Holds, BotHolds
  <1> QED
    BY <1>5, <1>6, <1>7 DEF OpInv

(* The file is replaced, perhaps over a late edit. *)
LEMMA RenameStep ==
  ASSUME ControlInv, Rename
  PROVE  OpInv'
  <1>1. /\ job # None /\ job \in Jobs /\ job.kind \in {"rules", "bot"} /\ job.at = "rename"
        /\ job' = [job EXCEPT !.at = "sync"]
    BY DEF Rename, At, ControlInv, JobInv
  <1>2. /\ UNCHANGED <<botVars, runtimeVars, baseline, bootVars, acked, botDrift, restoreFailed, durable, moved>>
        /\ file' = job.cand /\ temp' = FALSE
        /\ drift' = (job.kind = "bot" /\ drift)
    BY DEF Rename, Replace
  <1>3. /\ job' \in Jobs /\ job' # None /\ job'.kind = job.kind /\ job'.at = "sync"
        /\ job'.revision = job.revision /\ job'.src = job.src /\ job'.cand = job.cand
        /\ job'.prev = job.prev /\ job'.before = job.before /\ job'.late = job.late
    BY <1>1, MovedJob
  <1> USE DEF bootVars, botVars, runtimeVars
  <1>4. StoreType'
    BY <1>1, <1>2 DEF ControlInv, StoreType, Jobs
  <1>5. RuntimeType' /\ JobInv' /\ AckedIsDurable' /\ LimitTightWhileApplying'
    BY <1>1, <1>2, <1>3 DEF ControlInv, RuntimeType, JobInv, AckedIsDurable, LimitTightWhileApplying
  <1>6. SourceInv'
    BY <1>1, <1>2, <1>3 DEF ControlInv, SourceInv
  <1>7. CASE job.kind = "rules"
    <2>1. BotHolds'
      BY <1>1, <1>2, <1>7 DEF ControlInv, RulesInv, SourceInv, BotHolds
    <2>2. IdleInv' /\ RulesInv' /\ BotJobInv' /\ ReloadInv'
      BY <1>1, <1>2, <1>3, <1>7, <2>1 DEF ControlInv, IdleInv, RulesInv, BotJobInv, ReloadInv
    <2> QED
      BY <1>4, <1>5, <1>6, <2>2 DEF OpInv
  <1>8. CASE job.kind = "bot"
    <2>1. drift' <=> drift
      BY <1>2, <1>8
    <2>2. (Holds(rules, limit))'
      BY <1>1, <1>2, <1>8, <2>1 DEF ControlInv, BotJobInv, SourceInv, Holds
    <2>3. IdleInv' /\ RulesInv' /\ BotJobInv' /\ ReloadInv'
      BY <1>1, <1>2, <1>3, <1>8, <2>2 DEF ControlInv, IdleInv, RulesInv, BotJobInv, ReloadInv
    <2> QED
      BY <1>4, <1>5, <1>6, <2>3 DEF OpInv
  <1> QED
    BY <1>1, <1>7, <1>8

(* The bot is started or stopped by hand. *)
LEMMA BotByHandStep ==
  ASSUME ControlInv, handleBotStart \/ handleBotStop
  PROVE  OpInv'
  <1>1. /\ job = None /\ job' = None /\ temp = FALSE
        /\ UNCHANGED <<storeVars, runtimeVars, baseline, booting, acked, drift, botDrift>>
        /\ restoreFailed' = FALSE /\ overtaken' = FALSE
    BY DEF handleBotStart, handleBotStop, ControlInv, JobInv, StoreType
  <1>2. running' => bot' = file.bot
    BY AppliedSettings DEF handleBotStart, handleBotStop, BotStop
  <1> USE DEF bootVars, storeVars, runtimeVars
  <1>3. StoreType' /\ RuntimeType' /\ temp' = FALSE /\ AckedIsDurable'
    BY <1>1 DEF ControlInv, StoreType, RuntimeType, AckedIsDurable
  <1>4. (Holds(rules, limit))' /\ BotHolds'
    BY <1>1, <1>2 DEF ControlInv, IdleInv, Holds, BotHolds
  <1> QED
    BY <1>1, <1>3, <1>4, EndStep

(* The start of the daemon applies its settings, at any moment. *)
LEMMA StartupApplyStep ==
  ASSUME ControlInv, StartupApply
  PROVE  OpInv'
  <1>1. /\ UNCHANGED <<storeVars, runtimeVars, baseline, job, acked, drift, botDrift>>
        /\ booting' = {} /\ restoreFailed' \in {restoreFailed, FALSE} /\ overtaken' \in BOOLEAN
    <2>1. restoreFailed' \in {restoreFailed, FALSE}
      BY DEF StartupApply
    <2>2. overtaken' \in BOOLEAN
      <3>1. ASSUME NEW s \in booting, overtaken' = (s # Expected) PROVE overtaken' \in BOOLEAN
        BY <3>1, Zenon
      <3>2. ASSUME UNCHANGED overtaken PROVE overtaken' \in BOOLEAN
        BY <3>2 DEF ControlInv, RuntimeType
      <3> QED
        BY <3>1, <3>2 DEF StartupApply
    <2> QED
      BY <2>1, <2>2 DEF StartupApply
  <1>2. \/ UNCHANGED <<bot, running, restoreFailed, overtaken>>
        \/ running' /\ ~overtaken' => bot' = Expected
    <2>1. PICK s \in booting :
             \/ BotApply(s) /\ overtaken' = (s # Expected)
             \/ BotApplyFails(s) /\ UNCHANGED <<restoreFailed, overtaken>>
      BY DEF StartupApply
    <2>2. CASE BotApply(s) /\ overtaken' = (s # Expected)
      <3>1. running' => bot' = s
        BY <2>2, AppliedSettings
      <3>2. ~overtaken' => s = Expected
        BY <2>2, Zenon
      <3> QED
        BY <3>1, <3>2
    <2>3. CASE BotApplyFails(s) /\ UNCHANGED <<restoreFailed, overtaken>>
      BY <2>3 DEF BotApplyFails, botVars
    <2> QED
      BY <2>1, <2>2, <2>3
  <1> USE DEF storeVars, runtimeVars
  <1>3. /\ StoreType' /\ RuntimeType' /\ JobInv' /\ SourceInv'
        /\ AckedIsDurable' /\ LimitTightWhileApplying'
    <2>1. UNCHANGED <<file, durable, moved, temp, rules, limit, degraded>>
      BY <1>1
    <2>2. RuntimeType'
      <3>1. restoreFailed' \in BOOLEAN
        BY <1>1 DEF ControlInv, RuntimeType
      <3> QED
        BY <1>1, <2>1, <3>1 DEF ControlInv, RuntimeType
    <2> QED
      BY <1>1, <2>1, <2>2
         DEF ControlInv, StoreType, JobInv, SourceInv, AckedIsDurable, LimitTightWhileApplying
  <1>4. CASE UNCHANGED <<bot, running, restoreFailed, overtaken>>
    <2>1. IdleInv' /\ RulesInv' /\ BotJobInv' /\ ReloadInv'
      BY <1>1, <1>4 DEF ControlInv, IdleInv, RulesInv, BotJobInv, ReloadInv, Holds, BotHolds
    <2> QED
      BY <1>3, <2>1 DEF OpInv
  <1>5. CASE running' /\ ~overtaken' => bot' = Expected
    <2>1. CASE job # None /\ job.kind = "bot" /\ job.at \in {"commit", "rename", "sync"}
      <3>1. Expected = job.cand.bot
        BY <2>1 DEF Expected, At
      <3> QED
        BY <1>1, <1>3, <1>5, <2>1, <3>1
           DEF OpInv, ControlInv, IdleInv, RulesInv, BotJobInv, ReloadInv, Holds
    <2>2. CASE ~(job # None /\ job.kind = "bot" /\ job.at \in {"commit", "rename", "sync"})
      <3>1. Expected = baseline
        BY <2>2 DEF Expected, At
      <3>2. BotHolds => BotHolds'
        BY <1>1, <1>5, <3>1 DEF BotHolds
      <3> QED
        BY <1>1, <1>3, <2>2, <3>2 DEF OpInv, ControlInv, IdleInv, RulesInv, BotJobInv, ReloadInv, Holds
    <2> QED
      BY <2>1, <2>2
  <1> QED
    BY <1>2, <1>4, <1>5

(* A goroutine of the bot returns. *)
LEMMA BotReturnsStep ==
  ASSUME ControlInv, BotReturns
  PROVE  OpInv'
  <1>1. /\ UNCHANGED <<storeVars, runtimeVars, baseline, bootVars, job, ghostVars>>
        /\ running' => running /\ bot' = bot
    BY DEF BotReturns, BotExits
  <1> USE DEF bootVars, storeVars, runtimeVars, ghostVars
  <1>2. StoreType' /\ RuntimeType' /\ JobInv' /\ SourceInv' /\ AckedIsDurable' /\ LimitTightWhileApplying'
    BY <1>1 DEF ControlInv, StoreType, RuntimeType, JobInv, SourceInv, AckedIsDurable, LimitTightWhileApplying
  <1>3. IdleInv' /\ RulesInv' /\ BotJobInv' /\ ReloadInv'
    BY <1>1 DEF ControlInv, IdleInv, RulesInv, BotJobInv, ReloadInv, Holds, BotHolds
  <1> QED
    BY <1>2, <1>3 DEF OpInv

(* Another program writes the file. *)
LEMMA EditStep ==
  ASSUME ControlInv, NEW doc \in Docs, EditConfig(doc)
  PROVE  OpInv'
  <1>1. /\ file' = doc /\ durable' = doc /\ moved' \in {moved, TRUE} /\ UNCHANGED temp
        /\ acked' = None /\ UNCHANGED <<botVars, runtimeVars, baseline, bootVars, restoreFailed>>
    BY DEF EditConfig, Edit
  <1>2. /\ drift' \in BOOLEAN /\ botDrift' \in BOOLEAN
        /\ ~drift' => ~drift /\ doc.rules = file.rules /\ doc.limit = file.limit
        /\ ~botDrift' => ~botDrift /\ doc.bot = file.bot
    BY DEF EditConfig
  <1>3. job = None => job' = None
    BY DEF EditConfig, At
  <1>4. job # None =>
          /\ job' \in Jobs /\ job' # None /\ job'.kind = job.kind /\ job'.at = job.at
          /\ job'.revision = job.revision /\ job'.src = job.src /\ job'.cand = job.cand
          /\ job'.prev = job.prev /\ job'.before = job.before
          /\ job'.late = job.late \/ (job.at = "rename" /\ job'.late)
          /\ job.kind # "reload" /\ job.at = "rename" => job'.late
    <2> SUFFICES ASSUME job # None
                 PROVE  /\ job' \in Jobs /\ job' # None /\ job'.kind = job.kind /\ job'.at = job.at
                        /\ job'.revision = job.revision /\ job'.src = job.src /\ job'.cand = job.cand
                        /\ job'.prev = job.prev /\ job'.before = job.before
                        /\ job'.late = job.late \/ (job.at = "rename" /\ job'.late)
                        /\ job.kind # "reload" /\ job.at = "rename" => job'.late
      OBVIOUS
    <2>1. job \in Jobs
      BY DEF ControlInv, JobInv
    <2>2. CASE At({"rules", "bot"}, "rename")
      <3>1. job' = [job EXCEPT !.late = TRUE] /\ job.at = "rename"
        BY <2>2 DEF EditConfig, At
      <3>2. /\ job' \in Jobs /\ job'.kind = job.kind /\ job'.at = job.at
            /\ job'.revision = job.revision /\ job'.src = job.src /\ job'.cand = job.cand
            /\ job'.prev = job.prev /\ job'.before = job.before /\ job'.late
        BY <2>1, <3>1 DEF Jobs
      <3> QED
        BY <3>1, <3>2, NoneIsNoJob
    <2>3. CASE ~At({"rules", "bot"}, "rename")
      <3>1. job' = job /\ (job.kind = "reload" \/ job.at # "rename")
        BY <2>1, <2>3 DEF EditConfig, At, Jobs
      <3> QED
        BY <2>1, <3>1
    <2> QED
      BY <2>2, <2>3
  <1> USE DEF bootVars, botVars, runtimeVars
  <1>5. StoreType' /\ RuntimeType' /\ AckedIsDurable'
    BY <1>1, <1>2, DocsAreDocuments DEF ControlInv, StoreType, RuntimeType, AckedIsDurable
  <1>6. JobInv' /\ LimitTightWhileApplying'
    BY <1>1, <1>3, <1>4 DEF ControlInv, JobInv, LimitTightWhileApplying
  <1>7. SourceInv'
    BY <1>1, <1>2, <1>3, <1>4 DEF ControlInv, SourceInv
  <1>8. IdleInv' /\ ReloadInv'
    BY <1>1, <1>2, <1>3, <1>4 DEF ControlInv, IdleInv, ReloadInv, Holds, BotHolds
  <1>9. RulesInv' /\ BotJobInv'
    BY <1>1, <1>2, <1>3, <1>4 DEF ControlInv, RulesInv, BotJobInv, Holds, BotHolds
  <1> QED
    BY <1>5, <1>6, <1>7, <1>8, <1>9 DEF OpInv

(* The daemon dies, perhaps with the machine, and starts again. *)
LEMMA RestartStep ==
  ASSUME ControlInv, Restart
  PROVE  OpInv'
  <1>1. /\ UNCHANGED <<file, durable>> \/ (file' \in {file, durable} /\ durable' = file')
        /\ moved' = FALSE /\ temp' = FALSE
        /\ acked' = (IF file' = acked THEN acked ELSE None)
    BY DEF Restart, StoreCrash
  <1>2. /\ rules' = file'.rules /\ limit' = file'.limit /\ degraded' = FALSE /\ baseline' = file'.bot
        /\ booting' = {file'.bot} /\ overtaken' = FALSE
        /\ drift' = FALSE /\ botDrift' = FALSE /\ restoreFailed' = FALSE /\ job' = None /\ running' = FALSE
    BY DEF Restart, BotDies
  <1>3. StoreType'
    BY <1>1 DEF ControlInv, StoreType
  <1>4. RuntimeType'
    BY <1>1, <1>2, <1>3 DEF ControlInv, StoreType, RuntimeType, Documents
  <1>5. AckedIsDurable'
    BY <1>1 DEF ControlInv, AckedIsDurable
  <1>6. (Holds(rules, limit))' /\ BotHolds'
    BY <1>2 DEF Holds, BotHolds
  <1> QED
    BY <1>1, <1>2, <1>3, <1>4, <1>5, <1>6, EndStep

-----------------------------------------------------------------------------
(* Every step of the daemon. *)

(* What each operation does to the bot. *)
LEMMA BotInvStep ==
  ASSUME ControlInv, Operation \/ Restart
  PROVE  BotInv'
  <1> USE DEF ControlInv
  <1> DEFINE Moves == \/ UNCHANGED botVars
                      \/ BotStop
                      \/ \E s \in Settings \cup {Off} : BotApply(s) \/ BotApplyFails(s)
                      \/ \E t \in Tasks : BotExits(t)
                      \/ BotDies
  <1>1. ASSUME \/ StageFails \/ StageRules \/ StageBot \/ Reload \/ ReloadOk \/ ReloadFails
               \/ BeginOk \/ BeginFails \/ CommitLooks \/ RulesNotCommitted \/ Rename
        PROVE  UNCHANGED botVars
    BY <1>1 DEF StageFails, StageRules, StageBot, Reload, ReloadOk, ReloadFails, BeginOk, BeginFails,
                CommitLooks, RulesNotCommitted, Rename
  <1>2. ASSUME \/ SyncOk \/ SyncFails
               \/ \E revision \in Docs \cup {file}, r \in RuleSets, l \in Caps : putRulesConfig(revision, r, l)
               \/ \E revision \in Docs \cup {file}, b \in Settings \cup {Off} : putBotConfig(revision, b)
               \/ \E doc \in Docs : EditConfig(doc)
        PROVE  UNCHANGED botVars
    BY <1>2 DEF SyncOk, SyncFails, Committed, putRulesConfig, putBotConfig, EditConfig
  <1>3. ASSUME ApplyBot \/ ApplyBotFails \/ BotNotCommitted PROVE Moves
    <2>1. job \in Jobs
      BY <1>3 DEF ApplyBot, ApplyBotFails, BotNotCommitted, NotCommitted, At, JobInv
    <2>2. job.cand.bot \in Settings \cup {Off} /\ job.src.bot \in Settings \cup {Off}
      BY <2>1 DEF Jobs, Documents
    <2> QED
      BY <1>3, <2>2 DEF ApplyBot, ApplyBotFails, BotNotCommitted, restoreBotRuntime
  <1>4. ASSUME handleBotStart \/ handleBotStop \/ StartupApply \/ BotReturns \/ Restart PROVE Moves
    <2>1. file.bot \in Settings \cup {Off} /\ booting \subseteq Settings \cup {Off}
      BY DEF StoreType, RuntimeType, Documents
    <2> QED
      BY <1>4, <2>1 DEF handleBotStart, handleBotStop, StartupApply, BotReturns, Restart
  <1>5. Moves
    <2> HIDE DEF Moves
    <2>1. UNCHANGED botVars => Moves
      BY DEF Moves
    <2> QED
      BY <1>1, <1>2, <1>3, <1>4, <2>1, Zenon DEF Operation
  <1> QED
    BY <1>5, BotMoves

(* The operations keep the invariant. *)
LEMMA OperationStep ==
  ASSUME ControlInv, Operation \/ Restart
  PROVE  ControlInv'
  <1>1. OpInv'
    <2>1. ASSUME NEW revision, NEW r \in RuleSets, NEW l \in Caps, putRulesConfig(revision, r, l) PROVE OpInv'
      BY <2>1, PutRulesStep, DocsAreDocuments
    <2>2. ASSUME NEW revision, NEW b \in Settings \cup {Off}, putBotConfig(revision, b) PROVE OpInv'
      BY <2>2, PutBotStep
    <2>3. ASSUME NEW doc \in Docs, EditConfig(doc) PROVE OpInv'
      BY <2>3, EditStep
    <2> QED
      BY <2>1, <2>2, <2>3, StageFailsStep, StageRulesStep, StageBotStep, ReloadStep, ReloadEnds, BeginOkStep,
         UndoneStep, ApplyBotStep, ApplyBotFailsStep, CommitLooksStep, BotNotCommittedStep, RenameStep, SyncStep,
         BotByHandStep, StartupApplyStep, BotReturnsStep, RestartStep, Zenon DEF Operation
  <1>2. BotInv'
    BY BotInvStep
  <1> QED
    BY <1>1, <1>2 DEF OpInv, ControlInv

(* And it holds when the daemon starts. *)
LEMMA ControlInit == Init => ControlInv
  <1> SUFFICES ASSUME Init PROVE ControlInv
    OBVIOUS
  <1>1. PICK doc \in Docs : /\ InitStore(doc) /\ rules = doc.rules /\ limit = doc.limit /\ baseline = doc.bot
                         /\ booting = {doc.bot}
    BY DEF Init
  <1>2. doc \in Documents
    BY DocsAreDocuments
  <1>3. /\ file = doc /\ durable = doc /\ moved = FALSE /\ temp = FALSE
        /\ job = None /\ acked = None /\ degraded = FALSE
        /\ drift = FALSE /\ botDrift = FALSE /\ restoreFailed = FALSE /\ overtaken = FALSE
    BY <1>1 DEF Init, InitStore
  <1>4. /\ bot = Off /\ running = FALSE /\ current = None /\ alive = {} /\ cancelled = {}
    BY DEF Init, InitBot
  <1>5. StoreType /\ RuntimeType
    BY <1>1, <1>2, <1>3 DEF StoreType, RuntimeType, Documents
  <1>6. BotInv
    BY <1>4 DEF BotInv
  <1>7. JobInv /\ SourceInv /\ LimitTightWhileApplying /\ AckedIsDurable
    BY <1>3 DEF JobInv, SourceInv, LimitTightWhileApplying, AckedIsDurable
  <1>8. IdleInv /\ RulesInv /\ BotJobInv /\ ReloadInv
    BY <1>1, <1>3, <1>4 DEF IdleInv, RulesInv, BotJobInv, ReloadInv, Holds, BotHolds
  <1> QED
    BY <1>5, <1>6, <1>7, <1>8 DEF ControlInv

(* Steps that leave the daemon alone. *)
LEMMA ControlStutter ==
  ASSUME ControlInv, UNCHANGED vars
  PROVE  ControlInv'
  <1> USE DEF vars, storeVars, botVars, bootVars, runtimeVars, ghostVars
  <1>1. StoreType' /\ RuntimeType' /\ BotInv' /\ JobInv' /\ SourceInv'
    BY DEF ControlInv, StoreType, RuntimeType, BotInv, JobInv, SourceInv
  <1>2. IdleInv' /\ RulesInv' /\ BotJobInv' /\ ReloadInv' /\ LimitTightWhileApplying' /\ AckedIsDurable'
    BY DEF ControlInv, IdleInv, RulesInv, BotJobInv, ReloadInv, LimitTightWhileApplying, AckedIsDurable,
           Holds, BotHolds
  <1> QED
    BY <1>1, <1>2 DEF ControlInv

-----------------------------------------------------------------------------
(* The clients. *)

(* An operation that goes on is the same operation. *)
LEMMA SameJob ==
  ASSUME ControlInv, Operation, job # None, job' # None
  PROVE  job'.kind = job.kind /\ job'.src = job.src /\ job'.cand = job.cand
  <1> DEFINE Same == job'.kind = job.kind /\ job'.src = job.src /\ job'.cand = job.cand
  <1>1. job \in Jobs
    BY DEF ControlInv, JobInv
  <1>2. ASSUME StageRules \/ StageBot \/ BeginOk \/ ApplyBot \/ CommitLooks \/ Rename PROVE Same
    BY <1>1, <1>2 DEF StageRules, StageBot, BeginOk, ApplyBot, CommitLooks, Rename, Jobs
  <1>3. ASSUME NEW doc, EditConfig(doc) PROVE Same
    BY <1>1, <1>3 DEF EditConfig, Jobs
  <1>4. ASSUME BotReturns \/ StartupApply PROVE Same
    BY <1>4 DEF BotReturns, StartupApply
  <1>5. ASSUME \/ StageFails \/ ReloadOk \/ ReloadFails \/ BeginFails \/ ApplyBotFails \/ RulesNotCommitted
               \/ BotNotCommitted \/ SyncOk \/ SyncFails
        PROVE  job' = None
    BY <1>5 DEF StageFails, ReloadOk, ReloadFails, BeginFails, ApplyBotFails, RulesNotCommitted,
                BotNotCommitted, SyncOk, SyncFails, Committed
  <1>6. ASSUME \/ Reload \/ handleBotStart \/ handleBotStop
               \/ \E revision \in Docs \cup {file}, r \in RuleSets, l \in Caps : putRulesConfig(revision, r, l)
               \/ \E revision \in Docs \cup {file}, b \in Settings \cup {Off} : putBotConfig(revision, b)
        PROVE  job = None
    BY <1>6 DEF Reload, handleBotStart, handleBotStop, putRulesConfig, putBotConfig
  <1> HIDE DEF Same
  <1>7. Same
    BY <1>2, <1>3, <1>4, <1>5, <1>6, Zenon DEF Operation
  <1> QED
    BY <1>7 DEF Same

(* What a caller keeps is a call, idle after it was answered. *)
LEMMA NoCallIsCall == NoCall \in Calls /\ NoCall.at = "idle"
  BY DEF NoCall, Calls

(* The part of the clients that concerns their calls. *)
CallInv ==
    /\ calls \in [Callers -> Calls]
    /\ \A c \in Callers : calls[c].at # "idle" => calls[c].rule \in Ids /\ calls[c].named \in States

(* A call ends. *)
LEMMA CallEnds ==
  ASSUME CallInv, NEW c, calls' = [calls EXCEPT ![c] = NoCall]
  PROVE  CallInv'
  BY NoCallIsCall DEF CallInv

(* A call begins. *)
LEMMA CallBegins ==
  ASSUME CallInv, NEW c \in Callers, NEW does \in {"upsert", "delete", "set"}, NEW i \in Ids,
         NEW v \in States, Begin(c, does, i, v)
  PROVE  CallInv'
  <1> DEFINE new == [at |-> "read", does |-> does, rule |-> i, named |-> v]
  <1>1. new \in Calls /\ new.rule \in Ids /\ new.named \in States
    BY DEF Calls
  <1>2. calls' = [calls EXCEPT ![c] = new]
    BY DEF Begin
  <1> HIDE DEF new
  <1> QED
    BY <1>1, <1>2 DEF CallInv

(* The clients' own steps. *)
LEMMA CallSteps ==
  ASSUME ClientsInv, NEW c \in Callers, ToolCall(c) \/ handleCallback(c) \/ GiveUp(c)
  PROVE  ClientInv' /\ UNCHANGED vars
  <1>1. CallInv
    BY DEF ClientsInv, ClientInv, CallInv
  <1>2. CASE ToolCall(c)
    <2>1. UNCHANGED <<vars, asked, puts, serving>> /\ job' = job
      BY <1>2 DEF ToolCall, vars
    <2>2. CallInv'
      <3>1. PICK does \in {"upsert", "delete", "set"}, i \in Ids, v \in States : Begin(c, does, i, v)
        BY <1>2 DEF ToolCall, upsertForwardingRule, deleteForwardingRule, setForwardingRuleEnabled,
                    buildUpsertRule, Enabled, States
      <3> QED
        BY <1>1, <3>1, CallBegins
    <2> QED
      BY <2>1, <2>2 DEF ClientsInv, ClientInv, CallInv, PutOK
  <1>3. CASE handleCallback(c)
    <2>1. /\ UNCHANGED <<vars, puts, serving>> /\ job' = job
      BY <1>3 DEF handleCallback, vars
    <2>2. PICK q \in asked : Begin(c, "set", q.rule, q.named) /\ asked' \in {asked, asked \ {q}}
      BY <1>3 DEF handleCallback
    <2>3. q.rule \in Ids /\ q.named \in States
      BY DEF ClientsInv, ClientInv, Enabled, States
    <2>4. CallInv'
      BY <1>1, <2>2, <2>3, CallBegins
    <2>5. asked' \subseteq [rule : Ids, named : Enabled]
      BY <2>2 DEF ClientsInv, ClientInv
    <2> QED
      BY <2>1, <2>4, <2>5 DEF ClientsInv, ClientInv, CallInv, PutOK
  <1>4. CASE GiveUp(c)
    <2>1. UNCHANGED <<vars, asked, puts, serving>> /\ job' = job
      BY <1>4 DEF GiveUp, vars
    <2>2. CallInv'
      BY <1>1, <1>4, CallEnds DEF GiveUp
    <2> QED
      BY <2>1, <2>2 DEF ClientsInv, ClientInv, CallInv, PutOK
  <1> QED
    BY <1>2, <1>3, <1>4

(* The bot asks. *)
LEMMA QuestionStep ==
  ASSUME ClientsInv, Question
  PROVE  ClientInv' /\ UNCHANGED vars
  <1>1. UNCHANGED <<vars, calls, puts, serving>> /\ job' = job
    BY DEF Question, vars
  <1>2. asked' \subseteq [rule : Ids, named : Enabled]
    BY DEF Question, handleStop, handleStartRule, handleToggle, Ask, Enabled, ClientsInv, ClientInv
  <1> QED
    BY <1>1, <1>2 DEF ClientsInv, ClientInv, PutOK

(* A client reads the configuration and sends its draft of it. *)
LEMMA MutateStep ==
  ASSUME ClientsInv, NEW c \in Callers, mutateRule(c)
  PROVE  ClientInv' /\ UNCHANGED vars
  <1>1. UNCHANGED <<vars, asked, serving>> /\ job' = job /\ calls[c].at = "read"
    BY DEF mutateRule, vars
  <1>2. CallInv
    BY DEF ClientsInv, ClientInv, CallInv
  <1>3. calls[c].rule \in Ids /\ calls[c].named \in States
    BY <1>1, <1>2 DEF CallInv
  <1>4. PutOK(draft(c))
    <2>1. file \in Documents /\ file.rules \in AnyRules /\ file.limit \in Caps
      BY DEF ClientsInv, ControlInv, StoreType, Documents
    <2>2. [file.rules EXCEPT ![calls[c].rule] = calls[c].named] \in AnyRules
      BY <1>3, <2>1 DEF AnyRules
    <2>3. draft(c) = [caller |-> c, rule |-> calls[c].rule, named |-> calls[c].named, etag |-> file,
                      limit |-> file.limit, rules |-> [file.rules EXCEPT ![calls[c].rule] = calls[c].named]]
      BY DEF draft, getRulesConfig
    <2> QED
      BY <1>3, <2>1, <2>2, <2>3 DEF PutOK, Puts
  <1>5. CASE calls' = [calls EXCEPT ![c] = NoCall] /\ UNCHANGED puts
    <2>1. CallInv'
      BY <1>2, <1>5, CallEnds
    <2> QED
      BY <1>1, <1>5, <2>1 DEF ClientsInv, ClientInv, CallInv, PutOK
  <1>6. CASE calls' = [calls EXCEPT ![c].at = "put"] /\ puts' = puts \cup {draft(c)}
    <2>1. CallInv'
      BY <1>2, <1>3, <1>6 DEF CallInv, Calls
    <2>2. \A p \in puts' : PutOK(p)
      BY <1>4, <1>6 DEF ClientsInv, ClientInv
    <2> QED
      BY <1>1, <2>1, <2>2 DEF ClientsInv, ClientInv, CallInv, PutOK
  <1> QED
    BY <1>5, <1>6 DEF mutateRule, Apply

(* The daemon takes a PUT. *)
LEMMA TakePutStep ==
  ASSUME ClientsInv, NEW p \in puts, TakePut(p)
  PROVE  ClientsInv'
  <1>1. PutOK(p) /\ p \in Puts
    BY DEF ClientsInv, ClientInv, PutOK
  <1>2. p.rules \in AnyRules /\ p.limit \in Caps
    BY <1>1 DEF Puts
  <1>3. putRulesConfig(p.etag, p.rules, p.limit) /\ UNCHANGED <<calls, asked>> /\ serving' = p /\ puts' = puts \ {p}
    BY DEF TakePut
  <1>4. OpInv'
    BY <1>2, <1>3, PutRulesStep DEF ClientsInv
  <1>5. BotInv'
    BY <1>3, BotMoves DEF putRulesConfig, ClientsInv, ControlInv
  <1>6. ControlInv'
    BY <1>4, <1>5 DEF OpInv, ControlInv
  <1>7. /\ job' # None /\ job'.kind = "rules" /\ job'.src = p.etag
        /\ job'.cand = [p.etag EXCEPT !.rules = p.rules, !.limit = p.limit]
    <2>1. job' = NewJob("rules", "stage", p.etag, BuildCandidate(p.rules, p.limit)) /\ file = p.etag
      BY <1>3 DEF putRulesConfig, revisionMatches
    <2>2. job' = None \/ job' \in Jobs
      BY <1>6 DEF ControlInv, JobInv
    <2>3. file \in Documents /\ BuildCandidate(p.rules, p.limit) \in Documents
      BY <1>2 DEF ClientsInv, ControlInv, StoreType, Documents, BuildCandidate
    <2>4. NewJob("rules", "stage", p.etag, BuildCandidate(p.rules, p.limit)) \in Jobs
      BY <2>1, <2>3 DEF NewJob, Jobs, ClientsInv, ControlInv, RuntimeType
    <2> QED
      BY <2>1, <2>4, NoneIsNoJob DEF NewJob, BuildCandidate
  <1>8. job'.cand = [job'.src EXCEPT !.rules = p.rules]
    BY <1>1, <1>7 DEF PutOK, Puts, Documents
  <1> QED
    BY <1>1, <1>3, <1>6, <1>7, <1>8 DEF ClientsInv, ClientInv, PutOK

(* The daemon refuses a PUT. *)
LEMMA RefusePutStep ==
  ASSUME ClientsInv, NEW p \in puts, RefusePut(p)
  PROVE  ClientInv' /\ UNCHANGED vars
  <1>1. UNCHANGED <<vars, asked, serving>> /\ job' = job /\ puts' = puts \ {p}
    BY DEF RefusePut, vars
  <1>2. CallInv'
    BY CallEnds DEF RefusePut, answered, ClientsInv, ClientInv, CallInv
  <1> QED
    BY <1>1, <1>2 DEF ClientsInv, ClientInv, CallInv, PutOK

(* The daemon works on. *)
LEMMA ServerStepStep ==
  ASSUME ClientsInv, ServerStep
  PROVE  ClientsInv'
  <1>1. ControlInv'
    BY OperationStep DEF ClientsInv, ServerStep
  <1>2. UNCHANGED <<asked, puts>>
    BY DEF ServerStep
  <1>3. CASE serving # None /\ job' = None
    <2>1. serving' = None /\ calls' = [calls EXCEPT ![serving.caller] = NoCall]
      BY <1>3 DEF ServerStep, answered
    <2>2. CallInv'
      BY <2>1, CallEnds DEF ClientsInv, ClientInv, CallInv
    <2> QED
      BY <1>1, <1>2, <2>1, <2>2 DEF ClientsInv, ClientInv, CallInv, PutOK
  <1>4. CASE serving # None /\ job' # None
    <2>1. UNCHANGED <<serving, calls>>
      BY <1>4 DEF ServerStep
    <2>2. job'.kind = job.kind /\ job'.src = job.src /\ job'.cand = job.cand
      BY <1>4, SameJob DEF ClientsInv, ClientInv, ServerStep
    <2> QED
      BY <1>1, <1>2, <1>4, <2>1, <2>2 DEF ClientsInv, ClientInv, PutOK
  <1>5. CASE serving = None
    <2>1. UNCHANGED <<serving, calls>>
      BY <1>5 DEF ServerStep
    <2> QED
      BY <1>1, <1>2, <1>5, <2>1 DEF ClientsInv, ClientInv, PutOK
  <1> QED
    BY <1>3, <1>4, <1>5

(* The daemon restarts. *)
LEMMA ServerRestartsStep ==
  ASSUME ClientsInv, ServerRestarts
  PROVE  ClientsInv'
  <1>1. ControlInv'
    BY OperationStep DEF ClientsInv, ServerRestarts
  <1>2. calls' = [c \in Callers |-> NoCall] /\ puts' = {} /\ serving' = None /\ UNCHANGED asked
    BY DEF ServerRestarts
  <1> QED
    BY <1>1, <1>2, NoCallIsCall DEF ClientsInv, ClientInv, PutOK

-----------------------------------------------------------------------------
(* The theorems. *)

(* The invariant holds of the daemon with its clients, whatever the number   *)
(* of edits, calls and restarts (controlapi/server.go, config_store.go,      *)
(* bot/manager.go, mcpserver and the bot's commands).                        *)
THEOREM ClientsInvariant == ClientsSpec => []ClientsInv
  <1>1. ClientsInit => ClientsInv
    <2> SUFFICES ASSUME ClientsInit PROVE ClientsInv
      OBVIOUS
    <2>1. ControlInv
      BY ControlInit DEF ClientsInit
    <2>2. /\ calls = [c \in Callers |-> NoCall] /\ puts = {} /\ serving = None
          /\ asked \subseteq [rule : Ids, named : Enabled]
      BY DEF ClientsInit
    <2> QED
      BY <2>1, <2>2, NoCallIsCall DEF ClientsInv, ClientInv
  <1>2. ClientsInv /\ [ClientsNext]_allVars => ClientsInv'
    <2> SUFFICES ASSUME ClientsInv, [ClientsNext]_allVars PROVE ClientsInv'
      OBVIOUS
    <2>1. ASSUME ClientInv', UNCHANGED vars PROVE ClientsInv'
      BY <2>1, ControlStutter DEF ClientsInv
    <2>2. ASSUME NEW c \in Callers, ToolCall(c) \/ handleCallback(c) \/ mutateRule(c) \/ GiveUp(c)
          PROVE  ClientsInv'
      BY <2>1, <2>2, CallSteps, MutateStep
    <2>3. ASSUME NEW p \in puts, TakePut(p) \/ RefusePut(p) PROVE ClientsInv'
      BY <2>1, <2>3, TakePutStep, RefusePutStep
    <2>4. CASE UNCHANGED allVars
      <3>1. UNCHANGED vars /\ UNCHANGED <<calls, asked, puts, serving>> /\ job' = job
        BY <2>4 DEF allVars, vars, clientVars
      <3>2. ClientInv'
        BY <3>1 DEF ClientsInv, ClientInv, PutOK
      <3> QED
        BY <2>1, <3>1, <3>2
    <2> QED
      BY <2>1, <2>2, <2>3, <2>4, QuestionStep, ServerStepStep, ServerRestartsStep, Zenon DEF ClientsNext
  <1> QED
    BY <1>1, <1>2, PTL DEF ClientsSpec

(* RuntimeInStep: between operations a daemon that is not degraded runs the  *)
(* rules and the session limit of its file, edits aside, and while rules are *)
(* applied the session limit is the smaller one.  The bot that runs has the  *)
(* settings of the file too, although the start of the daemon applies its    *)
(* own at any moment, unless that replaced a newer bot.                      *)
THEOREM RuntimeInStepHolds == ClientsSpec => []RuntimeInStep
  <1>1. ClientsInv => RuntimeInStep
    BY DEF ClientsInv, ControlInv, IdleInv, Holds, BotHolds, RuntimeInStep, RuntimeMatchesFile
  <1> QED
    BY <1>1, ClientsInvariant, PTL

(* AckedIsDurable: what a PUT answered 200 wrote survives a power loss. *)
THEOREM AckedIsDurableHolds == ClientsSpec => []AckedIsDurable
  <1>1. ClientsInv => AckedIsDurable
    BY DEF ClientsInv, ControlInv
  <1> QED
    BY <1>1, ClientsInvariant, PTL

(* OneBot: at most one bot polls, and it is the one reported as running, for *)
(* any number of replaced bots that have not returned yet.                   *)
THEOREM OneBotHolds == ClientsSpec => []OneBot
  <1>1. ClientsInv => OneBot
    <2> SUFFICES ASSUME BotInv PROVE OneBot
      BY DEF ClientsInv, ControlInv
    <2>1. alive \ cancelled = {} \/ alive \ cancelled = {current}
      BY DEF BotInv
    <2>2. Cardinality({}) = 0 /\ Cardinality({current}) = 1
      BY FS_EmptySet, FS_Singleton
    <2>3. Cardinality(alive \ cancelled) <= 1
      BY <2>1, <2>2
    <2>4. running <=> alive \ cancelled # {}
      BY NoneIsNoJob DEF BotInv
    <2> QED
      BY <2>3, <2>4 DEF OneBot
  <1> QED
    BY <1>1, ClientsInvariant, PTL

(* NoLostUpdate: a PUT replaces the document whose revision its client sent, *)
(* edits between the second look and the rename aside.                       *)
THEOREM NoLostUpdateHolds == ClientsSpec => NoLostUpdate
  <1> DEFINE Kept == job # None /\ job.at = "rename" /\ job' # None /\ job'.at = "sync" =>
                        file = job.revision \/ job.late
  <1>1. ClientsInv /\ [ClientsNext]_allVars => [Kept]_vars
    <2> SUFFICES ASSUME ControlInv, job # None, job.at = "rename" PROVE file = job.revision \/ job.late
      BY DEF ClientsInv
    <2>1. job.kind # "reload"
      BY DEF ControlInv, JobInv
    <2> QED
      BY <2>1 DEF ControlInv, SourceInv
  <1> QED
    BY <1>1, ClientsInvariant, PTL DEF ClientsSpec, NoLostUpdate

(* The rename is the step that takes an operation from rename to sync. *)
LEMMA OnlyRename ==
  ASSUME ClientsInv, [ClientsNext]_allVars, job # None, job.at = "rename", job' # None, job'.at = "sync"
  PROVE  file' = job.cand
  <1>1. job \in Jobs
    BY DEF ClientsInv, ControlInv, JobInv
  <1>2. ASSUME job' = job PROVE FALSE
    BY <1>2
  <1>3. ASSUME \/ StageFails \/ ReloadOk \/ ReloadFails \/ BeginFails \/ ApplyBotFails \/ RulesNotCommitted
               \/ BotNotCommitted \/ SyncOk \/ SyncFails \/ ServerRestarts
        PROVE  FALSE
    BY <1>3 DEF StageFails, ReloadOk, ReloadFails, BeginFails, ApplyBotFails, RulesNotCommitted,
                BotNotCommitted, SyncOk, SyncFails, Committed, ServerRestarts, Restart
  <1>4. ASSUME \/ Reload \/ handleBotStart \/ handleBotStop \/ (\E p \in puts : TakePut(p) \/ RefusePut(p))
               \/ \E revision \in Docs \cup {file}, r \in RuleSets, l \in Caps : putRulesConfig(revision, r, l)
               \/ \E revision \in Docs \cup {file}, b \in Settings \cup {Off} : putBotConfig(revision, b)
        PROVE  FALSE
    BY <1>4 DEF Reload, handleBotStart, handleBotStop, putRulesConfig, putBotConfig, TakePut, RefusePut
  <1>5. ASSUME StageRules \/ StageBot \/ BeginOk \/ ApplyBot \/ CommitLooks PROVE FALSE
    BY <1>5 DEF StageRules, StageBot, BeginOk, ApplyBot, CommitLooks, At
  <1>6. ASSUME NEW doc, EditConfig(doc) PROVE FALSE
    BY <1>1, <1>6 DEF EditConfig, Jobs
  <1>7. ASSUME BotReturns \/ StartupApply PROVE FALSE
    BY <1>7 DEF BotReturns, StartupApply
  <1>8. ASSUME Rename PROVE file' = job.cand
    BY <1>8 DEF Rename, Replace
  <1>9. ASSUME \/ \E c \in Callers : ToolCall(c) \/ handleCallback(c) \/ mutateRule(c) \/ GiveUp(c)
               \/ Question \/ UNCHANGED allVars
        PROVE  job' = job
    BY <1>9 DEF ToolCall, handleCallback, mutateRule, GiveUp, Question, allVars, vars
  <1> QED
    BY <1>2, <1>3, <1>4, <1>5, <1>6, <1>7, <1>8, <1>9, Zenon DEF ClientsNext, ServerStep, Operation

(* OnlyAsNamed: a command of an MCP tool or of the bot changes the one rule  *)
(* it names, in the file as it is at that moment, and nothing else           *)
(* (mutateRule, setRuleTokenEnabled).                                        *)
THEOREM OnlyAsNamedHolds == ClientsSpec => OnlyAsNamed
  <1> DEFINE Named == serving # None /\ job.at = "rename" /\ job' # None /\ job'.at = "sync" /\ ~job.late =>
                        file' = [file EXCEPT !.rules[serving.rule] = serving.named]
  <1>1. ClientsInv /\ [ClientsNext]_allVars => [Named]_allVars
    <2> SUFFICES ASSUME ClientsInv, [ClientsNext]_allVars, serving # None, job.at = "rename", job' # None,
                        job'.at = "sync", ~job.late
                 PROVE  file' = [file EXCEPT !.rules[serving.rule] = serving.named]
      OBVIOUS
    <2>1. /\ job # None /\ job.kind = "rules" /\ PutOK(serving) /\ serving.etag = job.src
          /\ job.cand = [job.src EXCEPT !.rules = serving.rules]
      BY DEF ClientsInv, ClientInv
    <2>2. file' = job.cand
      BY <2>1, OnlyRename
    <2>3. file = job.src
      BY <2>1 DEF ClientsInv, ControlInv, SourceInv
    <2>4. serving.rules = [file.rules EXCEPT ![serving.rule] = serving.named]
      BY <2>1, <2>3 DEF PutOK
    <2>5. file' = [file EXCEPT !.rules = serving.rules]
      BY <2>1, <2>2, <2>3
    <2> QED
      BY <2>4, <2>5
  <1> QED
    BY <1>1, ClientsInvariant, PTL DEF ClientsSpec, OnlyAsNamed
=============================================================================
