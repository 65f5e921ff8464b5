--------------------------------- MODULE TUI ---------------------------------
(***************************************************************************)
(* The terminal interface's management of the configuration (tui/model.go, *)
(* management.go, bot_editor.go): the draft of the rules with its precheck *)
(* and apply, the bot settings editor with its rebase, and the periodic    *)
(* refresh, against a daemon that other administrators change as well.     *)
(*                                                                         *)
(* The interface runs one handler at a time; requests are goroutines, so   *)
(* the daemon serves them and their answers come back in any order, an     *)
(* answer may be lost, and a write whose answer was given up may still be  *)
(* carried out.  A revision is the content of the configuration file;      *)
(* epoch, which the interface never sees, counts its changes.              *)
(*                                                                         *)
(* Rendering, filters, sorting, scrolling, rates and languages are left    *)
(* out.  The dashboard, the rules, a rule's detail and an apply's result   *)
(* are one view, "main"; the rule editor and the UDP dialog are the form.  *)
(***************************************************************************)
EXTENDS Integers, FiniteSets

CONSTANTS
    RuleSets,       \* contents of the rules part of a configuration
    Fields, Values, \* the bot settings: a value for each field
    MaxChanges,     \* bound on the changes of the configuration
    MaxFetches,     \* bound on fetches of the configuration under way
    MaxKeys,        \* bound on requests the operator sends
    None

(* None, the nil pointer, is no draft and no editor. *)
ASSUME NoneAssumption ==
    /\ None \notin [base : [rules : RuleSets, bot : [Fields -> Values]], rules : RuleSets]
    /\ None \notin [value : [Fields -> Values], base : [rules : RuleSets, bot : [Fields -> Values]]]

VARIABLES
    \* The daemon.
    file,           \* the configuration: rules and bot settings
    epoch,          \* how often it has changed
    \* Requests and answers under way.
    fetches,        \* GETs of the rules configuration
    rpc,            \* the precheck, apply or reload of m.operation, or None
    botRpc,         \* the request of m.botOperation, or None
    late,           \* writes given up by the interface and not served yet
    \* The model.
    config, draft, transientDraft, remoteRevision, sync, precheckResult,
    view, overlay,
    configRequestID, lastConfigResponseID, configBarrierID,
    botConfig, botConfigErr, botEditor, botRebasePending,
    keys,           \* requests sent, for the bound
    \* For the properties only.
    vetted,         \* the draft the daemon last found good
    floor,          \* the epoch the shown configuration must not fall behind
    typed           \* fields of the bot editor the operator has typed into

daemon == << file, epoch, late >>
ids == << configRequestID, lastConfigResponseID, configBarrierID >>
draftVars == << config, draft, transientDraft, remoteRevision, sync, precheckResult >>
screen == << view, overlay >>
botVars == << botConfig, botConfigErr, botEditor, botRebasePending >>
vars == << daemon, fetches, rpc, botRpc, draftVars, screen, ids, botVars, keys, vetted, floor, typed >>

operationIdle == rpc = None
botOperationIdle == botRpc = None

Init ==
    /\ file \in [rules : RuleSets, bot : [Fields -> Values]]
    /\ epoch = 0 /\ late = {}
    /\ fetches = {[id |-> 1, answer |-> None]}
    /\ rpc = None /\ botRpc = None
    /\ config = None /\ draft = None /\ transientDraft = FALSE /\ remoteRevision = FALSE
    /\ sync = "unavailable" /\ precheckResult = None
    /\ view = "main" /\ overlay = "none"
    /\ configRequestID = 1 /\ lastConfigResponseID = 0 /\ configBarrierID = 0
    /\ botConfig = None /\ botConfigErr = FALSE /\ botEditor = None /\ botRebasePending = FALSE
    /\ keys = 0 /\ vetted = None /\ floor = 0 /\ typed = {}

-----------------------------------------------------------------------------
(* The daemon and the network.                                             *)

Snapshot == [file |-> file, epoch |-> epoch]

Commit(new) ==
    /\ epoch < MaxChanges
    /\ file' = new
    /\ epoch' = IF new = file THEN epoch ELSE epoch + 1

(* Another administrator, or an editor of the file.                        *)
RemoteChange ==
    /\ \E new \in [rules : RuleSets, bot : [Fields -> Values]] :
          /\ new # file
          /\ \/ new.rules = file.rules /\ \E f \in Fields, v \in Values : new.bot = [file.bot EXCEPT ![f] = v]
             \/ new.bot = file.bot
          /\ Commit(new)
    /\ UNCHANGED << late, fetches, rpc, botRpc, draftVars, screen, ids, botVars, keys, vetted, floor, typed >>

ServeFetch(q) ==
    /\ q.answer = None
    /\ fetches' = (fetches \ {q}) \cup {[q EXCEPT !.answer = Snapshot]}
    /\ UNCHANGED << daemon, rpc, botRpc, draftVars, screen, ids, botVars, keys, vetted, floor, typed >>

(* What a write asks the file to become.                                   *)
Target(w) == IF w.kind = "apply" THEN [file EXCEPT !.rules = w.rules]
             ELSE [file EXCEPT !.bot = w.bot]

(* The answers to a write whose revision matches: done; refused; failed and *)
(* rolled back; committed though an error followed.  A failure that leaves  *)
(* the outcome open is to the interface what a lost answer is.             *)
Outcomes == {"ok", "rejected", "rolledback", "committed"}

ServeWrite(w, answer) ==
    IF w.etag # file
    THEN answer = "conflict" /\ UNCHANGED << file, epoch >>
    ELSE /\ answer \in Outcomes
         /\ IF answer \in {"ok", "committed"} THEN Commit(Target(w)) ELSE UNCHANGED << file, epoch >>

(* Only a success carries a configuration; an error that changes nothing    *)
(* is to the interface what a lost answer is, but for a precheck.           *)
Answer(is, doc) == [is |-> is, doc |-> IF is = "ok" THEN doc ELSE None]

ServeRpc ==
    /\ rpc # None /\ rpc.answer = None
    /\ \/ /\ rpc.kind = "apply"
          /\ \E a \in Outcomes \cup {"conflict"} :
                ServeWrite(rpc, a) /\ rpc' = [rpc EXCEPT !.answer = Answer(a, [file |-> file', epoch |-> epoch'])]
       \/ /\ rpc.kind # "apply"
          /\ \E a \in CASE rpc.kind = "reload" -> {"ok"}
                         [] rpc.etag # file -> {"conflict"}
                         [] OTHER -> {"ok", "rejected"} :
                rpc' = [rpc EXCEPT !.answer = Answer(a, None)]
          /\ UNCHANGED << file, epoch >>
    /\ UNCHANGED << late, fetches, botRpc, draftVars, screen, ids, botVars, keys, vetted, floor, typed >>

ServeBotRpc ==
    /\ botRpc # None /\ botRpc.answer = None
    /\ \/ /\ botRpc.kind = "save"
          /\ \E a \in Outcomes \cup {"conflict"} :
                ServeWrite(botRpc, a) /\ botRpc' = [botRpc EXCEPT !.answer = Answer(a, [file |-> file', epoch |-> epoch'])]
       \/ /\ botRpc.kind # "save"
          /\ botRpc' = [botRpc EXCEPT !.answer = Answer("ok", Snapshot)]
          /\ UNCHANGED << file, epoch >>
    /\ UNCHANGED << late, fetches, rpc, draftVars, screen, ids, botVars, keys, vetted, floor, typed >>

(* The client gives up: the request may not have reached the daemon yet.    *)
Abandon(w) == IF w.kind \in {"apply", "save"} THEN late \cup {w} ELSE late
Lost(w) == [w EXCEPT !.answer = Answer("lost", None)]

LoseRpc ==
    /\ rpc # None /\ rpc' = Lost(rpc)
    /\ rpc.answer # None => rpc.answer.is # "lost"
    /\ late' = IF rpc.answer = None THEN Abandon(rpc) ELSE late
    /\ UNCHANGED << file, epoch, fetches, botRpc, draftVars, screen, ids, botVars, keys, vetted, floor, typed >>

LoseBotRpc ==
    /\ botRpc # None /\ botRpc' = Lost(botRpc)
    /\ botRpc.answer # None => botRpc.answer.is # "lost"
    /\ late' = IF botRpc.answer = None THEN Abandon(botRpc) ELSE late
    /\ UNCHANGED << file, epoch, fetches, rpc, draftVars, screen, ids, botVars, keys, vetted, floor, typed >>

ServeLate(w) ==
    /\ late' = late \ {w}
    /\ \E a \in Outcomes \cup {"conflict"} : ServeWrite(w, a)
    /\ UNCHANGED << fetches, rpc, botRpc, draftVars, screen, ids, botVars, keys, vetted, floor, typed >>

-----------------------------------------------------------------------------
(* Sending.                                                                *)

Key == keys < MaxKeys /\ keys' = keys + 1

(* m.configRequestID++ and fetchConfigRulesCmd.                            *)
fetchConfigRules ==
    /\ configRequestID' = configRequestID + 1
    /\ fetches' = fetches \cup {[id |-> configRequestID + 1, answer |-> None]}

(* An answer to an earlier request must not be taken for the state after   *)
(* this point, and no write may start before a later one has come.          *)
beginConfigBarrier ==
    /\ fetchConfigRules
    /\ lastConfigResponseID' = configRequestID + 1
    /\ configBarrierID' = configRequestID + 1
    /\ floor' = epoch

NoBarrier == UNCHANGED << fetches, ids, floor >>

Send(kind, etag, rules) ==
    rpc' = [kind |-> kind, etag |-> etag, rules |-> rules, answer |-> None]

beginBotOperation(kind, etag, bot, touched) ==
    botRpc' = [kind |-> kind, etag |-> etag, bot |-> bot, touched |-> touched, answer |-> None]

fetchBotConfig == beginBotOperation("fetch", None, None, {})

(* tickMsg, and the refresh key.                                           *)
Tick ==
    /\ Cardinality(fetches) < MaxFetches /\ Key
    /\ fetchConfigRules
    /\ UNCHANGED << lastConfigResponseID, configBarrierID >>
    /\ IF view = "bot" /\ botOperationIdle THEN fetchBotConfig ELSE UNCHANGED botRpc
    /\ UNCHANGED << daemon, rpc, draftVars, screen, botVars, vetted, floor, typed >>

-----------------------------------------------------------------------------
(* Answers to the refresh: configRulesMsg.                                 *)

revisionOf(doc) == doc.file

acceptConfig(doc) ==
    IF draft # None
    THEN IF revisionOf(doc) # draft.base
         THEN /\ remoteRevision' = TRUE
              /\ sync' = "stale"
              /\ UNCHANGED << config, draft, transientDraft, precheckResult >>
         ELSE /\ config' = doc
              /\ IF sync = "stale"
                 THEN remoteRevision' = FALSE /\ precheckResult' = None /\ sync' = "dirty"
                 ELSE UNCHANGED << remoteRevision, precheckResult, sync >>
              /\ UNCHANGED << draft, transientDraft >>
    ELSE /\ config' = doc /\ remoteRevision' = FALSE /\ sync' = "clean"
         /\ UNCHANGED << draft, transientDraft, precheckResult >>

(* An answer that is still None when the message is handled is an error.    *)
configRulesMsg(q) ==
    /\ fetches' = fetches \ {q}
    /\ IF q.id < lastConfigResponseID
       THEN UNCHANGED << lastConfigResponseID, configBarrierID, draftVars >>
       ELSE /\ lastConfigResponseID' = q.id
            /\ IF q.answer # None
               THEN /\ configBarrierID' = IF q.id >= configBarrierID THEN 0 ELSE configBarrierID
                    /\ acceptConfig(q.answer)
               ELSE /\ sync' = IF config = None THEN "unavailable" ELSE sync
                    /\ UNCHANGED << configBarrierID, config, draft, transientDraft, remoteRevision, precheckResult >>
    /\ UNCHANGED << daemon, rpc, botRpc, screen, configRequestID, botVars, keys, vetted, floor, typed >>

-----------------------------------------------------------------------------
(* The draft.                                                              *)

canWrite == config # None
prepareWrite == operationIdle /\ configBarrierID = 0 /\ sync # "stale" /\ canWrite

KeyReady(v) == view \in v /\ overlay = "none" /\ operationIdle

newDraft == [base |-> config.file, rules |-> config.file.rules]
ensuredDraft == IF draft = None THEN newDraft ELSE draft

draftOutdates_Keeps == UNCHANGED sync
draftOutdates == sync' = IF sync = "stale" THEN sync ELSE "dirty"

(* refreshDraftState, after the draft has become d.                        *)
refreshDraftState(d) ==
    /\ precheckResult' = None
    /\ IF sync # "stale" /\ d.rules = config.file.rules
       THEN draft' = None /\ sync' = "clean" /\ remoteRevision' = FALSE
       ELSE draft' = d /\ draftOutdates /\ UNCHANGED remoteRevision

Rest == UNCHANGED << daemon, botRpc, botVars, vetted, typed >>

OpenForm ==
    /\ KeyReady({"main", "precheck"}) /\ prepareWrite
    /\ view = "precheck" => draft # None /\ precheckResult # None
    /\ view' = "form"
    /\ draft' = ensuredDraft
    /\ transientDraft' = IF view = "precheck" THEN transientDraft ELSE draft = None
    /\ UNCHANGED << overlay, config, remoteRevision, sync, precheckResult, rpc, keys >>
    /\ NoBarrier /\ Rest

(* What rule() makes of a form whose fields are valid.                     *)
editedRules == RuleSets

(* stageEditorRule, stageUDPSettings.                                      *)
StageForm ==
    /\ KeyReady({"form"})
    /\ \E r \in editedRules : refreshDraftState([draft EXCEPT !.rules = r])
    /\ transientDraft' = FALSE
    /\ view' = "main"
    /\ UNCHANGED << overlay, config, rpc, keys >> /\ NoBarrier /\ Rest

(* Back to the configuration; a draft that was stale loads the latest one. *)
Discard(wasStale) ==
    /\ draft' = None /\ transientDraft' = FALSE /\ remoteRevision' = FALSE
    /\ sync' = IF wasStale THEN "unavailable" ELSE "clean"
    /\ IF wasStale THEN beginConfigBarrier ELSE NoBarrier

CancelForm ==
    /\ KeyReady({"form"})
    /\ view' = "main"
    /\ IF transientDraft THEN Discard(sync = "stale")
       ELSE UNCHANGED << draft, transientDraft, remoteRevision, sync >> /\ NoBarrier
    /\ UNCHANGED << overlay, config, precheckResult, rpc, keys >> /\ Rest

(* stageToggle at once; stageDelete after its question, with no new look at *)
(* what may have changed meanwhile.                                        *)
Toggle ==
    /\ KeyReady({"main"}) /\ prepareWrite
    /\ \E r \in RuleSets : refreshDraftState([ensuredDraft EXCEPT !.rules = r])
    /\ UNCHANGED << screen, config, transientDraft, rpc, keys >> /\ NoBarrier /\ Rest

Ask(question) ==
    /\ overlay' = question
    /\ UNCHANGED << view, draftVars, rpc, keys >> /\ NoBarrier /\ Rest

AskDelete == KeyReady({"main"}) /\ prepareWrite /\ Ask("delete")

ConfirmDelete ==
    /\ overlay = "delete" /\ overlay' = "none" /\ operationIdle
    /\ \E r \in RuleSets : refreshDraftState([ensuredDraft EXCEPT !.rules = r])
    /\ UNCHANGED << view, config, transientDraft, rpc, keys >> /\ NoBarrier /\ Rest

AskDiscard == KeyReady({"main"}) /\ draft # None /\ Ask("discard")

ConfirmDiscard ==
    /\ overlay = "discard" /\ overlay' = "none" /\ operationIdle
    /\ precheckResult' = None /\ view' = "main"
    /\ Discard(sync = "stale")
    /\ UNCHANGED << config, rpc, keys >> /\ Rest

Dismiss == overlay # "none" /\ operationIdle /\ Ask("none")

-----------------------------------------------------------------------------
(* Precheck, apply, reload.                                                *)

startPrecheck ==
    /\ KeyReady({"main", "precheck"}) /\ prepareWrite /\ draft # None /\ Key
    /\ Send("precheck", draft.base, draft.rules)
    /\ UNCHANGED << screen, draftVars >> /\ NoBarrier /\ Rest

handlePrecheckResult ==
    /\ rpc # None /\ rpc.kind = "precheck" /\ rpc.answer # None
    /\ rpc' = None
    /\ LET a == rpc.answer IN
       CASE a.is = "lost" -> UNCHANGED << view, sync, remoteRevision, precheckResult, vetted >>
         [] a.is = "conflict" -> sync' = "stale" /\ UNCHANGED << view, remoteRevision, precheckResult, vetted >>
         [] OTHER ->
              IF sync = "stale" \/ remoteRevision
              THEN UNCHANGED << view, sync, remoteRevision, precheckResult, vetted >>
              ELSE /\ view' = "precheck"
                   /\ precheckResult' = a.is
                   /\ sync' = IF a.is = "ok" THEN "validated" ELSE "dirty"
                   /\ vetted' = IF a.is = "ok" THEN [base |-> rpc.etag, rules |-> rpc.rules] ELSE vetted
                   /\ UNCHANGED remoteRevision
    /\ UNCHANGED << daemon, botRpc, botVars, config, draft, transientDraft, overlay, keys, typed >> /\ NoBarrier

AskApply ==
    /\ KeyReady({"main", "precheck"})
    /\ draft # None /\ sync = "validated" /\ precheckResult = "ok"
    /\ Ask("apply")

ConfirmApply ==
    /\ overlay = "apply" /\ overlay' = "none" /\ operationIdle
    /\ IF draft # None /\ sync = "validated"
       THEN Key /\ Send("apply", draft.base, draft.rules)
       ELSE UNCHANGED << rpc, keys >>
    /\ UNCHANGED << view, draftVars >> /\ NoBarrier /\ Rest

(* m.lastConfigResponseID after an apply: older answers are not taken.     *)
afterApply_Open == lastConfigResponseID
afterApply == configRequestID + 1

applied(doc) ==
    /\ config' = doc
    /\ draft' = None /\ precheckResult' = None /\ sync' = "clean" /\ remoteRevision' = FALSE
    /\ configRequestID' = configRequestID + 1
    /\ lastConfigResponseID' = afterApply
    /\ floor' = doc.epoch
    /\ view' = "main"
    /\ UNCHANGED << transientDraft, configBarrierID, fetches >>

(* rulesApplyUnavailableState: reconcile unless the daemon rolled back.     *)
notApplied(is) ==
    /\ view' = "main" /\ precheckResult' = None
    /\ CASE is = "committed" -> draft' = None /\ transientDraft' = FALSE /\ remoteRevision' = FALSE /\ sync' = "unavailable"
         [] is = "lost" -> sync' = "stale" /\ UNCHANGED << draft, transientDraft, remoteRevision >>
         [] OTHER -> sync' = (IF sync = "stale" THEN sync ELSE "dirty") /\ UNCHANGED << draft, transientDraft, remoteRevision >>
    /\ IF is = "rolledback" THEN NoBarrier ELSE beginConfigBarrier
    /\ UNCHANGED config

(* 412, 403 and 422, with or without findings.                             *)
refusedApply(is) ==
    /\ CASE is = "conflict" -> sync' = "stale" /\ view' = "main" /\ UNCHANGED precheckResult
         [] sync = "stale" -> view' = "main" /\ UNCHANGED << sync, precheckResult >>
         [] OTHER -> \/ sync' = "dirty" /\ view' = "precheck" /\ precheckResult' = "rejected"
                     \/ sync' \in {"dirty", sync} /\ view' = "main" /\ UNCHANGED precheckResult
    /\ UNCHANGED << config, draft, transientDraft, remoteRevision >> /\ NoBarrier

handleApplyResult ==
    /\ rpc # None /\ rpc.kind = "apply" /\ rpc.answer # None
    /\ rpc' = None
    /\ CASE rpc.answer.is = "ok" -> applied(rpc.answer.doc)
         [] rpc.answer.is \in {"conflict", "rejected"} -> refusedApply(rpc.answer.is)
         [] OTHER -> notApplied(rpc.answer.is)
    /\ UNCHANGED << daemon, botRpc, botVars, overlay, keys, vetted, typed >>

AskReload == KeyReady({"main"}) /\ draft = None /\ config # None /\ Ask("reload")

ConfirmReload ==
    /\ overlay = "reload" /\ operationIdle /\ Key
    /\ Send("reload", None, None)
    /\ UNCHANGED << screen, draftVars >> /\ NoBarrier /\ Rest

reloadMsg ==
    /\ rpc # None /\ rpc.kind = "reload" /\ rpc.answer # None
    /\ rpc' = None /\ overlay' = "none"
    /\ IF rpc.answer.is = "ok" THEN fetchConfigRules ELSE UNCHANGED << configRequestID, fetches >>
    /\ UNCHANGED << view, draftVars, lastConfigResponseID, configBarrierID, keys, floor >> /\ Rest

-----------------------------------------------------------------------------
(* The bot settings.                                                       *)

RestOfBot == UNCHANGED << daemon, rpc, draftVars, vetted >>

Navigate ==
    /\ KeyReady({"bot", "precheck"})
    /\ view' = "main"
    /\ UNCHANGED << overlay, botRpc, botVars, keys, typed >> /\ NoBarrier /\ RestOfBot

openBotConfig ==
    /\ KeyReady({"main", "precheck", "bot"}) /\ canWrite /\ botOperationIdle /\ Key
    /\ view' = "bot"
    /\ fetchBotConfig
    /\ UNCHANGED << overlay, botVars, typed >> /\ NoBarrier /\ RestOfBot

(* Start and stop of the bot.                                              *)
BotAction ==
    /\ KeyReady({"bot"}) /\ botOperationIdle /\ ~botConfigErr /\ botConfig # None /\ Key
    /\ beginBotOperation("action", None, None, {})
    /\ UNCHANGED << screen, botVars, typed >> /\ NoBarrier /\ RestOfBot

newBotConfigEditor(cfg) == [value |-> cfg.bot, base |-> cfg]

EditBot ==
    /\ KeyReady({"bot"}) /\ botOperationIdle /\ ~botConfigErr
    /\ draft = None /\ botConfig # None
    /\ botEditor' = newBotConfigEditor(botConfig)
    /\ view' = "botEditor" /\ typed' = {}
    /\ UNCHANGED << overlay, botRpc, botConfig, botConfigErr, botRebasePending, keys >> /\ NoBarrier /\ RestOfBot

TypeBot(f, v) ==
    /\ KeyReady({"botEditor"}) /\ botOperationIdle
    /\ botEditor' = [botEditor EXCEPT !.value[f] = v]
    /\ typed' = typed \cup {f}
    /\ UNCHANGED << screen, botRpc, botConfig, botConfigErr, botRebasePending, keys >> /\ NoBarrier /\ RestOfBot

RefreshBotEditor ==
    /\ KeyReady({"botEditor"}) /\ botOperationIdle /\ Key
    /\ botRebasePending' = TRUE
    /\ fetchBotConfig
    /\ UNCHANGED << screen, botConfig, botConfigErr, botEditor, typed >> /\ NoBarrier /\ RestOfBot

CancelBotEditor ==
    /\ KeyReady({"botEditor"}) /\ botOperationIdle
    /\ botEditor' = None /\ botRebasePending' = FALSE /\ view' = "bot"
    /\ UNCHANGED << overlay, botRpc, botConfig, botConfigErr, keys, typed >> /\ NoBarrier /\ RestOfBot

SaveBot ==
    /\ KeyReady({"botEditor"}) /\ botOperationIdle /\ Key
    /\ ~botRebasePending /\ ~botConfigErr
    /\ beginBotOperation("save", botEditor.base, botEditor.value, typed)
    /\ UNCHANGED << screen, botVars, typed >> /\ NoBarrier /\ RestOfBot

(* Locally edited fields stay, untouched ones take the latest value.       *)
rebase_KeepsAll(e, latest) == [value |-> e.value, base |-> latest]
rebase(e, latest) ==
    [value |-> [f \in Fields |-> IF e.value[f] = e.base.bot[f] THEN latest.bot[f] ELSE e.value[f]],
     base |-> latest]

botFetched ==
    LET a == botRpc.answer IN
    /\ botRpc' = None
    /\ IF a.is # "ok"
       THEN botConfigErr' = TRUE /\ UNCHANGED << botConfig, botEditor, botRebasePending >>
       ELSE /\ botConfig' = a.doc.file /\ botConfigErr' = FALSE /\ botRebasePending' = FALSE
            /\ botEditor' = IF botRebasePending /\ botEditor # None THEN rebase(botEditor, a.doc.file) ELSE botEditor
    /\ UNCHANGED view /\ NoBarrier

(* botConfigUnavailableState: refused, or not ready; nothing has changed.   *)
botUnchanged(is) == is = "rejected"

(* A conflict or an unknown outcome holds the next save until a rebase; a   *)
(* save that is committed closes the editor; each loads the latest state.   *)
botSaved ==
    LET is == botRpc.answer.is IN
    CASE is = "ok" ->
            /\ botRpc' = None /\ botConfig' = botRpc.answer.doc.file /\ botConfigErr' = FALSE
            /\ botEditor' = None /\ botRebasePending' = FALSE /\ view' = "bot"
            /\ beginConfigBarrier
      [] botUnchanged(is) ->
            botRpc' = None /\ UNCHANGED << botConfig, botConfigErr, botEditor, botRebasePending, view >> /\ NoBarrier
      [] is = "committed" ->
            /\ fetchBotConfig /\ beginConfigBarrier
            /\ botEditor' = None /\ botRebasePending' = FALSE /\ view' = "bot"
            /\ UNCHANGED << botConfig, botConfigErr >>
      [] OTHER ->
            /\ fetchBotConfig /\ beginConfigBarrier
            /\ botRebasePending' = TRUE
            /\ UNCHANGED << botConfig, botConfigErr, botEditor, view >>

botConfigMsg ==
    /\ botRpc # None /\ botRpc.answer # None
    /\ CASE botRpc.kind = "fetch" -> botFetched
         [] botRpc.kind = "save" -> botSaved
         [] OTHER -> fetchBotConfig /\ UNCHANGED << view, botVars >> /\ NoBarrier
    /\ UNCHANGED << overlay, keys, typed >> /\ RestOfBot

-----------------------------------------------------------------------------
Next ==
    \/ RemoteChange
    \/ \E q \in fetches : ServeFetch(q) \/ configRulesMsg(q)
    \/ ServeRpc \/ ServeBotRpc \/ LoseRpc \/ LoseBotRpc
    \/ \E w \in late : ServeLate(w)
    \/ Tick
    \/ OpenForm \/ StageForm \/ CancelForm \/ Toggle
    \/ AskDelete \/ ConfirmDelete \/ AskDiscard \/ ConfirmDiscard \/ Dismiss
    \/ startPrecheck \/ handlePrecheckResult
    \/ AskApply \/ ConfirmApply \/ handleApplyResult
    \/ AskReload \/ ConfirmReload \/ reloadMsg
    \/ Navigate \/ openBotConfig \/ BotAction \/ EditBot
    \/ \E f \in Fields, v \in Values : TypeBot(f, v)
    \/ RefreshBotEditor \/ CancelBotEditor \/ SaveBot \/ botConfigMsg

Spec == Init /\ [][Next]_vars

-----------------------------------------------------------------------------
(* Properties.                                                             *)

(* What the interface calls validated, and will send when Apply is          *)
(* confirmed, is the very draft the daemon found good, on the same base,    *)
(* through edits, staleness and reconciliation while a form or a question   *)
(* is open.                                                                 *)
ValidatedIsPrechecked == sync = "validated" => draft # None /\ draft = vetted

(* The configuration on display never falls behind a change the interface   *)
(* knows of: after an apply, and once the refresh that a conflict or an     *)
(* unknown outcome asks for has arrived, no answer still under way brings    *)
(* an older state back.                                                     *)
NeverShowsOlder ==
    config # None /\ draft = None /\ configBarrierID = 0 => config.epoch >= floor

(* A save of the bot settings, even one served after it was given up,        *)
(* changes no field the operator did not type into: what another            *)
(* administrator set meanwhile survives through the rebase.                  *)
SaveKeepsRemoteFields ==
    [][\A w \in late \cup {botRpc} :
          (w # None /\ w.kind = "save" /\ file' # file /\ file'.bot = w.bot
              /\ \/ w \in late /\ w \notin late'
                 \/ w.answer = None /\ w = botRpc /\ botRpc' # None /\ botRpc'.answer # None)
          => \A f \in Fields : file'.bot[f] # file.bot[f] => f \in w.touched]_vars
=============================================================================
