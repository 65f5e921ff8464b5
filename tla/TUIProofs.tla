------------------------------ MODULE TUIProofs ------------------------------
(***************************************************************************)
(* Proofs about TUI, for every set of rules, fields and values and any     *)
(* number of requests under way: what counts as validated is what the      *)
(* daemon prechecked, the configuration on display does not fall behind,   *)
(* and a save of the bot settings changes only the fields typed into.      *)
(***************************************************************************)
EXTENDS TUI, TLAPS

-----------------------------------------------------------------------------
(* The inductive invariant. *)

Files == [rules : RuleSets, bot : [Fields -> Values]]
Docs == [file : Files, epoch : Nat]
Drafts == [base : Files, rules : RuleSets]
Editors == [value : [Fields -> Values], base : Files]
Fetches == [id : Nat, answer : Docs \cup {None}]
Answers == [is : {"ok", "rejected", "rolledback", "committed", "conflict", "lost"}, doc : Docs \cup {None}]
Rpcs == [kind : {"precheck", "apply", "reload"}, etag : Files \cup {None}, rules : RuleSets \cup {None},
         answer : Answers \cup {None}]
BotRpcs == [kind : {"fetch", "action", "save"}, etag : Files \cup {None}, bot : [Fields -> Values] \cup {None},
            touched : SUBSET Fields, answer : Answers \cup {None}]

(* The fields of the model and of the requests have their types. *)
TypeOK ==
    /\ file \in Files /\ epoch \in Nat /\ floor \in Nat
    /\ fetches \in SUBSET Fetches
    /\ rpc \in Rpcs \cup {None} /\ botRpc \in BotRpcs \cup {None}
    /\ config \in Docs \cup {None} /\ draft \in Drafts \cup {None}
    /\ vetted \in Drafts \cup {None}
    /\ sync \in {"unavailable", "clean", "dirty", "validated", "stale"}
    /\ view \in {"main", "form", "precheck", "bot", "botEditor"}
    /\ overlay \in {"none", "delete", "discard", "apply", "reload"}
    /\ configRequestID \in Nat /\ lastConfigResponseID \in Nat /\ configBarrierID \in Nat
    /\ botConfig \in Files \cup {None} /\ botEditor \in Editors \cup {None}
    /\ typed \in SUBSET Fields

(* A form edits a draft, and has the interface to itself; a question about   *)
(* deleting was asked of a configuration that was there.                     *)
FormInv ==
    /\ view = "form" => draft \in Drafts /\ config \in Docs /\ overlay = "none" /\ rpc = None
    /\ view = "botEditor" => botEditor \in Editors
    /\ overlay = "delete" => config \in Docs

(* The draft does not change while the daemon looks at it. *)
RpcInv ==
    rpc # None =>
        /\ rpc.kind = "precheck" =>
              draft \in Drafts /\ draft # None /\ draft = [base |-> rpc.etag, rules |-> rpc.rules]
        /\ rpc.kind = "apply" => rpc.etag \in Files /\ rpc.rules \in RuleSets
        /\ rpc.kind = "apply" /\ rpc.answer # None =>
              (rpc.answer.is = "ok" => rpc.answer.doc \in Docs /\ rpc.answer.doc.epoch <= epoch)

(* A save of the bot settings differs from its base in fields typed into. *)
SaveOK(w) ==
    /\ w.etag \in Files /\ w.bot \in [Fields -> Values]
    /\ \A f \in Fields : w.bot[f] # w.etag.bot[f] => f \in w.touched

EditorInv ==
    botEditor # None => \A f \in Fields : botEditor.value[f] # botEditor.base.bot[f] => f \in typed

BotRpcInv ==
    botRpc # None =>
        /\ botRpc.kind = "save" => SaveOK(botRpc)
        /\ botRpc.kind \in {"fetch", "save"} /\ botRpc.answer # None =>
              (botRpc.answer.is = "ok" => botRpc.answer.doc \in Docs)

LateInv ==
    \A w \in late : \/ w \in Rpcs /\ w.kind = "apply" /\ w.rules \in RuleSets
                    \/ w \in BotRpcs /\ w.kind = "save" /\ SaveOK(w)

(* An answer that may still be taken is not older than floor. *)
FetchInv ==
    /\ floor <= epoch /\ lastConfigResponseID <= configRequestID
    /\ \A q \in fetches :
          /\ q.id <= configRequestID
          /\ q.answer # None /\ q.id >= lastConfigResponseID => q.answer.epoch >= floor

(* Nor is the configuration that is shown, or will be when the draft goes. *)
ShownInv ==
    config # None /\ (draft = None \/ sync # "stale") /\ configBarrierID = 0 => config.epoch >= floor

TUIInv ==
    /\ TypeOK /\ FormInv /\ RpcInv /\ EditorInv /\ BotRpcInv /\ LateInv
    /\ FetchInv /\ ShownInv /\ ValidatedIsPrechecked


-----------------------------------------------------------------------------
(* The daemon and the network. *)

(* What a write may do to the file.                                          *)
LEMMA WriteEffect ==
    ASSUME TypeOK, NEW w, NEW answer, ServeWrite(w, answer),
           w.kind = "apply" => w.rules \in RuleSets,
           w.kind # "apply" => w.bot \in [Fields -> Values]
    PROVE  /\ file' \in Files /\ epoch' \in Nat /\ epoch <= epoch'
           /\ answer \in {"ok", "rejected", "rolledback", "committed", "conflict"}
           /\ file' # file => w.etag = file
  <1>1. Target(w) \in Files
    BY DEF Target, TypeOK, Files
  <1>2. ASSUME Commit(Target(w)) PROVE file' \in Files /\ epoch' \in Nat /\ epoch <= epoch'
    BY <1>1, <1>2 DEF Commit, TypeOK
  <1> QED
    BY <1>2 DEF ServeWrite, Outcomes, TypeOK

(* The parts of the invariant that a step of the daemon leaves alone.        *)
Handlers == <<config, draft, sync, view, overlay, ids, botConfig, botEditor, vetted, floor, typed>>

(* The daemon moves on, and the interface does not notice.                   *)
LEMMA DaemonFrame ==
    ASSUME TUIInv, UNCHANGED Handlers, epoch' \in Nat, epoch <= epoch'
    PROVE  /\ EditorInv' /\ ShownInv' /\ ValidatedIsPrechecked'
           /\ UNCHANGED fetches => FetchInv'
           /\ UNCHANGED rpc => RpcInv' /\ FormInv'
  <1> USE DEF TUIInv, Handlers, ids
  <1>1. EditorInv' /\ ShownInv' /\ ValidatedIsPrechecked'
    BY DEF EditorInv, ShownInv, ValidatedIsPrechecked
  <1>2. ASSUME UNCHANGED fetches PROVE FetchInv'
    BY <1>2 DEF FetchInv, TypeOK
  <1>3. ASSUME UNCHANGED rpc PROVE FormInv'
    BY <1>3 DEF FormInv
  <1>4. ASSUME UNCHANGED rpc PROVE RpcInv'
    BY <1>4 DEF RpcInv, TypeOK, Docs
  <1> QED
    BY <1>1, <1>2, <1>3, <1>4

(* RemoteChange, ServeFetch and ServeLate.                                   *)
LEMMA DaemonStep ==
    ASSUME TUIInv,
           \/ RemoteChange \/ \E q \in fetches : ServeFetch(q)
           \/ \E w \in late : ServeLate(w)
    PROVE  TUIInv'
  <1> USE DEF draftVars, screen, ids, botVars, daemon
  <1>1. CASE RemoteChange
    <2>1. file' \in Files /\ epoch' \in Nat /\ epoch <= epoch'
      BY <1>1 DEF RemoteChange, Commit, TUIInv, TypeOK, Files
    <2>2. UNCHANGED <<Handlers, fetches, rpc, botRpc, late>>
      BY <1>1 DEF RemoteChange, Handlers
    <2>3. TypeOK' /\ BotRpcInv' /\ LateInv'
      BY <2>1, <2>2 DEF TUIInv, TypeOK, Handlers, BotRpcInv, LateInv
    <2> QED
      BY <2>1, <2>2, <2>3, DaemonFrame DEF TUIInv
  <1>2. ASSUME NEW q \in fetches, ServeFetch(q) PROVE TUIInv'
    <2>1. UNCHANGED <<Handlers, rpc, botRpc, late, file, epoch>> /\ epoch \in Nat
      BY <1>2 DEF ServeFetch, Handlers, TUIInv, TypeOK
    <2>2. Snapshot \in Docs /\ Snapshot.epoch = epoch
      BY DEF Snapshot, Docs, TUIInv, TypeOK
    <2> DEFINE new == [q EXCEPT !.answer = Snapshot]
    <2>3. new \in Fetches /\ new.id = q.id /\ new.answer = Snapshot
      BY <2>2 DEF TUIInv, TypeOK, Fetches
    <2>4. fetches' = (fetches \ {q}) \cup {new}
      BY <1>2 DEF ServeFetch
    <2> HIDE DEF new
    <2>5. FetchInv'
      BY <2>1, <2>2, <2>3, <2>4 DEF FetchInv, TUIInv, Handlers
    <2>6. TypeOK' /\ BotRpcInv' /\ LateInv'
      BY <2>1, <2>3, <2>4 DEF TUIInv, TypeOK, Handlers, BotRpcInv, LateInv
    <2> QED
      BY <2>1, <2>5, <2>6, DaemonFrame DEF TUIInv
  <1>3. ASSUME NEW w \in late, ServeLate(w) PROVE TUIInv'
    <2>1. UNCHANGED <<Handlers, fetches, rpc, botRpc>> /\ late' \subseteq late
      BY <1>3 DEF ServeLate, Handlers
    <2>2. (w.kind = "apply" => w.rules \in RuleSets) /\ (w.kind # "apply" => w.bot \in [Fields -> Values])
      BY DEF TUIInv, LateInv, SaveOK
    <2>3. file' \in Files /\ epoch' \in Nat /\ epoch <= epoch'
      BY <1>3, <2>2, WriteEffect DEF ServeLate, TUIInv
    <2>4. TypeOK' /\ BotRpcInv' /\ LateInv'
      BY <2>1, <2>3 DEF TUIInv, TypeOK, Handlers, BotRpcInv, LateInv
    <2> QED
      BY <2>1, <2>3, <2>4, DaemonFrame DEF TUIInv
  <1> QED
    BY <1>1, <1>2, <1>3

(* An answer is given to a request, or lost.                                 *)
LEMMA AnswerType ==
    ASSUME NEW is \in {"ok", "rejected", "rolledback", "committed", "conflict", "lost"},
           NEW doc, is = "ok" => doc \in Docs \cup {None}
    PROVE  /\ Answer(is, doc) \in Answers /\ Answer(is, doc).is = is
           /\ is = "ok" => Answer(is, doc).doc = doc
  BY DEF Answer, Answers

(* ServeRpc and LoseRpc.                                                     *)
LEMMA RpcStep ==
    ASSUME TUIInv, ServeRpc \/ LoseRpc
    PROVE  TUIInv'
  <1> USE DEF draftVars, screen, ids, botVars, daemon
  <1>0. rpc # None /\ rpc \in Rpcs /\ UNCHANGED <<Handlers, fetches, botRpc>>
    BY DEF ServeRpc, LoseRpc, TUIInv, TypeOK, Handlers
  <1>1. ASSUME NEW a \in Answers, rpc' = [rpc EXCEPT !.answer = a], file' \in Files, epoch' \in Nat, epoch <= epoch',
               rpc.kind = "apply" /\ a.is = "ok" => a.doc \in Docs /\ a.doc.epoch <= epoch'
        PROVE  TypeOK' /\ RpcInv' /\ FormInv'
    <2>1. rpc' \in Rpcs /\ rpc'.kind = rpc.kind /\ rpc'.etag = rpc.etag /\ rpc'.rules = rpc.rules /\ rpc'.answer = a
      BY <1>0, <1>1 DEF Rpcs
    <2>2. TypeOK'
      BY <1>0, <1>1, <2>1 DEF TUIInv, TypeOK, Handlers
    <2>3. RpcInv'
      BY <1>0, <1>1, <2>1 DEF TUIInv, RpcInv, Handlers
    <2>4. FormInv'
      BY <1>0 DEF TUIInv, FormInv, Handlers
    <2> QED
      BY <2>2, <2>3, <2>4
  <1>2. CASE ServeRpc /\ rpc.kind = "apply"
    <2>1. PICK a \in Outcomes \cup {"conflict"} :
              ServeWrite(rpc, a) /\ rpc' = [rpc EXCEPT !.answer = Answer(a, [file |-> file', epoch |-> epoch'])]
      BY <1>2 DEF ServeRpc
    <2>2. UNCHANGED late
      BY <1>2 DEF ServeRpc
    <2>3. file' \in Files /\ epoch' \in Nat /\ epoch <= epoch'
      BY <1>0, <1>2, <2>1, WriteEffect DEF TUIInv, RpcInv
    <2> DEFINE doc == [file |-> file', epoch |-> epoch']
    <2>4. doc \in Docs /\ doc.epoch = epoch'
      BY <2>3 DEF Docs
    <2> HIDE DEF doc
    <2>5. Answer(a, doc) \in Answers /\ Answer(a, doc).is = a /\ (a = "ok" => Answer(a, doc).doc = doc)
      BY <2>4, AnswerType DEF Outcomes
    <2>6. rpc' = [rpc EXCEPT !.answer = Answer(a, doc)]
      BY <2>1 DEF doc
    <2>7. Answer(a, doc).is = "ok" => Answer(a, doc).doc \in Docs /\ Answer(a, doc).doc.epoch <= epoch'
      BY <2>3, <2>4, <2>5
    <2>8. TypeOK' /\ RpcInv' /\ FormInv'
      BY <1>1, <2>3, <2>5, <2>6, <2>7
    <2>9. BotRpcInv' /\ LateInv'
      BY <1>0, <2>2 DEF TUIInv, BotRpcInv, LateInv
    <2> QED
      BY <1>0, <2>3, <2>8, <2>9, DaemonFrame DEF TUIInv
  <1>3. CASE ServeRpc /\ rpc.kind # "apply"
    <2>1. PICK a \in {"ok", "conflict", "rejected"} : rpc' = [rpc EXCEPT !.answer = Answer(a, None)]
      BY <1>3 DEF ServeRpc
    <2>2. UNCHANGED <<late, file, epoch>>
      BY <1>3 DEF ServeRpc
    <2>3. Answer(a, None) \in Answers
      BY AnswerType
    <2>4. file' \in Files /\ epoch' \in Nat /\ epoch <= epoch'
      BY <2>2 DEF TUIInv, TypeOK
    <2>5. TypeOK' /\ RpcInv' /\ FormInv'
      BY <1>1, <1>3, <2>1, <2>3, <2>4
    <2>6. BotRpcInv' /\ LateInv'
      BY <1>0, <2>2 DEF TUIInv, BotRpcInv, LateInv
    <2> QED
      BY <1>0, <2>4, <2>5, <2>6, DaemonFrame DEF TUIInv
  <1>4. CASE LoseRpc
    <2>1. rpc' = [rpc EXCEPT !.answer = Answer("lost", None)]
      BY <1>4 DEF LoseRpc, Lost
    <2>2. UNCHANGED <<file, epoch>> /\ (late' = late \/ late' = Abandon(rpc))
      BY <1>4 DEF LoseRpc
    <2>3. Answer("lost", None) \in Answers /\ Answer("lost", None).is = "lost"
      BY AnswerType
    <2>4. file' \in Files /\ epoch' \in Nat /\ epoch <= epoch'
      BY <2>2 DEF TUIInv, TypeOK
    <2>5. TypeOK' /\ RpcInv' /\ FormInv'
      BY <1>1, <2>1, <2>3, <2>4
    <2>6. BotRpcInv'
      BY <1>0 DEF TUIInv, BotRpcInv
    <2>7. LateInv'
      BY <1>0, <2>2 DEF TUIInv, LateInv, RpcInv, Abandon, Rpcs
    <2> QED
      BY <1>0, <2>4, <2>5, <2>6, <2>7, DaemonFrame DEF TUIInv
  <1> QED
    BY <1>2, <1>3, <1>4

(* ServeBotRpc and LoseBotRpc.                                               *)
LEMMA BotRpcStep ==
    ASSUME TUIInv, ServeBotRpc \/ LoseBotRpc
    PROVE  TUIInv'
  <1> USE DEF draftVars, screen, ids, botVars, daemon
  <1>0. botRpc # None /\ botRpc \in BotRpcs /\ UNCHANGED <<Handlers, fetches, rpc>>
    BY DEF ServeBotRpc, LoseBotRpc, TUIInv, TypeOK, Handlers
  <1>1. ASSUME NEW a \in Answers, botRpc' = [botRpc EXCEPT !.answer = a], file' \in Files, epoch' \in Nat,
               botRpc.kind \in {"fetch", "save"} /\ a.is = "ok" => a.doc \in Docs
        PROVE  TypeOK' /\ BotRpcInv'
    <2>1. /\ botRpc' \in BotRpcs /\ botRpc'.kind = botRpc.kind /\ botRpc'.etag = botRpc.etag
          /\ botRpc'.bot = botRpc.bot /\ botRpc'.touched = botRpc.touched /\ botRpc'.answer = a
      BY <1>0, <1>1 DEF BotRpcs
    <2>2. TypeOK'
      BY <1>0, <1>1, <2>1 DEF TUIInv, TypeOK, Handlers
    <2>3. BotRpcInv'
      BY <1>0, <1>1, <2>1 DEF TUIInv, BotRpcInv, SaveOK
    <2> QED
      BY <2>2, <2>3
  <1>2. CASE ServeBotRpc /\ botRpc.kind = "save"
    <2>1. PICK a \in Outcomes \cup {"conflict"} :
              ServeWrite(botRpc, a) /\ botRpc' = [botRpc EXCEPT !.answer = Answer(a, [file |-> file', epoch |-> epoch'])]
      BY <1>2 DEF ServeBotRpc
    <2>2. UNCHANGED late
      BY <1>2 DEF ServeBotRpc
    <2>3. file' \in Files /\ epoch' \in Nat /\ epoch <= epoch'
      BY <1>0, <1>2, <2>1, WriteEffect DEF TUIInv, BotRpcInv, SaveOK
    <2> DEFINE doc == [file |-> file', epoch |-> epoch']
    <2>4. doc \in Docs
      BY <2>3 DEF Docs
    <2> HIDE DEF doc
    <2>5. Answer(a, doc) \in Answers /\ Answer(a, doc).is = a /\ (a = "ok" => Answer(a, doc).doc = doc)
      BY <2>4, AnswerType DEF Outcomes
    <2>6. botRpc' = [botRpc EXCEPT !.answer = Answer(a, doc)]
      BY <2>1 DEF doc
    <2>7. TypeOK' /\ BotRpcInv'
      BY <1>1, <2>3, <2>4, <2>5, <2>6
    <2>8. LateInv'
      BY <2>2 DEF TUIInv, LateInv
    <2> QED
      BY <1>0, <2>3, <2>7, <2>8, DaemonFrame DEF TUIInv
  <1>3. CASE ServeBotRpc /\ botRpc.kind # "save"
    <2>1. botRpc' = [botRpc EXCEPT !.answer = Answer("ok", Snapshot)] /\ UNCHANGED <<late, file, epoch>>
      BY <1>3 DEF ServeBotRpc
    <2>2. Snapshot \in Docs
      BY DEF Snapshot, Docs, TUIInv, TypeOK
    <2>3. Answer("ok", Snapshot) \in Answers /\ Answer("ok", Snapshot).doc = Snapshot
      BY <2>2, AnswerType
    <2>4. file' \in Files /\ epoch' \in Nat /\ epoch <= epoch'
      BY <2>1 DEF TUIInv, TypeOK
    <2>5. TypeOK' /\ BotRpcInv'
      BY <1>1, <2>1, <2>2, <2>3, <2>4
    <2>6. LateInv'
      BY <2>1 DEF TUIInv, LateInv
    <2> QED
      BY <1>0, <2>4, <2>5, <2>6, DaemonFrame DEF TUIInv
  <1>4. CASE LoseBotRpc
    <2>1. botRpc' = [botRpc EXCEPT !.answer = Answer("lost", None)]
      BY <1>4 DEF LoseBotRpc, Lost
    <2>2. UNCHANGED <<file, epoch>> /\ (late' = late \/ late' = Abandon(botRpc))
      BY <1>4 DEF LoseBotRpc
    <2>3. Answer("lost", None) \in Answers /\ Answer("lost", None).is = "lost"
      BY AnswerType
    <2>4. file' \in Files /\ epoch' \in Nat /\ epoch <= epoch'
      BY <2>2 DEF TUIInv, TypeOK
    <2>5. TypeOK' /\ BotRpcInv'
      BY <1>1, <2>1, <2>3, <2>4
    <2>6. LateInv'
      BY <1>0, <2>2 DEF TUIInv, LateInv, BotRpcInv, Abandon, BotRpcs
    <2> QED
      BY <1>0, <2>4, <2>5, <2>6, DaemonFrame DEF TUIInv
  <1> QED
    BY <1>2, <1>3, <1>4


-----------------------------------------------------------------------------
(* Refreshing. *)

(* A fetch, with or without a barrier before it, keeps the older answers out. *)
LEMMA FetchMoves ==
    ASSUME TypeOK, FetchInv, UNCHANGED epoch,
           \/ NoBarrier \/ beginConfigBarrier
           \/ fetchConfigRules /\ UNCHANGED <<lastConfigResponseID, configBarrierID, floor>>
    PROVE  /\ FetchInv' /\ fetches' \in SUBSET Fetches /\ floor' \in Nat
           /\ configRequestID' \in Nat /\ lastConfigResponseID' \in Nat /\ configBarrierID' \in Nat
           /\ \/ UNCHANGED <<configBarrierID, floor>> \/ configBarrierID' # 0
  <1> USE DEF ids
  <1>1. CASE NoBarrier
    BY <1>1 DEF NoBarrier, FetchInv, TypeOK
  <1> DEFINE new == [id |-> configRequestID + 1, answer |-> None]
  <1>2. ASSUME fetchConfigRules
        PROVE  /\ configRequestID' = configRequestID + 1 /\ fetches' = fetches \cup {new}
               /\ new \in Fetches /\ new.id = configRequestID + 1 /\ new.answer = None
    BY <1>2 DEF fetchConfigRules, TypeOK, Fetches
  <1>3. \A q \in fetches : q.id \in Nat /\ q.id <= configRequestID
    BY DEF FetchInv, TypeOK, Fetches
  <1> HIDE DEF new
  <1>4. CASE beginConfigBarrier
    <2>1. lastConfigResponseID' = configRequestID + 1 /\ configBarrierID' = configRequestID + 1 /\ floor' = epoch
      BY <1>4 DEF beginConfigBarrier
    <2>2. FetchInv'
      BY <1>2, <1>3, <1>4, <2>1 DEF FetchInv, TypeOK, beginConfigBarrier
    <2> QED
      BY <1>2, <1>4, <2>1, <2>2 DEF TypeOK, beginConfigBarrier
  <1>5. CASE fetchConfigRules /\ UNCHANGED <<lastConfigResponseID, configBarrierID, floor>>
    <2>1. FetchInv'
      BY <1>2, <1>3, <1>5 DEF FetchInv, TypeOK
    <2> QED
      BY <1>2, <1>5, <2>1 DEF TypeOK
  <1> QED
    BY <1>1, <1>4, <1>5

(* Tick.                                                                     *)
LEMMA TickStep ==
    ASSUME TUIInv, Tick
    PROVE  TUIInv'
  <1> USE DEF draftVars, screen, botVars, daemon
  <1>1. /\ UNCHANGED <<file, epoch, late, rpc, config, draft, sync, view, overlay, botConfig, botEditor,
                       vetted, floor, typed, lastConfigResponseID, configBarrierID>>
        /\ fetchConfigRules
    BY DEF Tick
  <1>2. /\ FetchInv' /\ fetches' \in SUBSET Fetches
        /\ configRequestID' \in Nat /\ lastConfigResponseID' \in Nat /\ configBarrierID' \in Nat
    BY <1>1, FetchMoves DEF TUIInv
  <1>3. botRpc' \in BotRpcs \cup {None} /\ BotRpcInv'
    <2>1. CASE UNCHANGED botRpc
      BY <2>1 DEF TUIInv, TypeOK, BotRpcInv
    <2>2. CASE fetchBotConfig
      BY <2>2 DEF fetchBotConfig, beginBotOperation, BotRpcs, BotRpcInv
    <2> QED
      BY <2>1, <2>2 DEF Tick
  <1>4. TypeOK'
    BY <1>1, <1>2, <1>3 DEF TUIInv, TypeOK
  <1>5. FormInv' /\ RpcInv' /\ EditorInv' /\ LateInv' /\ ShownInv' /\ ValidatedIsPrechecked'
    BY <1>1 DEF TUIInv, FormInv, RpcInv, EditorInv, LateInv, ShownInv, ValidatedIsPrechecked
  <1> QED
    BY <1>2, <1>3, <1>4, <1>5 DEF TUIInv

(* configRulesMsg.                                                           *)
LEMMA RefreshStep ==
    ASSUME TUIInv, NEW q \in fetches, configRulesMsg(q)
    PROVE  TUIInv'
  <1> USE DEF draftVars, screen, botVars, daemon
  <1>1. /\ UNCHANGED <<file, epoch, late, rpc, botRpc, view, overlay, configRequestID, botConfig, botEditor,
                       vetted, floor, typed>>
        /\ fetches' = fetches \ {q}
    BY DEF configRulesMsg
  <1>2. UNCHANGED draft
    BY DEF configRulesMsg, acceptConfig
  <1>3. q \in Fetches /\ q.id \in Nat /\ q.id <= configRequestID /\ q.answer \in Docs \cup {None}
    BY DEF TUIInv, TypeOK, FetchInv, Fetches
  <1>4. BotRpcInv' /\ EditorInv' /\ LateInv' /\ RpcInv'
    BY <1>1, <1>2 DEF TUIInv, BotRpcInv, EditorInv, LateInv, RpcInv
  <1>5. lastConfigResponseID' \in Nat /\ configBarrierID' \in Nat /\ FetchInv'
    <2>1. CASE q.id < lastConfigResponseID
      BY <1>1, <2>1 DEF configRulesMsg, TUIInv, TypeOK, FetchInv
    <2>2. CASE ~(q.id < lastConfigResponseID)
      <3>1. lastConfigResponseID' = q.id /\ lastConfigResponseID <= q.id /\ configBarrierID' \in {0, configBarrierID}
        BY <1>3, <2>2 DEF configRulesMsg, TUIInv, TypeOK
      <3>2. \A p \in fetches : p.id \in Nat
        BY DEF TUIInv, TypeOK, Fetches
      <3> QED
        BY <1>1, <1>3, <3>1, <3>2 DEF TUIInv, TypeOK, FetchInv
    <2> QED
      BY <2>1, <2>2
  <1>6. CASE q.id >= lastConfigResponseID /\ q.answer # None
    <2>1. acceptConfig(q.answer) /\ q.answer \in Docs /\ q.answer.epoch >= floor
      BY <1>3, <1>6 DEF configRulesMsg, TUIInv, FetchInv, TypeOK
    <2>2. config' \in Docs \cup {None} /\ (config \in Docs => config' \in Docs)
      BY <2>1 DEF acceptConfig, TUIInv, TypeOK
    <2>3. sync' \in {"stale", "dirty", "clean", sync} /\ (sync' = "clean" => sync = "clean" \/ draft = None)
      BY <2>1 DEF acceptConfig
    <2>4. config' = q.answer \/ (draft # None /\ sync' = "stale")
      BY <2>1 DEF acceptConfig
    <2>5. TypeOK'
      BY <1>1, <1>2, <1>5, <2>2, <2>3 DEF TUIInv, TypeOK
    <2>6. ShownInv'
      BY <1>1, <1>2, <2>1, <2>4 DEF ShownInv
    <2>7. FormInv' /\ ValidatedIsPrechecked'
      BY <1>1, <1>2, <2>2, <2>3 DEF TUIInv, FormInv, ValidatedIsPrechecked
    <2> QED
      BY <1>4, <1>5, <2>5, <2>6, <2>7 DEF TUIInv
  <1>7. CASE ~(q.id >= lastConfigResponseID /\ q.answer # None)
    <2>1. UNCHANGED <<config, configBarrierID>> /\ (sync' = sync \/ (config = None /\ sync' = "unavailable"))
      BY <1>3, <1>7 DEF configRulesMsg, TUIInv, TypeOK
    <2>2. TypeOK'
      BY <1>1, <1>2, <1>5, <2>1 DEF TUIInv, TypeOK
    <2>3. FormInv' /\ ShownInv' /\ ValidatedIsPrechecked'
      BY <1>1, <1>2, <2>1 DEF TUIInv, FormInv, ShownInv, ValidatedIsPrechecked
    <2> QED
      BY <1>4, <1>5, <2>2, <2>3 DEF TUIInv
  <1> QED
    BY <1>6, <1>7

-----------------------------------------------------------------------------
(* The draft, and the questions asked about it. *)

(* What such a step leaves alone.                                            *)
LEMMA DraftFrame ==
    ASSUME TUIInv, UNCHANGED <<file, epoch, late, botRpc, botConfig, botEditor, typed, config>>,
           \/ NoBarrier \/ beginConfigBarrier
           \/ fetchConfigRules /\ UNCHANGED <<lastConfigResponseID, configBarrierID, floor>>,
           rpc' \in Rpcs \cup {None}, draft' \in Drafts \cup {None}, vetted' \in Drafts \cup {None},
           sync' \in {"unavailable", "clean", "dirty", "validated", "stale"},
           view' \in {"main", "form", "precheck", "bot", "botEditor"},
           overlay' \in {"none", "delete", "discard", "apply", "reload"},
           FormInv', RpcInv', ValidatedIsPrechecked',
           beginConfigBarrier \/ (draft' = None \/ sync' # "stale" => draft = None \/ sync # "stale")
    PROVE  TUIInv'
  <1>1. /\ FetchInv' /\ fetches' \in SUBSET Fetches /\ floor' \in Nat
        /\ configRequestID' \in Nat /\ lastConfigResponseID' \in Nat /\ configBarrierID' \in Nat
        /\ \/ UNCHANGED <<configBarrierID, floor>> \/ configBarrierID' # 0
    BY FetchMoves DEF TUIInv
  <1>2. beginConfigBarrier => configBarrierID' # 0
    BY DEF beginConfigBarrier, TUIInv, TypeOK
  <1>3. ShownInv'
    BY <1>1, <1>2 DEF TUIInv, ShownInv
  <1>4. TypeOK'
    BY <1>1 DEF TUIInv, TypeOK
  <1>5. EditorInv' /\ BotRpcInv' /\ LateInv'
    BY DEF TUIInv, EditorInv, BotRpcInv, LateInv
  <1> QED
    BY <1>1, <1>3, <1>4, <1>5 DEF TUIInv

(* refreshDraftState with a draft.                                           *)
LEMMA RefreshDraft ==
    ASSUME NEW d \in Drafts, refreshDraftState(d)
    PROVE  /\ draft' \in Drafts \cup {None} /\ sync' \in {"clean", "stale", "dirty"}
           /\ sync' = "stale" <=> sync = "stale"
           /\ sync = "stale" => draft' = d
  BY DEF refreshDraftState, draftOutdates

(* The edits.                                                                *)
LEMMA EditStep ==
    ASSUME TUIInv, OpenForm \/ StageForm \/ Toggle \/ ConfirmDelete
    PROVE  TUIInv'
  <1> USE DEF Rest, draftVars, screen, botVars, daemon, KeyReady, operationIdle
  <1>0. /\ UNCHANGED <<file, epoch, late, botRpc, botConfig, botEditor, vetted, typed, config, rpc>> /\ NoBarrier
        /\ rpc = None
    BY DEF OpenForm, StageForm, Toggle, ConfirmDelete
  <1>1. RpcInv'
    BY <1>0 DEF RpcInv
  <1>2. config \in Docs /\ config.file \in Files /\ config.file.rules \in RuleSets
    BY DEF OpenForm, StageForm, Toggle, ConfirmDelete, prepareWrite, canWrite, TUIInv, TypeOK, FormInv, Docs, Files
  <1>3. ensuredDraft \in Drafts
    BY <1>2 DEF ensuredDraft, newDraft, Drafts, TUIInv, TypeOK
  <1>4. CASE OpenForm
    <2>1. view' = "form" /\ draft' = ensuredDraft /\ overlay = "none" /\ UNCHANGED <<overlay, sync>>
      BY <1>4 DEF OpenForm
    <2>2. FormInv'
      BY <1>0, <1>2, <1>3, <2>1 DEF FormInv
    <2>3. ValidatedIsPrechecked'
      BY <1>0, <2>1 DEF TUIInv, ValidatedIsPrechecked, ensuredDraft
    <2>4. draft' = None \/ sync' # "stale" => draft = None \/ sync # "stale"
      BY <2>1 DEF ensuredDraft
    <2> QED
      BY <1>0, <1>1, <1>3, <2>1, <2>2, <2>3, <2>4, DraftFrame DEF TUIInv, TypeOK
  <1>5. ASSUME NEW d \in Drafts, refreshDraftState(d), view' # "form", view' \in {view, "main"},
               overlay' \in {overlay, "none"}
        PROVE  TUIInv'
    <2>1. /\ draft' \in Drafts \cup {None} /\ sync' \in {"clean", "stale", "dirty"}
          /\ sync' = "stale" <=> sync = "stale"
          /\ sync = "stale" => draft' = d
      BY <1>5, RefreshDraft
    <2>2. FormInv'
      BY <1>0, <1>5 DEF TUIInv, FormInv
    <2>3. ValidatedIsPrechecked'
      BY <2>1 DEF ValidatedIsPrechecked
    <2>4. draft' = None \/ sync' # "stale" => draft = None \/ sync # "stale"
      <3>1. d # None
        BY NoneAssumption DEF Drafts, Files
      <3> QED
        BY <2>1, <3>1
    <2> QED
      BY <1>0, <1>1, <1>5, <2>1, <2>2, <2>3, <2>4, DraftFrame DEF TUIInv, TypeOK
  <1>6. CASE StageForm
    <2>1. PICK r \in RuleSets : refreshDraftState([draft EXCEPT !.rules = r])
      BY <1>6 DEF StageForm, editedRules
    <2>2. draft \in Drafts
      BY <1>6 DEF StageForm, TUIInv, FormInv
    <2>3. [draft EXCEPT !.rules = r] \in Drafts
      BY <2>2 DEF Drafts
    <2> QED
      BY <1>5, <1>6, <2>1, <2>3 DEF StageForm
  <1>7. CASE Toggle \/ ConfirmDelete
    <2>1. PICK r \in RuleSets : refreshDraftState([ensuredDraft EXCEPT !.rules = r])
      BY <1>7 DEF Toggle, ConfirmDelete
    <2>2. [ensuredDraft EXCEPT !.rules = r] \in Drafts
      BY <1>3 DEF Drafts
    <2>3. view' = view /\ view # "form" /\ overlay' \in {overlay, "none"}
      BY <1>7 DEF Toggle, ConfirmDelete, TUIInv, FormInv
    <2> QED
      BY <1>5, <2>1, <2>2, <2>3
  <1> QED
    BY <1>4, <1>6, <1>7


(* The drafts given up.                                                      *)
LEMMA DiscardStep ==
    ASSUME TUIInv, CancelForm \/ ConfirmDiscard
    PROVE  TUIInv'
  <1> USE DEF Rest, draftVars, screen, botVars, daemon, KeyReady, operationIdle
  <1>0. /\ UNCHANGED <<file, epoch, late, botRpc, botConfig, botEditor, vetted, typed, config, rpc>>
        /\ rpc = None /\ view' = "main" /\ overlay' \in {overlay, "none"}
    BY DEF CancelForm, ConfirmDiscard
  <1>1. RpcInv' /\ FormInv'
    BY <1>0 DEF RpcInv, FormInv, TUIInv
  <1>2. CASE Discard(sync = "stale")
    <2>2. draft' = None /\ sync' \in {"unavailable", "clean"} /\ (NoBarrier \/ beginConfigBarrier)
      BY <1>2 DEF Discard
    <2>3. beginConfigBarrier \/ sync # "stale"
      BY <1>2 DEF Discard
    <2>4. ValidatedIsPrechecked'
      BY <2>2 DEF ValidatedIsPrechecked
    <2> QED
      BY <1>0, <1>1, <2>2, <2>3, <2>4, DraftFrame DEF TUIInv, TypeOK
  <1>3. CASE UNCHANGED <<draft, sync>> /\ NoBarrier
    <2>1. ValidatedIsPrechecked'
      BY <1>0, <1>3 DEF TUIInv, ValidatedIsPrechecked
    <2> QED
      BY <1>0, <1>1, <1>3, <2>1, DraftFrame DEF TUIInv, TypeOK
  <1> QED
    BY <1>2, <1>3 DEF CancelForm, ConfirmDiscard

(* The questions.                                                            *)
LEMMA AskStep ==
    ASSUME TUIInv, AskDelete \/ AskDiscard \/ Dismiss \/ AskApply \/ AskReload
    PROVE  TUIInv'
  <1> USE DEF Rest, draftVars, screen, botVars, daemon, KeyReady, operationIdle
  <1>0. /\ UNCHANGED <<file, epoch, late, botRpc, botConfig, botEditor, vetted, typed, config, rpc, view, draft, sync>>
        /\ NoBarrier
    BY DEF AskDelete, AskDiscard, Dismiss, AskApply, AskReload, Ask
  <1>1. /\ overlay' \in {"none", "delete", "discard", "apply", "reload"}
        /\ overlay' = "none" \/ view # "form"
        /\ overlay' = "delete" => config \in Docs
    BY DEF AskDelete, AskDiscard, Dismiss, AskApply, AskReload, Ask, prepareWrite, canWrite, TUIInv, TypeOK
  <1>2. RpcInv' /\ FormInv' /\ ValidatedIsPrechecked'
    BY <1>0, <1>1 DEF TUIInv, RpcInv, FormInv, ValidatedIsPrechecked
  <1> QED
    BY <1>0, <1>1, <1>2, DraftFrame DEF TUIInv, TypeOK

-----------------------------------------------------------------------------
(* Precheck, apply and reload. *)

(* The requests sent.                                                        *)
LEMMA SendStep ==
    ASSUME TUIInv, startPrecheck \/ ConfirmApply \/ ConfirmReload
    PROVE  TUIInv'
  <1> USE DEF Rest, draftVars, screen, botVars, daemon, KeyReady, operationIdle
  <1>0. /\ UNCHANGED <<file, epoch, late, botRpc, botConfig, botEditor, vetted, typed, config, view, draft, sync>>
        /\ NoBarrier /\ overlay' \in {overlay, "none"}
    BY DEF startPrecheck, ConfirmApply, ConfirmReload
  <1>1. view # "form"
    BY DEF startPrecheck, ConfirmApply, ConfirmReload, TUIInv, FormInv
  <1>2. FormInv' /\ ValidatedIsPrechecked'
    BY <1>0, <1>1 DEF TUIInv, FormInv, ValidatedIsPrechecked
  <1>3. rpc' \in Rpcs \cup {None} /\ RpcInv'
    <2>1. CASE startPrecheck
      <3>1. draft # None /\ draft \in Drafts
        BY <2>1 DEF startPrecheck, TUIInv, TypeOK
      <3>2. rpc' = [kind |-> "precheck", etag |-> draft.base, rules |-> draft.rules, answer |-> None]
        BY <2>1 DEF startPrecheck, Send
      <3>3. draft.base \in Files /\ draft.rules \in RuleSets /\ draft = [base |-> draft.base, rules |-> draft.rules]
        BY <3>1 DEF Drafts
      <3> QED
        BY <1>0, <3>1, <3>2, <3>3 DEF Rpcs, RpcInv
    <2>2. CASE ConfirmApply /\ draft # None /\ sync = "validated"
      <3>1. draft.base \in Files /\ draft.rules \in RuleSets
        BY <2>2 DEF Drafts, TUIInv, TypeOK
      <3>2. rpc' = [kind |-> "apply", etag |-> draft.base, rules |-> draft.rules, answer |-> None]
        BY <2>2 DEF ConfirmApply, Send
      <3> QED
        BY <3>1, <3>2 DEF Rpcs, RpcInv
    <2>3. CASE ConfirmApply /\ ~(draft # None /\ sync = "validated")
      BY <1>0, <2>3 DEF ConfirmApply, TUIInv, TypeOK, RpcInv
    <2>4. CASE ConfirmReload
      BY <2>4 DEF ConfirmReload, Send, Rpcs, RpcInv
    <2> QED
      BY <2>1, <2>2, <2>3, <2>4
  <1> QED
    BY <1>0, <1>2, <1>3, DraftFrame DEF TUIInv, TypeOK

(* handlePrecheckResult.                                                     *)
LEMMA PrecheckStep ==
    ASSUME TUIInv, handlePrecheckResult
    PROVE  TUIInv'
  <1> USE DEF screen, botVars, daemon
  <1>0. /\ UNCHANGED <<file, epoch, late, botRpc, botConfig, botEditor, typed, config, draft, overlay>>
        /\ NoBarrier /\ rpc' = None /\ rpc # None /\ rpc.kind = "precheck"
    BY DEF handlePrecheckResult
  <1>1. draft \in Drafts /\ draft # None /\ draft = [base |-> rpc.etag, rules |-> rpc.rules]
    BY <1>0 DEF TUIInv, RpcInv
  <1>2. \/ UNCHANGED <<view, sync, vetted>>
        \/ UNCHANGED <<view, vetted>> /\ sync' = "stale"
        \/ /\ sync # "stale" /\ view' = "precheck"
           /\ \/ sync' = "validated" /\ vetted' = [base |-> rpc.etag, rules |-> rpc.rules]
              \/ sync' = "dirty" /\ vetted' = vetted
    BY DEF handlePrecheckResult
  <1>3. RpcInv'
    BY <1>0 DEF RpcInv
  <1>4. FormInv'
    BY <1>0, <1>2 DEF TUIInv, FormInv
  <1>5. ValidatedIsPrechecked'
    BY <1>0, <1>1, <1>2 DEF TUIInv, ValidatedIsPrechecked
  <1>6. draft' = None \/ sync' # "stale" => draft = None \/ sync # "stale"
    BY <1>0, <1>2
  <1> QED
    BY <1>0, <1>1, <1>2, <1>3, <1>4, <1>5, <1>6, DraftFrame DEF TUIInv, TypeOK

(* handleApplyResult.                                                        *)
LEMMA ApplyStep ==
    ASSUME TUIInv, handleApplyResult
    PROVE  TUIInv'
  <1> USE DEF screen, botVars, daemon
  <1>0. /\ UNCHANGED <<file, epoch, late, botRpc, botConfig, botEditor, vetted, typed, overlay>>
        /\ rpc' = None /\ rpc # None /\ rpc.kind = "apply" /\ rpc.answer # None
    BY DEF handleApplyResult
  <1>1. RpcInv'
    BY <1>0 DEF RpcInv
  <1>2. CASE rpc.answer.is = "ok"
    <2> DEFINE doc == rpc.answer.doc
    <2>1. doc \in Docs /\ doc.epoch <= epoch /\ doc.epoch \in Nat
      BY <1>0, <1>2 DEF TUIInv, RpcInv, Docs
    <2>2. applied(doc)
      BY <1>2 DEF handleApplyResult
    <2> HIDE DEF doc
    <2>3. /\ config' = doc /\ draft' = None /\ sync' = "clean" /\ view' = "main" /\ floor' = doc.epoch
          /\ configRequestID' = configRequestID + 1 /\ lastConfigResponseID' = configRequestID + 1
          /\ UNCHANGED <<configBarrierID, fetches>>
      BY <2>2 DEF applied, afterApply
    <2>4. \A q \in fetches : q.id \in Nat
      BY DEF TUIInv, TypeOK, Fetches
    <2>5. FetchInv'
      BY <1>0, <2>1, <2>3, <2>4 DEF TUIInv, TypeOK, FetchInv
    <2>6. TypeOK'
      BY <1>0, <2>1, <2>3 DEF TUIInv, TypeOK
    <2>7. FormInv' /\ EditorInv' /\ BotRpcInv' /\ LateInv' /\ ValidatedIsPrechecked'
      BY <1>0, <2>1, <2>3 DEF TUIInv, FormInv, EditorInv, BotRpcInv, LateInv, ValidatedIsPrechecked
    <2>8. ShownInv'
      BY <2>1, <2>3 DEF ShownInv
    <2> QED
      BY <1>1, <2>5, <2>6, <2>7, <2>8 DEF TUIInv
  <1>3. CASE rpc.answer.is \in {"conflict", "rejected"}
    <2>1. refusedApply(rpc.answer.is)
      BY <1>3 DEF handleApplyResult
    <2>2. /\ UNCHANGED <<config, draft>> /\ NoBarrier /\ view' \in {"main", "precheck"}
          /\ sync' \in {"stale", "dirty", sync} /\ (sync = "stale" => sync' = "stale")
      BY <2>1 DEF refusedApply
    <2>3. FormInv' /\ ValidatedIsPrechecked'
      BY <1>0, <2>2 DEF TUIInv, FormInv, ValidatedIsPrechecked
    <2> QED
      BY <1>0, <1>1, <2>2, <2>3, DraftFrame DEF TUIInv, TypeOK
  <1>4. CASE rpc.answer.is \notin {"ok", "conflict", "rejected"}
    <2>1. notApplied(rpc.answer.is)
      BY <1>4 DEF handleApplyResult
    <2>2. /\ UNCHANGED config /\ view' = "main"
          /\ \/ beginConfigBarrier /\ draft' = None /\ sync' = "unavailable"
             \/ beginConfigBarrier /\ sync' = "stale" /\ UNCHANGED draft
             \/ /\ NoBarrier \/ beginConfigBarrier
                /\ UNCHANGED draft /\ sync' \in {"stale", "dirty"} /\ (sync = "stale" => sync' = "stale")
      BY <2>1 DEF notApplied
    <2>3. FormInv' /\ ValidatedIsPrechecked'
      BY <1>0, <2>2 DEF TUIInv, FormInv, ValidatedIsPrechecked
    <2> QED
      BY <1>0, <1>1, <2>2, <2>3, DraftFrame DEF TUIInv, TypeOK
  <1> QED
    BY <1>2, <1>3, <1>4

(* reloadMsg.                                                                *)
LEMMA ReloadStep ==
    ASSUME TUIInv, reloadMsg
    PROVE  TUIInv'
  <1> USE DEF Rest, draftVars, botVars, daemon
  <1>0. /\ UNCHANGED <<file, epoch, late, botRpc, botConfig, botEditor, vetted, typed, config, view, draft, sync>>
        /\ rpc' = None /\ overlay' = "none"
        /\ \/ NoBarrier
           \/ fetchConfigRules /\ UNCHANGED <<lastConfigResponseID, configBarrierID, floor>>
    BY DEF reloadMsg, NoBarrier, ids
  <1>1. RpcInv' /\ FormInv' /\ ValidatedIsPrechecked'
    BY <1>0 DEF TUIInv, RpcInv, FormInv, ValidatedIsPrechecked
  <1> QED
    BY <1>0, <1>1, DraftFrame DEF TUIInv, TypeOK

-----------------------------------------------------------------------------
(* The bot settings. *)

(* What a step on the bot settings leaves alone.                             *)
LEMMA BotFrame ==
    ASSUME TUIInv, UNCHANGED <<file, epoch, late, rpc, config, draft, sync, vetted, overlay>>,
           NoBarrier \/ beginConfigBarrier,
           view' \in {"main", "bot", "botEditor", view},
           view' = "botEditor" => botEditor' \in Editors,
           botRpc' \in BotRpcs \cup {None}, botConfig' \in Files \cup {None},
           botEditor' \in Editors \cup {None}, typed' \in SUBSET Fields,
           BotRpcInv', EditorInv'
    PROVE  TUIInv'
  <1>1. /\ FetchInv' /\ fetches' \in SUBSET Fetches /\ floor' \in Nat
        /\ configRequestID' \in Nat /\ lastConfigResponseID' \in Nat /\ configBarrierID' \in Nat
        /\ \/ UNCHANGED <<configBarrierID, floor>> \/ configBarrierID' # 0
    BY FetchMoves DEF TUIInv
  <1>2. ShownInv'
    BY <1>1 DEF TUIInv, ShownInv
  <1>3. TypeOK'
    BY <1>1 DEF TUIInv, TypeOK
  <1>4. FormInv'
    BY DEF TUIInv, FormInv
  <1>5. RpcInv' /\ LateInv' /\ ValidatedIsPrechecked'
    BY DEF TUIInv, RpcInv, LateInv, ValidatedIsPrechecked
  <1> QED
    BY <1>1, <1>2, <1>3, <1>4, <1>5 DEF TUIInv


(* A bot operation other than a save is sent.                                *)
LEMMA BotSendType ==
    ASSUME NEW kind \in {"fetch", "action"}, beginBotOperation(kind, None, None, {})
    PROVE  botRpc' \in BotRpcs \cup {None} /\ BotRpcInv'
  BY DEF beginBotOperation, BotRpcs, BotRpcInv

(* Moving about, and what the operator asks of the bot.                      *)
LEMMA BotKeyStep ==
    ASSUME TUIInv, Navigate \/ openBotConfig \/ BotAction \/ RefreshBotEditor \/ CancelBotEditor
    PROVE  TUIInv'
  <1> USE DEF RestOfBot, draftVars, screen, botVars, daemon, KeyReady, operationIdle
  <1>0. /\ UNCHANGED <<file, epoch, late, rpc, config, draft, sync, vetted, overlay, botConfig, typed>>
        /\ NoBarrier
    BY DEF Navigate, openBotConfig, BotAction, RefreshBotEditor, CancelBotEditor
  <1>1. /\ view' \in {"main", "bot", view} /\ botEditor' \in {botEditor, None}
        /\ view' = "botEditor" => view = "botEditor" /\ UNCHANGED botEditor
    BY DEF Navigate, openBotConfig, BotAction, RefreshBotEditor, CancelBotEditor
  <1>2. botRpc' \in BotRpcs \cup {None} /\ BotRpcInv'
    <2>1. CASE UNCHANGED botRpc
      BY <2>1 DEF TUIInv, TypeOK, BotRpcInv
    <2>2. CASE \E kind \in {"fetch", "action"} : beginBotOperation(kind, None, None, {})
      BY <2>2, BotSendType
    <2> QED
      BY <2>1, <2>2 DEF Navigate, openBotConfig, BotAction, RefreshBotEditor, CancelBotEditor, fetchBotConfig
  <1>3. EditorInv'
    BY <1>0, <1>1 DEF TUIInv, EditorInv
  <1>4. view' = "botEditor" => botEditor' \in Editors
    BY <1>1 DEF TUIInv, FormInv
  <1> QED
    BY <1>0, <1>1, <1>2, <1>3, <1>4, BotFrame DEF TUIInv, TypeOK

(* Editing and saving.                                                       *)
LEMMA BotEditStep ==
    ASSUME TUIInv, EditBot \/ SaveBot \/ \E f \in Fields, v \in Values : TypeBot(f, v)
    PROVE  TUIInv'
  <1> USE DEF RestOfBot, draftVars, screen, botVars, daemon, KeyReady, operationIdle
  <1>0. UNCHANGED <<file, epoch, late, rpc, config, draft, sync, vetted, overlay, botConfig>> /\ NoBarrier
    BY DEF EditBot, SaveBot, TypeBot
  <1>1. CASE EditBot
    <2>1. botConfig \in Files /\ UNCHANGED botRpc /\ view' = "botEditor" /\ typed' = {}
      BY <1>1 DEF EditBot, TUIInv, TypeOK
    <2>2. botEditor' = [value |-> botConfig.bot, base |-> botConfig]
      BY <1>1 DEF EditBot, newBotConfigEditor
    <2>3. botEditor' \in Editors /\ botEditor'.value = botEditor'.base.bot
      BY <2>1, <2>2 DEF Editors, Files
    <2>4. EditorInv'
      BY <2>3 DEF EditorInv
    <2>5. BotRpcInv' /\ botRpc' \in BotRpcs \cup {None}
      BY <2>1 DEF TUIInv, TypeOK, BotRpcInv
    <2> QED
      BY <1>0, <2>1, <2>3, <2>4, <2>5, BotFrame DEF TUIInv, TypeOK
  <1>2. ASSUME NEW f \in Fields, NEW v \in Values, TypeBot(f, v) PROVE TUIInv'
    <2>1. /\ botEditor \in Editors /\ UNCHANGED <<botRpc, view>> /\ typed' = typed \cup {f}
          /\ botEditor' = [botEditor EXCEPT !.value[f] = v] /\ typed \in SUBSET Fields
      BY <1>2 DEF TypeBot, TUIInv, FormInv, TypeOK
    <2>2. /\ botEditor' \in Editors /\ botEditor'.base = botEditor.base
          /\ botEditor'.value = [botEditor.value EXCEPT ![f] = v] /\ botEditor.value \in [Fields -> Values]
      BY <2>1 DEF Editors
    <2>3. \A g \in Fields \ {f} : botEditor'.value[g] = botEditor.value[g]
      BY <2>2
    <2>4. botEditor # None
      BY <2>1, NoneAssumption DEF Editors, Files
    <2>5. EditorInv'
      BY <2>1, <2>2, <2>3, <2>4 DEF TUIInv, EditorInv
    <2>6. BotRpcInv' /\ botRpc' \in BotRpcs \cup {None}
      BY <2>1 DEF TUIInv, TypeOK, BotRpcInv
    <2> QED
      BY <1>0, <2>1, <2>2, <2>5, <2>6, BotFrame DEF TUIInv, TypeOK
  <1>3. CASE SaveBot
    <2>1. botEditor \in Editors /\ UNCHANGED <<view, botEditor, typed>> /\ typed \in SUBSET Fields
      BY <1>3 DEF SaveBot, TUIInv, FormInv, TypeOK
    <2>2. botRpc' = [kind |-> "save", etag |-> botEditor.base, bot |-> botEditor.value, touched |-> typed, answer |-> None]
      BY <1>3 DEF SaveBot, beginBotOperation
    <2>3. botEditor.base \in Files /\ botEditor.value \in [Fields -> Values]
      BY <2>1 DEF Editors
    <2>4. botRpc' \in BotRpcs
      BY <2>1, <2>2, <2>3 DEF BotRpcs
    <2>5. \A f \in Fields : botEditor.value[f] # botEditor.base.bot[f] => f \in typed
      BY <2>1, NoneAssumption DEF TUIInv, EditorInv, Editors, Files
    <2>6. BotRpcInv'
      BY <2>2, <2>3, <2>5 DEF BotRpcInv, SaveOK
    <2>7. EditorInv'
      BY <2>1 DEF TUIInv, EditorInv
    <2> QED
      BY <1>0, <2>1, <2>4, <2>6, <2>7, BotFrame DEF TUIInv, TypeOK
  <1> QED
    BY <1>1, <1>2, <1>3

(* rebase keeps what was typed and takes the rest from the latest state.     *)
LEMMA RebaseKeeps ==
    ASSUME NEW e \in Editors, NEW latest \in Files, NEW T,
           \A f \in Fields : e.value[f] # e.base.bot[f] => f \in T
    PROVE  /\ rebase(e, latest) \in Editors
           /\ \A f \in Fields : rebase(e, latest).value[f] # rebase(e, latest).base.bot[f] => f \in T
  BY DEF rebase, Editors, Files

(* botConfigMsg.                                                             *)
LEMMA BotAnswerStep ==
    ASSUME TUIInv, botConfigMsg
    PROVE  TUIInv'
  <1> USE DEF RestOfBot, draftVars, screen, botVars, daemon
  <1>0. /\ UNCHANGED <<file, epoch, late, rpc, config, draft, sync, vetted, overlay, typed>>
        /\ botRpc # None /\ botRpc.answer # None /\ typed \in SUBSET Fields
        /\ botRpc \in BotRpcs /\ botConfig \in Files \cup {None} /\ botEditor \in Editors \cup {None}
    BY DEF botConfigMsg, TUIInv, TypeOK
  <1>1. ASSUME botRpc.kind \in {"fetch", "save"}, botRpc.answer.is = "ok"
        PROVE  botRpc.answer.doc \in Docs /\ botRpc.answer.doc.file \in Files
    BY <1>0, <1>1 DEF TUIInv, BotRpcInv, Docs
  <1>2. ASSUME UNCHANGED botEditor \/ botEditor' = None PROVE EditorInv' /\ botEditor' \in Editors \cup {None}
    BY <1>0, <1>2 DEF TUIInv, EditorInv
  <1>3. ASSUME botRpc' = None PROVE BotRpcInv' /\ botRpc' \in BotRpcs \cup {None}
    BY <1>3 DEF BotRpcInv
  <1>4. ASSUME fetchBotConfig PROVE BotRpcInv' /\ botRpc' \in BotRpcs \cup {None}
    BY <1>4, BotSendType DEF fetchBotConfig
  <1>5. CASE botRpc.kind = "fetch"
    <2>1. botFetched
      BY <1>5 DEF botConfigMsg
    <2>2. UNCHANGED view /\ NoBarrier /\ botRpc' = None
      BY <2>1 DEF botFetched
    <2>3. CASE UNCHANGED botEditor
      <3>1. botConfig' \in Files \cup {None}
        BY <1>0, <1>1, <1>5, <2>1 DEF botFetched
      <3>2. view' = "botEditor" => botEditor' \in Editors
        BY <2>2, <2>3 DEF TUIInv, FormInv
      <3> QED
        BY <1>0, <1>2, <1>3, <2>2, <2>3, <3>1, <3>2, BotFrame
    <2>4. CASE ~UNCHANGED botEditor
      <3> DEFINE new == botRpc.answer.doc.file
      <3>1. botRpc.answer.is = "ok" /\ botEditor # None /\ botEditor' = rebase(botEditor, new) /\ botConfig' = new
        BY <2>1, <2>4 DEF botFetched
      <3>2. new \in Files
        BY <1>1, <1>5, <3>1
      <3> HIDE DEF new
      <3>3. botEditor \in Editors /\ \A f \in Fields : botEditor.value[f] # botEditor.base.bot[f] => f \in typed
        BY <1>0, <3>1 DEF TUIInv, EditorInv
      <3>4. /\ rebase(botEditor, new) \in Editors
            /\ \A f \in Fields : rebase(botEditor, new).value[f] # rebase(botEditor, new).base.bot[f] => f \in typed
        BY <3>2, <3>3, RebaseKeeps
      <3>5. botEditor' \in Editors /\ EditorInv'
        BY <1>0, <3>1, <3>4 DEF EditorInv
      <3> QED
        BY <1>0, <1>3, <2>2, <3>1, <3>2, <3>5, BotFrame
    <2> QED
      BY <2>3, <2>4
  <1>6. CASE botRpc.kind = "save"
    <2>1. botSaved
      BY <1>6 DEF botConfigMsg
    <2>2. /\ botRpc' = None \/ fetchBotConfig
          /\ NoBarrier \/ beginConfigBarrier
          /\ (botEditor' = None /\ view' = "bot") \/ UNCHANGED <<botEditor, view>>
      BY <2>1 DEF botSaved
    <2>3. botConfig' \in Files \cup {None}
      BY <1>0, <1>1, <1>6, <2>1 DEF botSaved
    <2>4. view' = "botEditor" => botEditor' \in Editors
      BY <2>2 DEF TUIInv, FormInv
    <2>5. view' \in {"main", "bot", "botEditor", view}
      BY <2>2
    <2> QED
      BY <1>0, <1>2, <1>3, <1>4, <2>2, <2>3, <2>4, <2>5, BotFrame
  <1>7. CASE botRpc.kind \notin {"fetch", "save"}
    <2>1. fetchBotConfig /\ UNCHANGED <<view, botConfig, botEditor>> /\ NoBarrier
      BY <1>7 DEF botConfigMsg
    <2>2. view' = "botEditor" => botEditor' \in Editors
      BY <2>1 DEF TUIInv, FormInv
    <2> QED
      BY <1>0, <1>2, <1>4, <2>1, <2>2, BotFrame
  <1> QED
    BY <1>5, <1>6, <1>7

-----------------------------------------------------------------------------
(* The theorems. *)

(* The interface starts empty, with one fetch under way.                     *)
LEMMA InvInit ==
    Init => TUIInv
  <1> SUFFICES ASSUME Init PROVE TUIInv
    OBVIOUS
  <1>1. TypeOK
    BY DEF Init, TypeOK, Files, Fetches
  <1>2. FormInv /\ RpcInv /\ EditorInv /\ BotRpcInv /\ LateInv
    BY DEF Init, FormInv, RpcInv, EditorInv, BotRpcInv, LateInv
  <1>3. FetchInv /\ ShownInv /\ ValidatedIsPrechecked
    BY DEF Init, FetchInv, ShownInv, ValidatedIsPrechecked
  <1> QED
    BY <1>1, <1>2, <1>3 DEF TUIInv

(* Every step keeps the whole invariant.                                     *)
LEMMA InvStep ==
    TUIInv /\ [Next]_vars => TUIInv'
  <1> SUFFICES ASSUME TUIInv, [Next]_vars PROVE TUIInv'
    OBVIOUS
  <1>1. ASSUME UNCHANGED vars PROVE TUIInv'
    <2>1. UNCHANGED <<Handlers, file, epoch, late, fetches, rpc, botRpc>>
      BY <1>1 DEF vars, Handlers, daemon, draftVars, screen, ids, botVars
    <2>2. epoch' \in Nat /\ epoch <= epoch' /\ TypeOK' /\ BotRpcInv' /\ LateInv'
      BY <2>1 DEF TUIInv, TypeOK, Handlers, ids, BotRpcInv, LateInv
    <2> QED
      BY <2>1, <2>2, DaemonFrame DEF TUIInv
  <1> HIDE DEF TUIInv
  <1> QED
    BY <1>1, DaemonStep, RpcStep, BotRpcStep, TickStep, RefreshStep, EditStep, DiscardStep, AskStep, SendStep,
       PrecheckStep, ApplyStep, ReloadStep, BotKeyStep, BotEditStep, BotAnswerStep, Zenon DEF Next

(* The invariant holds in every state of the interface.                      *)
THEOREM TUIInvariant == Spec => []TUIInv
  BY InvInit, InvStep, PTL DEF Spec

(* What the interface calls validated is the draft the daemon found good.    *)
THEOREM ValidatedIsPrecheckedHolds == Spec => []ValidatedIsPrechecked
  <1>1. TUIInv => ValidatedIsPrechecked
    BY DEF TUIInv
  <1> QED
    BY <1>1, TUIInvariant, PTL

(* The configuration on display never falls behind a change the interface    *)
(* knows of, with any number of fetches and abandoned writes under way.      *)
THEOREM NeverShowsOlderHolds == Spec => []NeverShowsOlder
  <1>1. TUIInv => NeverShowsOlder
    BY DEF TUIInv, ShownInv, NeverShowsOlder
  <1> QED
    BY <1>1, TUIInvariant, PTL

(* A save of the bot settings, even one served after the interface gave it   *)
(* up, changes no field the operator did not type into.                      *)
THEOREM SaveKeepsRemoteFieldsHolds == Spec => SaveKeepsRemoteFields
  <1> DEFINE Served(w) ==
        w # None /\ w.kind = "save" /\ file' # file /\ file'.bot = w.bot
          /\ \/ w \in late /\ w \notin late'
             \/ w.answer = None /\ w = botRpc /\ botRpc' # None /\ botRpc'.answer # None
  <1> DEFINE Keeps == \A w \in late \cup {botRpc} :
        Served(w) => \A f \in Fields : file'.bot[f] # file.bot[f] => f \in w.touched
  <1>1. TUIInv /\ [Next]_vars => [Keeps]_vars
    <2> SUFFICES ASSUME TUIInv, [Next]_vars, NEW w \in late \cup {botRpc}, Served(w)
                 PROVE  \A f \in Fields : file'.bot[f] # file.bot[f] => f \in w.touched
      OBVIOUS
    <2>1. SaveOK(w)
      BY DEF TUIInv, LateInv, BotRpcInv, Rpcs
    <2>2. w.etag = file
      <3> USE DEF daemon, draftVars, screen, ids, botVars, Rest, RestOfBot
      <3>1. ASSUME NEW v \in late, ServeLate(v) PROVE w.etag = file
        <4>1. late' = late \ {v} /\ UNCHANGED botRpc /\ \E a : ServeWrite(v, a)
          BY <3>1 DEF ServeLate
        <4>2. w = v
          BY <4>1
        <4> QED
          BY <4>1, <4>2 DEF ServeWrite
      <3>2. ASSUME ServeBotRpc PROVE w.etag = file
        <4>1. UNCHANGED late
          BY <3>2 DEF ServeBotRpc
        <4>2. w = botRpc
          BY <4>1
        <4> QED
          BY <3>2, <4>2 DEF ServeBotRpc, ServeWrite
      <3>3. ASSUME UNCHANGED file PROVE FALSE
        BY <3>3
      <3>4. ASSUME UNCHANGED <<late, botRpc>> PROVE FALSE
        BY <3>4
      <3>5. ASSUME LoseRpc \/ LoseBotRpc \/ Tick \/ (\E q \in fetches : ServeFetch(q) \/ configRulesMsg(q))
            PROVE  UNCHANGED file
        BY <3>5 DEF LoseRpc, LoseBotRpc, Tick, ServeFetch, configRulesMsg
      <3>6. ASSUME RemoteChange \/ ServeRpc PROVE UNCHANGED <<late, botRpc>>
        BY <3>6 DEF RemoteChange, ServeRpc
      <3>7. ASSUME \/ OpenForm \/ StageForm \/ CancelForm \/ Toggle
                   \/ AskDelete \/ ConfirmDelete \/ AskDiscard \/ ConfirmDiscard \/ Dismiss
            PROVE  UNCHANGED file
        BY <3>7 DEF OpenForm, StageForm, CancelForm, Toggle, AskDelete, ConfirmDelete, AskDiscard,
                    ConfirmDiscard, Dismiss, Ask
      <3>8. ASSUME \/ startPrecheck \/ handlePrecheckResult \/ AskApply \/ ConfirmApply \/ handleApplyResult
                   \/ AskReload \/ ConfirmReload \/ reloadMsg
            PROVE  UNCHANGED file
        BY <3>8 DEF startPrecheck, handlePrecheckResult, AskApply, ConfirmApply, handleApplyResult, AskReload,
                    ConfirmReload, reloadMsg, Ask
      <3>9. ASSUME \/ Navigate \/ openBotConfig \/ BotAction \/ EditBot
                   \/ (\E f \in Fields, v \in Values : TypeBot(f, v))
                   \/ RefreshBotEditor \/ CancelBotEditor \/ SaveBot \/ botConfigMsg
            PROVE  UNCHANGED file
        BY <3>9 DEF Navigate, openBotConfig, BotAction, EditBot, TypeBot, RefreshBotEditor, CancelBotEditor,
                    SaveBot, botConfigMsg
      <3>10. ASSUME UNCHANGED vars PROVE UNCHANGED file
        BY <3>10 DEF vars
      <3> HIDE DEF Served
      <3> QED
        BY <3>1, <3>2, <3>3, <3>4, <3>5, <3>6, <3>7, <3>8, <3>9, <3>10, Zenon DEF Next
    <2> QED
      BY <2>1, <2>2 DEF SaveOK
  <1> QED
    BY <1>1, TUIInvariant, PTL DEF Spec, SaveKeepsRemoteFields
=============================================================================
