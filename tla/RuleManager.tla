---------------------------- MODULE RuleManager ----------------------------
(***************************************************************************)
(* The rule manager of engine/manager.go with the collector of stats.go:   *)
(* the running rules, the listening sockets of their runners, and the      *)
(* traffic counters and metadata kept for each rule.                       *)
(*                                                                         *)
(* applyMu serialises the operations, so one operation is in progress at a *)
(* time: mode says which, prim is the runner set it is starting.  Traffic, *)
(* and other programs taking and releasing ports, interleave with it.      *)
(* Stopping a runner set is one step; starting one binds a socket a step.  *)
(***************************************************************************)
EXTENDS Integers, Sequences, FiniteSets

CONSTANTS
    Ids,        \* rule ids
    Sockets,    \* listening sockets: protocol and port
    Rules,      \* [id, name, socks, policy, enabled, valid]: socks in the order runners start
    Snapshots,  \* sequences of rules given to the apply operations
    None,
    MaxTraffic  \* bound: units of traffic a rule carries

ASSUME ManagerAssumption ==
    /\ None \notin Rules \cup Nat
    /\ None \notin [kind : {"start", "restart", "restore"}, rule : Rules, old : Rules \cup {None}, started : Nat]
    /\ Snapshots \subseteq Seq(Rules)
    /\ MaxTraffic \in Nat
    /\ {"free", "ext"} \cap Ids = {}
    /\ \A r \in Rules :
         /\ r.id \in Ids
         /\ r.socks \in Seq(Sockets) /\ Len(r.socks) > 0
         /\ \A i, j \in 1..Len(r.socks) : r.socks[i] = r.socks[j] => i = j
         /\ r.enabled \in BOOLEAN /\ r.valid \in BOOLEAN

VARIABLES
    running,    \* manager.running: the rule of each id, or None
    owner,      \* who has each socket bound: an id, "ext" or "free"
    policy,     \* collector metadata (protocol, bandwidth, quota) of each id, or None
    total,      \* collector counter of each id: traffic recorded, or None
    mode,       \* "idle", or the operation holding applyMu
    todo,       \* rules of the snapshot still to apply
    seen,       \* ids of the snapshot handled so far
    replaceAll, \* ApplySnapshotOptions.ReplaceAll
    journal,    \* rollback steps [id, action, prev]
    prim,       \* runner set being started [kind, rule, old, started], or None
    before,     \* running, policies and counters when the transaction began
    dropped,    \* ids whose counter was removed since then
    failed,     \* RollbackResult.Failed
    carried,    \* history: traffic of each id since its rule was last removed
    disturbed,  \* history: another program took a port during this operation
    rewound     \* history: ids whose removal was rolled back

colVars == <<policy, total>>
txVars == <<todo, seen, replaceAll, journal, before, dropped, failed>>
ghosts == <<carried, disturbed, rewound>>
vars == <<running, owner, colVars, mode, txVars, prim, ghosts>>

SocksOf(r) == {r.socks[i] : i \in 1..Len(r.socks)}

Init ==
    /\ running = [id \in Ids |-> None]
    /\ owner = [s \in Sockets |-> "free"]
    /\ policy = [id \in Ids |-> None]
    /\ total = [id \in Ids |-> None]
    /\ mode = "idle"
    /\ todo = <<>> /\ seen = {} /\ replaceAll = FALSE /\ journal = <<>>
    /\ prim = None
    /\ before = None
    /\ dropped = {} /\ failed = FALSE
    /\ carried = [id \in Ids |-> 0]
    /\ disturbed = FALSE /\ rewound = {}

-----------------------------------------------------------------------------
(* Parts of the operations.  Each says what becomes of some of the state.    *)

(* EnsureRuleProtocol and getCounter: make sure there is a counter. *)
EnsureCounter(id) == total' = [total EXCEPT ![id] = IF @ = None THEN 0 ELSE @]

ensureRuleMetadata(r) ==
    /\ policy' = [policy EXCEPT ![r.id] = r.policy]
    /\ EnsureCounter(r.id)

Released(id) == [s \in Sockets |-> IF owner[s] = id THEN "free" ELSE owner[s]]

(* detachRule and stopRunnerSet. *)
Detach(id) ==
    /\ running' = [running EXCEPT ![id] = None]
    /\ owner' = Released(id)

(* stopRuleInternal: SetConns makes a counter even for an unknown rule. *)
stopRuleInternal(id) == Detach(id) /\ EnsureCounter(id)

(* stopRuleInternal, then Collector.RemoveRule. *)
StopAndForget(id) ==
    /\ Detach(id)
    /\ policy' = [policy EXCEPT ![id] = None]
    /\ total' = [total EXCEPT ![id] = None]

Starting(kind, r, old) == prim' = [kind |-> kind, rule |-> r, old |-> old, started |-> 0]

(* startRuleInternal of an enabled rule, up to its first runner. *)
BeginStart(r) ==
    /\ ensureRuleMetadata(r)
    /\ Starting("start", r, None)
    /\ UNCHANGED <<running, owner>>

(* restartRuleInternal of an enabled rule, up to its first runner. *)
BeginRestart(r) ==
    /\ Detach(r.id)
    /\ ensureRuleMetadata(r)
    /\ Starting("restart", r, running[r.id])

(* Name and revision do not count. *)
RuntimeEqual(r, s) == r.socks = s.socks /\ r.policy = s.policy /\ r.enabled = s.enabled

Undo_Prepends(id, action, prev) ==
    IF mode = "tx" THEN <<[id |-> id, action |-> action, prev |-> prev]>> \o journal ELSE journal

(* Only a transaction keeps a journal. *)
Undo(id, action, prev) ==
    IF mode = "tx" THEN Append(journal, [id |-> id, action |-> action, prev |-> prev]) ELSE journal

(* The apply or transaction is over: its local state is gone. *)
EndApply ==
    /\ mode' = "idle"
    /\ todo' = <<>> /\ seen' = {} /\ replaceAll' = FALSE /\ journal' = <<>>
    /\ before' = None /\ dropped' = {} /\ failed' = FALSE
    /\ disturbed' = FALSE

-----------------------------------------------------------------------------
(* Single operations. *)

StartRule(r) ==
    /\ mode = "idle" /\ r.valid
    /\ running[r.id] = None
    /\ IF r.enabled
       THEN BeginStart(r) /\ mode' = "single"
       ELSE ensureRuleMetadata(r) /\ UNCHANGED <<running, owner, mode, prim>>
    /\ UNCHANGED <<txVars, ghosts>>

RestartRule(r) ==
    /\ mode = "idle" /\ r.valid
    /\ IF r.enabled
       THEN BeginRestart(r) /\ mode' = "single"
       ELSE ensureRuleMetadata(r) /\ Detach(r.id) /\ UNCHANGED <<mode, prim>>
    /\ UNCHANGED <<txVars, ghosts>>

StopRule(id) ==
    /\ mode = "idle"
    /\ stopRuleInternal(id)
    /\ UNCHANGED <<policy, mode, txVars, prim, ghosts>>

RemoveRule(id) ==
    /\ mode = "idle"
    /\ StopAndForget(id)
    /\ carried' = [carried EXCEPT ![id] = 0]
    /\ rewound' = rewound \ {id}
    /\ UNCHANGED <<mode, txVars, prim, disturbed>>

StopAll ==
    /\ mode = "idle"
    /\ running' = [id \in Ids |-> None]
    /\ owner' = [s \in Sockets |-> IF owner[s] = "ext" THEN "ext" ELSE "free"]
    /\ UNCHANGED <<colVars, mode, txVars, prim, ghosts>>

-----------------------------------------------------------------------------
(* Applying a snapshot: ApplySnapshot ("apply") and the transaction ("tx").  *)

ValidSnapshot(rules) ==
    /\ \A i \in 1..Len(rules) : rules[i].valid
    /\ \A i, j \in 1..Len(rules) : rules[i].id = rules[j].id => i = j

(* A transaction is refused as a whole if one of its rules is invalid.       *)
BeginApply(rules, all, m) ==
    /\ mode = "idle"
    /\ m = "tx" => ValidSnapshot(rules)
    /\ mode' = m
    /\ todo' = rules /\ seen' = {} /\ replaceAll' = all /\ journal' = <<>>
    /\ before' = IF m = "tx" THEN [running |-> running, policy |-> policy, total |-> total] ELSE None
    /\ disturbed' = FALSE
    /\ UNCHANGED <<running, owner, colVars, dropped, failed, prim, carried, rewound>>

Applying == mode \in {"apply", "tx"} /\ prim = None

Item == Head(todo)

NextItem == todo' = Tail(todo) /\ seen' = seen \cup {Item.id}

(* Only ApplySnapshot meets these: the item is reported as failed. *)
ItemRefused ==
    /\ Applying /\ todo # <<>>
    /\ ~Item.valid \/ Item.id \in seen
    /\ NextItem
    /\ UNCHANGED <<running, owner, colVars, mode, replaceAll, journal, before, dropped, failed, prim, ghosts>>

ItemAccepted == Applying /\ todo # <<>> /\ Item.valid /\ Item.id \notin seen

ItemDisabled ==
    /\ ItemAccepted /\ ~Item.enabled
    /\ NextItem
    /\ ensureRuleMetadata(Item)
    /\ IF running[Item.id] # None
       THEN Detach(Item.id) /\ journal' = Undo(Item.id, "stopped", running[Item.id])
       ELSE UNCHANGED <<running, owner, journal>>
    /\ UNCHANGED <<mode, replaceAll, before, dropped, failed, prim, ghosts>>

ItemUnchanged ==
    /\ ItemAccepted /\ Item.enabled
    /\ running[Item.id] # None /\ RuntimeEqual(running[Item.id], Item)
    /\ NextItem
    /\ running' = [running EXCEPT ![Item.id] = Item]
    /\ ensureRuleMetadata(Item)
    /\ journal' = Undo(Item.id, "unchanged", running[Item.id])
    /\ UNCHANGED <<owner, mode, replaceAll, before, dropped, failed, prim, ghosts>>

ItemRestart ==
    /\ ItemAccepted /\ Item.enabled
    /\ running[Item.id] # None /\ ~RuntimeEqual(running[Item.id], Item)
    /\ NextItem
    /\ BeginRestart(Item)
    /\ UNCHANGED <<mode, replaceAll, journal, before, dropped, failed, ghosts>>

ItemStart ==
    /\ ItemAccepted /\ Item.enabled
    /\ running[Item.id] = None
    /\ NextItem
    /\ BeginStart(Item)
    /\ UNCHANGED <<mode, replaceAll, journal, before, dropped, failed, ghosts>>

(* ReplaceAll: running rules, and in a transaction known ones, not in the    *)
(* snapshot.                                                                 *)
Surplus ==
    IF replaceAll
    THEN {id \in Ids \ seen : running[id] # None \/ (mode = "tx" /\ policy[id] # None)}
    ELSE {}

RemoveSurplus(id) ==
    /\ Applying /\ todo = <<>> /\ id \in Surplus
    /\ running[id] = None => \A i \in Surplus : running[i] = None
    /\ StopAndForget(id)
    /\ journal' = IF running[id] # None THEN Undo(id, "removed", running[id]) ELSE journal
    /\ dropped' = dropped \cup {id}
    /\ carried' = IF mode = "tx" THEN carried ELSE [carried EXCEPT ![id] = 0]
    /\ rewound' = IF mode = "tx" THEN rewound ELSE rewound \ {id}
    /\ UNCHANGED <<mode, todo, seen, replaceAll, before, failed, prim, disturbed>>

ApplyDone ==
    /\ Applying /\ todo = <<>> /\ Surplus = {}
    /\ IF mode = "tx" THEN mode' = "pending" /\ UNCHANGED <<txVars, disturbed>> ELSE EndApply
    /\ UNCHANGED <<running, owner, colVars, prim, carried, rewound>>

(* Commit makes the removals final. *)
Commit ==
    /\ mode = "pending"
    /\ EndApply
    /\ carried' = [id \in Ids |-> IF id \in dropped THEN 0 ELSE carried[id]]
    /\ rewound' = rewound \ dropped
    /\ UNCHANGED <<running, owner, colVars, prim>>

Rollback ==
    /\ mode = "pending"
    /\ mode' = "rollback"
    /\ UNCHANGED <<running, owner, colVars, txVars, prim, ghosts>>

-----------------------------------------------------------------------------
(* startRunnerSet. *)

NextSocket == prim.rule.socks[prim.started + 1]

RunnerStarts ==
    /\ prim # None /\ prim.started < Len(prim.rule.socks)
    /\ owner[NextSocket] = "free"
    /\ owner' = [owner EXCEPT ![NextSocket] = prim.rule.id]
    /\ prim' = [prim EXCEPT !.started = @ + 1]
    /\ UNCHANGED <<running, colVars, mode, txVars, ghosts>>

StopStarted_Leaks == UNCHANGED owner

(* A runner of the set failed: stop the ones started before it. *)
StopStarted == owner' = Released(prim.rule.id)

(* How the operation goes on after its start, restart or restore. *)
AfterSuccess ==
    CASE mode = "single" -> mode' = "idle" /\ UNCHANGED <<journal, failed>>
      [] mode = "apply" -> UNCHANGED <<mode, journal, failed>>
      [] mode = "tx" /\ prim.kind # "restore" ->
            /\ journal' = Undo(prim.rule.id, IF prim.kind = "start" THEN "started" ELSE "restarted", prim.old)
            /\ UNCHANGED <<mode, failed>>
      [] mode = "tx" /\ prim.kind = "restore" ->
            mode' = "rollback" /\ UNCHANGED <<journal, failed>>
      [] mode = "rollback" ->
            failed' = (failed \/ prim.kind = "restore") /\ UNCHANGED <<mode, journal>>

AfterFailure ==
    CASE mode = "single" -> mode' = "idle" /\ UNCHANGED <<journal, failed>>
      [] mode = "apply" -> UNCHANGED <<mode, journal, failed>>
      [] mode = "tx" ->
            /\ mode' = "rollback"
            /\ failed' = (failed \/ prim.kind = "restore")
            /\ UNCHANGED journal
      [] mode = "rollback" -> failed' = TRUE /\ UNCHANGED <<mode, journal>>

RunnersStarted ==
    /\ prim # None /\ prim.started = Len(prim.rule.socks)
    /\ running' = [running EXCEPT ![prim.rule.id] = prim.rule]
    /\ prim' = None
    /\ AfterSuccess
    /\ UNCHANGED <<owner, colVars, todo, seen, replaceAll, before, dropped, ghosts>>

RunnerBusy == prim # None /\ prim.started < Len(prim.rule.socks) /\ owner[NextSocket] # "free"

RunnerFails ==
    /\ RunnerBusy /\ prim.old = None
    /\ StopStarted
    /\ prim' = None
    /\ AfterFailure
    /\ UNCHANGED <<running, colVars, todo, seen, replaceAll, before, dropped, ghosts>>

(* restoreRuleAfterRestartFailure: start the previous rule again. *)
RestartFails ==
    /\ RunnerBusy /\ prim.old # None
    /\ StopStarted
    /\ ensureRuleMetadata(prim.old)
    /\ Starting("restore", prim.old, None)
    /\ UNCHANGED <<running, mode, txVars, ghosts>>

-----------------------------------------------------------------------------
(* rollbackSteps: the journal backwards, then the collector. *)

LastStep == journal[Len(journal)]

DropStep == journal' = SubSeq(journal, 1, Len(journal) - 1)

Undoing == mode = "rollback" /\ prim = None /\ journal # <<>>

UndoStarted ==
    /\ Undoing /\ LastStep.action = "started"
    /\ DropStep
    /\ stopRuleInternal(LastStep.id)
    /\ UNCHANGED <<policy, mode, todo, seen, replaceAll, before, dropped, failed, prim, ghosts>>

UndoStopped ==
    /\ Undoing /\ LastStep.action \in {"stopped", "removed"}
    /\ DropStep
    /\ IF running[LastStep.id] = None
       THEN BeginStart(LastStep.prev) /\ UNCHANGED failed
       ELSE failed' = TRUE /\ UNCHANGED <<running, owner, colVars, prim>>
    /\ UNCHANGED <<mode, todo, seen, replaceAll, before, dropped, ghosts>>

UndoRestarted ==
    /\ Undoing /\ LastStep.action = "restarted"
    /\ DropStep
    /\ BeginRestart(LastStep.prev)
    /\ UNCHANGED <<mode, todo, seen, replaceAll, before, dropped, failed, ghosts>>

UndoUnchanged_Skips ==
    /\ Undoing /\ LastStep.action = "unchanged"
    /\ DropStep
    /\ UNCHANGED <<running, owner, colVars, mode, todo, seen, replaceAll, before, dropped, failed, prim, ghosts>>

UndoUnchanged ==
    /\ Undoing /\ LastStep.action = "unchanged"
    /\ DropStep
    /\ running' = [running EXCEPT ![LastStep.id] = IF @ = None THEN None ELSE LastStep.prev]
    /\ UNCHANGED <<owner, colVars, mode, todo, seen, replaceAll, before, dropped, failed, prim, ghosts>>

restoredTotal_Twice(id) ==
    IF before.total[id] = None THEN None
    ELSE before.total[id] + (IF total[id] = None THEN 0 ELSE total[id])

(* restoreCollectorState: a counter that survived keeps its value; a new one *)
(* gets what the old one held when the transaction began.                    *)
restoredTotal(id) ==
    IF before.total[id] = None THEN None
    ELSE IF id \notin dropped THEN total[id]
    ELSE before.total[id] + (IF total[id] = None THEN 0 ELSE total[id])

(* The metadata of the snapshot, then that of the rules really running. *)
restoredPolicy(id) == IF running[id] # None THEN running[id].policy ELSE before.policy[id]

RollbackDone ==
    /\ mode = "rollback" /\ prim = None /\ journal = <<>>
    /\ EndApply
    /\ total' = [id \in Ids |->
                    IF restoredTotal(id) = None /\ running[id] # None THEN 0 ELSE restoredTotal(id)]
    /\ policy' = [id \in Ids |-> restoredPolicy(id)]
    /\ carried' = [id \in Ids |-> IF total'[id] = None THEN 0 ELSE carried[id]]
    /\ rewound' = {id \in rewound \cup dropped : total'[id] # None}
    /\ UNCHANGED <<running, owner, prim>>

-----------------------------------------------------------------------------
(* The environment: connections, and other programs' ports. *)

Traffic(id) ==
    /\ running[id] # None \/ (prim # None /\ prim.rule.id = id /\ prim.started > 0)
    /\ carried[id] < MaxTraffic
    /\ total' = [total EXCEPT ![id] = @ + 1]
    /\ carried' = [carried EXCEPT ![id] = @ + 1]
    /\ UNCHANGED <<running, owner, policy, mode, txVars, prim, disturbed, rewound>>

PortTaken(s) ==
    /\ owner[s] = "free"
    /\ owner' = [owner EXCEPT ![s] = "ext"]
    /\ disturbed' = (mode # "idle")
    /\ UNCHANGED <<running, colVars, mode, txVars, prim, carried, rewound>>

PortReleased(s) ==
    /\ owner[s] = "ext"
    /\ owner' = [owner EXCEPT ![s] = "free"]
    /\ UNCHANGED <<running, colVars, mode, txVars, prim, ghosts>>

Operate ==
    \/ \E r \in Rules : StartRule(r) \/ RestartRule(r)
    \/ \E id \in Ids : StopRule(id) \/ RemoveRule(id)
    \/ StopAll
    \/ \E rules \in Snapshots, all \in BOOLEAN, m \in {"apply", "tx"} : BeginApply(rules, all, m)

Apply ==
    \/ ItemRefused \/ ItemDisabled \/ ItemUnchanged \/ ItemRestart \/ ItemStart
    \/ \E id \in Ids : RemoveSurplus(id)
    \/ ApplyDone \/ Commit \/ Rollback
    \/ RunnerStarts \/ RunnersStarted \/ RunnerFails \/ RestartFails
    \/ UndoStarted \/ UndoStopped \/ UndoRestarted \/ UndoUnchanged \/ RollbackDone

Environment ==
    \/ \E id \in Ids : Traffic(id)
    \/ \E s \in Sockets : PortTaken(s) \/ PortReleased(s)

Next == Operate \/ Apply \/ Environment

Spec == Init /\ [][Next]_vars
-----------------------------------------------------------------------------
(* Properties. *)

(* Shape of the manager's and the collector's state. *)
TypeOK ==
    /\ running \in [Ids -> Rules \cup {None}]
    /\ owner \in [Sockets -> Ids \cup {"free", "ext"}]
    /\ DOMAIN policy = Ids
    /\ DOMAIN total = Ids /\ \A id \in Ids : total[id] = None \/ total[id] \in Nat
    /\ mode \in {"idle", "single", "apply", "tx", "pending", "rollback"}
    /\ todo \in Seq(Rules) /\ seen \subseteq Ids /\ replaceAll \in BOOLEAN
    /\ dropped \subseteq Ids /\ rewound \subseteq Ids
    /\ failed \in BOOLEAN /\ disturbed \in BOOLEAN
    /\ carried \in [Ids -> Nat]

(* Sockets of id that are bound: those of the running rule, or those its     *)
(* runner set has started.                                                   *)
BoundFor(id) ==
    IF running[id] # None THEN SocksOf(running[id])
    ELSE IF prim # None /\ prim.rule.id = id THEN {prim.rule.socks[i] : i \in 1..prim.started}
    ELSE {}

(* Every running rule has all its listeners, and no listener is left behind  *)
(* by a stopped, failed, restored or rolled back rule: startRunnerSet's      *)
(* clean-up and restoreRuleAfterRestartFailure lose none.                    *)
NoListenerLeak ==
    \A id \in Ids : {s \in Sockets : owner[s] = id} = BoundFor(id)

(* A transaction that fails or is rolled back without a reported rollback    *)
(* failure leaves the rules and metadata as they were when it began; with    *)
(* one it adds no rule.  Neither takes away traffic counted before           *)
(* (SnapshotApplyTransaction.Rollback, restoreCollectorState).               *)
RollbackRestores ==
    [][mode = "rollback" /\ mode' = "idle" =>
         /\ ~failed => running' = before.running /\ policy' = before.policy
         /\ \A id \in Ids :
               /\ running'[id] # None => before.running[id] # None
               /\ before.total[id] # None => total'[id] # None /\ total'[id] >= before.total[id]]_vars

(* Undoing the journal backwards finds every port free again: a rollback     *)
(* fails only if another program took a port meanwhile.                      *)
RollbackFailsOnlyIfDisturbed == failed => disturbed

(* The metadata the metrics report is that of the rule really running, after *)
(* failed restarts and failed rollbacks too.                                 *)
PolicyMatchesRunning ==
    mode = "idle" => \A id \in Ids : running[id] # None => policy[id] = running[id].policy

(* Counters survive stops, restarts, failed applies and rollbacks: between   *)
(* operations a rule's counter is exactly what it carried.  A rule whose     *)
(* removal was rolled back may miss what it carried during the transaction,  *)
(* but counts nothing twice.                                                 *)
CountersKept ==
    mode = "idle" =>
        \A id \in Ids : total[id] # None =>
            total[id] <= carried[id] /\ (id \notin rewound => total[id] = carried[id])

(* What the collector reports between operations.                            *)
CollectorMatchesRules == PolicyMatchesRunning /\ CountersKept

(* As the comment of restoreCollectorState has it, the deleted counter's     *)
(* cumulative history is merged: nothing carried is missing.                 *)
CountersExact ==
    mode = "idle" => \A id \in Ids : total[id] # None => total[id] = carried[id]
=============================================================================
