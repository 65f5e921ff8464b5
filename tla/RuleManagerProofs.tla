-------------------------- MODULE RuleManagerProofs --------------------------
(***************************************************************************)
(* Proofs about RuleManager, for every set of rules, sockets and           *)
(* snapshots and any traffic: no listener is lost or left behind, a        *)
(* rollback restores what it promises and fails only if another program    *)
(* took a port, and the collector agrees with the rules.                   *)
(***************************************************************************)
EXTENDS RuleManager, SequenceTheorems, TLAPS

-----------------------------------------------------------------------------
(* The inductive invariant. *)

Kinds == {"start", "restart", "restore"}
Prims == [kind : Kinds, rule : Rules, old : Rules \cup {None}, started : Nat]
Entries == [id : Ids, action : {"started", "stopped", "restarted", "unchanged", "removed"},
            prev : Rules \cup {None}]
Running == [Ids -> Rules \cup {None}]
Policies == [Ids -> {r.policy : r \in Rules} \cup {None}]
Totals == [Ids -> Nat \cup {None}]
Befores == [running : Running, policy : Policies, total : Totals]

(* A transaction, its result pending, or its rollback. *)
Tx == mode \in {"tx", "pending", "rollback"}

(* The rule whose runner set is being started. *)
Primed(id) == prim # None /\ prim.rule.id = id

ListenType ==
    /\ running \in Running
    /\ owner \in [Sockets -> Ids \cup {"free", "ext"}]
    /\ prim \in Prims \cup {None}

CollectorType ==
    /\ policy \in Policies
    /\ total \in Totals
    /\ carried \in [Ids -> Nat]
    /\ rewound \subseteq Ids

ApplyType ==
    /\ mode \in {"idle", "single", "apply", "tx", "pending", "rollback"}
    /\ failed \in BOOLEAN /\ disturbed \in BOOLEAN
    /\ todo \in Seq(Rules) /\ seen \subseteq Ids /\ replaceAll \in BOOLEAN
    /\ dropped \subseteq Ids
    /\ journal \in Seq(Entries)
    /\ Tx => before \in Befores

(* A rule runs under its id, and its runner set is not there twice. *)
PrimInv ==
    /\ \A id \in Ids : running[id] # None => running[id].id = id
    /\ prim # None =>
          /\ prim.started <= Len(prim.rule.socks)
          /\ running[prim.rule.id] = None
          /\ prim.old # None => prim.old.id = prim.rule.id
          /\ prim.kind # "restart" => prim.old = None

(* NoListenerLeak, socket by socket. *)
ListenInv == \A id \in Ids, s \in Sockets : owner[s] = id <=> s \in BoundFor(id)

(* The collector knows the rules that run. *)
KnownInv ==
    /\ \A id \in Ids : running[id] # None => total[id] # None
    /\ prim # None => total[prim.rule.id] # None

PolicyInv ==
    mode # "rollback" =>
        /\ \A id \in Ids : running[id] # None => policy[id] = running[id].policy
        /\ prim # None => policy[prim.rule.id] = prim.rule.policy

(* A counter that was not dropped is what its rule carried. *)
CountInv ==
    \A id \in Ids : (Tx => id \notin dropped) =>
        /\ total[id] = None => carried[id] = 0
        /\ total[id] # None => total[id] <= carried[id] /\ (id \notin rewound => total[id] = carried[id])

(* What a transaction found, and what became of the counters it found.       *)
BeforeInv ==
    Tx => \A id \in Ids :
        /\ before.running[id] # None =>
              /\ before.running[id].id = id
              /\ before.policy[id] = before.running[id].policy
              /\ before.total[id] # None
        /\ before.total[id] # None =>
              IF id \in dropped
              THEN before.total[id] + (IF total[id] = None THEN 0 ELSE total[id]) <= carried[id]
              ELSE total[id] # None /\ total[id] >= before.total[id]

(* Which mode starts runners, drops counters and fails; removals come last.  *)
ModeInv ==
    /\ mode \in {"idle", "pending"} => prim = None
    /\ mode \in {"idle", "single"} => dropped = {}
    /\ mode \in {"tx", "pending"} =>
          /\ dropped # {} => todo = <<>> /\ prim = None
          /\ \A id \in dropped : running[id] = None /\ total[id] = None
    /\ mode # "rollback" => ~failed

(* One entry for each rule changed, with the rule that ran before.           *)
EntryOK(e) ==
    /\ e.prev = before.running[e.id]
    /\ e.action = "started" <=> e.prev = None
    /\ e.action \in {"stopped", "removed"} => running[e.id] = None
    /\ e.action = "unchanged" => running[e.id] # None /\ running[e.id].socks = e.prev.socks
    /\ ~Primed(e.id)
    /\ mode = "tx" => e.id \in seen \cup dropped

Journaled(id) == \E k \in 1..Len(journal) : journal[k].id = id

JournalInv ==
    /\ ~Tx => journal = <<>>
    /\ Tx => /\ \A k \in 1..Len(journal) : EntryOK(journal[k])
             /\ \A j, k \in 1..Len(journal) : journal[j].id = journal[k].id => j = k

(* The runner set that a transaction starts, or that its rollback starts.    *)
StartInv ==
    Tx /\ prim # None =>
        /\ mode = "tx" =>
              /\ prim.rule.id \in seen
              /\ prim.kind = "restart" => prim.old # None
              /\ before.running[prim.rule.id] = IF prim.kind = "restore" THEN prim.rule ELSE prim.old
        /\ mode = "rollback" =>
              /\ before.running[prim.rule.id] # None
              /\ prim.kind # "restore" => prim.rule = before.running[prim.rule.id]
              /\ prim.kind = "restore" => disturbed

(* A rule not in the journal runs as it did before.                          *)
RestInv ==
    Tx => \A id \in Ids : ~Journaled(id) /\ ~Primed(id) =>
             /\ ~failed => running[id] = before.running[id]
             /\ running[id] # None => before.running[id] # None

(* The rule of id once the entries after the k-th are undone.                *)
Then(k, id) ==
    IF Primed(id) \/ \E j \in 1..Len(journal) : j > k /\ journal[j].id = id
    THEN before.running[id] ELSE running[id]

Listens(k, id) == IF Then(k, id) = None THEN {} ELSE SocksOf(Then(k, id))

PortsAt(k) ==
    \A x \in Ids : \A s \in Listens(k, x) :
        /\ owner[s] # "ext"
        /\ \A y \in Ids \ {x} : s \notin Listens(k, y)

(* Undoing the journal backwards leads through states in which no two rules  *)
(* wanted the same port and none was taken by another program.               *)
PortsInv == Tx /\ ~disturbed => \A k \in 0..Len(journal) : PortsAt(k)

ManagerInv ==
    /\ ListenType /\ PrimInv /\ ListenInv
    /\ CollectorType /\ ApplyType /\ KnownInv /\ PolicyInv
    /\ CountInv /\ BeforeInv /\ ModeInv /\ JournalInv /\ StartInv /\ RestInv /\ PortsInv
    /\ RollbackFailsOnlyIfDisturbed

-----------------------------------------------------------------------------
(* Rules and runner sets. *)

(* What is known of a rule. *)
LEMMA RuleFacts ==
  ASSUME NEW r \in Rules
  PROVE  /\ r # None /\ r.id \in Ids /\ r.socks \in Seq(Sockets)
         /\ Len(r.socks) \in Nat /\ Len(r.socks) > 0
         /\ \A i \in 1..Len(r.socks) : r.socks[i] \in Sockets
         /\ \A i, j \in 1..Len(r.socks) : r.socks[i] = r.socks[j] => i = j
  <1>1. r.socks \in Seq(Sockets) /\ r.id \in Ids /\ r # None /\ Len(r.socks) > 0
    BY ManagerAssumption
  <1>2. Len(r.socks) \in Nat /\ \A i \in 1..Len(r.socks) : r.socks[i] \in Sockets
    BY <1>1
  <1>3. \A i, j \in 1..Len(r.socks) : r.socks[i] = r.socks[j] => i = j
    BY ManagerAssumption
  <1> QED
    BY <1>1, <1>2, <1>3

(* None is no runner set, no counter value, and no socket is its owner.      *)
LEMMA NoneFacts == None \notin Rules /\ None \notin Nat /\ None \notin Prims /\ "free" \notin Ids /\ "ext" \notin Ids
  BY ManagerAssumption DEF Prims, Kinds

-----------------------------------------------------------------------------
(* The listening sockets, one kind of step at a time. *)

Listening == ListenType /\ PrimInv /\ ListenInv

(* Nothing about the sockets changes. *)
LEMMA ListenStutter ==
  ASSUME Listening, UNCHANGED <<running, owner, prim>>
  PROVE  Listening'
  BY DEF Listening, ListenType, PrimInv, ListenInv, BoundFor

(* A rule is stopped. *)
LEMMA ListenDetach ==
  ASSUME Listening, prim = None, prim' = None, NEW id \in Ids, Detach(id)
  PROVE  Listening'
  <1>1. running' = [running EXCEPT ![id] = None] /\ owner' = Released(id)
    BY DEF Detach
  <1>2. ListenType'
    BY <1>1 DEF Listening, ListenType, Released, Running
  <1>3. PrimInv'
    BY <1>1 DEF Listening, ListenType, PrimInv, Running
  <1>4. \A s \in Sockets : owner'[s] = IF owner[s] = id THEN "free" ELSE owner[s]
    BY <1>1 DEF Released
  <1>5. ListenInv'
    <2> SUFFICES ASSUME NEW x \in Ids, NEW s \in Sockets
                 PROVE  owner'[s] = x <=> s \in BoundFor(x)'
      BY DEF ListenInv
    <2>1. owner[s] = x <=> s \in BoundFor(x)
      BY DEF Listening, ListenInv
    <2>2. CASE x = id
      <3>1. BoundFor(x)' = {}
        BY <1>1, <2>2 DEF BoundFor, Listening, ListenType, Running
      <3>2. owner'[s] # x
        BY <1>4, <2>2, NoneFacts
      <3> QED
        BY <3>1, <3>2
    <2>3. CASE x # id
      <3>1. BoundFor(x)' = BoundFor(x)
        BY <1>1, <2>3 DEF BoundFor, Listening, ListenType, Running
      <3>2. owner'[s] = x <=> owner[s] = x
        BY <1>4, <2>3, NoneFacts
      <3> QED
        BY <2>1, <3>1, <3>2
    <2> QED
      BY <2>2, <2>3
  <1> QED
    BY <1>2, <1>3, <1>5 DEF Listening

(* The runner set of a stopped rule is about to start. *)
LEMMA ListenStart ==
  ASSUME Listening, prim = None, NEW r \in Rules, NEW k \in Kinds, NEW old \in Rules \cup {None},
         running[r.id] = None, old # None => old.id = r.id, k # "restart" => old = None,
         UNCHANGED <<running, owner>>, Starting(k, r, old)
  PROVE  Listening' /\ prim' # None /\ prim'.kind = k /\ prim'.rule = r /\ prim'.old = old
  <1>1. prim' \in Prims /\ prim'.kind = k /\ prim'.rule = r /\ prim'.old = old /\ prim'.started = 0
    BY DEF Starting, Prims
  <1>2. prim' # None
    BY <1>1, NoneFacts
  <1>3. ListenType' /\ PrimInv'
    BY <1>1, RuleFacts DEF Listening, ListenType, PrimInv
  <1>4. \A x \in Ids : BoundFor(x)' = BoundFor(x)
    BY <1>1, <1>2 DEF BoundFor
  <1>5. ListenInv'
    BY <1>4 DEF Listening, ListenInv
  <1> QED
    BY <1>1, <1>2, <1>3, <1>5 DEF Listening

(* A rule is stopped and its successor is about to start. *)
LEMMA ListenRestart ==
  ASSUME Listening, prim = None, NEW r \in Rules, NEW k \in Kinds, NEW old \in Rules \cup {None},
         old # None => old.id = r.id, k # "restart" => old = None,
         Detach(r.id), Starting(k, r, old)
  PROVE  Listening' /\ prim' # None /\ prim'.kind = k /\ prim'.rule = r /\ prim'.old = old
  <1>1. prim' \in Prims /\ prim'.kind = k /\ prim'.rule = r /\ prim'.old = old /\ prim'.started = 0
    BY DEF Starting, Prims
  <1>2. prim' # None
    BY <1>1, NoneFacts
  <1>3. running' = [running EXCEPT ![r.id] = None] /\ owner' = Released(r.id) /\ r.id \in Ids
    BY RuleFacts DEF Detach
  <1>4. ListenType'
    BY <1>1, <1>3 DEF Listening, ListenType, Released, Running
  <1>5. PrimInv'
    BY <1>1, <1>3, RuleFacts DEF Listening, ListenType, PrimInv, Running
  <1>6. \A s \in Sockets : owner'[s] = IF owner[s] = r.id THEN "free" ELSE owner[s]
    BY <1>3 DEF Released
  <1>7. ListenInv'
    <2> SUFFICES ASSUME NEW x \in Ids, NEW s \in Sockets
                 PROVE  owner'[s] = x <=> s \in BoundFor(x)'
      BY DEF ListenInv
    <2>1. owner[s] = x <=> s \in BoundFor(x)
      BY DEF Listening, ListenInv
    <2>2. CASE x = r.id
      <3>1. BoundFor(x)' = {}
        BY <1>1, <1>3, <2>2 DEF BoundFor, Listening, ListenType, Running
      <3>2. owner'[s] # x
        BY <1>6, <2>2, NoneFacts
      <3> QED
        BY <3>1, <3>2
    <2>3. CASE x # r.id
      <3>1. BoundFor(x)' = BoundFor(x)
        BY <1>1, <1>3, <2>3 DEF BoundFor, Listening, ListenType, Running
      <3>2. owner'[s] = x <=> owner[s] = x
        BY <1>6, <2>3, NoneFacts
      <3> QED
        BY <2>1, <3>1, <3>2
    <2> QED
      BY <2>2, <2>3
  <1> QED
    BY <1>1, <1>2, <1>4, <1>5, <1>7 DEF Listening

(* A running rule is replaced by one with the same sockets. *)
LEMMA ListenReplace ==
  ASSUME Listening, prim = None, prim' = None, UNCHANGED owner, NEW id \in Ids, NEW r \in Rules, r.id = id,
         running[id] # None, r.socks = running[id].socks, running' = [running EXCEPT ![id] = r]
  PROVE  Listening'
  <1>1. ListenType' /\ PrimInv'
    BY DEF Listening, ListenType, PrimInv, Running
  <1>2. \A x \in Ids : BoundFor(x)' = BoundFor(x)
    <2> TAKE x \in Ids
    <2>1. running'[x] = (IF x = id THEN r ELSE running[x]) /\ r # None
      BY NoneFacts DEF Listening, ListenType, Running
    <2>2. SocksOf(r) = SocksOf(running[id])
      BY DEF SocksOf
    <2> QED
      BY <2>1, <2>2 DEF BoundFor
  <1> QED
    BY <1>1, <1>2 DEF Listening, ListenInv

(* Every rule is stopped. *)
LEMMA ListenStopAll ==
  ASSUME Listening, prim = None, StopAll
  PROVE  Listening'
  <1>1. /\ running' = [id \in Ids |-> None] /\ prim' = None
        /\ owner' = [s \in Sockets |-> IF owner[s] = "ext" THEN "ext" ELSE "free"]
    BY DEF StopAll
  <1>2. ListenType' /\ PrimInv'
    BY <1>1 DEF Listening, ListenType, PrimInv, Running
  <1>3. \A x \in Ids : BoundFor(x)' = {} /\ \A s \in Sockets : owner'[s] # x
    BY <1>1, NoneFacts DEF BoundFor
  <1> QED
    BY <1>2, <1>3 DEF Listening, ListenInv

(* Another program takes or releases a port. *)
LEMMA ListenPort ==
  ASSUME Listening, NEW s \in Sockets, PortTaken(s) \/ PortReleased(s)
  PROVE  Listening' /\ UNCHANGED <<running, prim>>
  <1>1. /\ owner[s] \in {"free", "ext"} /\ UNCHANGED <<running, prim>>
        /\ owner' = [owner EXCEPT ![s] = "free"] \/ owner' = [owner EXCEPT ![s] = "ext"]
    BY DEF PortTaken, PortReleased
  <1>2. ListenType' /\ PrimInv'
    BY <1>1 DEF Listening, ListenType, PrimInv
  <1>3. \A x \in Ids : BoundFor(x)' = BoundFor(x)
    BY <1>1 DEF BoundFor
  <1>4. \A x \in Ids, z \in Sockets : owner'[z] = x <=> owner[z] = x
    BY <1>1, NoneFacts DEF Listening, ListenType
  <1> QED
    BY <1>1, <1>2, <1>3, <1>4 DEF Listening, ListenInv

(* The next runner of the set listens. *)
LEMMA ListenRunnerStarts ==
  ASSUME Listening, RunnerStarts
  PROVE  /\ Listening' /\ prim # None /\ prim' # None
         /\ prim'.rule = prim.rule /\ prim'.kind = prim.kind /\ prim'.old = prim.old
         /\ \A s \in Sockets : owner'[s] # "ext" \/ owner[s] = "ext"
  <1>1. /\ prim \in Prims /\ prim # None /\ prim.started < Len(prim.rule.socks)
        /\ owner[NextSocket] = "free" /\ owner' = [owner EXCEPT ![NextSocket] = prim.rule.id]
        /\ prim' = [prim EXCEPT !.started = @ + 1] /\ UNCHANGED running
    BY DEF RunnerStarts, Listening, ListenType
  <1>2. prim.rule \in Rules /\ prim.started \in Nat
    BY <1>1 DEF Prims
  <1>3. /\ prim' \in Prims /\ prim'.rule = prim.rule /\ prim'.kind = prim.kind /\ prim'.old = prim.old
        /\ prim'.started = prim.started + 1
    BY <1>1 DEF Prims
  <1>4. prim' # None
    BY <1>3, NoneFacts
  <1>5. Len(prim.rule.socks) \in Nat /\ prim.rule.id \in Ids /\ NextSocket \in Sockets
    BY <1>1, <1>2, RuleFacts DEF NextSocket
  <1>6. ListenType' /\ PrimInv'
    BY <1>1, <1>2, <1>3, <1>4, <1>5 DEF Listening, ListenType, PrimInv
  <1>7. ListenInv'
    <2> SUFFICES ASSUME NEW x \in Ids, NEW s \in Sockets
                 PROVE  owner'[s] = x <=> s \in BoundFor(x)'
      BY DEF ListenInv
    <2>1. owner[s] = x <=> s \in BoundFor(x)
      BY DEF Listening, ListenInv
    <2>2. owner'[s] = IF s = NextSocket THEN prim.rule.id ELSE owner[s]
      BY <1>1 DEF Listening, ListenType
    <2>3. CASE x = prim.rule.id
      <3>1. running[x] = None
        BY <1>1, <2>3 DEF Listening, PrimInv
      <3>2. BoundFor(x) = {prim.rule.socks[i] : i \in 1..prim.started}
        BY <1>1, <2>3, <3>1 DEF BoundFor
      <3>3. BoundFor(x)' = {prim.rule.socks[i] : i \in 1..(prim.started + 1)}
        BY <1>1, <1>3, <1>4, <2>3, <3>1 DEF BoundFor
      <3>4. BoundFor(x)' = BoundFor(x) \cup {NextSocket}
        BY <1>2, <3>2, <3>3 DEF NextSocket
      <3> QED
        BY <2>1, <2>2, <2>3, <3>4
    <2>4. CASE x # prim.rule.id
      <3>1. BoundFor(x)' = BoundFor(x)
        BY <1>1, <1>3, <1>4, <2>4 DEF BoundFor
      <3>2. owner'[s] = x <=> owner[s] = x
        BY <1>1, <2>2, <2>4, NoneFacts
      <3> QED
        BY <2>1, <3>1, <3>2
    <2> QED
      BY <2>3, <2>4
  <1>8. \A s \in Sockets : owner'[s] # "ext" \/ owner[s] = "ext"
    BY <1>1, <1>5, NoneFacts DEF Listening, ListenType
  <1> QED
    BY <1>1, <1>3, <1>4, <1>6, <1>7, <1>8 DEF Listening

(* The set is complete: the rule runs. *)
LEMMA ListenRunnersStarted ==
  ASSUME Listening, RunnersStarted
  PROVE  /\ Listening' /\ prim \in Prims /\ prim # None /\ prim' = None /\ UNCHANGED owner
         /\ prim.rule \in Rules /\ prim.rule.id \in Ids
         /\ running' = [running EXCEPT ![prim.rule.id] = prim.rule]
  <1>1. /\ prim \in Prims /\ prim # None /\ prim.started = Len(prim.rule.socks)
        /\ running' = [running EXCEPT ![prim.rule.id] = prim.rule] /\ prim' = None /\ UNCHANGED owner
    BY DEF RunnersStarted, Listening, ListenType
  <1>2. prim.rule \in Rules /\ prim.rule # None /\ prim.rule.id \in Ids
    BY <1>1, RuleFacts DEF Prims
  <1>3. ListenType' /\ PrimInv'
    BY <1>1, <1>2 DEF Listening, ListenType, PrimInv, Running
  <1>4. ASSUME NEW x \in Ids PROVE BoundFor(x)' = BoundFor(x)
    <2>1. CASE x = prim.rule.id
      <3>1. running[x] = None /\ running'[x] = prim.rule
        BY <1>1, <2>1 DEF Listening, PrimInv, ListenType, Running
      <3>2. BoundFor(x) = {prim.rule.socks[i] : i \in 1..prim.started}
        BY <1>1, <2>1, <3>1 DEF BoundFor
      <3>3. BoundFor(x)' = SocksOf(prim.rule)
        BY <1>2, <3>1 DEF BoundFor
      <3> QED
        BY <1>1, <3>2, <3>3 DEF SocksOf
    <2>2. CASE x # prim.rule.id
      BY <1>1, <2>2 DEF BoundFor, Listening, ListenType, Running
    <2> QED
      BY <2>1, <2>2
  <1> QED
    BY <1>1, <1>2, <1>3, <1>4 DEF Listening, ListenInv

(* Every runner of the set that was started is stopped. *)
LEMMA ListenStopStarted ==
  ASSUME Listening, prim # None, StopStarted, UNCHANGED running,
         prim' = None \/ (prim' \in Prims /\ prim'.rule.id = prim.rule.id /\ prim'.started = 0)
  PROVE  ListenInv' /\ owner' \in [Sockets -> Ids \cup {"free", "ext"}]
  <1>1. prim \in Prims /\ owner' = Released(prim.rule.id) /\ running[prim.rule.id] = None
    BY DEF StopStarted, Listening, ListenType, PrimInv
  <1>2. \A s \in Sockets : owner'[s] = IF owner[s] = prim.rule.id THEN "free" ELSE owner[s]
    BY <1>1 DEF Released
  <1>3. owner' \in [Sockets -> Ids \cup {"free", "ext"}]
    BY <1>1 DEF Released, Listening, ListenType
  <1>4. ListenInv'
    <2> SUFFICES ASSUME NEW x \in Ids, NEW s \in Sockets
                 PROVE  owner'[s] = x <=> s \in BoundFor(x)'
      BY DEF ListenInv
    <2>1. owner[s] = x <=> s \in BoundFor(x)
      BY DEF Listening, ListenInv
    <2>2. CASE x = prim.rule.id
      <3>1. BoundFor(x)' = {}
        BY <1>1, <2>2 DEF BoundFor
      <3>2. owner'[s] # x
        BY <1>2, <2>2, NoneFacts
      <3> QED
        BY <3>1, <3>2
    <2>3. CASE x # prim.rule.id
      <3>1. BoundFor(x)' = BoundFor(x)
        BY <2>3 DEF BoundFor
      <3>2. owner'[s] = x <=> owner[s] = x
        BY <1>2, <2>3, NoneFacts
      <3> QED
        BY <2>1, <3>1, <3>2
    <2> QED
      BY <2>2, <2>3
  <1> QED
    BY <1>3, <1>4

(* A runner could not listen: the set is given up, *)
LEMMA ListenRunnerFails ==
  ASSUME Listening, RunnerFails
  PROVE  /\ Listening' /\ prim \in Prims /\ prim # None /\ prim' = None /\ UNCHANGED running
         /\ prim.old = None /\ prim.rule.id \in Ids /\ RunnerBusy
  <1>1. /\ prim \in Prims /\ prim # None /\ prim' = None /\ UNCHANGED running /\ StopStarted /\ prim.old = None
        /\ RunnerBusy
    BY DEF RunnerFails, RunnerBusy, Listening, ListenType
  <1>2. ListenInv' /\ owner' \in [Sockets -> Ids \cup {"free", "ext"}]
    BY <1>1, ListenStopStarted
  <1>3. prim.rule.id \in Ids
    BY <1>1, RuleFacts DEF Prims
  <1>4. ListenType' /\ PrimInv'
    BY <1>1, <1>2 DEF Listening, ListenType, PrimInv
  <1> QED
    BY <1>1, <1>2, <1>3, <1>4 DEF Listening

(* or the rule that ran before is to run again. *)
LEMMA ListenRestartFails ==
  ASSUME Listening, RestartFails
  PROVE  /\ Listening' /\ prim \in Prims /\ prim # None /\ prim' # None /\ UNCHANGED running
         /\ prim.old \in Rules /\ prim'.kind = "restore" /\ prim'.rule = prim.old /\ prim'.old = None
         /\ prim.old.id = prim.rule.id /\ prim.rule.id \in Ids /\ prim.kind = "restart" /\ RunnerBusy
  <1>1. /\ prim \in Prims /\ prim # None /\ UNCHANGED running /\ StopStarted /\ prim.old # None
        /\ prim.old \in Rules /\ Starting("restore", prim.old, None) /\ RunnerBusy
    BY DEF RestartFails, RunnerBusy, Listening, ListenType, Prims
  <1>2. prim.old.id = prim.rule.id /\ prim.kind = "restart" /\ running[prim.rule.id] = None
    BY <1>1 DEF Listening, PrimInv
  <1>3. /\ prim' \in Prims /\ prim'.kind = "restore" /\ prim'.rule = prim.old /\ prim'.old = None
        /\ prim'.started = 0
    BY <1>1 DEF Starting, Prims, Kinds
  <1>4. prim' # None
    BY <1>3, NoneFacts
  <1>5. ListenInv' /\ owner' \in [Sockets -> Ids \cup {"free", "ext"}]
    BY <1>1, <1>2, <1>3, ListenStopStarted
  <1>6. prim.rule.id \in Ids
    BY <1>1, RuleFacts DEF Prims
  <1>7. ListenType' /\ PrimInv'
    BY <1>1, <1>2, <1>3, <1>5, RuleFacts DEF Listening, ListenType, PrimInv
  <1> QED
    BY <1>1, <1>2, <1>3, <1>4, <1>5, <1>6, <1>7 DEF Listening

-----------------------------------------------------------------------------
(* The collector's counters. *)

(* A counter that is there is kept, a new one is zero.  No rule becomes      *)
(* better or worse off.                                                      *)
LEMMA CountKept ==
  ASSUME CollectorType, CountInv, BeforeInv, UNCHANGED <<carried, rewound, dropped, before>>, Tx' <=> Tx,
         Tx => before \in Befores, UNCHANGED total \/ \E id \in Ids : EnsureCounter(id)
  PROVE  /\ total' \in Totals /\ CountInv' /\ BeforeInv'
         /\ \A x \in Ids : total[x] # None => total'[x] # None
  <1>1. total' \in Totals
    BY DEF CollectorType, Totals, EnsureCounter
  <1>2. \A x \in Ids : total'[x] = total[x] \/ (total[x] = None /\ total'[x] = 0)
    BY DEF CollectorType, Totals, EnsureCounter
  <1>3. 0 # None
    BY NoneFacts
  <1>4. CountInv'
    <2> SUFFICES ASSUME NEW x \in Ids, (Tx => x \notin dropped)'
                 PROVE  /\ total'[x] = None => carried'[x] = 0
                        /\ total'[x] # None => total'[x] <= carried'[x] /\ (x \notin rewound' => total'[x] = carried'[x])
      BY DEF CountInv
    <2>1. /\ total[x] = None => carried[x] = 0
          /\ total[x] # None => total[x] <= carried[x] /\ (x \notin rewound => total[x] = carried[x])
      BY DEF CountInv
    <2> QED
      BY <1>2, <1>3, <2>1
  <1>5. BeforeInv'
    <2> SUFFICES ASSUME Tx, NEW x \in Ids
                 PROVE  /\ before.running[x] # None =>
                             /\ before.running[x].id = x
                             /\ before.policy[x] = before.running[x].policy
                             /\ before.total[x] # None
                        /\ before.total[x] # None =>
                             IF x \in dropped
                             THEN before.total[x] + (IF total'[x] = None THEN 0 ELSE total'[x]) <= carried[x]
                             ELSE total'[x] # None /\ total'[x] >= before.total[x]
      BY DEF BeforeInv
    <2> QED
      BY <1>2, <1>3 DEF BeforeInv
  <1> QED
    BY <1>1, <1>2, <1>3, <1>4, <1>5

(* The counter of the rule itself is there. *)
LEMMA Ensured ==
  ASSUME CollectorType, NEW id \in Ids, EnsureCounter(id)
  PROVE  total'[id] # None
  BY NoneFacts DEF CollectorType, Totals, EnsureCounter

(* The metadata of a rule that is to run. *)
LEMMA MetadataSet ==
  ASSUME CollectorType, NEW r \in Rules, ensureRuleMetadata(r)
  PROVE  /\ policy' \in Policies /\ policy'[r.id] = r.policy /\ EnsureCounter(r.id) /\ total'[r.id] # None
         /\ \A x \in Ids \ {r.id} : policy'[x] = policy[x]
  <1>1. r.id \in Ids
    BY RuleFacts
  <1> QED
    BY <1>1, Ensured DEF CollectorType, Policies, ensureRuleMetadata

-----------------------------------------------------------------------------
(* The journal. *)

(* A new entry. *)
LEMMA AppendFacts ==
  ASSUME journal \in Seq(Entries), NEW e \in Entries, NEW j, j = Append(journal, e)
  PROVE  /\ j \in Seq(Entries) /\ Len(journal) \in Nat /\ Len(j) = Len(journal) + 1
         /\ \A k \in 1..Len(journal) : j[k] = journal[k] /\ journal[k] \in Entries
         /\ j[Len(journal) + 1] = e
  OBVIOUS

(* The last entry goes. *)
LEMMA DropFacts ==
  ASSUME journal \in Seq(Entries), journal # <<>>, NEW j, j = SubSeq(journal, 1, Len(journal) - 1)
  PROVE  /\ j \in Seq(Entries) /\ Len(journal) \in Nat \ {0} /\ Len(j) = Len(journal) - 1
         /\ \A k \in 1..(Len(journal) - 1) : j[k] = journal[k] /\ journal[k] \in Entries
         /\ journal[Len(journal)] \in Entries
  <1>1. Len(journal) \in Nat \ {0} /\ \A k \in 1..Len(journal) : journal[k] \in Entries
    OBVIOUS
  <1>2. \A k \in 1..(Len(journal) - 1) : journal[k] \in Entries
    BY <1>1
  <1>3. /\ j \in Seq(Entries)
        /\ Len(j) = IF 1 <= Len(journal) - 1 THEN (Len(journal) - 1) - 1 + 1 ELSE 0
        /\ \A k \in 1..((Len(journal) - 1) - 1 + 1) : j[k] = journal[1 + k - 1]
    BY <1>1, <1>2, SubSeqProperties
  <1>4. (Len(journal) - 1) - 1 + 1 = Len(journal) - 1 /\ \A k \in 1..(Len(journal) - 1) : 1 + k - 1 = k
    BY <1>1
  <1>5. Len(j) = Len(journal) - 1
    <2> SUFFICES ASSUME NEW n \in Nat \ {0}, NEW m, m = IF 1 <= n - 1 THEN (n - 1) - 1 + 1 ELSE 0
                 PROVE  m = n - 1
      BY <1>1, <1>3, Zenon
    <2> QED
      OBVIOUS
  <1>6. \A k \in 1..(Len(journal) - 1) : j[k] = journal[k]
    BY <1>3, <1>4
  <1> QED
    BY <1>1, <1>2, <1>3, <1>5, <1>6

(* Listening rules listen on sockets. *)
LEMMA ListensOnSockets ==
  ASSUME Listening, Tx, before \in Befores, NEW k, NEW x \in Ids
  PROVE  Listens(k, x) \subseteq Sockets
  <1>1. Then(k, x) \in Rules \cup {None}
    BY DEF Then, Listening, ListenType, Running, Befores
  <1> QED
    BY <1>1, RuleFacts DEF Listens, SocksOf

(* No port becomes scarcer. *)
LEMMA PortsFrame ==
  ASSUME Listening, Tx, before \in Befores, NEW k, NEW m, PortsAt(m),
         \A x \in Ids : Listens(k, x)' \subseteq Listens(m, x),
         \A s \in Sockets : owner'[s] = "ext" => owner[s] = "ext"
  PROVE  PortsAt(k)'
  <1> SUFFICES ASSUME NEW x \in Ids, NEW s \in Listens(k, x)'
               PROVE  owner'[s] # "ext" /\ \A y \in Ids \ {x} : s \notin Listens(k, y)'
    BY DEF PortsAt
  <1>1. s \in Listens(m, x) /\ s \in Sockets
    BY ListensOnSockets
  <1> QED
    BY <1>1 DEF PortsAt

(* The ports while nothing is journaled or undone. *)
LEMMA PortsSame ==
  ASSUME Listening, Tx, before \in Befores, PortsInv, journal \in Seq(Entries),
         UNCHANGED journal, ~disturbed' => ~disturbed,
         \A x \in Ids : Then(0, x)' = Then(0, x) /\ \A k \in 0..Len(journal) : Then(k, x)' = Then(k, x),
         \A s \in Sockets : owner'[s] = "ext" => owner[s] = "ext"
  PROVE  PortsInv'
  <1> SUFFICES ASSUME ~disturbed, NEW k \in 0..Len(journal) PROVE PortsAt(k)'
    BY DEF PortsInv
  <1>1. PortsAt(k)
    BY DEF PortsInv
  <1>2. \A x \in Ids : Listens(k, x)' \subseteq Listens(k, x)
    BY DEF Listens
  <1> QED
    BY <1>1, <1>2, PortsFrame

(* What an entry is there for: the rules once it is undone are those from    *)
(* before it was made.                                                       *)
LEMMA AppendThen ==
  ASSUME journal \in Seq(Entries), NEW e \in Entries, journal' = Append(journal, e), UNCHANGED before,
         \A x \in Ids \ {e.id} : running'[x] = running[x] /\ (Primed(x)' <=> Primed(x)),
         ~Journaled(e.id), Primed(e.id) \/ running[e.id] = before.running[e.id]
  PROVE  /\ \A k \in 0..Len(journal), x \in Ids : Then(k, x)' = Then(k, x)
         /\ \A x \in Ids : ~Primed(x)' => Then(Len(journal), x)' = running'[x]
  <1>1. /\ journal' \in Seq(Entries) /\ Len(journal) \in Nat /\ Len(journal') = Len(journal) + 1
        /\ \A k \in 1..Len(journal) : journal'[k] = journal[k]
        /\ journal'[Len(journal) + 1] = e
    BY AppendFacts
  <1>2. ASSUME NEW k \in 0..Len(journal), NEW x \in Ids PROVE Then(k, x)' = Then(k, x)
    <2>1. CASE x = e.id
      <3>1. Then(k, x)' = before.running[x]
        BY <1>1, <2>1 DEF Then
      <3>2. Then(k, x) = before.running[x]
        BY <2>1 DEF Then, Journaled
      <3> QED
        BY <3>1, <3>2
    <2>2. CASE x # e.id
      <3>1. (\E j \in 1..Len(journal') : j > k /\ journal'[j].id = x)
               <=> (\E j \in 1..Len(journal) : j > k /\ journal[j].id = x)
        BY <1>1, <2>2
      <3> QED
        BY <2>2, <3>1 DEF Then
    <2> QED
      BY <2>1, <2>2
  <1>3. ASSUME NEW x \in Ids, ~Primed(x)' PROVE Then(Len(journal), x)' = running'[x]
    <2>1. ~\E j \in 1..Len(journal') : j > Len(journal') /\ journal'[j].id = x
      BY <1>1
    <2> QED
      BY <1>3, <2>1 DEF Then
  <1> QED
    BY <1>2, <1>3

(* Undoing the last entry leads there. *)
LEMMA DropThen ==
  ASSUME journal \in Seq(Entries), journal # <<>>, DropStep, UNCHANGED before, NEW id, id = LastStep.id,
         \A x \in Ids \ {id} : running'[x] = running[x] /\ (Primed(x)' <=> Primed(x)),
         Primed(id)' \/ running'[id] = before.running[id]
  PROVE  \A k \in 0..Len(journal'), x \in Ids : Then(k, x)' = Then(k, x) /\ k \in 0..Len(journal)
  <1>1. /\ journal' \in Seq(Entries) /\ Len(journal) \in Nat \ {0} /\ Len(journal') = Len(journal) - 1
        /\ \A k \in 1..(Len(journal) - 1) : journal'[k] = journal[k]
    BY DropFacts DEF DropStep
  <1> SUFFICES ASSUME NEW k \in 0..Len(journal'), NEW x \in Ids
               PROVE  Then(k, x)' = Then(k, x)
    BY <1>1
  <1>2. CASE x = id
    <2>1. Then(k, x) = before.running[x]
      BY <1>1, <1>2 DEF Then, LastStep
    <2>2. Then(k, x)' = before.running[x]
      BY <1>2 DEF Then
    <2> QED
      BY <2>1, <2>2
  <1>3. CASE x # id
    <2>1. ASSUME NEW j \in 1..Len(journal'), j > k, journal'[j].id = x
          PROVE  \E i \in 1..Len(journal) : i > k /\ journal[i].id = x
      <3>1. j \in 1..Len(journal) /\ journal[j].id = x
        BY <1>1, <2>1
      <3> QED
        BY <2>1, <3>1
    <2>2. ASSUME NEW j \in 1..Len(journal), j > k, journal[j].id = x
          PROVE  \E i \in 1..Len(journal') : i > k /\ journal'[i].id = x
      <3>1. j # Len(journal)
        BY <1>3, <2>2 DEF LastStep
      <3>2. j \in 1..(Len(journal) - 1)
        BY <1>1, <3>1
      <3>3. j \in 1..Len(journal') /\ journal'[j].id = x
        BY <1>1, <2>2, <3>2
      <3> QED
        BY <2>2, <3>3
    <2>3. (\E j \in 1..Len(journal') : j > k /\ journal'[j].id = x)
             <=> (\E j \in 1..Len(journal) : j > k /\ journal[j].id = x)
      BY <2>1, <2>2
    <2> QED
      BY <1>3, <2>3 DEF Then
  <1> QED
    BY <1>2, <1>3

(* So the ports stay available when an entry is undone. *)
LEMMA PortsDrop ==
  ASSUME Listening, Tx, before \in Befores, PortsInv, UNCHANGED disturbed,
         \A k \in 0..Len(journal'), x \in Ids : Then(k, x)' = Then(k, x) /\ k \in 0..Len(journal),
         Ids # {}, \A s \in Sockets : owner'[s] = "ext" => owner[s] = "ext"
  PROVE  PortsInv'
  <1> SUFFICES ASSUME ~disturbed, NEW k \in 0..Len(journal') PROVE PortsAt(k)'
    BY DEF PortsInv
  <1>1. k \in 0..Len(journal)
    OBVIOUS
  <1>2. PortsAt(k)
    BY <1>1 DEF PortsInv
  <1>3. \A x \in Ids : Listens(k, x)' \subseteq Listens(k, x)
    BY DEF Listens
  <1> QED
    BY <1>2, <1>3, PortsFrame

(* And when one is made for a rule that stops or goes on as it was. *)
LEMMA PortsAppend ==
  ASSUME Listening, Tx, before \in Befores, PortsInv, journal \in Seq(Entries), UNCHANGED <<disturbed, before>>,
         NEW e \in Entries, journal' = Append(journal, e), prim = None, prim' = None, ~Journaled(e.id),
         running[e.id] = before.running[e.id],
         NEW r, r = None \/ (running[e.id] # None /\ r \in Rules /\ r.socks = running[e.id].socks),
         running' = [running EXCEPT ![e.id] = r],
         \A s \in Sockets : owner'[s] = "ext" => owner[s] = "ext"
  PROVE  PortsInv'
  <1> SUFFICES ASSUME ~disturbed, NEW k \in 0..Len(journal') PROVE PortsAt(k)'
    BY DEF PortsInv
  <1>1. Len(journal) \in Nat /\ Len(journal') = Len(journal) + 1
    BY AppendFacts
  <1>2. e.id \in Ids /\ \A x \in Ids : running'[x] = IF x = e.id THEN r ELSE running[x]
    BY DEF Entries, Listening, ListenType, Running
  <1>3. \A x \in Ids : ~Primed(x) /\ ~Primed(x)'
    BY DEF Primed
  <1>4. /\ \A m \in 0..Len(journal), x \in Ids : Then(m, x)' = Then(m, x)
        /\ \A x \in Ids : Then(Len(journal), x)' = running'[x]
    BY <1>2, <1>3, AppendThen
  <1>5. CASE k \in 0..Len(journal)
    <2>1. PortsAt(k)
      BY <1>5 DEF PortsInv
    <2>2. \A x \in Ids : Listens(k, x)' \subseteq Listens(k, x)
      BY <1>4, <1>5 DEF Listens
    <2> QED
      BY <2>1, <2>2, PortsFrame
  <1>6. CASE k = Len(journal')
    <2>1. PortsAt(Len(journal))
      BY <1>1 DEF PortsInv
    <2>2. \A x \in Ids : Then(Len(journal), x) = running[x]
      BY <1>1, <1>3 DEF Then
    <2>3. ASSUME NEW x \in Ids PROVE Listens(k, x)' \subseteq Listens(Len(journal), x)
      <3>1. Then(k, x)' = IF x = e.id THEN r ELSE running[x]
        BY <1>2, <1>4, <1>6
      <3>2. CASE x # e.id
        BY <2>2, <3>1, <3>2 DEF Listens
      <3>3. CASE x = e.id /\ r = None
        BY <3>1, <3>3 DEF Listens
      <3>4. CASE x = e.id /\ r # None
        <4>1. SocksOf(r) = SocksOf(running[x])
          BY <3>4 DEF SocksOf
        <4> QED
          BY <2>2, <3>1, <3>4, <4>1 DEF Listens
      <3> QED
        BY <3>2, <3>3, <3>4
    <2> QED
      BY <2>1, <2>3, PortsFrame
  <1> QED
    BY <1>1, <1>5, <1>6

-----------------------------------------------------------------------------
(* Single operations. *)

JournalPart == JournalInv /\ StartInv /\ RestInv /\ PortsInv /\ RollbackFailsOnlyIfDisturbed
ApplyPart == ApplyType /\ ModeInv
CollectorPart == CollectorType /\ KnownInv /\ PolicyInv /\ CountInv /\ BeforeInv

(* The parts are the invariant. *)
LEMMA Parts == ManagerInv <=> Listening /\ CollectorPart /\ ApplyPart /\ JournalPart
  BY DEF ManagerInv, Listening, CollectorPart, ApplyPart, JournalPart

(* Outside a transaction nothing is journaled. *)
LEMMA NoTx ==
  ASSUME ~Tx', journal' = <<>>, ~failed'
  PROVE  JournalPart'
  BY DEF JournalPart, JournalInv, StartInv, RestInv, PortsInv, RollbackFailsOnlyIfDisturbed

(* A single operation leaves the fields of a transaction alone. *)
LEMMA SingleTx ==
  ASSUME ManagerInv, mode \in {"idle", "single"}, mode' \in {"idle", "single"}, UNCHANGED txVars,
         mode' = "idle" => prim' = None, disturbed' \in BOOLEAN
  PROVE  ApplyPart' /\ JournalPart' /\ ~Tx /\ ~Tx' /\ dropped = {} /\ dropped' = {}
  <1>1. ~Tx /\ ~Tx' /\ journal = <<>> /\ ~failed /\ dropped = {}
    BY DEF ManagerInv, Tx, JournalInv, ModeInv
  <1>2. ApplyPart'
    BY <1>1 DEF ApplyPart, ApplyType, ModeInv, ManagerInv, txVars
  <1>3. JournalPart'
    BY <1>1, NoTx DEF txVars
  <1> QED
    BY <1>1, <1>2, <1>3 DEF txVars

(* A rule is started, or recorded as disabled. *)
LEMMA StartRuleStep ==
  ASSUME ManagerInv, NEW r \in Rules, StartRule(r)
  PROVE  ManagerInv'
  <1>1. /\ mode = "idle" /\ prim = None /\ running[r.id] = None /\ r.id \in Ids /\ Listening /\ CollectorPart
        /\ UNCHANGED <<txVars, ghosts, running, owner>> /\ ensureRuleMetadata(r)
    BY Parts, RuleFacts DEF StartRule, BeginStart, ManagerInv, ModeInv
  <1>2. /\ mode' \in {"idle", "single"} /\ (mode' = "idle" => prim' = None)
        /\ Listening' /\ (prim' # None => prim'.rule = r)
    <2>1. CASE r.enabled
      <3>1. mode' = "single" /\ Starting("start", r, None)
        BY <2>1 DEF StartRule, BeginStart
      <3> QED
        BY <1>1, <3>1, ListenStart DEF Kinds
    <2>2. CASE ~r.enabled
      <3>1. UNCHANGED <<mode, prim>>
        BY <2>2 DEF StartRule
      <3> QED
        BY <1>1, <3>1, ListenStutter
    <2> QED
      BY <2>1, <2>2
  <1>3. ApplyPart' /\ JournalPart' /\ ~Tx /\ ~Tx'
    BY <1>1, <1>2, SingleTx DEF ghosts, ManagerInv, ApplyType
  <1>4. CollectorPart'
    <2>1. /\ policy' \in Policies /\ policy'[r.id] = r.policy /\ EnsureCounter(r.id) /\ total'[r.id] # None
          /\ \A x \in Ids \ {r.id} : policy'[x] = policy[x]
      BY <1>1, MetadataSet DEF CollectorPart
    <2>2. /\ total' \in Totals /\ CountInv' /\ BeforeInv'
          /\ \A x \in Ids : total[x] # None => total'[x] # None
      BY <1>1, <1>3, <2>1, CountKept DEF CollectorPart, txVars, ghosts
    <2>3. CollectorType'
      BY <1>1, <2>1, <2>2 DEF CollectorPart, CollectorType, ghosts
    <2>4. KnownInv'
      BY <1>1, <1>2, <2>1, <2>2 DEF CollectorPart, KnownInv
    <2>5. PolicyInv'
      BY <1>1, <1>2, <2>1 DEF CollectorPart, PolicyInv
    <2> QED
      BY <2>2, <2>3, <2>4, <2>5 DEF CollectorPart
  <1> QED
    BY <1>2, <1>3, <1>4 DEF Listening, CollectorPart, ApplyPart, JournalPart, ManagerInv

(* A rule is restarted, or stopped because it is disabled now. *)
LEMMA RestartRuleStep ==
  ASSUME ManagerInv, NEW r \in Rules, RestartRule(r)
  PROVE  ManagerInv'
  <1>1. /\ mode = "idle" /\ prim = None /\ r.id \in Ids /\ Listening /\ CollectorPart
        /\ UNCHANGED <<txVars, ghosts>> /\ ensureRuleMetadata(r) /\ Detach(r.id)
    BY Parts, RuleFacts DEF RestartRule, BeginRestart, ManagerInv, ModeInv
  <1>2. \A x \in Ids : running'[x] = IF x = r.id THEN None ELSE running[x]
    BY <1>1 DEF Detach, Listening, ListenType, Running
  <1>3. /\ mode' \in {"idle", "single"} /\ (mode' = "idle" => prim' = None)
        /\ Listening' /\ (prim' # None => prim'.rule = r)
    <2>1. CASE r.enabled
      <3>1. mode' = "single" /\ Starting("restart", r, running[r.id])
        BY <2>1 DEF RestartRule, BeginRestart
      <3>2. running[r.id] \in Rules \cup {None} /\ (running[r.id] # None => running[r.id].id = r.id)
        BY <1>1 DEF Listening, ListenType, PrimInv, Running
      <3> QED
        BY <1>1, <3>1, <3>2, ListenRestart DEF Kinds
    <2>2. CASE ~r.enabled
      <3>1. UNCHANGED <<mode, prim>>
        BY <2>2 DEF RestartRule
      <3> QED
        BY <1>1, <3>1, ListenDetach
    <2> QED
      BY <2>1, <2>2
  <1>4. ApplyPart' /\ JournalPart' /\ ~Tx /\ ~Tx'
    BY <1>1, <1>3, SingleTx DEF ghosts, ManagerInv, ApplyType
  <1>5. CollectorPart'
    <2>1. /\ policy' \in Policies /\ policy'[r.id] = r.policy /\ EnsureCounter(r.id) /\ total'[r.id] # None
          /\ \A x \in Ids \ {r.id} : policy'[x] = policy[x]
      BY <1>1, MetadataSet DEF CollectorPart
    <2>2. /\ total' \in Totals /\ CountInv' /\ BeforeInv'
          /\ \A x \in Ids : total[x] # None => total'[x] # None
      BY <1>1, <1>4, <2>1, CountKept DEF CollectorPart, txVars, ghosts
    <2>3. CollectorType'
      BY <1>1, <2>1, <2>2 DEF CollectorPart, CollectorType, ghosts
    <2>4. KnownInv'
      BY <1>2, <1>3, <2>1, <2>2, <1>1 DEF CollectorPart, KnownInv
    <2>5. PolicyInv'
      BY <1>1, <1>2, <1>3, <2>1 DEF CollectorPart, PolicyInv
    <2> QED
      BY <2>2, <2>3, <2>4, <2>5 DEF CollectorPart
  <1> QED
    BY <1>3, <1>4, <1>5 DEF Listening, CollectorPart, ApplyPart, JournalPart, ManagerInv

(* A rule is stopped, or every rule. *)
LEMMA StopStep ==
  ASSUME ManagerInv, StopAll \/ \E id \in Ids : StopRule(id)
  PROVE  ManagerInv'
  <1>1. /\ mode = "idle" /\ mode' = "idle" /\ prim = None /\ prim' = None /\ Listening /\ CollectorPart
        /\ UNCHANGED <<txVars, ghosts, policy>>
    BY Parts DEF StopAll, StopRule, ManagerInv, ModeInv, colVars
  <1>2. Listening' /\ \A x \in Ids : running'[x] = None \/ running'[x] = running[x]
    <2>1. CASE StopAll
      <3>1. \A x \in Ids : running'[x] = None
        BY <2>1 DEF StopAll
      <3> QED
        BY <1>1, <2>1, <3>1, ListenStopAll
    <2>2. ASSUME NEW id \in Ids, StopRule(id)
          PROVE  Listening' /\ \A x \in Ids : running'[x] = None \/ running'[x] = running[x]
      <3>1. Detach(id)
        BY <2>2 DEF StopRule, stopRuleInternal
      <3>2. \A x \in Ids : running'[x] = None \/ running'[x] = running[x]
        BY <1>1, <3>1 DEF Detach, Listening, ListenType, Running
      <3> QED
        BY <1>1, <3>1, <3>2, ListenDetach
    <2> QED
      BY <2>1, <2>2
  <1>3. ApplyPart' /\ JournalPart' /\ ~Tx /\ ~Tx'
    BY <1>1, SingleTx DEF ghosts, ManagerInv, ApplyType
  <1>4. CollectorPart'
    <2>1. UNCHANGED total \/ \E id \in Ids : EnsureCounter(id)
      BY DEF StopAll, StopRule, stopRuleInternal, colVars
    <2>2. /\ total' \in Totals /\ CountInv' /\ BeforeInv'
          /\ \A x \in Ids : total[x] # None => total'[x] # None
      BY <1>1, <1>3, <2>1, CountKept DEF CollectorPart, txVars, ghosts
    <2>3. CollectorType'
      BY <1>1, <2>2 DEF CollectorPart, CollectorType, ghosts
    <2>4. KnownInv' /\ PolicyInv'
      BY <1>1, <1>2, <2>2 DEF CollectorPart, KnownInv, PolicyInv
    <2> QED
      BY <2>2, <2>3, <2>4 DEF CollectorPart
  <1> QED
    BY <1>2, <1>3, <1>4 DEF Listening, CollectorPart, ApplyPart, JournalPart, ManagerInv

(* A rule is removed with its counter. *)
LEMMA RemoveRuleStep ==
  ASSUME ManagerInv, NEW id \in Ids, RemoveRule(id)
  PROVE  ManagerInv'
  <1>1. /\ mode = "idle" /\ mode' = "idle" /\ prim = None /\ prim' = None /\ Listening /\ CollectorPart
        /\ UNCHANGED <<txVars, disturbed>> /\ Detach(id)
    BY Parts DEF RemoveRule, StopAndForget, ManagerInv, ModeInv
  <1>2. Listening'
    BY <1>1, ListenDetach
  <1>3. ApplyPart' /\ JournalPart' /\ ~Tx /\ ~Tx'
    BY <1>1, SingleTx DEF ManagerInv, ApplyType
  <1>4. \A x \in Ids : /\ running'[x] = IF x = id THEN None ELSE running[x]
                       /\ policy'[x] = IF x = id THEN None ELSE policy[x]
                       /\ total'[x] = IF x = id THEN None ELSE total[x]
                       /\ carried'[x] = IF x = id THEN 0 ELSE carried[x]
    BY <1>1 DEF RemoveRule, StopAndForget, Detach, Listening, ListenType, Running, CollectorPart, CollectorType,
                Policies, Totals
  <1>5. CollectorType'
    BY <1>1 DEF RemoveRule, StopAndForget, CollectorPart, CollectorType, Policies, Totals
  <1>6. rewound' = rewound \ {id}
    BY DEF RemoveRule
  <1>7. CountInv' /\ BeforeInv'
    BY <1>1, <1>3, <1>4, <1>6 DEF CollectorPart, CountInv, BeforeInv
  <1>8. KnownInv' /\ PolicyInv'
    BY <1>1, <1>4 DEF CollectorPart, KnownInv, PolicyInv
  <1> QED
    BY <1>2, <1>3, <1>5, <1>7, <1>8 DEF Listening, CollectorPart, ApplyPart, JournalPart, ManagerInv

-----------------------------------------------------------------------------
(* A snapshot is applied. *)

(* Rules that run have ports of their own. *)
LEMMA OwnPorts ==
  ASSUME Listening, NEW x \in Ids, running[x] # None, NEW s \in SocksOf(running[x])
  PROVE  owner[s] = x /\ s \in Sockets
  <1>1. running[x] \in Rules
    BY DEF Listening, ListenType, Running
  <1>2. s \in Sockets
    BY <1>1, RuleFacts DEF SocksOf
  <1>3. s \in BoundFor(x)
    BY DEF BoundFor
  <1> QED
    BY <1>2, <1>3 DEF Listening, ListenInv

(* The operation begins; a transaction remembers what it found. *)
LEMMA BeginApplyStep ==
  ASSUME ManagerInv, NEW rules \in Snapshots, NEW all \in BOOLEAN, NEW m \in {"apply", "tx"},
         BeginApply(rules, all, m)
  PROVE  ManagerInv'
  <1>1. /\ mode = "idle" /\ prim = None /\ prim' = None /\ Listening /\ CollectorPart /\ dropped = {} /\ ~failed
        /\ UNCHANGED <<running, owner, policy, total, dropped, failed, prim, carried, rewound>>
        /\ disturbed' = FALSE /\ mode' = m
        /\ todo' = rules /\ seen' = {} /\ replaceAll' = all /\ journal' = <<>>
        /\ before' = IF m = "tx" THEN [running |-> running, policy |-> policy, total |-> total] ELSE None
    BY Parts DEF BeginApply, ManagerInv, ModeInv, colVars
  <1>2. Listening'
    BY <1>1, ListenStutter
  <1>3. Len(<<>>) = 0 /\ <<>> \in Seq(Entries) /\ rules \in Seq(Rules)
    BY ManagerAssumption
  <1>4. m = "tx" => /\ before' \in Befores /\ before'.running = running /\ before'.policy = policy
                    /\ before'.total = total
    BY <1>1 DEF Befores, Listening, ListenType, CollectorPart, CollectorType
  <1>5. ApplyPart'
    BY <1>1, <1>3, <1>4 DEF ApplyPart, ApplyType, ModeInv, Tx, ManagerInv
  <1>6. CollectorType' /\ KnownInv' /\ PolicyInv' /\ CountInv'
    BY <1>1 DEF CollectorPart, CollectorType, KnownInv, PolicyInv, CountInv, Tx
  <1>7. BeforeInv'
    <2> SUFFICES ASSUME m = "tx", NEW x \in Ids
                 PROVE  /\ running[x] # None =>
                             running[x].id = x /\ policy[x] = running[x].policy /\ total[x] # None
                        /\ total[x] # None => total[x] >= total[x]
      BY <1>1, <1>4 DEF BeforeInv, Tx
    <2>1. total[x] # None => total[x] \in Nat
      BY <1>1 DEF CollectorPart, CollectorType, Totals
    <2> QED
      BY <1>1, <2>1 DEF Listening, PrimInv, CollectorPart, KnownInv, PolicyInv
  <1>8. JournalPart'
    <2>1. CASE m = "apply"
      BY <1>1, <2>1, NoTx DEF Tx
    <2>2. CASE m = "tx"
      <3>1. JournalInv' /\ StartInv' /\ RollbackFailsOnlyIfDisturbed'
        BY <1>1, <1>3, <2>2 DEF JournalInv, StartInv, RollbackFailsOnlyIfDisturbed, Tx
      <3>2. RestInv'
        BY <1>1, <1>4, <2>2 DEF RestInv
      <3>3. \A k \in 0..Len(journal'), x \in Ids : Then(k, x)' = running[x]
        BY <1>1, <1>3 DEF Then, Primed
      <3>4. PortsInv'
        <4> SUFFICES ASSUME NEW k \in 0..Len(journal') PROVE PortsAt(k)'
          BY DEF PortsInv
        <4> SUFFICES ASSUME NEW x \in Ids, NEW s \in Listens(k, x)'
                     PROVE  owner'[s] # "ext" /\ \A y \in Ids \ {x} : s \notin Listens(k, y)'
          BY DEF PortsAt
        <4>1. \A y \in Ids : Listens(k, y)' = IF running[y] = None THEN {} ELSE SocksOf(running[y])
          BY <3>3 DEF Listens
        <4>2. owner[s] = x
          BY <1>1, <4>1, OwnPorts
        <4>3. ASSUME NEW y \in Ids \ {x}, s \in Listens(k, y)' PROVE FALSE
          BY <1>1, <4>1, <4>2, <4>3, OwnPorts
        <4> QED
          BY <1>1, <4>2, <4>3, NoneFacts
      <3> QED
        BY <3>1, <3>2, <3>4 DEF JournalPart
    <2> QED
      BY <2>1, <2>2
  <1> QED
    BY <1>2, <1>5, <1>6, <1>7, <1>8 DEF Listening, CollectorPart, ApplyPart, JournalPart, ManagerInv

(* What is known of the next item. *)
LEMMA ItemFacts ==
  ASSUME ManagerInv, Applying, todo # <<>>
  PROVE  /\ Item \in Rules /\ Item.id \in Ids /\ Tail(todo) \in Seq(Rules) /\ prim = None
         /\ mode \in {"apply", "tx"} /\ Listening /\ CollectorPart
         /\ mode = "tx" => dropped = {} /\ Tx /\ before \in Befores
         /\ mode = "apply" => ~Tx /\ journal = <<>>
         /\ ~failed
  <1>1. Item \in Rules /\ Tail(todo) \in Seq(Rules)
    BY HeadTailProperties DEF ManagerInv, ApplyType, Item
  <1>2. Item.id \in Ids
    BY <1>1, RuleFacts
  <1>3. /\ prim = None /\ mode \in {"apply", "tx"} /\ Listening /\ CollectorPart
        /\ mode = "tx" => dropped = {} /\ Tx /\ before \in Befores
        /\ mode = "apply" => ~Tx /\ journal = <<>>
        /\ ~failed
    BY Parts DEF Applying, ManagerInv, ModeInv, JournalInv, Tx, ApplyType
  <1> QED
    BY <1>1, <1>2, <1>3

(* A rule the transaction has not come to runs as it did before. *)
LEMMA NotYetJournaled ==
  ASSUME ManagerInv, mode = "tx", prim = None, NEW id \in Ids \ (seen \cup dropped)
  PROVE  ~Journaled(id) /\ running[id] = before.running[id]
  <1>1. Tx /\ ~failed /\ ~Primed(id)
    BY DEF Tx, ManagerInv, ModeInv, Primed
  <1>2. ~Journaled(id)
    BY <1>1 DEF ManagerInv, JournalInv, EntryOK, Journaled
  <1> QED
    BY <1>1, <1>2 DEF ManagerInv, RestInv

(* Nothing is journaled or undone. *)
LEMMA JournalFrame ==
  ASSUME ManagerInv, Tx, Tx', UNCHANGED <<running, journal, before, failed>>,
         \/ prim = None /\ prim' = None
         \/ /\ prim # None /\ prim' # None /\ prim'.rule = prim.rule /\ prim'.kind = prim.kind
            /\ prim'.old = prim.old /\ mode' = mode,
         mode' = "tx" => mode = "tx", seen \subseteq seen', dropped \subseteq dropped',
         disturbed => disturbed', \A s \in Sockets : disturbed' \/ (owner'[s] = "ext" => owner[s] = "ext")
  PROVE  JournalPart'
  <1>1. \A x : Primed(x)' <=> Primed(x)
    BY DEF Primed
  <1>2. JournalInv'
    BY <1>1 DEF ManagerInv, JournalInv, EntryOK
  <1>3. StartInv' /\ RollbackFailsOnlyIfDisturbed'
    BY DEF ManagerInv, StartInv, RollbackFailsOnlyIfDisturbed
  <1>4. RestInv'
    BY <1>1 DEF ManagerInv, RestInv, Journaled
  <1>5. PortsInv'
    <2>1. CASE disturbed'
      BY <2>1 DEF PortsInv
    <2>2. CASE ~disturbed'
      <3>1. \A k, x : Then(k, x)' = Then(k, x)
        BY <1>1 DEF Then
      <3>2. Listening /\ before \in Befores /\ PortsInv /\ journal \in Seq(Entries)
        BY DEF ManagerInv, Listening, ApplyType
      <3> QED
        BY <2>2, <3>1, <3>2, PortsSame
    <2> QED
      BY <2>1, <2>2
  <1> QED
    BY <1>2, <1>3, <1>4, <1>5 DEF JournalPart

(* A rule is stopped, removed, or goes on under a new name: its entry.       *)
LEMMA JournalEntry ==
  ASSUME ManagerInv, mode = "tx", mode' = "tx", prim = None, prim' = None,
         NEW id \in Ids \ (seen \cup dropped), running[id] # None,
         NEW a \in {"stopped", "removed", "unchanged"}, NEW r,
         IF a = "unchanged" THEN r \in Rules /\ r.socks = running[id].socks ELSE r = None,
         running' = [running EXCEPT ![id] = r],
         journal' = Append(journal, [id |-> id, action |-> a, prev |-> running[id]]),
         UNCHANGED <<before, failed, disturbed>>,
         seen \cup dropped \cup {id} \subseteq seen' \cup dropped',
         \A s \in Sockets : owner'[s] = "ext" => owner[s] = "ext"
  PROVE  JournalPart' /\ journal' \in Seq(Entries)
  <1> DEFINE e == [id |-> id, action |-> a, prev |-> running[id]]
  <1>1. Listening /\ before \in Befores /\ PortsInv /\ journal \in Seq(Entries) /\ Tx /\ Tx' /\ ~failed
    BY DEF ManagerInv, Listening, ApplyType, Tx, ModeInv
  <1>2. e \in Entries /\ e.id = id /\ e.action = a /\ e.prev = running[id]
    BY <1>1 DEF Entries, Listening, ListenType, Running
  <1>3. ~Journaled(id) /\ running[id] = before.running[id]
    BY NotYetJournaled
  <1> HIDE DEF e
  <1>4. journal' = Append(journal, e)
    BY DEF e
  <1>5. /\ journal' \in Seq(Entries) /\ Len(journal) \in Nat /\ Len(journal') = Len(journal) + 1
        /\ \A k \in 1..Len(journal) : journal'[k] = journal[k] /\ journal[k] \in Entries
        /\ journal'[Len(journal) + 1] = e
    BY <1>1, <1>2, <1>4, AppendFacts
  <1>6. \A x \in Ids : running'[x] = IF x = id THEN r ELSE running[x]
    BY <1>1 DEF Listening, ListenType, Running
  <1>7. \A x : ~Primed(x) /\ ~Primed(x)'
    BY DEF Primed
  <1>8. JournalInv'
    <2>1. ASSUME NEW c, c = e PROVE EntryOK(c)'
      BY <1>2, <1>3, <1>6, <1>7, <2>1, NoneFacts DEF EntryOK
    <2>2. ASSUME NEW k \in 1..Len(journal) PROVE journal[k].id # id
      BY <1>3 DEF Journaled
    <2>3. \A k \in 1..Len(journal') : EntryOK(journal[k])'
      <3>1. ASSUME NEW c \in Entries, EntryOK(c), c.id # id PROVE EntryOK(c)'
        <4>1. c.id \in Ids
          BY DEF Entries
        <4> QED
          BY <1>6, <1>7, <3>1, <4>1 DEF EntryOK
      <3>2. ASSUME NEW k \in 1..Len(journal') PROVE EntryOK(journal[k])'
        <4>1. CASE k = Len(journal) + 1
          BY <1>5, <2>1, <4>1 DEF EntryOK
        <4>2. CASE k \in 1..Len(journal)
          <5>1. EntryOK(journal[k]) /\ journal[k] \in Entries
            BY <1>1, <1>5, <4>2 DEF ManagerInv, JournalInv
          <5> QED
            BY <1>5, <2>2, <3>1, <4>2, <5>1 DEF EntryOK
        <4> QED
          BY <1>5, <4>1, <4>2
      <3> QED
        BY <3>2
    <2>4. \A j, k \in 1..Len(journal') : journal'[j].id = journal'[k].id => j = k
      BY <1>1, <1>2, <1>5, <2>2 DEF ManagerInv, JournalInv
    <2> QED
      BY <1>1, <2>3, <2>4 DEF JournalInv
  <1>9. StartInv' /\ RollbackFailsOnlyIfDisturbed'
    BY DEF ManagerInv, StartInv, RollbackFailsOnlyIfDisturbed
  <1>10. RestInv'
    <2> SUFFICES ASSUME NEW x \in Ids, ~Journaled(x)'
                 PROVE  running'[x] = before.running[x]
      BY <1>1 DEF RestInv
    <2>1. x # id
      BY <1>2, <1>5 DEF Journaled
    <2>2. ~Journaled(x)
      BY <1>5 DEF Journaled
    <2> QED
      BY <1>1, <1>6, <1>7, <2>1, <2>2 DEF ManagerInv, RestInv
  <1>11. PortsInv'
    BY <1>1, <1>2, <1>3, <1>4, PortsAppend
  <1> QED
    BY <1>5, <1>8, <1>9, <1>10, <1>11 DEF JournalPart

(* The runner set of a rule is about to start. *)
LEMMA JournalBegin ==
  ASSUME ManagerInv, mode = "tx", mode' = "tx", prim = None, prim' # None,
         NEW id \in Ids \ (seen \cup dropped),
         prim'.rule.id = id, prim'.kind # "restore", prim'.old = running[id],
         prim'.kind = "restart" => running[id] # None,
         \A x \in Ids : running'[x] = IF x = id THEN None ELSE running[x],
         UNCHANGED <<journal, before, failed, disturbed, dropped>>, seen' = seen \cup {id},
         \A s \in Sockets : owner'[s] = "ext" => owner[s] = "ext"
  PROVE  JournalPart'
  <1>1. Listening /\ before \in Befores /\ PortsInv /\ journal \in Seq(Entries) /\ Tx /\ Tx' /\ ~failed
    BY DEF ManagerInv, Listening, ApplyType, Tx, ModeInv
  <1>2. ~Journaled(id) /\ running[id] = before.running[id]
    BY NotYetJournaled
  <1>3. \A x : ~Primed(x) /\ (Primed(x)' <=> x = id)
    BY DEF Primed
  <1>4. JournalInv'
    <2>1. ASSUME NEW k \in 1..Len(journal) PROVE EntryOK(journal[k])'
      <3>1. EntryOK(journal[k]) /\ journal[k] \in Entries /\ journal[k].id # id
        BY <1>1, <1>2 DEF ManagerInv, JournalInv, Journaled
      <3>2. journal[k].id \in Ids
        BY <3>1 DEF Entries
      <3> QED
        BY <1>3, <3>1, <3>2 DEF EntryOK
    <2> QED
      BY <1>1, <2>1 DEF ManagerInv, JournalInv
  <1>5. StartInv' /\ RollbackFailsOnlyIfDisturbed'
    BY <1>2 DEF ManagerInv, StartInv, RollbackFailsOnlyIfDisturbed
  <1>6. RestInv'
    BY <1>1, <1>3 DEF ManagerInv, RestInv, Journaled
  <1>7. PortsInv'
    <2>1. ASSUME NEW k \in 0..Len(journal), NEW x \in Ids PROVE Then(k, x)' = Then(k, x)
      <3>1. CASE x = id
        BY <1>2, <1>3, <3>1 DEF Then, Journaled
      <3>2. CASE x # id
        BY <1>3, <3>2 DEF Then
      <3> QED
        BY <3>1, <3>2
    <2>2. 0 \in 0..Len(journal)
      BY <1>1
    <2> QED
      BY <1>1, <2>1, <2>2, PortsSame
  <1> QED
    BY <1>4, <1>5, <1>6, <1>7 DEF JournalPart

(* The fields of the operation once its next item is taken. *)
LEMMA ItemApply ==
  ASSUME ManagerInv, Applying, todo # <<>>, NextItem, UNCHANGED <<mode, replaceAll, before, dropped, failed, disturbed>>,
         journal' \in Seq(Entries)
  PROVE  ApplyPart'
  <1>1. /\ Item.id \in Ids /\ todo' \in Seq(Rules) /\ seen' = seen \cup {Item.id}
        /\ mode \in {"apply", "tx"} /\ (mode = "tx" => dropped = {}) /\ ~failed
    BY ItemFacts DEF NextItem
  <1> QED
    BY <1>1 DEF ManagerInv, ApplyPart, ApplyType, ModeInv, Tx

(* An item is refused. *)
LEMMA ItemRefusedStep ==
  ASSUME ManagerInv, ItemRefused
  PROVE  ManagerInv'
  <1>1. /\ Applying /\ todo # <<>> /\ NextItem
        /\ UNCHANGED <<running, owner, policy, total, mode, replaceAll, journal, before, dropped, failed, prim,
                       carried, disturbed, rewound>>
    BY DEF ItemRefused, colVars, ghosts
  <1>2. /\ prim = None /\ mode \in {"apply", "tx"} /\ Listening /\ CollectorPart
        /\ mode = "apply" => ~Tx /\ journal = <<>> /\ ~failed
    BY <1>1, ItemFacts
  <1>3. Listening' /\ (Tx' <=> Tx)
    BY <1>1, <1>2, ListenStutter DEF Tx
  <1>4. ApplyPart'
    BY <1>1, ItemApply DEF ManagerInv, ApplyType
  <1>5. CollectorPart'
    BY <1>1, <1>2, <1>3 DEF CollectorPart, CollectorType, KnownInv, PolicyInv, CountInv, BeforeInv
  <1>6. JournalPart'
    <2>1. CASE mode = "apply"
      BY <1>1, <1>2, <1>3, <2>1, NoTx
    <2>2. CASE mode = "tx"
      <3>1. Tx /\ seen \subseteq seen'
        BY <1>1, <2>2 DEF Tx, NextItem
      <3> QED
        BY <1>1, <1>2, <1>3, <2>2, <3>1, JournalFrame
    <2> QED
      BY <1>2, <2>1, <2>2
  <1> QED
    BY <1>3, <1>4, <1>5, <1>6 DEF Listening, CollectorPart, ApplyPart, JournalPart, ManagerInv

(* The collector once the metadata of an item is set; its rule is stopped,   *)
(* replaced, or about to start.                                              *)
LEMMA ItemCollector ==
  ASSUME ManagerInv, NEW r \in Rules, mode \in {"single", "apply", "tx", "rollback"}, mode' = mode, ensureRuleMetadata(r),
         \A x \in Ids \ {r.id} : running'[x] = running[x] \/ running'[x] = None,
         running'[r.id] = None \/ running'[r.id].policy = r.policy,
         prim' # None => prim'.rule.id = r.id /\ prim'.rule.policy = r.policy,
         UNCHANGED <<before, dropped, carried, rewound>>
  PROVE  CollectorPart'
  <1>1. /\ policy' \in Policies /\ policy'[r.id] = r.policy /\ EnsureCounter(r.id) /\ total'[r.id] # None
        /\ \A x \in Ids \ {r.id} : policy'[x] = policy[x]
    BY MetadataSet DEF ManagerInv
  <1>2. r.id \in Ids /\ (Tx' <=> Tx)
    BY RuleFacts DEF Tx
  <1>3. /\ total' \in Totals /\ CountInv' /\ BeforeInv'
        /\ \A x \in Ids : total[x] # None => total'[x] # None
    BY <1>1, <1>2, CountKept DEF ManagerInv, ApplyType
  <1>4. CollectorType'
    BY <1>1, <1>3 DEF ManagerInv, CollectorType
  <1>5. KnownInv'
    BY <1>1, <1>2, <1>3 DEF ManagerInv, KnownInv
  <1>6. PolicyInv'
    BY <1>1, <1>2 DEF ManagerInv, PolicyInv
  <1> QED
    BY <1>3, <1>4, <1>5, <1>6 DEF CollectorPart

(* An item is disabled: its rule is stopped if it runs. *)
LEMMA ItemDisabledStep ==
  ASSUME ManagerInv, ItemDisabled
  PROVE  ManagerInv'
  <1>1. /\ Applying /\ todo # <<>> /\ Item.id \notin seen /\ NextItem /\ ensureRuleMetadata(Item)
        /\ UNCHANGED <<mode, replaceAll, before, dropped, failed, prim, carried, disturbed, rewound>>
    BY DEF ItemDisabled, ItemAccepted, ghosts
  <1>2. /\ prim = None /\ mode \in {"apply", "tx"} /\ Listening /\ Item \in Rules /\ Item.id \in Ids /\ ~failed
        /\ mode = "apply" => ~Tx /\ journal = <<>>
        /\ mode = "tx" => dropped = {} /\ Tx
        /\ seen \subseteq seen' /\ Item.id \in seen' /\ journal \in Seq(Entries)
    BY <1>1, ItemFacts DEF NextItem, ManagerInv, ApplyType
  <1>3. Tx' <=> Tx
    BY <1>1 DEF Tx
  <1>4. CASE running[Item.id] # None
    <2>1. Detach(Item.id) /\ journal' = Undo(Item.id, "stopped", running[Item.id])
      BY <1>4 DEF ItemDisabled
    <2>2. Listening'
      BY <1>1, <1>2, <2>1, ListenDetach
    <2>3. /\ running' = [running EXCEPT ![Item.id] = None]
          /\ \A x \in Ids : running'[x] = IF x = Item.id THEN None ELSE running[x]
          /\ \A s \in Sockets : owner'[s] = "ext" => owner[s] = "ext"
      BY <1>2, <2>1 DEF Detach, Released, Listening, ListenType, Running
    <2>4. CollectorPart'
      BY <1>1, <1>2, <2>3, ItemCollector
    <2>5. JournalPart' /\ journal' \in Seq(Entries)
      <3>1. CASE mode = "apply"
        <4>1. journal' = journal
          BY <2>1, <3>1 DEF Undo
        <4> QED
          BY <1>1, <1>2, <1>3, <3>1, <4>1, NoTx
      <3>2. CASE mode = "tx"
        <4>1. journal' = Append(journal, [id |-> Item.id, action |-> "stopped", prev |-> running[Item.id]])
          BY <2>1, <3>2 DEF Undo
        <4>2. mode' = "tx" /\ prim' = None /\ Item.id \in Ids \ (seen \cup dropped)
              /\ seen \cup dropped \cup {Item.id} \subseteq seen' \cup dropped'
          BY <1>1, <1>2, <3>2
        <4> QED
          BY <1>1, <1>2, <1>4, <2>3, <3>2, <4>1, <4>2, JournalEntry
      <3> QED
        BY <1>2, <3>1, <3>2
    <2>6. ApplyPart'
      BY <1>1, <2>5, ItemApply
    <2> QED
      BY <2>2, <2>4, <2>5, <2>6 DEF Listening, CollectorPart, ApplyPart, JournalPart, ManagerInv
  <1>5. CASE running[Item.id] = None
    <2>1. UNCHANGED <<running, owner, journal>>
      BY <1>5 DEF ItemDisabled
    <2>2. Listening'
      BY <1>1, <1>2, <2>1, ListenStutter
    <2>3. CollectorPart'
      BY <1>1, <1>2, <1>5, <2>1, ItemCollector
    <2>4. JournalPart'
      <3>1. CASE mode = "apply"
        BY <1>1, <1>2, <1>3, <2>1, <3>1, NoTx
      <3>2. CASE mode = "tx"
        BY <1>1, <1>2, <1>3, <2>1, <3>2, JournalFrame
      <3> QED
        BY <1>2, <3>1, <3>2
    <2>5. ApplyPart'
      BY <1>1, <1>2, <2>1, ItemApply
    <2> QED
      BY <2>2, <2>3, <2>4, <2>5 DEF Listening, CollectorPart, ApplyPart, JournalPart, ManagerInv
  <1> QED
    BY <1>4, <1>5

(* An item differs from the running rule in name only. *)
LEMMA ItemUnchangedStep ==
  ASSUME ManagerInv, ItemUnchanged
  PROVE  ManagerInv'
  <1>1. /\ Applying /\ todo # <<>> /\ Item.id \notin seen /\ NextItem /\ ensureRuleMetadata(Item)
        /\ UNCHANGED <<owner, mode, replaceAll, before, dropped, failed, prim, carried, disturbed, rewound>>
        /\ running[Item.id] # None /\ Item.socks = running[Item.id].socks
        /\ running' = [running EXCEPT ![Item.id] = Item]
        /\ journal' = Undo(Item.id, "unchanged", running[Item.id])
    BY DEF ItemUnchanged, ItemAccepted, ghosts, RuntimeEqual
  <1>2. /\ prim = None /\ mode \in {"apply", "tx"} /\ Listening /\ Item \in Rules /\ Item.id \in Ids /\ ~failed
        /\ mode = "apply" => ~Tx /\ journal = <<>>
        /\ mode = "tx" => dropped = {} /\ Tx
        /\ seen \subseteq seen' /\ Item.id \in seen' /\ journal \in Seq(Entries)
    BY <1>1, ItemFacts DEF NextItem, ManagerInv, ApplyType
  <1>3. Tx' <=> Tx
    BY <1>1 DEF Tx
  <1>4. Listening'
    BY <1>1, <1>2, ListenReplace
  <1>5. \A x \in Ids : running'[x] = IF x = Item.id THEN Item ELSE running[x]
    BY <1>1, <1>2 DEF Listening, ListenType, Running
  <1>6. CollectorPart'
    BY <1>1, <1>2, <1>5, ItemCollector
  <1>7. JournalPart' /\ journal' \in Seq(Entries)
    <2>1. CASE mode = "apply"
      <3>1. journal' = journal
        BY <1>1, <2>1 DEF Undo
      <3> QED
        BY <1>1, <1>2, <1>3, <2>1, <3>1, NoTx
    <2>2. CASE mode = "tx"
      <3>1. journal' = Append(journal, [id |-> Item.id, action |-> "unchanged", prev |-> running[Item.id]])
        BY <1>1, <2>2 DEF Undo
      <3>2. mode' = "tx" /\ prim' = None /\ Item.id \in Ids \ (seen \cup dropped)
            /\ seen \cup dropped \cup {Item.id} \subseteq seen' \cup dropped'
        BY <1>1, <1>2, <2>2
      <3> QED
        BY <1>1, <1>2, <2>2, <3>1, <3>2, JournalEntry
    <2> QED
      BY <1>2, <2>1, <2>2
  <1>8. ApplyPart'
    BY <1>1, <1>7, ItemApply
  <1> QED
    BY <1>4, <1>6, <1>7, <1>8 DEF Listening, CollectorPart, ApplyPart, JournalPart, ManagerInv

(* An item is to run: started anew, or in place of the rule that runs.       *)
LEMMA ItemBegins ==
  ASSUME ManagerInv, ItemRestart \/ ItemStart
  PROVE  ManagerInv'
  <1>1. /\ Applying /\ todo # <<>> /\ Item.id \notin seen /\ NextItem /\ ensureRuleMetadata(Item)
        /\ UNCHANGED <<mode, replaceAll, journal, before, dropped, failed, carried, disturbed, rewound>>
    BY DEF ItemRestart, ItemStart, BeginStart, BeginRestart, ItemAccepted, ghosts
  <1>2. /\ prim = None /\ mode \in {"apply", "tx"} /\ Listening /\ Item \in Rules /\ Item.id \in Ids /\ ~failed
        /\ mode = "apply" => ~Tx /\ journal = <<>>
        /\ mode = "tx" => dropped = {} /\ Tx
        /\ seen' = seen \cup {Item.id} /\ journal \in Seq(Entries)
    BY <1>1, ItemFacts DEF NextItem, ManagerInv, ApplyType
  <1>3. Tx' <=> Tx
    BY <1>1 DEF Tx
  <1>4. /\ Listening' /\ prim' # None /\ prim'.kind # "restore" /\ prim'.rule = Item /\ prim'.old = running[Item.id]
        /\ prim'.kind = "restart" => running[Item.id] # None
        /\ \A x \in Ids : running'[x] = IF x = Item.id THEN None ELSE running[x]
        /\ \A s \in Sockets : owner'[s] = "ext" => owner[s] = "ext"
    <2>1. CASE ItemStart
      <3>1. running[Item.id] = None /\ Starting("start", Item, None) /\ UNCHANGED <<running, owner>>
        BY <2>1 DEF ItemStart, BeginStart
      <3>2. "start" \in Kinds /\ "start" # "restart" /\ None \in Rules \cup {None}
        BY DEF Kinds
      <3>3. Listening' /\ prim' # None /\ prim'.kind = "start" /\ prim'.rule = Item /\ prim'.old = None
        BY <1>2, <3>1, <3>2, ListenStart
      <3> QED
        BY <3>1, <3>3
    <2>2. CASE ItemRestart
      <3>1. Detach(Item.id) /\ Starting("restart", Item, running[Item.id]) /\ running[Item.id] # None
        BY <2>2 DEF ItemRestart, BeginRestart
      <3>2. running[Item.id] \in Rules \cup {None} /\ (running[Item.id] # None => running[Item.id].id = Item.id)
        BY <1>2 DEF Listening, ListenType, PrimInv, Running
      <3>3. "restart" \in Kinds
        BY DEF Kinds
      <3>4. /\ Listening' /\ prim' # None /\ prim'.kind = "restart" /\ prim'.rule = Item
            /\ prim'.old = running[Item.id]
        BY <1>2, <3>1, <3>2, <3>3, ListenRestart
      <3>5. /\ \A x \in Ids : running'[x] = IF x = Item.id THEN None ELSE running[x]
            /\ \A s \in Sockets : owner'[s] = "ext" => owner[s] = "ext"
        BY <1>2, <3>1 DEF Detach, Released, Listening, ListenType, Running
      <3> QED
        BY <3>1, <3>4, <3>5
    <2> QED
      BY <2>1, <2>2
  <1>5. CollectorPart'
    BY <1>1, <1>2, <1>4, ItemCollector
  <1>6. JournalPart'
    <2>1. CASE mode = "apply"
      BY <1>1, <1>2, <1>3, <2>1, NoTx
    <2>2. CASE mode = "tx"
      <3>1. mode' = "tx" /\ Item.id \in Ids \ (seen \cup dropped)
        BY <1>1, <1>2, <2>2
      <3> QED
        BY <1>1, <1>2, <1>4, <2>2, <3>1, JournalBegin
    <2> QED
      BY <1>2, <2>1, <2>2
  <1>7. ApplyPart'
    BY <1>1, <1>2, ItemApply
  <1> QED
    BY <1>4, <1>5, <1>6, <1>7 DEF Listening, CollectorPart, ApplyPart, JournalPart, ManagerInv

(* A rule that is not in the snapshot goes, with its counter. *)
LEMMA RemoveSurplusStep ==
  ASSUME ManagerInv, NEW id \in Ids, RemoveSurplus(id)
  PROVE  ManagerInv'
  <1>1. /\ mode \in {"apply", "tx"} /\ prim = None /\ prim' = None /\ todo = <<>> /\ id \in Surplus
        /\ Detach(id) /\ policy' = [policy EXCEPT ![id] = None] /\ total' = [total EXCEPT ![id] = None]
        /\ dropped' = dropped \cup {id}
        /\ UNCHANGED <<mode, todo, seen, replaceAll, before, failed, disturbed>>
    BY DEF RemoveSurplus, StopAndForget, Applying
  <1>2. Listening /\ CollectorPart /\ ~failed /\ journal \in Seq(Entries) /\ id \notin seen
    BY <1>1, Parts DEF ManagerInv, ModeInv, ApplyType, Surplus
  <1>3. Listening'
    BY <1>1, <1>2, ListenDetach
  <1>4. /\ running' = [running EXCEPT ![id] = None]
        /\ \A x \in Ids : running'[x] = IF x = id THEN None ELSE running[x]
        /\ \A s \in Sockets : owner'[s] = "ext" => owner[s] = "ext"
    BY <1>1, <1>2 DEF Detach, Released, Listening, ListenType, Running
  <1>5. \A x \in Ids : /\ policy'[x] = IF x = id THEN None ELSE policy[x]
                       /\ total'[x] = IF x = id THEN None ELSE total[x]
    BY <1>1, <1>2 DEF CollectorPart, CollectorType, Policies, Totals
  <1>6. Tx' <=> Tx
    BY <1>1 DEF Tx
  <1>7. CASE mode = "apply"
    <2>1. ~Tx /\ journal = <<>> /\ journal' = journal
      BY <1>7 DEF RemoveSurplus, Undo, ManagerInv, JournalInv, Tx
    <2>2. carried' = [carried EXCEPT ![id] = 0] /\ rewound' = rewound \ {id}
      BY <1>7 DEF RemoveSurplus
    <2>3. CollectorType'
      BY <1>1, <1>2, <2>2 DEF CollectorPart, CollectorType, Policies, Totals
    <2>4. \A x \in Ids : carried'[x] = IF x = id THEN 0 ELSE carried[x]
      BY <1>2, <2>2 DEF CollectorPart, CollectorType
    <2>5. CountInv' /\ BeforeInv'
      BY <1>2, <1>5, <1>6, <2>1, <2>2, <2>4 DEF CollectorPart, CountInv, BeforeInv
    <2>6. KnownInv' /\ PolicyInv'
      BY <1>1, <1>2, <1>4, <1>5 DEF CollectorPart, KnownInv, PolicyInv
    <2>7. JournalPart'
      BY <1>1, <1>2, <1>6, <2>1, NoTx
    <2>8. ApplyPart'
      BY <1>1, <1>2, <1>7, <2>1 DEF ManagerInv, ApplyPart, ApplyType, ModeInv, Tx
    <2> QED
      BY <1>3, <2>3, <2>5, <2>6, <2>7, <2>8 DEF Listening, CollectorPart, ApplyPart, JournalPart, ManagerInv
  <1>8. CASE mode = "tx"
    <2>1. Tx /\ UNCHANGED <<carried, rewound>> /\ before \in Befores
      BY <1>8 DEF RemoveSurplus, Tx, ManagerInv, ApplyType
    <2>2. CollectorType'
      BY <1>1, <1>2, <2>1 DEF CollectorPart, CollectorType, Policies, Totals
    <2>3. CountInv'
      BY <1>1, <1>2, <1>5, <1>6, <2>1 DEF CollectorPart, CountInv
    <2>4. BeforeInv'
      <3> SUFFICES ASSUME NEW x \in Ids
                   PROVE  /\ before.running[x] # None =>
                                /\ before.running[x].id = x
                                /\ before.policy[x] = before.running[x].policy
                                /\ before.total[x] # None
                          /\ before.total[x] # None =>
                                IF x \in dropped'
                                THEN before.total[x] + (IF total'[x] = None THEN 0 ELSE total'[x]) <= carried[x]
                                ELSE total'[x] # None /\ total'[x] >= before.total[x]
        BY <1>1, <2>1 DEF BeforeInv
      <3>1. CASE x # id
        BY <1>1, <1>2, <1>5, <2>1, <3>1 DEF CollectorPart, BeforeInv
      <3>2. CASE x = id
        <4>1. x \in dropped' /\ total'[x] = None
          BY <1>1, <1>5, <3>2
        <4>2. ASSUME before.total[x] # None PROVE before.total[x] <= carried[x]
          <5>1. before.total[x] \in Nat /\ carried[x] \in Nat
            BY <1>2, <2>1, <4>2 DEF Befores, Totals, CollectorPart, CollectorType
          <5>2. CASE x \in dropped
            <6>1. total[x] = None
              BY <1>8, <5>2 DEF ManagerInv, ModeInv
            <6>2. before.total[x] + 0 <= carried[x]
              BY <1>2, <2>1, <4>2, <5>2, <6>1 DEF CollectorPart, BeforeInv
            <6> QED
              BY <5>1, <6>2
          <5>3. CASE x \notin dropped
            <6>1. total[x] # None /\ total[x] >= before.total[x] /\ total[x] <= carried[x]
              BY <1>2, <2>1, <4>2, <5>3 DEF CollectorPart, BeforeInv, CountInv
            <6>2. total[x] \in Nat
              BY <1>2, <6>1 DEF CollectorPart, CollectorType, Totals
            <6> QED
              BY <5>1, <6>1, <6>2
          <5> QED
            BY <5>2, <5>3
        <4>3. before.total[x] # None => before.total[x] + 0 <= carried[x]
          BY <1>2, <2>1, <4>2 DEF Befores, Totals, CollectorPart, CollectorType
        <4> QED
          BY <1>2, <2>1, <4>1, <4>3 DEF CollectorPart, BeforeInv
      <3> QED
        BY <3>1, <3>2
    <2>5. KnownInv' /\ PolicyInv'
      BY <1>1, <1>2, <1>4, <1>5 DEF CollectorPart, KnownInv, PolicyInv
    <2>6. JournalPart' /\ journal' \in Seq(Entries)
      <3>1. CASE running[id] # None
        <4>1. journal' = Append(journal, [id |-> id, action |-> "removed", prev |-> running[id]])
          BY <1>8, <3>1 DEF RemoveSurplus, Undo
        <4>2. id \notin dropped
          BY <1>8, <3>1 DEF ManagerInv, ModeInv
        <4>3. /\ mode' = "tx" /\ id \in Ids \ (seen \cup dropped)
              /\ seen \cup dropped \cup {id} \subseteq seen' \cup dropped'
          BY <1>1, <1>2, <1>8, <4>2
        <4> QED
          BY <1>1, <1>4, <1>8, <3>1, <4>1, <4>3, JournalEntry
      <3>2. CASE running[id] = None
        <4>1. journal' = journal
          BY <3>2 DEF RemoveSurplus
        <4>2. running' = running
          BY <1>2, <1>4, <3>2 DEF Listening, ListenType, Running
        <4> QED
          BY <1>1, <1>2, <1>4, <1>6, <1>8, <2>1, <4>1, <4>2, JournalFrame
      <3> QED
        BY <3>1, <3>2
    <2>7. ApplyPart'
      <3>1. ModeInv'
        BY <1>1, <1>2, <1>4, <1>5, <1>8 DEF ManagerInv, ModeInv, ApplyType
      <3> QED
        BY <1>1, <2>1, <2>6, <3>1 DEF ManagerInv, ApplyPart, ApplyType, Tx
    <2> QED
      BY <1>3, <2>2, <2>3, <2>4, <2>5, <2>6, <2>7 DEF Listening, CollectorPart, ApplyPart, JournalPart, ManagerInv
  <1> QED
    BY <1>1, <1>7, <1>8

(* The fields of an operation that has ended. *)
LEMMA EndPart ==
  ASSUME EndApply, prim' = None
  PROVE  ApplyPart' /\ JournalPart' /\ ~Tx' /\ dropped' = {}
  <1>1. /\ mode' = "idle" /\ todo' = <<>> /\ seen' = {} /\ replaceAll' = FALSE /\ journal' = <<>>
        /\ dropped' = {} /\ failed' = FALSE /\ disturbed' = FALSE
    BY DEF EndApply
  <1>2. ~Tx'
    BY <1>1 DEF Tx
  <1>3. <<>> \in Seq(Rules) /\ <<>> \in Seq(Entries)
    OBVIOUS
  <1>4. ApplyPart'
    BY <1>1, <1>2, <1>3 DEF ApplyPart, ApplyType, ModeInv
  <1> QED
    BY <1>1, <1>2, <1>4, NoTx

(* The last item is done; a transaction waits for its verdict. *)
LEMMA ApplyDoneStep ==
  ASSUME ManagerInv, ApplyDone \/ Rollback
  PROVE  ManagerInv'
  <1>1. /\ UNCHANGED <<running, owner, policy, total, prim, carried, rewound>> /\ prim = None
        /\ Listening /\ CollectorPart
    BY Parts DEF ApplyDone, Rollback, Applying, colVars, ghosts, ManagerInv, ModeInv
  <1>2. Listening'
    BY <1>1, ListenStutter
  <1>3. CASE mode = "apply"
    <2>1. EndApply /\ ~Tx
      BY <1>3 DEF ApplyDone, Rollback, Tx
    <2>2. ApplyPart' /\ JournalPart' /\ ~Tx' /\ mode' = "idle"
      BY <1>1, <2>1, EndPart DEF EndApply
    <2>3. CollectorPart'
      BY <1>1, <1>3, <2>1, <2>2 DEF CollectorPart, CollectorType, KnownInv, PolicyInv, CountInv, BeforeInv
    <2> QED
      BY <1>2, <2>2, <2>3 DEF Listening, CollectorPart, ApplyPart, JournalPart, ManagerInv
  <1>4. CASE mode # "apply"
    <2>1. /\ Tx /\ Tx' /\ UNCHANGED <<todo, seen, replaceAll, journal, before, dropped, failed, disturbed>>
          /\ \/ mode = "tx" /\ mode' = "pending"
             \/ mode = "pending" /\ mode' = "rollback"
      BY <1>4 DEF ApplyDone, Rollback, Applying, Tx, txVars, ghosts
    <2>2. ApplyPart'
      BY <1>1, <2>1 DEF ManagerInv, ApplyPart, ApplyType, ModeInv
    <2>3. CollectorPart'
      BY <1>1, <2>1 DEF CollectorPart, CollectorType, KnownInv, PolicyInv, CountInv, BeforeInv
    <2>4. JournalPart'
      BY <1>1, <2>1, JournalFrame
    <2> QED
      BY <1>2, <2>2, <2>3, <2>4 DEF Listening, CollectorPart, ApplyPart, JournalPart, ManagerInv
  <1> QED
    BY <1>3, <1>4

(* The transaction is committed: its removals are final. *)
LEMMA CommitStep ==
  ASSUME ManagerInv, Commit
  PROVE  ManagerInv'
  <1>1. /\ UNCHANGED <<running, owner, policy, total, prim>> /\ prim = None /\ mode = "pending" /\ Tx
        /\ Listening /\ CollectorPart /\ EndApply /\ rewound' = rewound \ dropped
        /\ carried' = [id \in Ids |-> IF id \in dropped THEN 0 ELSE carried[id]]
    BY Parts DEF Commit, colVars, ManagerInv, ModeInv, Tx
  <1>2. Listening' /\ ApplyPart' /\ JournalPart' /\ ~Tx'
    BY <1>1, ListenStutter, EndPart
  <1>3. CollectorType'
    BY <1>1 DEF CollectorPart, CollectorType
  <1>4. KnownInv' /\ PolicyInv' /\ BeforeInv'
    BY <1>1, <1>2 DEF CollectorPart, KnownInv, PolicyInv, BeforeInv
  <1>5. CountInv'
    <2> SUFFICES ASSUME NEW x \in Ids
                 PROVE  /\ total[x] = None => carried'[x] = 0
                        /\ total[x] # None => /\ total[x] <= carried'[x]
                                              /\ x \notin rewound' => total[x] = carried'[x]
      BY <1>1 DEF CountInv
    <2>1. CASE x \in dropped
      <3>1. total[x] = None
        BY <1>1, <2>1 DEF ManagerInv, ModeInv
      <3> QED
        BY <1>1, <2>1, <3>1
    <2>2. CASE x \notin dropped
      BY <1>1, <2>2 DEF CollectorPart, CountInv
    <2> QED
      BY <2>1, <2>2
  <1> QED
    BY <1>2, <1>3, <1>4, <1>5 DEF Listening, CollectorPart, ApplyPart, JournalPart, ManagerInv

-----------------------------------------------------------------------------
(* A runner set is started. *)

(* A rule that is to run as before finds its ports free, unless another      *)
(* program took one of them.                                                 *)
LEMMA BusyDisturbed ==
  ASSUME ManagerInv, Tx, RunnerBusy, prim.rule = before.running[prim.rule.id]
  PROVE  disturbed
  <1> SUFFICES ASSUME ~disturbed PROVE FALSE
    OBVIOUS
  <1>1. /\ Listening /\ prim \in Prims /\ prim # None /\ prim.rule \in Rules /\ prim.started \in Nat
        /\ prim.started < Len(prim.rule.socks) /\ owner[NextSocket] # "free" /\ journal \in Seq(Entries)
    BY DEF RunnerBusy, ManagerInv, Listening, ListenType, Prims, ApplyType
  <1>2. prim.rule.id \in Ids /\ Len(prim.rule.socks) \in Nat
    BY <1>1, RuleFacts
  <1>3. prim.started + 1 \in 1..Len(prim.rule.socks)
    BY <1>1, <1>2
  <1>4. NextSocket \in SocksOf(prim.rule) /\ NextSocket \in Sockets
    BY <1>1, <1>3, RuleFacts DEF NextSocket, SocksOf
  <1>5. Len(journal) \in Nat /\ PortsAt(Len(journal))
    BY <1>1 DEF ManagerInv, PortsInv
  <1>6. \A x \in Ids : Then(Len(journal), x) = IF x = prim.rule.id THEN prim.rule ELSE running[x]
    BY <1>1, <1>5 DEF Then, Primed
  <1>7. NextSocket \in Listens(Len(journal), prim.rule.id)
    BY <1>1, <1>2, <1>4, <1>6, NoneFacts DEF Listens
  <1>8. owner[NextSocket] # "ext" /\ \A y \in Ids \ {prim.rule.id} : NextSocket \notin Listens(Len(journal), y)
    BY <1>2, <1>5, <1>7 DEF PortsAt
  <1>9. owner[NextSocket] \in Ids
    BY <1>1, <1>4, <1>8 DEF Listening, ListenType
  <1>10. PICK y \in Ids : owner[NextSocket] = y
    BY <1>9
  <1>11. NextSocket \in BoundFor(y)
    BY <1>1, <1>4, <1>10 DEF Listening, ListenInv
  <1>12. CASE y = prim.rule.id
    <2>1. running[y] = None
      BY <1>1, <1>12 DEF Listening, PrimInv
    <2>2. PICK i \in 1..prim.started : NextSocket = prim.rule.socks[i]
      BY <1>1, <1>11, <1>12, <2>1 DEF BoundFor
    <2>3. i \in 1..Len(prim.rule.socks) /\ i # prim.started + 1
      BY <1>1, <1>2
    <2> QED
      BY <1>1, <1>3, <2>2, <2>3, RuleFacts DEF NextSocket
  <1>13. CASE y # prim.rule.id
    <2>1. running[y] # None /\ NextSocket \in SocksOf(running[y])
      BY <1>11, <1>13 DEF BoundFor
    <2> QED
      BY <1>6, <1>8, <1>13, <2>1 DEF Listens
  <1> QED
    BY <1>12, <1>13

(* The set is settled, and with it what the transaction has to undo.         *)
LEMMA JournalSettled ==
  ASSUME ManagerInv, Tx, prim # None, prim' = None, mode' = "rollback", UNCHANGED <<journal, before, disturbed>>,
         NEW id \in Ids, prim.rule.id = id, NEW r, running' = [running EXCEPT ![id] = r],
         r = before.running[id] \/ failed', r # None => before.running[id] # None,
         failed => failed', failed' => disturbed, failed' \in BOOLEAN,
         r = None \/ r = before.running[id] \/ disturbed,
         \A s \in Sockets : owner'[s] = "ext" => owner[s] = "ext"
  PROVE  JournalPart'
  <1>1. Listening /\ before \in Befores /\ PortsInv /\ journal \in Seq(Entries) /\ Tx'
    BY DEF ManagerInv, Listening, ApplyType, Tx
  <1>2. \A x : ~Primed(x)' /\ (Primed(x) <=> x = id)
    BY DEF Primed
  <1>3. \A x \in Ids : running'[x] = IF x = id THEN r ELSE running[x]
    BY <1>1 DEF Listening, ListenType, Running
  <1>4. ASSUME NEW k \in 1..Len(journal) PROVE EntryOK(journal[k]) /\ journal[k].id \in Ids \ {id}
    <2>1. EntryOK(journal[k]) /\ journal[k] \in Entries
      BY <1>1 DEF ManagerInv, JournalInv
    <2> QED
      BY <1>2, <2>1 DEF EntryOK, Entries
  <1>5. JournalInv'
    <2>1. ASSUME NEW k \in 1..Len(journal) PROVE EntryOK(journal[k])'
      BY <1>2, <1>3, <1>4 DEF EntryOK
    <2> QED
      BY <1>1, <2>1 DEF ManagerInv, JournalInv
  <1>6. StartInv' /\ RollbackFailsOnlyIfDisturbed'
    BY DEF StartInv, RollbackFailsOnlyIfDisturbed
  <1>7. RestInv'
    <2> SUFFICES ASSUME NEW x \in Ids, ~Journaled(x)'
                 PROVE  /\ ~failed' => running'[x] = before.running[x]
                        /\ running'[x] # None => before.running[x] # None
      BY DEF RestInv
    <2>1. CASE x = id
      BY <1>3, <2>1
    <2>2. CASE x # id
      <3>1. ~Journaled(x) /\ ~Primed(x)
        BY <1>2, <2>2 DEF Journaled
      <3> QED
        BY <1>3, <2>2, <3>1 DEF ManagerInv, RestInv
    <2> QED
      BY <2>1, <2>2
  <1>8. PortsInv'
    <2> SUFFICES ASSUME ~disturbed, NEW k \in 0..Len(journal) PROVE PortsAt(k)'
      BY DEF PortsInv
    <2>1. PortsAt(k)
      BY DEF ManagerInv, PortsInv
    <2>2. ASSUME NEW x \in Ids PROVE Listens(k, x)' \subseteq Listens(k, x)
      <3>1. CASE x # id
        <4>1. Then(k, x)' = Then(k, x)
          BY <1>2, <1>3, <3>1 DEF Then
        <4> QED
          BY <4>1 DEF Listens
      <3>2. CASE x = id
        <4>1. Then(k, x) = before.running[x]
          BY <1>2, <3>2 DEF Then
        <4>2. Then(k, x)' = r
          BY <1>2, <1>3, <1>4, <3>2 DEF Then
        <4> QED
          BY <3>2, <4>1, <4>2 DEF Listens
      <3> QED
        BY <3>1, <3>2
    <2> QED
      BY <1>1, <2>1, <2>2, PortsFrame
  <1> QED
    BY <1>5, <1>6, <1>7, <1>8 DEF JournalPart

(* The runner set of an item is complete: its entry.                         *)
LEMMA JournalStarted ==
  ASSUME ManagerInv, mode = "tx", mode' = "tx", prim # None, prim.kind # "restore", prim' = None, Listening',
         NEW id \in Ids, prim.rule.id = id, prim.rule \in Rules, prim.old \in Rules \cup {None},
         running' = [running EXCEPT ![id] = prim.rule], UNCHANGED <<owner, before, failed, disturbed, seen, dropped>>,
         NEW a, a = IF prim.kind = "start" THEN "started" ELSE "restarted",
         journal' = Append(journal, [id |-> id, action |-> a, prev |-> prim.old])
  PROVE  JournalPart' /\ journal' \in Seq(Entries)
  <1> DEFINE e == [id |-> id, action |-> a, prev |-> prim.old]
  <1>1. /\ Listening /\ before \in Befores /\ PortsInv /\ journal \in Seq(Entries) /\ Tx /\ Tx' /\ ~failed
        /\ before.running[id] = prim.old /\ id \in seen /\ (prim.kind = "start" <=> prim.old = None)
    <2>1. /\ Listening /\ before \in Befores /\ PortsInv /\ journal \in Seq(Entries) /\ Tx /\ Tx' /\ ~failed
          /\ before.running[id] = prim.old /\ id \in seen /\ (prim.kind = "restart" => prim.old # None)
      BY DEF ManagerInv, Listening, ApplyType, Tx, ModeInv, StartInv
    <2>2. prim \in Prims /\ (prim.kind # "restart" => prim.old = None)
      BY <2>1 DEF Listening, ListenType, PrimInv
    <2> QED
      BY <2>1, <2>2 DEF Prims, Kinds
  <1>2. e \in Entries /\ e.id = id /\ e.action = a /\ e.prev = prim.old
    BY DEF Entries
  <1> HIDE DEF e
  <1>3. journal' = Append(journal, e)
    BY DEF e
  <1>4. /\ journal' \in Seq(Entries) /\ Len(journal) \in Nat /\ Len(journal') = Len(journal) + 1
        /\ \A k \in 1..Len(journal) : journal'[k] = journal[k] /\ journal[k] \in Entries
        /\ journal'[Len(journal) + 1] = e
    BY <1>1, <1>2, <1>3, AppendFacts
  <1>5. \A x \in Ids : running'[x] = IF x = id THEN prim.rule ELSE running[x]
    BY <1>1 DEF Listening, ListenType, Running
  <1>6. \A x : ~Primed(x)' /\ (Primed(x) <=> x = id)
    BY DEF Primed
  <1>7. ASSUME NEW k \in 1..Len(journal)
        PROVE  EntryOK(journal[k]) /\ journal[k] \in Entries /\ journal[k].id \in Ids \ {id}
    <2>1. EntryOK(journal[k]) /\ journal[k] \in Entries
      BY <1>1, <1>4 DEF ManagerInv, JournalInv
    <2> QED
      BY <1>6, <2>1 DEF EntryOK, Entries
  <1>8. JournalInv'
    <2>1. ASSUME NEW c, c = e PROVE EntryOK(c)'
      <3>1. a # "stopped" /\ a # "removed" /\ a # "unchanged" /\ (a = "started" <=> prim.kind = "start")
        OBVIOUS
      <3> QED
        BY <1>1, <1>2, <1>6, <2>1, <3>1 DEF EntryOK
    <2>2. ASSUME NEW k \in 1..Len(journal') PROVE EntryOK(journal[k])'
      <3>1. CASE k = Len(journal) + 1
        BY <1>4, <2>1, <3>1 DEF EntryOK
      <3>2. CASE k \in 1..Len(journal)
        <4>1. ASSUME NEW c, c = journal[k] PROVE EntryOK(c)'
          BY <1>5, <1>6, <1>7, <3>2, <4>1 DEF EntryOK
        <4> QED
          BY <1>4, <3>2, <4>1 DEF EntryOK
      <3> QED
        BY <1>4, <3>1, <3>2
    <2>3. \A j, k \in 1..Len(journal') : journal'[j].id = journal'[k].id => j = k
      BY <1>1, <1>2, <1>4, <1>7 DEF ManagerInv, JournalInv
    <2> QED
      BY <1>1, <2>2, <2>3 DEF JournalInv
  <1>9. StartInv' /\ RollbackFailsOnlyIfDisturbed'
    BY DEF ManagerInv, StartInv, RollbackFailsOnlyIfDisturbed
  <1>10. RestInv'
    <2> SUFFICES ASSUME NEW x \in Ids, ~Journaled(x)'
                 PROVE  running'[x] = before.running[x]
      BY <1>1 DEF RestInv
    <2>1. x # id
      BY <1>2, <1>4 DEF Journaled
    <2>2. ~Journaled(x)
      BY <1>4 DEF Journaled
    <2> QED
      BY <1>1, <1>5, <1>6, <2>1, <2>2 DEF ManagerInv, RestInv
  <1>11. PortsInv'
    <2> SUFFICES ASSUME ~disturbed, NEW k \in 0..Len(journal') PROVE PortsAt(k)'
      BY DEF PortsInv
    <2>1. ~Journaled(id)
      BY <1>7 DEF Journaled
    <2>2. /\ \A m \in 0..Len(journal), x \in Ids : Then(m, x)' = Then(m, x)
          /\ \A x \in Ids : Then(Len(journal), x)' = running'[x]
      BY <1>1, <1>2, <1>3, <1>5, <1>6, <2>1, AppendThen
    <2>3. CASE k \in 0..Len(journal)
      <3>1. PortsAt(k)
        BY <1>1, <2>3 DEF PortsInv
      <3>2. \A x \in Ids : Listens(k, x)' \subseteq Listens(k, x)
        BY <2>2, <2>3 DEF Listens
      <3> QED
        BY <1>1, <3>1, <3>2, PortsFrame
    <2>4. CASE k = Len(journal')
      <3>1. \A x \in Ids : Listens(k, x)' = IF running'[x] = None THEN {} ELSE SocksOf(running'[x])
        BY <2>2, <2>4 DEF Listens
      <3>2. ASSUME NEW x \in Ids, NEW s \in Listens(k, x)' PROVE owner'[s] = x
        <4>1. running'[x] \in Rules /\ s \in SocksOf(running'[x])
          BY <3>1, <3>2 DEF Listening, ListenType, Running
        <4>2. s \in Sockets
          BY <4>1, RuleFacts DEF SocksOf
        <4>3. s \in BoundFor(x)'
          BY <4>1, NoneFacts DEF BoundFor
        <4> QED
          BY <4>2, <4>3 DEF Listening, ListenInv
      <3>3. ASSUME NEW x \in Ids, NEW s \in Listens(k, x)'
            PROVE  owner'[s] # "ext" /\ \A y \in Ids \ {x} : s \notin Listens(k, y)'
        BY <3>2, NoneFacts
      <3> QED
        BY <3>3 DEF PortsAt
    <2> QED
      BY <1>4, <2>3, <2>4
  <1> QED
    BY <1>4, <1>8, <1>9, <1>10, <1>11 DEF JournalPart

(* The collector while runners start, fail or are stopped: only a counter    *)
(* may be made.                                                              *)
LEMMA RunnerCollector ==
  ASSUME ManagerInv, UNCHANGED <<policy, carried, rewound, dropped, before>>, Tx' <=> Tx,
         mode' # "rollback" => mode # "rollback",
         UNCHANGED total \/ \E id \in Ids : EnsureCounter(id),
         \A x \in Ids : \/ running'[x] = None
                        \/ running'[x] = running[x]
                        \/ running[x] # None /\ mode' = "rollback"
                        \/ prim # None /\ prim.rule.id = x /\ running'[x] = prim.rule,
         prim' = None \/ (prim # None /\ prim'.rule = prim.rule)
  PROVE  CollectorPart'
  <1>1. /\ total' \in Totals /\ CountInv' /\ BeforeInv'
        /\ \A x \in Ids : total[x] # None => total'[x] # None
    BY CountKept DEF ManagerInv, ApplyType
  <1>2. CollectorType'
    BY <1>1 DEF ManagerInv, CollectorType
  <1>3. prim # None => prim.rule.id \in Ids
    BY RuleFacts DEF ManagerInv, ListenType, Prims
  <1>4. KnownInv'
    BY <1>1, <1>3 DEF ManagerInv, KnownInv
  <1>5. PolicyInv'
    BY <1>1, <1>3 DEF ManagerInv, PolicyInv
  <1> QED
    BY <1>1, <1>2, <1>4, <1>5 DEF CollectorPart

(* One more runner listens. *)
LEMMA RunnerStartsStep ==
  ASSUME ManagerInv, RunnerStarts
  PROVE  ManagerInv'
  <1>1. UNCHANGED <<running, policy, total, mode, todo, seen, replaceAll, journal, before, dropped, failed,
                    carried, disturbed, rewound>> /\ Listening
    BY Parts DEF RunnerStarts, colVars, txVars, ghosts
  <1>2. /\ Listening' /\ prim # None /\ prim' # None
        /\ prim'.rule = prim.rule /\ prim'.kind = prim.kind /\ prim'.old = prim.old
        /\ \A s \in Sockets : owner'[s] # "ext" \/ owner[s] = "ext"
    BY <1>1, ListenRunnerStarts
  <1>3. Tx' <=> Tx
    BY <1>1 DEF Tx
  <1>4. CollectorPart'
    BY <1>1, <1>2, <1>3, RunnerCollector
  <1>5. ApplyPart'
    BY <1>1, <1>2, <1>3 DEF ManagerInv, ApplyPart, ApplyType, ModeInv
  <1>6. JournalPart'
    <2>1. CASE Tx
      BY <1>1, <1>2, <1>3, <2>1, JournalFrame
    <2>2. CASE ~Tx
      <3>1. journal = <<>> /\ ~failed
        BY <2>2 DEF ManagerInv, JournalInv, ModeInv, Tx
      <3> QED
        BY <1>1, <1>3, <2>2, <3>1, NoTx
    <2> QED
      BY <2>1, <2>2
  <1> QED
    BY <1>2, <1>4, <1>5, <1>6 DEF Listening, CollectorPart, ApplyPart, JournalPart, ManagerInv

(* The runner set is complete. *)
LEMMA RunnersStartedStep ==
  ASSUME ManagerInv, RunnersStarted
  PROVE  ManagerInv'
  <1>1. /\ Listening /\ AfterSuccess
        /\ UNCHANGED <<owner, policy, total, todo, seen, replaceAll, before, dropped, carried, disturbed, rewound>>
    BY Parts DEF RunnersStarted, colVars, ghosts
  <1>2. /\ Listening' /\ prim \in Prims /\ prim # None /\ prim' = None
        /\ prim.rule \in Rules /\ prim.rule.id \in Ids
        /\ running' = [running EXCEPT ![prim.rule.id] = prim.rule]
    BY <1>1, ListenRunnersStarted
  <1>3. \A x \in Ids : running'[x] = IF x = prim.rule.id THEN prim.rule ELSE running[x]
    BY <1>1, <1>2 DEF Listening, ListenType, Running
  <1>4. mode \in {"single", "apply", "tx", "rollback"}
    BY <1>2 DEF ManagerInv, ModeInv, ApplyType
  <1>5. ASSUME Tx' <=> Tx, mode' # "rollback" => mode # "rollback" PROVE CollectorPart'
    BY <1>1, <1>2, <1>3, <1>5, RunnerCollector
  <1>6. CASE mode = "single"
    <2>1. mode' = "idle" /\ UNCHANGED <<journal, failed>>
      BY <1>1, <1>6 DEF AfterSuccess
    <2>2. ~Tx /\ ~Tx'
      BY <1>6, <2>1 DEF Tx
    <2>3. ApplyPart' /\ JournalPart'
      BY <1>1, <1>2, <1>6, <2>1, SingleTx DEF txVars, ManagerInv, ApplyType
    <2> QED
      BY <1>2, <1>5, <1>6, <2>1, <2>2, <2>3 DEF Listening, CollectorPart, ApplyPart, JournalPart, ManagerInv
  <1>7. CASE mode = "apply"
    <2>1. UNCHANGED <<mode, journal, failed>>
      BY <1>1, <1>7 DEF AfterSuccess
    <2>2. ~Tx /\ ~Tx' /\ journal = <<>> /\ ~failed
      BY <1>7, <2>1 DEF Tx, ManagerInv, JournalInv, ModeInv
    <2>3. JournalPart'
      BY <2>1, <2>2, NoTx
    <2>4. ApplyPart'
      BY <1>1, <1>2, <1>7, <2>1, <2>2 DEF ManagerInv, ApplyPart, ApplyType, ModeInv
    <2> QED
      BY <1>2, <1>5, <2>1, <2>2, <2>3, <2>4 DEF Listening, CollectorPart, ApplyPart, JournalPart, ManagerInv
  <1>8. CASE mode = "tx" /\ prim.kind # "restore"
    <2>1. /\ UNCHANGED <<mode, failed>>
          /\ journal' = Undo(prim.rule.id, IF prim.kind = "start" THEN "started" ELSE "restarted", prim.old)
      BY <1>1, <1>8 DEF AfterSuccess
    <2>2. PICK a : a = IF prim.kind = "start" THEN "started" ELSE "restarted"
      OBVIOUS
    <2>3. journal' = Append(journal, [id |-> prim.rule.id, action |-> a, prev |-> prim.old])
      BY <1>8, <2>1, <2>2 DEF Undo
    <2>4. JournalPart' /\ journal' \in Seq(Entries)
      BY <1>1, <1>2, <1>8, <2>1, <2>2, <2>3, JournalStarted DEF Prims
    <2>5. Tx /\ Tx' /\ dropped = {}
      BY <1>2, <1>8, <2>1 DEF Tx, ManagerInv, ModeInv
    <2>6. ApplyPart'
      BY <1>1, <1>2, <1>8, <2>1, <2>4, <2>5 DEF ManagerInv, ApplyPart, ApplyType, ModeInv
    <2> QED
      BY <1>2, <1>5, <2>1, <2>4, <2>5, <2>6 DEF Listening, CollectorPart, ApplyPart, JournalPart, ManagerInv
  <1>9. CASE (mode = "tx" /\ prim.kind = "restore") \/ mode = "rollback"
    <2>1. /\ mode' = "rollback" /\ UNCHANGED journal
          /\ failed' = (failed \/ (mode = "rollback" /\ prim.kind = "restore"))
      BY <1>1, <1>9 DEF AfterSuccess, ManagerInv, ApplyType
    <2>2. Tx /\ Tx' /\ failed' \in BOOLEAN
      BY <1>9, <2>1 DEF Tx
    <2>3. /\ prim.rule = before.running[prim.rule.id] \/ (failed' /\ disturbed)
          /\ before.running[prim.rule.id] # None
          /\ failed => failed'
          /\ failed' => disturbed
      BY <1>2, <1>9, <2>1, <2>2, NoneFacts DEF ManagerInv, StartInv, RollbackFailsOnlyIfDisturbed
    <2>4. JournalPart'
      BY <1>1, <1>2, <2>1, <2>2, <2>3, JournalSettled
    <2>5. ApplyPart'
      BY <1>1, <1>2, <2>1, <2>2 DEF ManagerInv, ApplyPart, ApplyType, ModeInv
    <2> QED
      BY <1>2, <1>5, <2>1, <2>2, <2>4, <2>5 DEF Listening, CollectorPart, ApplyPart, JournalPart, ManagerInv
  <1> QED
    BY <1>4, <1>6, <1>7, <1>8, <1>9

(* A runner could not listen and no rule ran before. *)
LEMMA RunnerFailsStep ==
  ASSUME ManagerInv, RunnerFails
  PROVE  ManagerInv'
  <1>1. /\ Listening /\ AfterFailure /\ owner' = Released(prim.rule.id)
        /\ UNCHANGED <<policy, total, todo, seen, replaceAll, before, dropped, carried, disturbed, rewound>>
    BY Parts DEF RunnerFails, StopStarted, colVars, ghosts
  <1>2. /\ Listening' /\ prim \in Prims /\ prim # None /\ prim' = None /\ UNCHANGED running
        /\ prim.old = None /\ prim.rule.id \in Ids /\ RunnerBusy
    BY <1>1, ListenRunnerFails
  <1>3. /\ \A s \in Sockets : owner'[s] = "ext" => owner[s] = "ext"
        /\ running[prim.rule.id] = None /\ running' = [running EXCEPT ![prim.rule.id] = None]
    BY <1>1, <1>2 DEF Released, Listening, PrimInv, ListenType, Running
  <1>4. mode \in {"single", "apply", "tx", "rollback"}
    BY <1>2 DEF ManagerInv, ModeInv, ApplyType
  <1>5. ASSUME Tx' <=> Tx, mode' # "rollback" => mode # "rollback" PROVE CollectorPart'
    BY <1>1, <1>2, <1>5, RunnerCollector
  <1>6. CASE mode = "single"
    <2>1. mode' = "idle" /\ UNCHANGED <<journal, failed>>
      BY <1>1, <1>6 DEF AfterFailure
    <2>2. ~Tx /\ ~Tx'
      BY <1>6, <2>1 DEF Tx
    <2>3. ApplyPart' /\ JournalPart'
      BY <1>1, <1>2, <1>6, <2>1, SingleTx DEF txVars, ManagerInv, ApplyType
    <2> QED
      BY <1>2, <1>5, <1>6, <2>1, <2>2, <2>3 DEF Listening, CollectorPart, ApplyPart, JournalPart, ManagerInv
  <1>7. CASE mode = "apply"
    <2>1. UNCHANGED <<mode, journal, failed>>
      BY <1>1, <1>7 DEF AfterFailure
    <2>2. ~Tx /\ ~Tx' /\ journal = <<>> /\ ~failed
      BY <1>7, <2>1 DEF Tx, ManagerInv, JournalInv, ModeInv
    <2>3. JournalPart'
      BY <2>1, <2>2, NoTx
    <2>4. ApplyPart'
      BY <1>1, <1>2, <1>7, <2>1, <2>2 DEF ManagerInv, ApplyPart, ApplyType, ModeInv
    <2> QED
      BY <1>2, <1>5, <2>1, <2>2, <2>3, <2>4 DEF Listening, CollectorPart, ApplyPart, JournalPart, ManagerInv
  <1>8. CASE mode \in {"tx", "rollback"}
    <2>1. /\ mode' = "rollback" /\ UNCHANGED journal
          /\ failed' = (failed \/ mode = "rollback" \/ prim.kind = "restore")
      BY <1>1, <1>8 DEF AfterFailure, ManagerInv, ApplyType
    <2>2. Tx /\ Tx' /\ failed' \in BOOLEAN
      BY <1>8, <2>1 DEF Tx
    <2>3. ASSUME failed' PROVE disturbed
      <3>1. CASE failed
        BY <3>1 DEF ManagerInv, RollbackFailsOnlyIfDisturbed
      <3>2. CASE mode = "rollback" \/ prim.kind = "restore"
        <4>1. prim.rule = before.running[prim.rule.id] \/ disturbed
          BY <1>2, <1>8, <2>2, <3>2 DEF ManagerInv, StartInv
        <4> QED
          BY <1>2, <2>2, <4>1, BusyDisturbed
      <3> QED
        BY <2>1, <2>3, <3>1, <3>2
    <2>4. None = before.running[prim.rule.id] \/ failed'
      BY <1>2, <1>8, <2>1, <2>2 DEF ManagerInv, StartInv
    <2>5. JournalPart'
      BY <1>1, <1>2, <1>3, <2>1, <2>2, <2>3, <2>4, JournalSettled
    <2>6. ApplyPart'
      BY <1>1, <1>2, <2>1, <2>2 DEF ManagerInv, ApplyPart, ApplyType, ModeInv
    <2> QED
      BY <1>2, <1>5, <2>1, <2>2, <2>5, <2>6 DEF Listening, CollectorPart, ApplyPart, JournalPart, ManagerInv
  <1> QED
    BY <1>4, <1>6, <1>7, <1>8

(* A runner could not listen: the rule that ran before is to run again.      *)
LEMMA RestartFailsStep ==
  ASSUME ManagerInv, RestartFails
  PROVE  ManagerInv'
  <1>1. /\ Listening /\ ensureRuleMetadata(prim.old) /\ owner' = Released(prim.rule.id)
        /\ UNCHANGED <<running, mode, todo, seen, replaceAll, journal, before, dropped, failed, carried, disturbed,
                       rewound>>
    BY Parts DEF RestartFails, StopStarted, txVars, ghosts
  <1>2. /\ Listening' /\ prim \in Prims /\ prim # None /\ prim' # None
        /\ prim.old \in Rules /\ prim'.kind = "restore" /\ prim'.rule = prim.old /\ prim'.old = None
        /\ prim.old.id = prim.rule.id /\ prim.rule.id \in Ids /\ prim.kind = "restart" /\ RunnerBusy
    BY <1>1, ListenRestartFails
  <1>3. /\ \A s \in Sockets : owner'[s] = "ext" => owner[s] = "ext"
        /\ running[prim.rule.id] = None
    BY <1>1, <1>2 DEF Released, Listening, PrimInv, ListenType
  <1>4. mode \in {"single", "apply", "tx", "rollback"} /\ (Tx' <=> Tx)
    BY <1>1, <1>2 DEF ManagerInv, ModeInv, ApplyType, Tx
  <1>5. CollectorPart'
    BY <1>1, <1>2, <1>3, <1>4, ItemCollector
  <1>6. ApplyPart'
    BY <1>1, <1>2, <1>4 DEF ManagerInv, ApplyPart, ApplyType, ModeInv
  <1>7. CASE ~Tx
    <2>1. journal = <<>> /\ ~failed
      BY <1>7 DEF ManagerInv, JournalInv, ModeInv, Tx
    <2>2. JournalPart'
      BY <1>1, <1>4, <1>7, <2>1, NoTx
    <2> QED
      BY <1>2, <1>5, <1>6, <2>2 DEF Listening, CollectorPart, ApplyPart, JournalPart, ManagerInv
  <1>8. CASE Tx
    <2>1. \A x : Primed(x)' <=> Primed(x)
      BY <1>2 DEF Primed
    <2>2. JournalInv' /\ RollbackFailsOnlyIfDisturbed'
      BY <1>1, <1>4, <2>1 DEF ManagerInv, JournalInv, EntryOK, RollbackFailsOnlyIfDisturbed
    <2>3. RestInv'
      BY <1>1, <1>4, <2>1 DEF ManagerInv, RestInv, Journaled
    <2>4. mode = "rollback" => disturbed
      BY <1>2, <1>8, BusyDisturbed DEF ManagerInv, StartInv
    <2>5. StartInv'
      BY <1>1, <1>2, <1>8, <2>4 DEF ManagerInv, StartInv
    <2>6. \A k, x : Then(k, x)' = Then(k, x)
      BY <1>1, <2>1 DEF Then
    <2>7. PortsInv'
      BY <1>1, <1>3, <1>8, <2>6, PortsSame DEF ManagerInv, ApplyType
    <2> QED
      BY <1>2, <1>5, <1>6, <2>2, <2>3, <2>5, <2>7 DEF Listening, CollectorPart, ApplyPart, JournalPart, ManagerInv
  <1> QED
    BY <1>7, <1>8

-----------------------------------------------------------------------------
(* A transaction is rolled back. *)

(* The entry that is undone next. *)
LEMMA LastFacts ==
  ASSUME ManagerInv, Undoing, NEW e, e = LastStep
  PROVE  /\ e \in Entries /\ e.id \in Ids /\ EntryOK(e)
         /\ e.prev \in Rules \cup {None} /\ e.prev = before.running[e.id]
         /\ (e.prev # None => e.prev.id = e.id)
         /\ mode = "rollback" /\ Tx /\ prim = None /\ Listening
         /\ journal \in Seq(Entries) /\ journal # <<>> /\ before \in Befores
  <1>1. /\ mode = "rollback" /\ Tx /\ prim = None /\ Listening
        /\ journal \in Seq(Entries) /\ journal # <<>> /\ before \in Befores
    BY Parts DEF Undoing, Tx, ManagerInv, ApplyType
  <1>2. Len(journal) \in 1..Len(journal) /\ e \in Entries
    BY <1>1, EmptySeq DEF LastStep
  <1>3. EntryOK(e)
    BY <1>1, <1>2 DEF ManagerInv, JournalInv, LastStep
  <1>4. e.id \in Ids /\ e.prev \in Rules \cup {None} /\ e.prev = before.running[e.id]
    BY <1>2, <1>3 DEF Entries, EntryOK
  <1>5. e.prev # None => e.prev.id = e.id
    BY <1>1, <1>4 DEF ManagerInv, BeforeInv
  <1> QED
    BY <1>1, <1>2, <1>3, <1>4, <1>5

(* The last entry is undone, or its rule is about to run as before.          *)
LEMMA JournalUndo ==
  ASSUME ManagerInv, Undoing, DropStep, NEW id, id = LastStep.id, mode' = mode,
         UNCHANGED <<before, disturbed, failed>>,
         \A x \in Ids \ {id} : running'[x] = running[x],
         \/ prim' = None /\ running'[id] = before.running[id]
         \/ /\ prim' # None /\ before.running[id] # None /\ prim'.rule = before.running[id] /\ prim'.rule.id = id
            /\ prim'.kind # "restore",
         \A s \in Sockets : owner'[s] = "ext" => owner[s] = "ext"
  PROVE  JournalPart' /\ journal' \in Seq(Entries)
  <1>1. /\ id \in Ids /\ mode = "rollback" /\ Tx /\ Tx' /\ prim = None /\ Listening
        /\ journal \in Seq(Entries) /\ journal # <<>> /\ before \in Befores
    BY LastFacts DEF Tx
  <1>2. /\ journal' \in Seq(Entries) /\ Len(journal) \in Nat \ {0} /\ Len(journal') = Len(journal) - 1
        /\ \A k \in 1..(Len(journal) - 1) : journal'[k] = journal[k] /\ journal[k] \in Entries
    BY <1>1, DropFacts DEF DropStep
  <1>3. \A x : ~Primed(x) /\ (Primed(x)' => x = id)
    BY <1>1 DEF Primed
  <1>4. Primed(id)' \/ running'[id] = before.running[id]
    BY DEF Primed
  <1>5. ASSUME NEW k \in 1..Len(journal')
        PROVE  /\ k \in 1..Len(journal) /\ journal'[k] = journal[k] /\ EntryOK(journal[k])
               /\ journal[k].id \in Ids \ {id}
    <2>1. k \in 1..(Len(journal) - 1) /\ k \in 1..Len(journal) /\ k # Len(journal) /\ Len(journal) \in 1..Len(journal)
      BY <1>2
    <2>2. journal'[k] = journal[k] /\ EntryOK(journal[k]) /\ journal[k].id \in Ids
      BY <1>1, <1>2, <2>1 DEF ManagerInv, JournalInv, Entries
    <2>3. journal[k].id # journal[Len(journal)].id
      BY <1>1, <2>1 DEF ManagerInv, JournalInv
    <2> QED
      BY <2>1, <2>2, <2>3 DEF LastStep
  <1>6. JournalInv'
    <2>1. ASSUME NEW k \in 1..Len(journal') PROVE EntryOK(journal[k])'
      <3>1. ASSUME NEW c, c = journal[k] PROVE EntryOK(c)'
        BY <1>1, <1>3, <1>5, <3>1 DEF EntryOK
      <3> QED
        BY <1>5, <3>1 DEF EntryOK
    <2>2. \A j, k \in 1..Len(journal') : journal'[j].id = journal'[k].id => j = k
      BY <1>1, <1>5 DEF ManagerInv, JournalInv
    <2> QED
      BY <1>1, <2>1, <2>2 DEF JournalInv
  <1>7. StartInv' /\ RollbackFailsOnlyIfDisturbed'
    BY <1>1 DEF ManagerInv, StartInv, RollbackFailsOnlyIfDisturbed
  <1>8. RestInv'
    <2> SUFFICES ASSUME NEW x \in Ids, ~Journaled(x)', ~Primed(x)'
                 PROVE  /\ ~failed => running'[x] = before.running[x]
                        /\ running'[x] # None => before.running[x] # None
      BY DEF RestInv
    <2>1. CASE x = id
      BY <1>4, <2>1
    <2>2. CASE x # id
      <3>1. ASSUME NEW k \in 1..Len(journal), journal[k].id = x PROVE FALSE
        <4>1. k # Len(journal)
          BY <2>2, <3>1 DEF LastStep
        <4>2. k \in 1..(Len(journal) - 1)
          BY <1>2, <4>1
        <4> QED
          BY <1>2, <3>1, <4>2 DEF Journaled
      <3>2. ~Journaled(x) /\ ~Primed(x)
        BY <1>3, <3>1 DEF Journaled
      <3> QED
        BY <1>1, <2>2, <3>2 DEF ManagerInv, RestInv
    <2> QED
      BY <2>1, <2>2
  <1>9. PortsInv'
    <2>1. \A x \in Ids \ {id} : running'[x] = running[x] /\ (Primed(x)' <=> Primed(x))
      BY <1>3
    <2>2. \A k \in 0..Len(journal'), x \in Ids : Then(k, x)' = Then(k, x) /\ k \in 0..Len(journal)
      BY <1>1, <1>4, <2>1, DropThen
    <2>3. Ids # {} /\ PortsInv
      BY <1>1 DEF ManagerInv
    <2> QED
      BY <1>1, <2>2, <2>3, PortsDrop
  <1> QED
    BY <1>2, <1>6, <1>7, <1>8, <1>9 DEF JournalPart

(* The fields of the transaction meanwhile. *)
LEMMA UndoApply ==
  ASSUME ManagerInv, Undoing, UNCHANGED <<mode, todo, seen, replaceAll, before, dropped, failed, disturbed>>,
         journal' \in Seq(Entries)
  PROVE  ApplyPart'
  BY DEF Undoing, ManagerInv, ApplyPart, ApplyType, ModeInv, Tx

(* A rule that was started is stopped. *)
LEMMA UndoStartedStep ==
  ASSUME ManagerInv, UndoStarted
  PROVE  ManagerInv'
  <1>1. PICK e : e = LastStep
    OBVIOUS
  <1>2. /\ Undoing /\ e.action = "started" /\ DropStep /\ Detach(e.id) /\ EnsureCounter(e.id)
        /\ UNCHANGED <<policy, mode, todo, seen, replaceAll, before, dropped, failed, prim, carried, disturbed, rewound>>
    BY <1>1 DEF UndoStarted, stopRuleInternal, ghosts
  <1>3. e.id \in Ids /\ EntryOK(e) /\ mode = "rollback" /\ prim = None /\ Listening
    BY <1>1, <1>2, LastFacts
  <1>4. Listening'
    BY <1>2, <1>3, ListenDetach
  <1>5. /\ \A x \in Ids : running'[x] = IF x = e.id THEN None ELSE running[x]
        /\ \A s \in Sockets : owner'[s] = "ext" => owner[s] = "ext"
    BY <1>2, <1>3 DEF Detach, Released, Listening, ListenType, Running
  <1>6. before.running[e.id] = None
    BY <1>2, <1>3 DEF EntryOK
  <1>7. JournalPart' /\ journal' \in Seq(Entries)
    BY <1>1, <1>2, <1>3, <1>5, <1>6, JournalUndo
  <1>8. ApplyPart'
    BY <1>2, <1>7, UndoApply
  <1>9. CollectorPart'
    BY <1>2, <1>3, <1>5, RunnerCollector DEF Tx
  <1> QED
    BY <1>4, <1>7, <1>8, <1>9 DEF Listening, CollectorPart, ApplyPart, JournalPart, ManagerInv

(* A rule that was stopped or removed is to run again: none runs in its      *)
(* place, so this never fails.                                               *)
LEMMA UndoStoppedStep ==
  ASSUME ManagerInv, UndoStopped
  PROVE  ManagerInv'
  <1>1. PICK e : e = LastStep
    OBVIOUS
  <1>2. Undoing /\ e.action \in {"stopped", "removed"} /\ DropStep
    BY <1>1 DEF UndoStopped
  <1>3. /\ e.id \in Ids /\ EntryOK(e) /\ mode = "rollback" /\ prim = None /\ Listening
        /\ e.prev \in Rules \cup {None} /\ e.prev = before.running[e.id] /\ (e.prev # None => e.prev.id = e.id)
    BY <1>1, <1>2, LastFacts
  <1>4. running[e.id] = None /\ e.prev # None
    BY <1>2, <1>3 DEF EntryOK
  <1>5. /\ BeginStart(e.prev)
        /\ UNCHANGED <<mode, todo, seen, replaceAll, before, dropped, failed, carried, disturbed, rewound>>
    BY <1>1, <1>4 DEF UndoStopped, ghosts
  <1>6. e.prev \in Rules /\ "start" \in Kinds /\ "start" # "restart" /\ None \in Rules \cup {None}
    BY <1>3, <1>4 DEF Kinds
  <1>7. Listening' /\ prim' # None /\ prim'.kind = "start" /\ prim'.rule = e.prev /\ UNCHANGED <<running, owner>>
    BY <1>3, <1>4, <1>5, <1>6, ListenStart DEF BeginStart
  <1>8. JournalPart' /\ journal' \in Seq(Entries)
    BY <1>1, <1>2, <1>3, <1>4, <1>5, <1>7, JournalUndo
  <1>9. ApplyPart'
    BY <1>2, <1>5, <1>8, UndoApply
  <1>10. CollectorPart'
    BY <1>3, <1>4, <1>5, <1>6, <1>7, ItemCollector DEF BeginStart
  <1> QED
    BY <1>7, <1>8, <1>9, <1>10 DEF Listening, CollectorPart, ApplyPart, JournalPart, ManagerInv

(* A rule that was restarted is to run as before. *)
LEMMA UndoRestartedStep ==
  ASSUME ManagerInv, UndoRestarted
  PROVE  ManagerInv'
  <1>1. PICK e : e = LastStep
    OBVIOUS
  <1>2. /\ Undoing /\ e.action = "restarted" /\ DropStep /\ BeginRestart(e.prev)
        /\ UNCHANGED <<mode, todo, seen, replaceAll, before, dropped, failed, carried, disturbed, rewound>>
    BY <1>1 DEF UndoRestarted, ghosts
  <1>3. /\ e.id \in Ids /\ EntryOK(e) /\ mode = "rollback" /\ prim = None /\ Listening
        /\ e.prev \in Rules \cup {None} /\ e.prev = before.running[e.id] /\ (e.prev # None => e.prev.id = e.id)
    BY <1>1, <1>2, LastFacts
  <1>4. e.prev # None /\ e.prev \in Rules /\ e.prev.id = e.id
    BY <1>2, <1>3 DEF EntryOK
  <1>5. Detach(e.id) /\ ensureRuleMetadata(e.prev) /\ Starting("restart", e.prev, running[e.id])
    BY <1>2, <1>4 DEF BeginRestart
  <1>6. /\ running[e.id] \in Rules \cup {None} /\ (running[e.id] # None => running[e.id].id = e.prev.id)
        /\ "restart" \in Kinds
    BY <1>3, <1>4 DEF Listening, ListenType, PrimInv, Running, Kinds
  <1>7. Listening' /\ prim' # None /\ prim'.kind = "restart" /\ prim'.rule = e.prev
    BY <1>3, <1>4, <1>5, <1>6, ListenRestart
  <1>8. /\ \A x \in Ids : running'[x] = IF x = e.id THEN None ELSE running[x]
        /\ \A s \in Sockets : owner'[s] = "ext" => owner[s] = "ext"
    BY <1>3, <1>5 DEF Detach, Released, Listening, ListenType, Running
  <1>9. JournalPart' /\ journal' \in Seq(Entries)
    BY <1>1, <1>2, <1>3, <1>4, <1>7, <1>8, JournalUndo
  <1>10. ApplyPart'
    BY <1>2, <1>9, UndoApply
  <1>11. CollectorPart'
    BY <1>2, <1>3, <1>4, <1>5, <1>7, <1>8, ItemCollector
  <1> QED
    BY <1>7, <1>9, <1>10, <1>11 DEF Listening, CollectorPart, ApplyPart, JournalPart, ManagerInv

(* A rule that went on under a new name gets its old one back. *)
LEMMA UndoUnchangedStep ==
  ASSUME ManagerInv, UndoUnchanged
  PROVE  ManagerInv'
  <1>1. PICK e : e = LastStep
    OBVIOUS
  <1>2. /\ Undoing /\ e.action = "unchanged" /\ DropStep
        /\ running' = [running EXCEPT ![e.id] = IF @ = None THEN None ELSE e.prev]
        /\ UNCHANGED <<owner, policy, total, mode, todo, seen, replaceAll, before, dropped, failed, prim, carried,
                       disturbed, rewound>>
    BY <1>1 DEF UndoUnchanged, colVars, ghosts
  <1>3. /\ e.id \in Ids /\ EntryOK(e) /\ mode = "rollback" /\ prim = None /\ Listening
        /\ e.prev \in Rules \cup {None} /\ e.prev = before.running[e.id] /\ (e.prev # None => e.prev.id = e.id)
    BY <1>1, <1>2, LastFacts
  <1>4. e.prev \in Rules /\ e.prev.id = e.id /\ running[e.id] # None /\ running[e.id].socks = e.prev.socks
    BY <1>2, <1>3 DEF EntryOK
  <1>5. /\ running' = [running EXCEPT ![e.id] = e.prev]
        /\ \A x \in Ids : running'[x] = IF x = e.id THEN e.prev ELSE running[x]
    BY <1>2, <1>3, <1>4 DEF Listening, ListenType, Running
  <1>6. Listening'
    BY <1>2, <1>3, <1>4, <1>5, ListenReplace
  <1>7. JournalPart' /\ journal' \in Seq(Entries)
    BY <1>1, <1>2, <1>3, <1>5, JournalUndo
  <1>8. ApplyPart'
    BY <1>2, <1>7, UndoApply
  <1>9. CollectorPart'
    BY <1>2, <1>3, <1>4, <1>5, RunnerCollector DEF Tx
  <1> QED
    BY <1>6, <1>7, <1>8, <1>9 DEF Listening, CollectorPart, ApplyPart, JournalPart, ManagerInv

(* Everything is undone: what the rollback leaves. *)
LEMMA Restored ==
  ASSUME ManagerInv, RollbackDone
  PROVE  /\ UNCHANGED <<running, owner, prim>> /\ Tx /\ Listening /\ prim = None /\ EndApply
         /\ ~failed => running = before.running
         /\ \A x \in Ids :
               /\ running[x] # None => before.running[x] # None
               /\ policy'[x] = IF running[x] # None THEN running[x].policy ELSE before.policy[x]
               /\ before.total[x] = None => running[x] = None /\ total'[x] = None
               /\ before.total[x] # None =>
                     /\ total'[x] \in Nat /\ total'[x] >= before.total[x] /\ total'[x] <= carried[x]
                     /\ x \notin dropped => total'[x] = total[x]
  <1>1. /\ UNCHANGED <<running, owner, prim>> /\ mode = "rollback" /\ Tx /\ prim = None /\ journal = <<>> /\ EndApply
        /\ Listening /\ before \in Befores /\ total \in Totals /\ carried \in [Ids -> Nat]
        /\ total' = [id \in Ids |->
                       IF restoredTotal(id) = None /\ running[id] # None THEN 0 ELSE restoredTotal(id)]
        /\ policy' = [id \in Ids |-> restoredPolicy(id)]
    BY Parts DEF RollbackDone, Tx, ManagerInv, ApplyType, CollectorType
  <1>2. \A x : ~Journaled(x) /\ ~Primed(x)
    BY <1>1 DEF Journaled, Primed
  <1>3. \A x \in Ids : /\ ~failed => running[x] = before.running[x]
                       /\ running[x] # None => before.running[x] # None
    BY <1>1, <1>2 DEF ManagerInv, RestInv
  <1>4. ~failed => running = before.running
    BY <1>1, <1>3 DEF Listening, ListenType, Running, Befores
  <1>5. ASSUME NEW x \in Ids
        PROVE  /\ policy'[x] = IF running[x] # None THEN running[x].policy ELSE before.policy[x]
               /\ before.total[x] = None => running[x] = None /\ total'[x] = None
               /\ before.total[x] # None =>
                     /\ total'[x] \in Nat /\ total'[x] >= before.total[x] /\ total'[x] <= carried[x]
                     /\ x \notin dropped => total'[x] = total[x]
    <2>1. policy'[x] = IF running[x] # None THEN running[x].policy ELSE before.policy[x]
      BY <1>1 DEF restoredPolicy
    <2>2. total'[x] = IF restoredTotal(x) = None /\ running[x] # None THEN 0 ELSE restoredTotal(x)
      BY <1>1
    <2>3. CASE before.total[x] = None
      <3>1. running[x] = None
        BY <1>1, <1>3, <2>3 DEF ManagerInv, BeforeInv
      <3> QED
        BY <2>1, <2>2, <2>3, <3>1 DEF restoredTotal
    <2>4. CASE before.total[x] # None
      <3>1. before.total[x] \in Nat /\ carried[x] \in Nat /\ (total[x] # None => total[x] \in Nat)
        BY <1>1, <2>4 DEF Befores, Totals
      <3>2. CASE x \notin dropped
        <4>1. total[x] # None /\ total[x] >= before.total[x] /\ total[x] <= carried[x]
          BY <1>1, <2>4, <3>2 DEF ManagerInv, BeforeInv, CountInv
        <4>2. total'[x] = total[x]
          BY <2>2, <2>4, <3>2, <4>1 DEF restoredTotal
        <4> QED
          BY <2>1, <2>4, <3>1, <4>1, <4>2
      <3>3. CASE x \in dropped
        <4> DEFINE more == IF total[x] = None THEN 0 ELSE total[x]
        <4>1. more \in Nat /\ before.total[x] + more <= carried[x]
          BY <1>1, <2>4, <3>1, <3>3 DEF ManagerInv, BeforeInv
        <4>2. restoredTotal(x) = before.total[x] + more
          BY <2>4, <3>3 DEF restoredTotal
        <4> HIDE DEF more
        <4>3. before.total[x] + more \in Nat /\ before.total[x] + more >= before.total[x]
          BY <3>1, <4>1
        <4>4. total'[x] = before.total[x] + more
          BY <2>2, <4>2, <4>3, NoneFacts
        <4> QED
          BY <2>1, <2>4, <3>3, <4>1, <4>3, <4>4
      <3> QED
        BY <3>2, <3>3
    <2> QED
      BY <2>3, <2>4
  <1> QED
    BY <1>1, <1>3, <1>4, <1>5

(* The collector is set back. *)
LEMMA RollbackDoneStep ==
  ASSUME ManagerInv, RollbackDone
  PROVE  ManagerInv'
  <1>1. /\ UNCHANGED <<running, owner, prim>> /\ Tx /\ Listening /\ prim = None /\ EndApply
        /\ \A x \in Ids :
               /\ running[x] # None => before.running[x] # None
               /\ policy'[x] = IF running[x] # None THEN running[x].policy ELSE before.policy[x]
               /\ before.total[x] = None => running[x] = None /\ total'[x] = None
               /\ before.total[x] # None =>
                     /\ total'[x] \in Nat /\ total'[x] <= carried[x]
                     /\ x \notin dropped => total'[x] = total[x]
    BY Restored
  <1>2. Listening' /\ ApplyPart' /\ JournalPart' /\ ~Tx' /\ prim' = None
    BY <1>1, ListenStutter, EndPart
  <1>3. /\ total' = [id \in Ids |->
                       IF restoredTotal(id) = None /\ running[id] # None THEN 0 ELSE restoredTotal(id)]
        /\ policy' = [id \in Ids |-> restoredPolicy(id)]
        /\ carried' = [id \in Ids |-> IF total'[id] = None THEN 0 ELSE carried[id]]
        /\ rewound' = {id \in rewound \cup dropped : total'[id] # None}
    BY DEF RollbackDone
  <1>4. CollectorType'
    <2>1. \A x \in Ids : total'[x] \in Nat \cup {None}
      BY <1>1
    <2>2. \A x \in Ids : policy'[x] \in {r.policy : r \in Rules} \cup {None}
      BY <1>1 DEF Listening, ListenType, Running, ManagerInv, ApplyType, Befores, Policies
    <2>3. total' \in Totals /\ policy' \in Policies
      <3>1. total' = [x \in Ids |-> total'[x]] /\ policy' = [x \in Ids |-> policy'[x]]
        BY <1>3
      <3> QED
        BY <2>1, <2>2, <3>1 DEF Totals, Policies
    <2>4. carried' \in [Ids -> Nat] /\ rewound' \subseteq Ids
      BY <1>3 DEF ManagerInv, CollectorType, ApplyType
    <2> QED
      BY <2>3, <2>4 DEF CollectorType
  <1>5. KnownInv' /\ PolicyInv' /\ BeforeInv'
    BY <1>1, <1>2, NoneFacts DEF KnownInv, PolicyInv, BeforeInv
  <1>6. CountInv'
    <2> SUFFICES ASSUME NEW x \in Ids
                 PROVE  /\ total'[x] = None => carried'[x] = 0
                        /\ total'[x] # None => /\ total'[x] <= carried'[x]
                                               /\ x \notin rewound' => total'[x] = carried'[x]
      BY DEF CountInv
    <2>1. carried'[x] = IF total'[x] = None THEN 0 ELSE carried[x]
      BY <1>3
    <2>2. CASE total'[x] = None
      BY <2>1, <2>2
    <2>3. CASE total'[x] # None
      <3>1. before.total[x] # None /\ total'[x] <= carried[x]
        BY <1>1, <2>3
      <3>2. ASSUME x \notin rewound' PROVE total'[x] = carried[x]
        <4>1. x \notin dropped /\ x \notin rewound
          BY <1>3, <2>3, <3>2 DEF ManagerInv, CollectorType, ApplyType
        <4>2. total'[x] = total[x]
          BY <1>1, <3>1, <4>1
        <4> QED
          BY <1>1, <2>3, <4>1, <4>2 DEF ManagerInv, CountInv
      <3> QED
        BY <2>1, <2>3, <3>1, <3>2
    <2> QED
      BY <2>2, <2>3
  <1> QED
    BY <1>2, <1>4, <1>5, <1>6 DEF Listening, CollectorPart, ApplyPart, JournalPart, ManagerInv

-----------------------------------------------------------------------------
(* The environment. *)

(* A rule carries traffic. *)
LEMMA TrafficStep ==
  ASSUME ManagerInv, NEW id \in Ids, Traffic(id)
  PROVE  ManagerInv'
  <1>1. /\ UNCHANGED <<running, owner, policy, mode, todo, seen, replaceAll, journal, before, dropped, failed, prim,
                       disturbed, rewound>>
        /\ total' = [total EXCEPT ![id] = @ + 1] /\ carried' = [carried EXCEPT ![id] = @ + 1]
        /\ Listening /\ CollectorPart
    BY Parts DEF Traffic, txVars
  <1>2. Listening' /\ (Tx' <=> Tx)
    BY <1>1, ListenStutter DEF Tx
  <1>3. total[id] # None
    BY DEF Traffic, ManagerInv, KnownInv
  <1>4. total[id] \in Nat /\ carried[id] \in Nat
    BY <1>1, <1>3 DEF CollectorPart, CollectorType, Totals
  <1>5. \A x \in Ids : /\ total'[x] = IF x = id THEN total[x] + 1 ELSE total[x]
                       /\ carried'[x] = IF x = id THEN carried[x] + 1 ELSE carried[x]
    BY <1>1 DEF CollectorPart, CollectorType, Totals
  <1>6. total[id] + 1 \in Nat /\ carried[id] + 1 \in Nat /\ total[id] + 1 # None
    BY <1>4, NoneFacts
  <1>7. CollectorType'
    BY <1>1, <1>6 DEF CollectorPart, CollectorType, Totals
  <1>8. KnownInv' /\ PolicyInv'
    BY <1>1, <1>5, <1>6, RuleFacts DEF CollectorPart, KnownInv, PolicyInv, ManagerInv, ListenType, Prims
  <1>9. CountInv'
    <2> SUFFICES ASSUME NEW x \in Ids, Tx => x \notin dropped
                 PROVE  /\ total'[x] = None => carried'[x] = 0
                        /\ total'[x] # None => /\ total'[x] <= carried'[x]
                                               /\ x \notin rewound => total'[x] = carried'[x]
      BY <1>1, <1>2 DEF CountInv
    <2>1. /\ total[x] = None => carried[x] = 0
          /\ total[x] # None => total[x] <= carried[x] /\ (x \notin rewound => total[x] = carried[x])
      BY <1>1 DEF CollectorPart, CountInv
    <2> QED
      BY <1>3, <1>4, <1>5, <1>6, <2>1
  <1>10. BeforeInv'
    <2> SUFFICES ASSUME Tx, NEW x \in Ids
                 PROVE  /\ before.running[x] # None =>
                             /\ before.running[x].id = x
                             /\ before.policy[x] = before.running[x].policy
                             /\ before.total[x] # None
                        /\ before.total[x] # None =>
                             IF x \in dropped
                             THEN before.total[x] + (IF total'[x] = None THEN 0 ELSE total'[x]) <= carried'[x]
                             ELSE total'[x] # None /\ total'[x] >= before.total[x]
      BY <1>1, <1>2 DEF BeforeInv
    <2>1. CASE x # id
      BY <1>1, <1>5, <2>1 DEF CollectorPart, BeforeInv
    <2>2. CASE x = id
      <3>1. before.total[x] # None => before.total[x] \in Nat
        BY DEF ManagerInv, ApplyType, Befores, Totals
      <3>2. ASSUME before.total[x] # None, x \in dropped PROVE before.total[x] + total'[x] <= carried'[x]
        <4>1. before.total[x] + total[x] <= carried[x]
          BY <1>1, <1>3, <2>2, <3>2 DEF CollectorPart, BeforeInv
        <4> QED
          BY <1>4, <1>5, <2>2, <3>1, <3>2, <4>1
      <3>3. ASSUME before.total[x] # None, x \notin dropped PROVE total'[x] >= before.total[x]
        <4>1. total[x] >= before.total[x]
          BY <1>1, <1>3, <2>2, <3>3 DEF CollectorPart, BeforeInv
        <4> QED
          BY <1>4, <1>5, <2>2, <3>1, <3>3, <4>1
      <3>4. total'[x] # None
        BY <1>5, <1>6, <2>2
      <3> QED
        BY <1>1, <3>2, <3>3, <3>4 DEF CollectorPart, BeforeInv
    <2> QED
      BY <2>1, <2>2
  <1>11. ApplyPart'
    <2>1. mode \in {"tx", "pending"} => id \notin dropped
      BY <1>3 DEF ManagerInv, ModeInv
    <2>2. dropped \subseteq Ids
      BY DEF ManagerInv, ApplyType
    <2>3. ModeInv'
      BY <1>1, <1>5, <2>1, <2>2 DEF ManagerInv, ModeInv
    <2> QED
      BY <1>1, <1>2, <2>3 DEF ManagerInv, ApplyPart, ApplyType
  <1>12. JournalPart'
    <2>1. CASE Tx
      <3>1. \/ prim = None /\ prim' = None
            \/ prim # None /\ prim' # None /\ prim'.rule = prim.rule /\ prim'.kind = prim.kind /\ prim'.old = prim.old
               /\ mode' = mode
        BY <1>1
      <3> QED
        BY <1>1, <1>2, <2>1, <3>1, JournalFrame
    <2>2. CASE ~Tx
      <3>1. journal = <<>> /\ ~failed
        BY <2>2 DEF ManagerInv, JournalInv, ModeInv, Tx
      <3> QED
        BY <1>1, <1>2, <2>2, <3>1, NoTx
    <2> QED
      BY <2>1, <2>2
  <1> QED
    BY <1>2, <1>7, <1>8, <1>9, <1>10, <1>11, <1>12 DEF Listening, CollectorPart, ApplyPart, JournalPart, ManagerInv

(* Another program takes or releases a port. *)
LEMMA PortStep ==
  ASSUME ManagerInv, NEW s \in Sockets, PortTaken(s) \/ PortReleased(s)
  PROVE  ManagerInv'
  <1>1. /\ UNCHANGED <<running, policy, total, mode, todo, seen, replaceAll, journal, before, dropped, failed, prim,
                       carried, rewound>>
        /\ Listening /\ CollectorPart
    BY Parts DEF PortTaken, PortReleased, colVars, txVars, ghosts
  <1>2. Listening' /\ (Tx' <=> Tx)
    BY <1>1, ListenPort DEF Tx
  <1>3. CollectorPart'
    BY <1>1, <1>2 DEF CollectorPart, CollectorType, KnownInv, PolicyInv, CountInv, BeforeInv
  <1>4. /\ disturbed' \in BOOLEAN /\ (Tx => (disturbed => disturbed'))
        /\ Tx => \A z \in Sockets : disturbed' \/ (owner'[z] = "ext" => owner[z] = "ext")
    <2>1. CASE PortTaken(s)
      BY <2>1 DEF PortTaken, Tx
    <2>2. CASE PortReleased(s)
      <3>1. disturbed' = disturbed /\ owner' = [owner EXCEPT ![s] = "free"]
        BY <2>2 DEF PortReleased, ghosts
      <3> QED
        BY <1>1, <3>1 DEF ManagerInv, ApplyType, Listening, ListenType
    <2> QED
      BY <2>1, <2>2
  <1>5. ApplyPart'
    BY <1>1, <1>2, <1>4 DEF ManagerInv, ApplyPart, ApplyType, ModeInv
  <1>6. JournalPart'
    <2>1. CASE Tx
      <3>1. \/ prim = None /\ prim' = None
            \/ prim # None /\ prim' # None /\ prim'.rule = prim.rule /\ prim'.kind = prim.kind /\ prim'.old = prim.old
               /\ mode' = mode
        BY <1>1
      <3> QED
        BY <1>1, <1>2, <1>4, <2>1, <3>1, JournalFrame
    <2>2. CASE ~Tx
      <3>1. journal = <<>> /\ ~failed
        BY <2>2 DEF ManagerInv, JournalInv, ModeInv, Tx
      <3> QED
        BY <1>1, <1>2, <2>2, <3>1, NoTx
    <2> QED
      BY <2>1, <2>2
  <1> QED
    BY <1>2, <1>3, <1>5, <1>6 DEF Listening, CollectorPart, ApplyPart, JournalPart, ManagerInv

-----------------------------------------------------------------------------
(* The theorems. *)

(* The invariant holds initially, *)
LEMMA ManagerInit == Init => ManagerInv
  <1> SUFFICES ASSUME Init PROVE ManagerInv
    OBVIOUS
  <1>1. ~Tx /\ mode = "idle" /\ journal = <<>> /\ prim = None /\ ~failed
    BY DEF Init, Tx
  <1>2. Listening
    <2>1. ListenType /\ PrimInv
      BY DEF Init, ListenType, PrimInv, Running
    <2>2. \A id \in Ids : BoundFor(id) = {} /\ \A s \in Sockets : owner[s] # id
      BY NoneFacts DEF Init, BoundFor
    <2> QED
      BY <2>1, <2>2 DEF Listening, ListenInv
  <1>3. CollectorPart
    BY <1>1 DEF Init, CollectorPart, CollectorType, Policies, Totals, KnownInv, PolicyInv, CountInv, BeforeInv
  <1>4. ApplyPart
    <2>1. <<>> \in Seq(Rules) /\ <<>> \in Seq(Entries)
      OBVIOUS
    <2> QED
      BY <1>1, <2>1 DEF Init, ApplyPart, ApplyType, ModeInv
  <1>5. JournalPart
    BY <1>1 DEF JournalPart, JournalInv, StartInv, RestInv, PortsInv, RollbackFailsOnlyIfDisturbed
  <1> QED
    BY <1>2, <1>3, <1>4, <1>5, Parts

(* and every step keeps it. *)
LEMMA ManagerNext == ManagerInv /\ [Next]_vars => ManagerInv'
  <1> SUFFICES ASSUME ManagerInv, [Next]_vars PROVE ManagerInv'
    OBVIOUS
  <1>1. ASSUME Operate PROVE ManagerInv'
    BY <1>1, StartRuleStep, RestartRuleStep, StopStep, RemoveRuleStep, BeginApplyStep DEF Operate
  <1>2. ASSUME Apply PROVE ManagerInv'
    BY <1>2, ItemRefusedStep, ItemDisabledStep, ItemUnchangedStep, ItemBegins, RemoveSurplusStep, ApplyDoneStep,
       CommitStep, RunnerStartsStep, RunnersStartedStep, RunnerFailsStep, RestartFailsStep, UndoStartedStep,
       UndoStoppedStep, UndoRestartedStep, UndoUnchangedStep, RollbackDoneStep DEF Apply
  <1>3. ASSUME Environment PROVE ManagerInv'
    BY <1>3, TrafficStep, PortStep DEF Environment
  <1>4. ASSUME UNCHANGED vars PROVE ManagerInv'
    <2>1. UNCHANGED <<running, owner, policy, total, mode, todo, seen, replaceAll, journal, before, dropped, failed,
                      prim, carried, disturbed, rewound>> /\ Listening
      BY <1>4, Parts DEF vars, colVars, txVars, ghosts
    <2>2. Listening' /\ (Tx' <=> Tx)
      BY <2>1, ListenStutter DEF Tx
    <2>3. CollectorPart'
      BY <2>1, <2>2 DEF ManagerInv, CollectorPart, CollectorType, KnownInv, PolicyInv, CountInv, BeforeInv
    <2>4. ApplyPart'
      BY <2>1, <2>2 DEF ManagerInv, ApplyPart, ApplyType, ModeInv
    <2>5. JournalPart'
      <3>1. CASE Tx
        <4>1. \/ prim = None /\ prim' = None
              \/ prim # None /\ prim' # None /\ prim'.rule = prim.rule /\ prim'.kind = prim.kind
                 /\ prim'.old = prim.old /\ mode' = mode
          BY <2>1
        <4> QED
          BY <2>1, <2>2, <3>1, <4>1, JournalFrame
      <3>2. CASE ~Tx
        <4>1. journal = <<>> /\ ~failed
          BY <3>2 DEF ManagerInv, JournalInv, ModeInv, Tx
        <4> QED
          BY <2>1, <2>2, <3>2, <4>1, NoTx
      <3> QED
        BY <3>1, <3>2
    <2> QED
      BY <2>2, <2>3, <2>4, <2>5 DEF Listening, CollectorPart, ApplyPart, JournalPart, ManagerInv
  <1> QED
    BY <1>1, <1>2, <1>3, <1>4 DEF Next

(* Whatever operations, snapshots, traffic and ports come, the state of the  *)
(* manager, the collector and the journal fit together (ManagerInv).         *)
THEOREM ManagerInvariant == Spec => []ManagerInv
  BY ManagerInit, ManagerNext, PTL DEF Spec

(* The shape of the manager's and the collector's state.                     *)
THEOREM TypeCorrect == Spec => []TypeOK
  <1>1. ManagerInv => TypeOK
    BY DEF ManagerInv, TypeOK, ListenType, CollectorType, ApplyType, Running, Policies, Totals
  <1> QED
    BY <1>1, ManagerInvariant, PTL

(* Every running rule has all its listeners and no listener is left behind,  *)
(* for any number of rules and runners: startRunnerSet's clean-up and        *)
(* restoreRuleAfterRestartFailure lose none.                                 *)
THEOREM NoListenerLeakHolds == Spec => []NoListenerLeak
  <1>1. ManagerInv => NoListenerLeak
    <2> SUFFICES ASSUME ManagerInv, NEW id \in Ids
                 PROVE  {s \in Sockets : owner[s] = id} = BoundFor(id)
      BY DEF NoListenerLeak
    <2>1. BoundFor(id) \subseteq Sockets
      <3>1. CASE running[id] # None
        BY <3>1, RuleFacts DEF ManagerInv, ListenType, Running, BoundFor, SocksOf
      <3>2. CASE running[id] = None /\ prim # None /\ prim.rule.id = id
        <4>1. prim.rule \in Rules /\ prim.started \in Nat /\ prim.started <= Len(prim.rule.socks)
          BY <3>2 DEF ManagerInv, ListenType, PrimInv, Prims
        <4>2. \A i \in 1..prim.started : i \in 1..Len(prim.rule.socks)
          BY <4>1, RuleFacts
        <4>3. BoundFor(id) = {prim.rule.socks[i] : i \in 1..prim.started}
          BY <3>2 DEF BoundFor
        <4> QED
          BY <4>1, <4>2, <4>3, RuleFacts
      <3>3. CASE running[id] = None /\ ~(prim # None /\ prim.rule.id = id)
        BY <3>3 DEF BoundFor
      <3> QED
        BY <3>1, <3>2, <3>3
    <2> QED
      BY <2>1 DEF ManagerInv, ListenInv
  <1> QED
    BY <1>1, ManagerInvariant, PTL

(* A rollback fails only if another program took a port meanwhile: undoing   *)
(* the journal backwards, rollbackSteps finds every port it needs free.      *)
THEOREM RollbackFailsOnlyIfDisturbedHolds == Spec => []RollbackFailsOnlyIfDisturbed
  <1>1. ManagerInv => RollbackFailsOnlyIfDisturbed
    BY DEF ManagerInv
  <1> QED
    BY <1>1, ManagerInvariant, PTL

(* Between operations the collector reports the metadata of the rules that   *)
(* run and the traffic they carried.                                         *)
THEOREM CollectorMatchesRulesHolds == Spec => []CollectorMatchesRules
  <1>1. ManagerInv => CollectorMatchesRules
    <2> SUFFICES ASSUME ManagerInv, mode = "idle" PROVE PolicyMatchesRunning /\ CountersKept
      BY DEF CollectorMatchesRules, PolicyMatchesRunning, CountersKept
    <2>1. ~Tx
      BY DEF Tx
    <2> QED
      BY <2>1 DEF ManagerInv, PolicyInv, CountInv, PolicyMatchesRunning, CountersKept
  <1> QED
    BY <1>1, ManagerInvariant, PTL

(* The step that ends a rollback restores the rules and their metadata, or   *)
(* reports a failure and adds no rule; it takes away no traffic counted      *)
(* before the transaction.                                                   *)
THEOREM RollbackRestoresHolds == Spec => RollbackRestores
  <1> DEFINE Restores ==
        mode = "rollback" /\ mode' = "idle" =>
          /\ ~failed => running' = before.running /\ policy' = before.policy
          /\ \A id \in Ids :
                /\ running'[id] # None => before.running[id] # None
                /\ before.total[id] # None => total'[id] # None /\ total'[id] >= before.total[id]
  <1>1. ManagerInv /\ [Next]_vars => [Restores]_vars
    <2> SUFFICES ASSUME ManagerInv, Next, mode = "rollback", mode' = "idle"
                 PROVE  /\ ~failed => running' = before.running /\ policy' = before.policy
                        /\ \A id \in Ids :
                              /\ running'[id] # None => before.running[id] # None
                              /\ before.total[id] # None => total'[id] # None /\ total'[id] >= before.total[id]
      BY DEF vars
    <2>1. RollbackDone
      <3>1. ~Operate
        BY DEF Operate, StartRule, RestartRule, StopRule, RemoveRule, StopAll, BeginApply
      <3>2. ~Environment
        BY DEF Environment, Traffic, PortTaken, PortReleased
      <3>3. ~ItemRefused /\ ~ItemDisabled /\ ~ItemUnchanged /\ ~ItemRestart /\ ~ItemStart
        BY DEF ItemRefused, ItemDisabled, ItemUnchanged, ItemRestart, ItemStart, ItemAccepted, Applying
      <3>4. ~(\E id \in Ids : RemoveSurplus(id)) /\ ~ApplyDone /\ ~Commit /\ ~Rollback
        BY DEF RemoveSurplus, ApplyDone, Applying, Commit, Rollback
      <3>5. ~RunnerStarts /\ ~RunnersStarted /\ ~RunnerFails /\ ~RestartFails
        BY DEF RunnerStarts, RunnersStarted, RunnerFails, RestartFails, AfterSuccess, AfterFailure
      <3>6. ~UndoStarted /\ ~UndoStopped /\ ~UndoRestarted /\ ~UndoUnchanged
        BY DEF UndoStarted, UndoStopped, UndoRestarted, UndoUnchanged
      <3> QED
        BY <3>1, <3>2, <3>3, <3>4, <3>5, <3>6 DEF Next, Apply
    <2>2. /\ running' = running /\ Tx /\ Listening
          /\ ~failed => running = before.running
          /\ \A x \in Ids :
                /\ running[x] # None => before.running[x] # None
                /\ policy'[x] = IF running[x] # None THEN running[x].policy ELSE before.policy[x]
                /\ before.total[x] # None => total'[x] \in Nat /\ total'[x] >= before.total[x]
      BY <2>1, Restored
    <2>3. ASSUME ~failed PROVE policy' = before.policy
      <3>1. \A x \in Ids : policy'[x] = before.policy[x]
        BY <2>2, <2>3 DEF ManagerInv, BeforeInv
      <3>2. policy' = [x \in Ids |-> policy'[x]]
        BY <2>1 DEF RollbackDone
      <3>3. before.policy = [x \in Ids |-> before.policy[x]]
        BY <2>2 DEF ManagerInv, ApplyType, Befores, Policies
      <3> QED
        BY <3>1, <3>2, <3>3
    <2> QED
      BY <2>2, <2>3, NoneFacts
  <1> QED
    BY <1>1, ManagerInvariant, PTL DEF Spec, RollbackRestores
=============================================================================
