--------------------------- MODULE MCControlPlane ---------------------------
(***************************************************************************)
(* ManagementClients for TLC: two rules, an MCP call and a press of a bot  *)
(* button, beside administrators and an editor.                            *)
(***************************************************************************)
EXTENDS ManagementClients, TLC

(* What administrators and the editor write; commands add the rest.        *)
MCRuleSets == {[i \in Ids |-> "on"], [i \in Ids |-> "off"]}

ControlSymmetry == Permutations(Tasks) \cup Permutations(Ids) \cup Permutations(Settings)

(* Explorations in one run.  Without single-rule commands: every operation *)
(* and every failure; after an edit a degraded daemon is only reloaded or  *)
(* restarted.  With an operation before the bot of the start-up, after one *)
(* that overtook, or after a restore of the bot that failed: no edits and  *)
(* one session limit.  With commands: PUTs and restarts, one session limit,*)
(* one bot setting, no half-failed operation.                              *)
Seen == {file, durable} \cup (IF job = None THEN {} ELSE {job.cand})
BotAside == restoreFailed \/ overtaken \/ (booting # {} /\ job # None)
Focus ==
    /\ degraded /\ edits > 0 /\ job # None => job.kind = "reload"
    /\ BotAside => edits = 0 /\ \A d \in Seen : d.limit = 1
    /\ \/ sent = 0 /\ asked = {}
       \/ /\ \A d \in Seen : d.limit = 1 /\ d.bot = baseline
          /\ baseline # Off /\ ~degraded /\ ~moved /\ cancelled = {}
          /\ job # None => job.kind = "rules" /\ alive # {} /\ booting = {}
          /\ sent = 0 => edits = 0 /\ job = None
=============================================================================
