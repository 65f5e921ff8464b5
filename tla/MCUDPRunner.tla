---------------------------- MODULE MCUDPRunner ----------------------------
(***************************************************************************)
(* UDPRunner with a metered and an unmetered rule that share a budget.     *)
(***************************************************************************)
EXTENDS UDPRunner

(* The datagrams of a runner's sessions are all at rest. *)
Calm(r) ==
    /\ sweep[r] = None /\ loop[r].at \notin {"payload", "push"}
    /\ \A s \in Sessions : st[s] # "fresh" /\ RunnerOf(s) = r =>
           up[s] \in {"none", "waiting", "exited"} /\ queue[s] = <<>> /\ ~stale[s]
                                                 /\ down[s] \in {"reading", "exited"}

(* A runner has seen no datagram yet. *)
Quiet(r) == loop[r].at = "recv" /\ phase[r] = "on" /\ sweep[r] = None
            /\ \A s \in Sessions : st[s] # "fresh" => RunnerOf(s) # r

(* Session objects are taken in order. *)
InOrder == \A s, t \in Sessions : s < t /\ st[t] # "fresh" => st[s] # "fresh"

(* The rules contend for the budget while neither moves a datagram; a rule *)
(* is explored down to its datagrams while the other one is quiet.         *)
OneRuleInDetail == \/ \A r \in Runners : Calm(r)
                   \/ limit = 2 /\ \E r \in Runners : \A q \in Runners \ {r} : Quiet(q)
=============================================================================
