--------------------------- MODULE MCTunnelServer ---------------------------
(***************************************************************************)
(* Instance of TunnelServer: one client that connects twice, so that the   *)
(* later hello meets the earlier session, once with two tunnels and once   *)
(* with the second of them only.                                           *)
(***************************************************************************)
EXTENDS TunnelServer, TLC

CONSTANTS s1, s2, k1, k2

OneClient == [s \in {s1, s2} |-> "a"]
TwoThenOne == [s \in {s1, s2} |-> IF s = s1 THEN <<k1, k2>> ELSE <<k2>>]

Arrived == {p \in Peers : peer[p] # "none"}

(* The behaviours explored have two public connections, or one and a stop of *)
(* the server, or none and a reload.                                         *)
OneAtATime ==
    /\ up # "on" => Cardinality(Arrived) <= 1
    /\ reloads > 0 => Arrived = {}

(* The sessions differ in their tunnels. *)
Symmetric == Permutations(Peers)
=============================================================================
