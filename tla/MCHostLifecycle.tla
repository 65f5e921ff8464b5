-------------------------- MODULE MCHostLifecycle ---------------------------
(***************************************************************************)
(* HostLifecycle on one host with two definitions and two tokens.          *)
(***************************************************************************)
EXTENDS HostLifecycle, TLC

Symmetric == Permutations(Definitions) \union Permutations(Tokens)

(* Four explorations in one run: traffic and restarts under the service    *)
(* commands alone; the recovery screen and the update with one command;    *)
(* everything else without traffic.                                        *)
Topics ==
    /\ total > 0 => cmd.kind = "none" /\ recovery.state = "idle" /\ ~host.cached /\ commands <= 1
    /\ recovery.state # "idle" => cmd.kind = "none" /\ commands <= 1 /\ ~host.cached
    /\ host.cached => commands <= 2 /\ faults = 0
=============================================================================
