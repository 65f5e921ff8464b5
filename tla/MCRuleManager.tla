--------------------------- MODULE MCRuleManager ---------------------------
(* Instances of RuleManager for TLC: two rules over two sockets, so that     *)
(* rules compete for a port, move, swap, and one needs both.                 *)
EXTENDS RuleManager, TLC

CONSTANTS a, b, s1, s2

R(id, socks, p, on) ==
    [id |-> id, name |-> "old", socks |-> socks, policy |-> p, enabled |-> on, valid |-> TRUE]

A1 == R(a, <<s1>>, "p", TRUE)
A1n == [A1 EXCEPT !.name = "new"]
A12 == R(a, <<s1, s2>>, "p", TRUE)
A2 == R(a, <<s2>>, "q", TRUE)
Aoff == R(a, <<s1>>, "q", FALSE)
Abad == [A1 EXCEPT !.valid = FALSE]
B1 == R(b, <<s1>>, "p", TRUE)
B2 == R(b, <<s2>>, "p", TRUE)
B21 == R(b, <<s2, s1>>, "q", TRUE)

MCIds == {a, b}
MCSockets == {s1, s2}
MCRules == {A1, A1n, A12, A2, Aoff, Abad, B1, B2, B21}

(* Snapshots in both orders; the last two only ApplySnapshot accepts. *)
MCSnapshots ==
    {<<>>, <<A2>>, <<B2>>, <<B21>>, <<A1n, B1>>, <<A2, B1>>, <<B1, A2>>, <<Aoff, B1>>, <<B2, A12>>,
     <<A1n, B21>>, <<Abad, B2>>, <<A1, A2>>}
=============================================================================
