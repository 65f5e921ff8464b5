--------------------------- MODULE SessionBudget ---------------------------
(***************************************************************************)
(* What a limit on connections promises, whoever keeps it: a counter that  *)
(* always equals the number of holders, and nobody is let in while the     *)
(* counter is at the limit.  A limit of 0 is none; it may be lowered below *)
(* the counter, and the holders of the moment stay.                        *)
(***************************************************************************)
EXTENDS Integers, FiniteSets

CONSTANT Holders

VARIABLES holders, count, limit

budgetVars == <<holders, count, limit>>

Init == holders = {} /\ count = 0 /\ limit \in Nat

Take(h) ==
    /\ limit = 0 \/ count < limit
    /\ h \notin holders
    /\ holders' = holders \cup {h}
    /\ count' = count + 1
    /\ UNCHANGED limit

Give(S) ==
    /\ holders' = holders \ S
    /\ count' = count - Cardinality(S)
    /\ UNCHANGED limit

(* The place of one holder goes to another. *)
HandOver(h, g) ==
    /\ h \in holders /\ g \notin holders
    /\ holders' = (holders \ {h}) \cup {g}
    /\ UNCHANGED <<count, limit>>

SetLimit == limit' \in Nat /\ UNCHANGED <<holders, count>>

Next ==
    \/ \E h \in Holders : Take(h)
    \/ \E S \in SUBSET holders : Give(S)
    \/ \E h, g \in Holders : HandOver(h, g)
    \/ SetLimit

Spec == Init /\ [][Next]_budgetVars
=============================================================================
