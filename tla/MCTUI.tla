-------------------------------- MODULE MCTUI --------------------------------
(* TUI for TLC. *)
EXTENDS TUI, TLC

Symmetric == Permutations(RuleSets) \cup Permutations(Fields) \cup Permutations(Values)
(* The operator works on the rules or on the bot, not on both in one        *)
(* behaviour: what they share is the file, which RemoteChange changes too.  *)
OneTask ==
    \/ botConfig = None /\ botRpc = None /\ ~botConfigErr
    \/ draft = None /\ rpc = None /\ overlay = "none"
(* No more than two fetches and one abandoned write under way.             *)
FewUnderWay == Cardinality(fetches) <= 2 /\ Cardinality(late) <= 1
(* vetted is read only while the draft counts as validated, typed only while *)
(* the bot editor is open; both are set anew each time.                     *)
Relevant ==
    << daemon, fetches, rpc, botRpc, draftVars, screen, ids, botVars, keys, floor,
       IF sync = "validated" THEN vetted ELSE None,
       IF view = "botEditor" THEN typed ELSE {} >>
=============================================================================
