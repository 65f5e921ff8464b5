---------------------------- MODULE DNSResolver ----------------------------
(***************************************************************************)
(* Name lookup with failover, dnsresolver/resolver.go.  The sources are    *)
(* asked in order, the system's first; one that failed is left out until   *)
(* its cooldown is over.  The health of the sources is shared by the       *)
(* lookups of all rules.                                                   *)
(***************************************************************************)
EXTENDS Integers

CONSTANTS
    Callers,
    NumSources   \* sources are 1..NumSources in the order they are asked

VARIABLES
    cooling,  \* sources whose unhealthyUntil lies ahead
    asking,   \* source each caller waits for, 0 if none
    reply     \* why its query returned no records, "none" before it did

dnsVars == <<cooling, asking, reply>>

InitDNS ==
    /\ cooling = {}
    /\ asking = [c \in Callers |-> 0]
    /\ reply = [c \in Callers |-> "none"]

(* The first available source after n, 0 if there is none. *)
NextSource(n) ==
    LET later == {s \in (n + 1)..NumSources : s \notin cooling}
    IN  IF later = {} THEN 0 ELSE CHOOSE s \in later : \A t \in later : s <= t

LookupAsks(c) ==
    /\ asking' = [asking EXCEPT ![c] = NextSource(0)]
    /\ UNCHANGED <<cooling, reply>>

(* The query returns without records: the source failed or timed out, the    *)
(* name does not exist, or the caller's context ended and cut it off.        *)
QueryReturns(c, r) ==
    /\ reply' = [reply EXCEPT ![c] = r]
    /\ UNCHANGED <<cooling, asking>>

(* Records, or a name that does not exist: the source works. *)
LookupAnswered(c) ==
    /\ asking[c] # 0
    /\ cooling' = cooling \ {asking[c]}
    /\ asking' = [asking EXCEPT ![c] = 0]
    /\ reply' = [reply EXCEPT ![c] = "none"]

(* The caller's context ended, or its dial timed out: the source is not to   *)
(* blame.                                                                    *)
LookupAbandoned(c) ==
    /\ asking[c] # 0
    /\ asking' = [asking EXCEPT ![c] = 0]
    /\ reply' = [reply EXCEPT ![c] = "none"]
    /\ UNCHANGED cooling

(* The source is blamed: it cools down, and the next one is asked unless the *)
(* context is done; with none left the lookup has failed.                    *)
LookupFailsOver(c, done) ==
    /\ asking[c] # 0
    /\ cooling' = cooling \cup {asking[c]}
    /\ asking' = [asking EXCEPT ![c] = IF done THEN 0 ELSE NextSource(asking[c])]
    /\ reply' = [reply EXCEPT ![c] = "none"]

CooldownOver(s) ==
    /\ s \in cooling
    /\ cooling' = cooling \ {s}
    /\ UNCHANGED <<asking, reply>>
=============================================================================
