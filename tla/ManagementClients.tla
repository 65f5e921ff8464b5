------------------------- MODULE ManagementClients -------------------------
(***************************************************************************)
(* The clients that change one rule at a time through the control API: the *)
(* write tools of internal/mcpserver and the commands of the Telegram bot  *)
(* (bot/handler.go), against each other, other administrators, an editor   *)
(* and the daemon of ControlPlane.                                         *)
(*                                                                         *)
(* Each reads the whole rules configuration, changes its rule in the copy  *)
(* and PUTs the copy back with the revision it read.  An MCP call may give *)
(* up while its PUT waits or is served; the bot calls the handler inside   *)
(* the daemon and waits.  A question of the bot stays in the chat, with    *)
(* its buttons, for as long as nobody removes it, over restarts too.       *)
(*                                                                         *)
(* Rules are functions from Ids to absent, on or off; what else an upsert  *)
(* writes, dry runs and the texts of answers are left out.                 *)
(***************************************************************************)
EXTENDS ControlPlane

CONSTANTS
    Ids,        \* rule identifiers
    Tools,      \* MCP calls
    Presses,    \* callback handlers of the bot
    Writers,    \* callers whose token has the admin role
    MaxCalls    \* bound: calls, questions and presses

ASSUME ClientsAssumption ==
    /\ RuleSets \subseteq [Ids -> {"absent", "on", "off"}]
    /\ Tools \cap Presses = {} /\ Writers \subseteq Tools \cup Presses /\ MaxCalls \in Nat

(* None, the nil pointer, is no goroutine and no operation.                *)
ASSUME NilAssumption ==
    LET docs == [rules : [Ids -> {"absent", "on", "off"}], limit : Caps, bot : Settings \cup {Off}]
    IN  /\ None \notin Tasks
        /\ None \notin [kind : {"rules", "bot", "reload"},
                        at : {"stage", "begin", "apply", "commit", "rename", "sync"},
                        revision : docs, src : docs, cand : docs, prev : Caps,
                        before : [Ids -> {"absent", "on", "off"}] \cup {Mixed},
                        wasOn : BOOLEAN, late : BOOLEAN, drift : BOOLEAN]

VARIABLES
    calls,      \* the call each caller is in
    asked,      \* questions with buttons in the chat: [rule, named]
    puts,       \* PUTs sent and not served yet
    serving,    \* the PUT the operation under way serves
    sent        \* for the bound

clientVars == <<calls, asked, puts, serving, sent>>
allVars == <<vars, clientVars>>

Callers == Tools \cup Presses
Enabled == {"on", "off"}
NoCall == [at |-> "idle", does |-> "none", rule |-> None, named |-> None]

(* The chat may hold a question from before.                               *)
ClientsInit ==
    /\ Init
    /\ calls = [c \in Callers |-> NoCall]
    /\ asked \in {{}} \cup {{[rule |-> i, named |-> v]} : i \in Ids, v \in Enabled}
    /\ puts = {} /\ serving = None /\ sent = 0

Counted == sent < MaxCalls /\ sent' = sent + 1
Begin(c, does, rule, named) ==
    calls' = [calls EXCEPT ![c] = [at |-> "read", does |-> does, rule |-> rule, named |-> named]]

(* The copy of the configuration a client works on, with its revision.     *)
getRulesConfig == [etag |-> file, rules |-> file.rules, limit |-> file.limit]

(* Authentication: only the admin role may send a PUT.                     *)
canWrite(c) == c \in Writers

-----------------------------------------------------------------------------
(* The MCP write tools.                                                    *)

(* The complete rule an upsert names, of which the flag is kept.           *)
buildUpsertRule == [rule : Ids, named : Enabled]

upsertForwardingRule(c) ==
    \E r \in buildUpsertRule : Begin(c, "upsert", r.rule, r.named)

deleteForwardingRule(c) ==
    \E i \in Ids : Begin(c, "delete", i, "absent")

setForwardingRuleEnabled(c) ==
    \E i \in Ids, v \in Enabled : Begin(c, "set", i, v)

ToolCall(c) ==
    /\ c \in Tools /\ calls[c] = NoCall /\ Counted
    /\ upsertForwardingRule(c) \/ deleteForwardingRule(c) \/ setForwardingRuleEnabled(c)
    /\ UNCHANGED <<vars, asked, puts, serving>>

(* The context of a call runs out; the daemon does not notice.             *)
GiveUp(c) ==
    /\ c \in Tools /\ calls[c].at = "put"
    /\ calls' = [calls EXCEPT ![c] = NoCall]
    /\ UNCHANGED <<vars, asked, puts, serving, sent>>

-----------------------------------------------------------------------------
(* The bot.  /stop and /start_rule ask without a look at the configuration,*)
(* /toggle reads it to name the state the button will set.                 *)

Ask(i, v) == asked' = asked \cup {[rule |-> i, named |-> v]}

handleStop(i) == Ask(i, "off")
handleStartRule(i) == Ask(i, "on")

handleToggle(i) ==
    /\ getRulesConfig.rules[i] \in Enabled
    /\ Ask(i, IF getRulesConfig.rules[i] = "on" THEN "off" ELSE "on")

Question ==
    /\ running /\ Counted
    /\ \E i \in Ids : handleStop(i) \/ handleStartRule(i) \/ handleToggle(i)
    /\ UNCHANGED <<vars, calls, puts, serving>>

(* A button is pressed, perhaps again before the first press has removed   *)
(* it, or because it could not be removed.                                 *)
handleCallback(c) ==
    /\ running /\ c \in Presses /\ calls[c] = NoCall /\ Counted
    /\ \E q \in asked : Begin(c, "set", q.rule, q.named) /\ asked' \in {asked, asked \ {q}}
    /\ UNCHANGED <<vars, puts, serving>>

-----------------------------------------------------------------------------
(* mutateRule, and setRuleTokenEnabled: read, change, send.                *)

(* The call needs a PUT: a rule that is missing, or already as asked, does *)
(* not, and an upsert always does.                                         *)
mutates(call) ==
    LET now == getRulesConfig.rules[call.rule]
    IN  call.does = "upsert" \/ (now # "absent" /\ now # call.named)

(* The client's copy with its one change.                                  *)
draft(c) ==
    LET cfg == getRulesConfig
        call == calls[c]
    IN  [caller |-> c, rule |-> call.rule, named |-> call.named, etag |-> cfg.etag,
         limit |-> cfg.limit, rules |-> [cfg.rules EXCEPT ![call.rule] = call.named]]

(* The draft goes out with the revision of the copy as If-Match.           *)
Apply(p) == puts' = puts \cup {p}

(* Also the GET, the gate of the tools or the writable flag may end it.    *)
mutateRule(c) ==
    /\ calls[c].at = "read"
    /\ \/ /\ canWrite(c) /\ mutates(calls[c])
          /\ Apply(draft(c))
          /\ calls' = [calls EXCEPT ![c].at = "put"]
       \/ /\ calls' = [calls EXCEPT ![c] = NoCall]
          /\ UNCHANGED puts
    /\ UNCHANGED <<vars, asked, serving, sent>>

-----------------------------------------------------------------------------
(* The daemon takes a PUT once it holds reloadMu.  A revision that does    *)
(* not match, or a failed precheck, refuses it.                            *)

answered(p) == calls' = [calls EXCEPT ![p.caller] = NoCall]

TakePut(p) ==
    /\ puts' = puts \ {p}
    /\ serving' = p
    /\ putRulesConfig(p.etag, p.rules, p.limit)
    /\ UNCHANGED <<calls, asked, sent>>

RefusePut(p) ==
    /\ job = None
    /\ puts' = puts \ {p}
    /\ answered(p)
    /\ UNCHANGED <<vars, asked, serving, sent>>

(* Whatever else the daemon does; the end of an operation answers its PUT. *)
ServerStep ==
    /\ Operation
    /\ IF serving # None /\ job' = None
       THEN serving' = None /\ answered(serving)
       ELSE UNCHANGED <<serving, calls>>
    /\ UNCHANGED <<asked, puts, sent>>

(* The daemon goes down with its connections; the chat remains.            *)
ServerRestarts ==
    /\ Restart
    /\ calls' = [c \in Callers |-> NoCall]
    /\ puts' = {} /\ serving' = None
    /\ UNCHANGED <<asked, sent>>

ClientsNext ==
    \/ \E c \in Callers : ToolCall(c) \/ handleCallback(c) \/ mutateRule(c) \/ GiveUp(c)
    \/ Question
    \/ \E p \in puts : TakePut(p) \/ RefusePut(p)
    \/ ServerStep \/ ServerRestarts

ClientsSpec == ClientsInit /\ [][ClientsNext]_allVars

-----------------------------------------------------------------------------
(* A command for one rule leaves that rule as its caller named it, or not  *)
(* at all, and everything else in the file as it was at that moment: no    *)
(* stale copy, no late PUT of a call given up, no button pressed twice or  *)
(* long after its question takes another client's change back (mutateRule, *)
(* setRuleTokenEnabled).  The exception is the one of NoLostUpdate.        *)
OnlyAsNamed ==
    [][serving # None /\ job.at = "rename" /\ job' # None /\ job'.at = "sync" /\ ~job.late =>
          file' = [file EXCEPT !.rules[serving.rule] = serving.named]]_allVars
=============================================================================
