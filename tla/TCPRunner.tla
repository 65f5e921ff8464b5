----------------------------- MODULE TCPRunner -----------------------------
(***************************************************************************)
(* tcpRunner of engine/tcp.go: the accept loop, the goroutine of each      *)
(* connection with its two copy loops and its idle timer, and Stop.  A     *)
(* connection dials its target through DNSResolver.                        *)
(*                                                                         *)
(* Stop cancels the context, closes the listener, closes the connections   *)
(* it finds tracked, and waits.  Connections go on being accepted, dialled *)
(* and tracked between these steps.  stale[c] says that the idle time has  *)
(* passed since the last activity of c.                                    *)
(***************************************************************************)
EXTENDS DNSResolver, FiniteSets

CONSTANTS
    Conns,        \* connections clients open, each once
    MaxConn,      \* rule.MaxConn, 0 = no limit
    RateLimited,  \* the rule has a speed or bandwidth limit
    NamedTarget,  \* the target is a name, not an address
    None

ASSUME ConnAssumption ==
    /\ None \notin Conns /\ "exited" \notin Conns /\ None # "exited"
    /\ MaxConn \in Nat /\ NumSources \in Nat
    /\ Callers = Conns

Dirs == {"up", "down"}
Replies == {"failed", "notfound", "cut"}

VARIABLES
    phase,    \* Stop: "on", "cancelled", "deaf", "listed", "closed", "stopped"
    acc,      \* the accept loop: None, the connection in its hands, or "exited"
    pc,       \* the goroutine of each connection
    client, target,  \* its two sockets: "none", "open" or "closed"
    tracked,  \* runner.conns
    listed,   \* the sockets closeAllConns found
    copy,     \* copy[c][d]: the copy loop of one direction
    left,     \* copy loops whose result has not been received
    closing,  \* closeBoth has run
    timer,    \* the idle timer: "armed", or "looked" after hasPending was false
    pend, stale,
    active,   \* activeConn
    gauge     \* connections the collector reports

relayVars == <<copy, left, closing, timer, pend, stale>>
sockVars == <<client, target, tracked>>
vars == <<phase, acc, pc, sockVars, listed, relayVars, active, gauge, dnsVars>>

Init ==
    /\ phase = "on" /\ acc = None
    /\ pc = [c \in Conns |-> "none"]
    /\ client = [c \in Conns |-> "none"] /\ target = [c \in Conns |-> "none"]
    /\ tracked = {} /\ listed = {}
    /\ copy = [c \in Conns |-> [d \in Dirs |-> "none"]]
    /\ left = [c \in Conns |-> 0]
    /\ closing = [c \in Conns |-> FALSE]
    /\ timer = [c \in Conns |-> "armed"]
    /\ pend = [c \in Conns |-> 0]
    /\ stale = [c \in Conns |-> FALSE]
    /\ active = 0 /\ gauge = 0
    /\ InitDNS

At(c, state) == pc[c] = state
Goto(c, state) == pc' = [pc EXCEPT ![c] = state]

-----------------------------------------------------------------------------
(* acceptLoop. *)

Accept(c) ==
    /\ acc = None /\ phase \in {"on", "cancelled"}
    /\ At(c, "none")
    /\ acc' = c
    /\ Goto(c, "accepted")
    /\ client' = [client EXCEPT ![c] = "open"]
    /\ UNCHANGED <<phase, target, tracked, listed, relayVars, active, gauge, dnsVars>>

reserveConnSlot_OffByOne == MaxConn = 0 \/ active <= MaxConn

(* The compare-and-swap loop ends in one of the two. *)
reserveConnSlot == MaxConn = 0 \/ active < MaxConn

(* A source address that is not allowed, a quota used up, or no slot. *)
Reject(c) ==
    /\ acc = c
    /\ acc' = None
    /\ Goto(c, "gone")
    /\ client' = [client EXCEPT ![c] = "closed"]
    /\ UNCHANGED <<phase, target, tracked, listed, relayVars, active, gauge, dnsVars>>

Admit(c) ==
    /\ acc = c
    /\ reserveConnSlot
    /\ active' = active + 1
    /\ acc' = None
    /\ Goto(c, "spawned")
    /\ UNCHANGED <<phase, sockVars, listed, relayVars, gauge, dnsVars>>

(* The listener is closed and the context done. *)
AcceptLoopExits ==
    /\ acc = None /\ phase \notin {"on", "cancelled"}
    /\ acc' = "exited"
    /\ UNCHANGED <<phase, pc, sockVars, listed, relayVars, active, gauge, dnsVars>>

-----------------------------------------------------------------------------
(* handleConn up to the relay. *)

Track(c) ==
    /\ At(c, "spawned")
    /\ tracked' = tracked \cup {<<c, "client">>}
    /\ gauge' = gauge + 1
    /\ Goto(c, "dial")
    /\ UNCHANGED <<phase, acc, client, target, listed, relayVars, active, dnsVars>>

Dial(c) ==
    /\ At(c, "dial") /\ phase = "on"
    /\ IF NamedTarget
       THEN /\ LookupAsks(c)
            /\ Goto(c, IF asking'[c] = 0 THEN "ending" ELSE "lookup")
       ELSE Goto(c, "connect") /\ UNCHANGED dnsVars
    /\ UNCHANGED <<phase, acc, sockVars, listed, relayVars, active, gauge>>

(* The dial finds its context done at once. *)
DialCancelled(c) ==
    /\ At(c, "dial") /\ phase # "on"
    /\ Goto(c, "ending")
    /\ UNCHANGED <<phase, acc, sockVars, listed, relayVars, active, gauge, dnsVars>>

LookupOk(c) ==
    /\ At(c, "lookup") /\ LookupAnswered(c)
    /\ Goto(c, "connect")
    /\ UNCHANGED <<phase, acc, sockVars, listed, relayVars, active, gauge>>

(* Stop cuts a query off at any moment, and a source may still fail or       *)
(* answer by itself after Stop.                                              *)
QueryEnds(c, r) ==
    /\ At(c, "lookup") /\ (r = "cut" => phase # "on")
    /\ QueryReturns(c, r)
    /\ Goto(c, "answer")
    /\ UNCHANGED <<phase, acc, sockVars, listed, relayVars, active, gauge>>

ctxErr_Unchecked == FALSE

(* The error of a query does not say who ended it; the context, looked at    *)
(* after the query returned, does.                                           *)
ctxErr == phase # "on"

LookupCancelled(c) ==
    /\ At(c, "answer") /\ ctxErr
    /\ LookupAbandoned(c)
    /\ Goto(c, "ending")
    /\ UNCHANGED <<phase, acc, sockVars, listed, relayVars, active, gauge>>

(* The deadline of the whole dial ends the context too. *)
DialTimesOut(c) ==
    /\ At(c, "answer")
    /\ LookupAbandoned(c)
    /\ Goto(c, "ending")
    /\ UNCHANGED <<phase, acc, sockVars, listed, relayVars, active, gauge>>

NameNotFound(c) ==
    /\ At(c, "answer") /\ ~ctxErr /\ reply[c] = "notfound"
    /\ LookupAnswered(c)
    /\ Goto(c, "ending")
    /\ UNCHANGED <<phase, acc, sockVars, listed, relayVars, active, gauge>>

QueryFailed(c) ==
    /\ At(c, "answer") /\ ~ctxErr /\ reply[c] # "notfound"
    /\ Goto(c, "failed")
    /\ UNCHANGED <<phase, acc, sockVars, listed, relayVars, active, gauge, dnsVars>>

SourceFails(c) ==
    /\ At(c, "failed")
    /\ LookupFailsOver(c, ctxErr)
    /\ Goto(c, IF asking'[c] = 0 THEN "ending" ELSE "lookup")
    /\ UNCHANGED <<phase, acc, sockVars, listed, relayVars, active, gauge>>

(* Refused by every address, timed out, or cancelled. *)
ConnectFails(c) ==
    /\ At(c, "connect")
    /\ Goto(c, "ending")
    /\ UNCHANGED <<phase, acc, sockVars, listed, relayVars, active, gauge, dnsVars>>

ConnectOk(c) ==
    /\ At(c, "connect") /\ phase = "on"
    /\ target' = [target EXCEPT ![c] = "open"]
    /\ Goto(c, "dialed")
    /\ UNCHANGED <<phase, acc, client, tracked, listed, relayVars, active, gauge, dnsVars>>

StartRelay(c) ==
    /\ At(c, "dialed")
    /\ tracked' = tracked \cup {<<c, "target">>}
    /\ copy' = [copy EXCEPT ![c] = [d \in Dirs |-> "read"]]
    /\ left' = [left EXCEPT ![c] = 2]
    /\ Goto(c, "relay")
    /\ UNCHANGED <<phase, acc, client, target, listed, closing, timer, pend, stale, active, gauge, dnsVars>>

-----------------------------------------------------------------------------
(* copyWithTrafficOptions, one direction. *)

Src(c, d) == IF d = "up" THEN client[c] ELSE target[c]
Dst(c, d) == IF d = "up" THEN target[c] ELSE client[c]

(* connCtx. *)
Done(c) == phase # "on" \/ closing[c]

Copying(c, d, state) == copy[c][d] = state
CopyTo(c, d, state) == copy' = [copy EXCEPT ![c][d] = state]

touch(c) == stale' = [stale EXCEPT ![c] = FALSE]

notedRead_Untouched(c) == UNCHANGED stale

(* A read is activity, before the wait for the limiters is announced. *)
notedRead(c) == touch(c)

ReadData(c, d) ==
    /\ Copying(c, d, "read") /\ Src(c, d) = "open"
    /\ notedRead(c)
    /\ IF RateLimited
       THEN pend' = [pend EXCEPT ![c] = @ + 1] /\ CopyTo(c, d, "limit")
       ELSE CopyTo(c, d, "write") /\ UNCHANGED pend
    /\ UNCHANGED <<phase, acc, pc, sockVars, listed, left, closing, timer, active, gauge, dnsVars>>

(* The limiters let the bytes through, or the context ends the wait; either  *)
(* way it is activity first, and no longer pending afterwards.               *)
LimitEnds(c, d, next) ==
    /\ Copying(c, d, "limit")
    /\ touch(c)
    /\ CopyTo(c, d, next)
    /\ UNCHANGED <<phase, acc, pc, sockVars, listed, left, closing, timer, pend, active, gauge, dnsVars>>

LimitPasses(c, d) == LimitEnds(c, d, "passed")
LimitCancelled(c, d) == Done(c) /\ LimitEnds(c, d, "stopped")

NotPending(c, d) ==
    /\ copy[c][d] \in {"passed", "stopped"}
    /\ pend' = [pend EXCEPT ![c] = @ - 1]
    /\ CopyTo(c, d, IF copy[c][d] = "passed" THEN "write" ELSE "err")
    /\ UNCHANGED <<phase, acc, pc, sockVars, listed, left, closing, timer, stale, active, gauge, dnsVars>>

Written(c, d) ==
    /\ Copying(c, d, "write") /\ Dst(c, d) = "open"
    /\ touch(c)
    /\ CopyTo(c, d, "read")
    /\ UNCHANGED <<phase, acc, pc, sockVars, listed, left, closing, timer, pend, active, gauge, dnsVars>>

(* A quota used up, a quota store that fails, a write error or its deadline. *)
WriteFails(c, d) ==
    /\ Copying(c, d, "write")
    /\ CopyTo(c, d, "err")
    /\ UNCHANGED <<phase, acc, pc, sockVars, listed, left, closing, timer, pend, stale, active, gauge, dnsVars>>

ReadEOF(c, d) ==
    /\ Copying(c, d, "read") /\ Src(c, d) = "open"
    /\ CopyTo(c, d, "eof")
    /\ UNCHANGED <<phase, acc, pc, sockVars, listed, left, closing, timer, pend, stale, active, gauge, dnsVars>>

ReadFails(c, d) ==
    /\ Copying(c, d, "read")
    /\ CopyTo(c, d, "err")
    /\ UNCHANGED <<phase, acc, pc, sockVars, listed, left, closing, timer, pend, stale, active, gauge, dnsVars>>

Copy(c, d) ==
    \/ ReadData(c, d) \/ ReadEOF(c, d) \/ ReadFails(c, d)
    \/ LimitPasses(c, d) \/ LimitCancelled(c, d) \/ NotPending(c, d)
    \/ Written(c, d) \/ WriteFails(c, d)

(* Steps a copy loop is bound to take: peers need not send. *)
CopyMoves(c, d) ==
    \/ LimitPasses(c, d) \/ LimitCancelled(c, d) \/ NotPending(c, d)
    \/ Written(c, d) \/ WriteFails(c, d)
    \/ (Src(c, d) = "closed" /\ ReadFails(c, d))

-----------------------------------------------------------------------------
(* The select loop of relayConn. *)

closeBoth(c) ==
    /\ closing' = [closing EXCEPT ![c] = TRUE]
    /\ client' = [client EXCEPT ![c] = "closed"]
    /\ target' = [target EXCEPT ![c] = "closed"]

Selecting(c) == At(c, "relay") /\ left[c] > 0 /\ timer[c] = "armed"

Result_ClosingFirst(c, d) ==
    /\ Selecting(c) /\ copy[c][d] \in {"eof", "err"}
    /\ CopyTo(c, d, "done")
    /\ left' = IF closing[c] THEN left ELSE [left EXCEPT ![c] = @ - 1]
    /\ IF copy[c][d] = "err" /\ ~closing[c]
       THEN closeBoth(c)
       ELSE UNCHANGED <<closing, client, target>>
    /\ UNCHANGED <<phase, acc, pc, tracked, listed, timer, pend, stale, active, gauge, dnsVars>>

(* One result ends both directions if it is an error; after an end of file   *)
(* the destination is half closed and the other direction goes on.           *)
Result(c, d) ==
    /\ Selecting(c) /\ copy[c][d] \in {"eof", "err"}
    /\ left' = [left EXCEPT ![c] = @ - 1]
    /\ CopyTo(c, d, "done")
    /\ IF copy[c][d] = "err" /\ ~closing[c]
       THEN closeBoth(c)
       ELSE UNCHANGED <<closing, client, target>>
    /\ UNCHANGED <<phase, acc, pc, tracked, listed, timer, pend, stale, active, gauge, dnsVars>>

RelayCancelled(c) ==
    /\ Selecting(c) /\ phase # "on" /\ ~closing[c]
    /\ closeBoth(c)
    /\ UNCHANGED <<phase, acc, pc, tracked, listed, copy, left, timer, pend, stale, active, gauge, dnsVars>>

hasPending(c) == pend[c] > 0

(* The idle timer fires.  With something pending it is set again, which      *)
(* changes nothing here.                                                     *)
IdleLooks(c) ==
    /\ Selecting(c) /\ ~closing[c]
    /\ ~hasPending(c)
    /\ timer' = [timer EXCEPT ![c] = "looked"]
    /\ UNCHANGED <<phase, acc, pc, sockVars, listed, copy, left, closing, pend, stale, active, gauge, dnsVars>>

IdleDecides(c) ==
    /\ At(c, "relay") /\ timer[c] = "looked"
    /\ timer' = [timer EXCEPT ![c] = "armed"]
    /\ IF stale[c] THEN closeBoth(c) ELSE UNCHANGED <<closing, client, target>>
    /\ UNCHANGED <<phase, acc, pc, tracked, listed, copy, left, pend, stale, active, gauge, dnsVars>>

(* Both results are in, or there was no relay: the deferred calls of         *)
(* handleConn, in their order.                                               *)
RelayEnds(c) ==
    /\ At(c, "relay") /\ left[c] = 0
    /\ tracked' = tracked \ {<<c, "target">>}
    /\ target' = [target EXCEPT ![c] = "closed"]
    /\ Goto(c, "ending")
    /\ UNCHANGED <<phase, acc, client, listed, relayVars, active, gauge, dnsVars>>

CloseClient(c) ==
    /\ At(c, "ending")
    /\ tracked' = tracked \ {<<c, "client">>}
    /\ client' = [client EXCEPT ![c] = "closed"]
    /\ Goto(c, "release")
    /\ UNCHANGED <<phase, acc, target, listed, relayVars, active, gauge, dnsVars>>

releaseConnSlot(c) ==
    /\ At(c, "release")
    /\ active' = active - 1
    /\ Goto(c, "uncount")
    /\ UNCHANGED <<phase, acc, sockVars, listed, relayVars, gauge, dnsVars>>

Uncount(c) ==
    /\ At(c, "uncount")
    /\ gauge' = gauge - 1
    /\ Goto(c, "gone")
    /\ UNCHANGED <<phase, acc, sockVars, listed, relayVars, active, dnsVars>>

Handle(c) ==
    \/ Track(c) \/ Dial(c) \/ DialCancelled(c)
    \/ LookupOk(c) \/ (\E r \in Replies : QueryEnds(c, r))
    \/ LookupCancelled(c) \/ DialTimesOut(c) \/ NameNotFound(c) \/ QueryFailed(c) \/ SourceFails(c)
    \/ ConnectFails(c) \/ ConnectOk(c) \/ StartRelay(c)
    \/ IdleDecides(c) \/ RelayEnds(c) \/ CloseClient(c) \/ releaseConnSlot(c) \/ Uncount(c)

Select(c) == RelayCancelled(c) \/ \E d \in Dirs : Result(c, d)

-----------------------------------------------------------------------------
(* Stop. *)

StopCancels ==
    /\ phase = "on"
    /\ phase' = "cancelled"
    /\ UNCHANGED <<acc, pc, sockVars, listed, relayVars, active, gauge, dnsVars>>

StopListening ==
    /\ phase = "cancelled"
    /\ phase' = "deaf"
    /\ UNCHANGED <<acc, pc, sockVars, listed, relayVars, active, gauge, dnsVars>>

(* closeAllConns: the tracked sockets are copied, then closed. *)
StopLists ==
    /\ phase = "deaf"
    /\ phase' = "listed"
    /\ listed' = tracked
    /\ UNCHANGED <<acc, pc, sockVars, relayVars, active, gauge, dnsVars>>

StopClosesConns ==
    /\ phase = "listed"
    /\ phase' = "closed"
    /\ client' = [c \in Conns |-> IF <<c, "client">> \in listed THEN "closed" ELSE client[c]]
    /\ target' = [c \in Conns |-> IF <<c, "target">> \in listed THEN "closed" ELSE target[c]]
    /\ listed' = {}
    /\ UNCHANGED <<acc, pc, tracked, relayVars, active, gauge, dnsVars>>

StopReturns_NoWait ==
    /\ phase = "closed" /\ acc = "exited"
    /\ phase' = "stopped"
    /\ UNCHANGED <<acc, pc, sockVars, listed, relayVars, active, gauge, dnsVars>>

(* wg.Wait. *)
StopReturns ==
    /\ phase = "closed" /\ acc = "exited"
    /\ \A c \in Conns : pc[c] \in {"none", "gone"}
    /\ phase' = "stopped"
    /\ UNCHANGED <<acc, pc, sockVars, listed, relayVars, active, gauge, dnsVars>>

Stopping == StopListening \/ StopLists \/ StopClosesConns \/ StopReturns

-----------------------------------------------------------------------------
(* Time. *)

(* The idle limit passes.  It does not count for a timer that has already    *)
(* taken the time of day.                                                    *)
GoesIdle(c) ==
    /\ At(c, "relay") /\ ~stale[c] /\ timer[c] = "armed"
    /\ stale' = [stale EXCEPT ![c] = TRUE]
    /\ UNCHANGED <<phase, acc, pc, sockVars, listed, copy, left, closing, timer, pend, active, gauge, dnsVars>>

SourceRecovers ==
    /\ \E s \in 1..NumSources : CooldownOver(s)
    /\ UNCHANGED <<phase, acc, pc, sockVars, listed, relayVars, active, gauge>>

Loop == (\E c \in Conns : Reject(c) \/ Admit(c)) \/ AcceptLoopExits

Next ==
    \/ \E c \in Conns :
          \/ Accept(c) \/ Handle(c) \/ Select(c) \/ IdleLooks(c) \/ GoesIdle(c)
          \/ \E d \in Dirs : Copy(c, d)
    \/ Loop
    \/ StopCancels \/ Stopping
    \/ SourceRecovers

Spec == Init /\ [][Next]_vars

(* Go runs every goroutine that can run; lookups, dials and writes have      *)
(* deadlines, the limiters serve every caller, and a read returns once its   *)
(* socket is closed.  The idle timer keeps the select loop busy only at the  *)
(* moments it fires, so a result or the end of the context is seen between.  *)
FairSpec ==
    /\ Spec
    /\ WF_vars(Loop) /\ WF_vars(Stopping)
    /\ \A c \in Conns :
          /\ WF_vars(Handle(c)) /\ SF_vars(Select(c))
          /\ WF_vars(\E d \in Dirs : CopyMoves(c, d))

-----------------------------------------------------------------------------
(* Properties. *)

(* Connections that hold a slot. *)
Serving == {c \in Conns : pc[c] \notin {"none", "accepted", "uncount", "gone"}}

Slots == INSTANCE SessionBudget WITH
             Holders <- Conns, holders <- Serving, count <- active, limit <- MaxConn

(* activeConn implements a budget of MaxConn connections: a slot per         *)
(* connection served, given back once however the connection ends, and none  *)
(* beyond the limit.                                                         *)
ImplementsBudget == Slots!Spec

(* When Stop returns nothing is left of the runner: every socket is closed,  *)
(* one accepted, dialled or tracked after closeAllConns looked too, and the  *)
(* slot counter and the collector's gauge are back at zero.                  *)
StoppedIsClean ==
    phase = "stopped" =>
        /\ \A c \in Conns : client[c] # "open" /\ target[c] # "open"
        /\ tracked = {} /\ active = 0 /\ gauge = 0

(* The idle timer never closes a connection that waits for a limiter,        *)
(* although it reads pending and the last activity one after the other while *)
(* both copy loops change them.                                              *)
IdleSparesPending ==
    [][\A c \in Conns :
          timer[c] = "looked" /\ timer'[c] = "armed" /\ ~closing[c] /\ closing'[c] =>
             \A d \in Dirs : copy[c][d] \notin {"limit", "passed"}]_vars

(* The health of the name servers is shared by all rules: when a lookup      *)
(* leaves a server whose query Stop cut off, whatever happened between the   *)
(* cut and the look at the context, no server goes into cooldown for it.     *)
StopSparesResolver ==
    [][\A c \in Conns :
          reply[c] = "cut" /\ asking'[c] # asking[c] => cooling' \subseteq cooling]_vars

(* Stop returns, whatever its connections are doing. *)
StopEnds == phase = "cancelled" ~> phase = "stopped"
=============================================================================
