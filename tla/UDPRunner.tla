----------------------------- MODULE UDPRunner -----------------------------
(***************************************************************************)
(* udpRunner of engine/udp.go and the session budget of engine/limits.go.  *)
(*                                                                         *)
(* The runners of several rules share one budget.  A runner has a read     *)
(* loop (loop), a sweep of idle sessions (sweep) and a caller of Stop      *)
(* (phase); a session has a reader of the target (down) and, if the rule   *)
(* is metered, a bounded queue with an uploader (up).  mu[r] is runner.mu  *)
(* where it is held over more than one step.  stale[s] says lastSeen is    *)
(* older than the idle limit.  A session object is used once.              *)
(***************************************************************************)
EXTENDS Integers, Sequences, FiniteSets

CONSTANTS
    Runners, Clients, Sessions,
    Metered,    \* runners whose rule has a speed limit, a bandwidth limit or a quota
    Sizes,      \* accounted bytes of a datagram
    QueueCap,   \* udpUploadQueueCapacity
    QueueBytes, \* udpUploadQueueMaxBytes
    RuleLimit,  \* sessionLimit()
    Limits,     \* values SetUDPMaxSessions is given
    None

(* A datagram is accounted for with the capacity of its buffer, which is     *)
(* never 0.                                                                  *)
ASSUME UDPAssumption ==
    /\ Runners \cap Sessions = {}
    /\ Sizes \subseteq Nat \ {0} /\ Limits \subseteq Nat
    /\ {QueueCap, QueueBytes, RuleLimit} \subseteq Nat
    /\ \A T, I \in SUBSET Sessions : None # [todo |-> T, idle |-> I]

VARIABLES
    phase,   \* of runner r: "on", "cancelled", "swept", "stopped"
    mu, loop, sweep,
    st,      \* of session s: "fresh", "open", "closed"
    key,     \* its runner and client
    queue, queued, hand, up, down, pend, stale,
    active, limit  \* udpSessionBudget

runnerVars == <<phase, mu, loop, sweep>>
uploadVars == <<queue, queued, hand, up>>
vars == <<runnerVars, st, key, uploadVars, down, pend, stale, active, limit>>

Init ==
    /\ phase = [r \in Runners |-> "on"]
    /\ mu = [r \in Runners |-> "free"]
    /\ loop = [r \in Runners |-> [at |-> "recv"]]
    /\ sweep = [r \in Runners |-> None]
    /\ st = [s \in Sessions |-> "fresh"]
    /\ key = [s \in Sessions |-> None]
    /\ queue = [s \in Sessions |-> <<>>]
    /\ queued = [s \in Sessions |-> 0]
    /\ hand = [s \in Sessions |-> 0]
    /\ up = [s \in Sessions |-> "none"]
    /\ down = [s \in Sessions |-> "none"]
    /\ pend = [s \in Sessions |-> 0]
    /\ stale = [s \in Sessions |-> FALSE]
    /\ active = 0
    /\ limit \in Limits

RunnerOf(s) == key[s][1]
OpenOf(r) == {s \in Sessions : st[s] = "open" /\ RunnerOf(s) = r}
Free(r) == mu[r] = "free"

(* session.ctx: done once the session or its runner is cancelled. *)
Done(s) == st[s] = "closed" \/ phase[RunnerOf(s)] # "on"

-----------------------------------------------------------------------------
(* closeSessionLocked of a set of sessions; one not open is left alone.      *)
Close_NoRelease(S) ==
    /\ st' = [s \in Sessions |-> IF s \in S THEN "closed" ELSE st[s]]
    /\ UNCHANGED active

Close(S) ==
    /\ st' = [s \in Sessions |-> IF s \in S THEN "closed" ELSE st[s]]
    /\ active' = active - Cardinality({s \in S : st[s] = "open"})

removed_ByKey(s) == {t \in Sessions : st[t] = "open" /\ key[t] = key[s]}

(* removeSession closes the session it was called for, if the map still      *)
(* holds that one.                                                           *)
removed(s) == {t \in Sessions : st[t] = "open" /\ key[t] = key[s]} \cap {s}

-----------------------------------------------------------------------------
(* The read loop: handlePacket. *)

At(r, state) == loop[r].at = state

Receive(r, c, n) ==
    /\ At(r, "recv") /\ phase[r] = "on"
    /\ loop' = [loop EXCEPT ![r] = [at |-> "got", c |-> c, n |-> n]]
    /\ UNCHANGED <<phase, mu, sweep, st, key, uploadVars, down, pend, stale, active, limit>>

(* The client has a session. *)
HandleKnown(r, s) ==
    /\ At(r, "got") /\ Free(r)
    /\ s \in OpenOf(r) /\ key[s] = <<r, loop[r].c>>
    /\ stale' = [stale EXCEPT ![s] = FALSE]
    /\ loop' = [loop EXCEPT ![r] = [at |-> "payload", s |-> s, n |-> loop[r].n]]
    /\ UNCHANGED <<phase, mu, sweep, st, key, uploadVars, down, pend, active, limit>>

HandleNew(r) ==
    /\ At(r, "got") /\ Free(r)
    /\ \A s \in OpenOf(r) : key[s] # <<r, loop[r].c>>
    /\ loop' = [loop EXCEPT ![r].at = "admit"]
    /\ mu' = [mu EXCEPT ![r] = "loop"]
    /\ UNCHANGED <<phase, sweep, st, key, uploadVars, down, pend, stale, active, limit>>

AdmitGuard_NoContext(r) == TRUE

(* With the mutex held: the datagram may have been read before Stop. *)
AdmitGuard(r) == phase[r] = "on"

(* The rule's limit first, then tryAcquire. *)
withinLimits(r) == Cardinality(OpenOf(r)) < RuleLimit /\ active < limit

Refuse(r) ==
    /\ At(r, "admit")
    /\ ~AdmitGuard(r) \/ ~withinLimits(r)
    /\ loop' = [loop EXCEPT ![r] = [at |-> "recv"]]
    /\ mu' = [mu EXCEPT ![r] = "free"]
    /\ UNCHANGED <<phase, sweep, st, key, uploadVars, down, pend, stale, active, limit>>

Acquire(r) ==
    /\ At(r, "admit")
    /\ AdmitGuard(r) /\ withinLimits(r)
    /\ active' = active + 1
    /\ loop' = [loop EXCEPT ![r].at = "dial"]
    /\ UNCHANGED <<phase, mu, sweep, st, key, uploadVars, down, pend, stale, limit>>

DialFails_KeepsLock(r) ==
    /\ At(r, "dial")
    /\ active' = active - 1
    /\ loop' = [loop EXCEPT ![r] = [at |-> "recv"]]
    /\ UNCHANGED <<phase, mu, sweep, st, key, uploadVars, down, pend, stale, limit>>

DialFails(r) ==
    /\ At(r, "dial")
    /\ active' = active - 1
    /\ loop' = [loop EXCEPT ![r] = [at |-> "recv"]]
    /\ mu' = [mu EXCEPT ![r] = "free"]
    /\ UNCHANGED <<phase, sweep, st, key, uploadVars, down, pend, stale, limit>>

Open(r, s) ==
    /\ At(r, "dial")
    /\ st[s] = "fresh"
    /\ st' = [st EXCEPT ![s] = "open"]
    /\ key' = [key EXCEPT ![s] = <<r, loop[r].c>>]
    /\ down' = [down EXCEPT ![s] = "reading"]
    /\ up' = [up EXCEPT ![s] = IF r \in Metered THEN "waiting" ELSE "none"]
    /\ loop' = [loop EXCEPT ![r] = [at |-> "payload", s |-> s, n |-> loop[r].n]]
    /\ mu' = [mu EXCEPT ![r] = "free"]
    /\ UNCHANGED <<phase, sweep, queue, queued, hand, pend, stale, active, limit>>

(* A rule that is not metered writes to the target at once. *)
WriteNow(r) ==
    /\ At(r, "payload") /\ r \notin Metered
    /\ loop' = [loop EXCEPT ![r] = [at |-> "recv"]]
    /\ UNCHANGED <<phase, mu, sweep, st, key, uploadVars, down, pend, stale, active, limit>>

WriteNowFails(r) ==
    /\ At(r, "payload") /\ r \notin Metered /\ Free(r)
    /\ Close(removed(loop[r].s))
    /\ loop' = [loop EXCEPT ![r] = [at |-> "recv"]]
    /\ UNCHANGED <<phase, mu, sweep, key, uploadVars, down, pend, stale, limit>>

fits(s, n) == queued[s] + n <= QueueBytes

(* enqueueUpload: account for the datagram, then put it into the queue.      *)
DropForBytes(r) ==
    /\ At(r, "payload") /\ r \in Metered
    /\ ~fits(loop[r].s, loop[r].n)
    /\ loop' = [loop EXCEPT ![r] = [at |-> "recv"]]
    /\ UNCHANGED <<phase, mu, sweep, st, key, uploadVars, down, pend, stale, active, limit>>

Account(r) ==
    /\ At(r, "payload") /\ r \in Metered
    /\ fits(loop[r].s, loop[r].n)
    /\ queued' = [queued EXCEPT ![loop[r].s] = @ + loop[r].n]
    /\ loop' = [loop EXCEPT ![r].at = "push"]
    /\ UNCHANGED <<phase, mu, sweep, st, key, queue, hand, up, down, pend, stale, active, limit>>

Push(r) ==
    /\ At(r, "push")
    /\ Len(queue[loop[r].s]) < QueueCap
    /\ queue' = [queue EXCEPT ![loop[r].s] = Append(@, loop[r].n)]
    /\ loop' = [loop EXCEPT ![r] = [at |-> "recv"]]
    /\ UNCHANGED <<phase, mu, sweep, st, key, queued, hand, up, down, pend, stale, active, limit>>

refundDropped_Not(s, n) == queued' = queued

refundDropped(s, n) == queued' = [queued EXCEPT ![s] = @ - n]

(* The session is done, or its queue is full. *)
PushFails(r) ==
    /\ At(r, "push")
    /\ Done(loop[r].s) \/ Len(queue[loop[r].s]) >= QueueCap
    /\ refundDropped(loop[r].s, loop[r].n)
    /\ loop' = [loop EXCEPT ![r] = [at |-> "recv"]]
    /\ UNCHANGED <<phase, mu, sweep, st, key, queue, hand, up, down, pend, stale, active, limit>>

LoopExits(r) ==
    /\ At(r, "recv") /\ phase[r] # "on"
    /\ loop' = [loop EXCEPT ![r] = [at |-> "exited"]]
    /\ UNCHANGED <<phase, mu, sweep, st, key, uploadVars, down, pend, stale, active, limit>>

Loop(r) ==
    \/ (\E s \in Sessions : HandleKnown(r, s)) \/ HandleNew(r)
    \/ Refuse(r) \/ Acquire(r) \/ DialFails(r) \/ \E s \in Sessions : Open(r, s)
    \/ WriteNow(r) \/ WriteNowFails(r)
    \/ DropForBytes(r) \/ Account(r) \/ Push(r) \/ PushFails(r) \/ LoopExits(r)

-----------------------------------------------------------------------------
(* uploadLoop and drainUploadQueue. *)

TakePacket(s) ==
    /\ up[s] = "waiting" /\ queue[s] # <<>>
    /\ hand' = [hand EXCEPT ![s] = Head(queue[s])]
    /\ queue' = [queue EXCEPT ![s] = Tail(@)]
    /\ up' = [up EXCEPT ![s] = "sending"]
    /\ UNCHANGED <<runnerVars, st, key, queued, down, pend, stale, active, limit>>

(* Done with the datagram in hand: give back its bytes. *)
PutDown(s) ==
    /\ queued' = [queued EXCEPT ![s] = @ - hand[s]]
    /\ hand' = [hand EXCEPT ![s] = 0]

(* Over the quota: the datagram is dropped, the session stays. *)
QuotaRejects(s) ==
    /\ up[s] = "sending"
    /\ PutDown(s)
    /\ up' = [up EXCEPT ![s] = "waiting"]
    /\ UNCHANGED <<runnerVars, st, key, queue, down, pend, stale, active, limit>>

(* Sent: lastSeen is renewed before the bytes are given back. *)
Sent(s) ==
    /\ up[s] = "sending"
    /\ stale' = [stale EXCEPT ![s] = FALSE]
    /\ up' = [up EXCEPT ![s] = "sent"]
    /\ UNCHANGED <<runnerVars, st, key, queue, queued, hand, down, pend, active, limit>>

SentDone(s) ==
    /\ up[s] = "sent"
    /\ PutDown(s)
    /\ up' = [up EXCEPT ![s] = "waiting"]
    /\ UNCHANGED <<runnerVars, st, key, queue, down, pend, stale, active, limit>>

(* A write error or a failing quota store: give back, then removeSession.    *)
SendFails(s) ==
    /\ up[s] = "sending"
    /\ PutDown(s)
    /\ up' = [up EXCEPT ![s] = "removing"]
    /\ UNCHANGED <<runnerVars, st, key, queue, down, pend, stale, active, limit>>

UploaderRemoves(s) ==
    /\ up[s] = "removing" /\ Free(RunnerOf(s))
    /\ Close(removed(s))
    /\ up' = [up EXCEPT ![s] = "draining"]
    /\ UNCHANGED <<runnerVars, key, queue, queued, hand, down, pend, stale, limit>>

(* The context ends the wait for a datagram, or for the limiters. *)
UploaderDone(s) ==
    /\ up[s] \in {"waiting", "sending"} /\ Done(s)
    /\ PutDown(s)
    /\ up' = [up EXCEPT ![s] = "draining"]
    /\ UNCHANGED <<runnerVars, st, key, queue, down, pend, stale, active, limit>>

Drain(s) ==
    /\ up[s] = "draining"
    /\ IF queue[s] = <<>>
       THEN up' = [up EXCEPT ![s] = "exited"] /\ UNCHANGED <<queue, queued>>
       ELSE /\ queued' = [queued EXCEPT ![s] = @ - Head(queue[s])]
            /\ queue' = [queue EXCEPT ![s] = Tail(@)]
            /\ UNCHANGED up
    /\ UNCHANGED <<runnerVars, st, key, hand, down, pend, stale, active, limit>>

Upload(s) ==
    \/ TakePacket(s) \/ QuotaRejects(s) \/ Sent(s) \/ SentDone(s) \/ SendFails(s)
    \/ UploaderRemoves(s) \/ UploaderDone(s) \/ Drain(s)

-----------------------------------------------------------------------------
(* readFromTarget. *)

Reply(s) ==
    /\ down[s] = "reading" /\ st[s] = "open"
    /\ pend' = [pend EXCEPT ![s] = @ + 1]
    /\ down' = [down EXCEPT ![s] = "relaying"]
    /\ UNCHANGED <<runnerVars, st, key, uploadVars, stale, active, limit>>

Relayed(s) ==
    /\ down[s] = "relaying"
    /\ stale' = [stale EXCEPT ![s] = FALSE]
    /\ down' = [down EXCEPT ![s] = "relayed"]
    /\ UNCHANGED <<runnerVars, st, key, uploadVars, pend, active, limit>>

RelayedDone(s) ==
    /\ down[s] = "relayed"
    /\ pend' = [pend EXCEPT ![s] = @ - 1]
    /\ down' = [down EXCEPT ![s] = "reading"]
    /\ UNCHANGED <<runnerVars, st, key, uploadVars, stale, active, limit>>

(* Over the quota. *)
ReplyRejected(s) ==
    /\ down[s] = "relaying"
    /\ pend' = [pend EXCEPT ![s] = @ - 1]
    /\ down' = [down EXCEPT ![s] = "reading"]
    /\ UNCHANGED <<runnerVars, st, key, uploadVars, stale, active, limit>>

RelayFails(s) ==
    /\ down[s] = "relaying"
    /\ pend' = [pend EXCEPT ![s] = @ - 1]
    /\ down' = [down EXCEPT ![s] = "removing"]
    /\ UNCHANGED <<runnerVars, st, key, uploadVars, stale, active, limit>>

(* The target socket is closed, or fails. *)
ReadFails(s) ==
    /\ down[s] = "reading"
    /\ down' = [down EXCEPT ![s] = "removing"]
    /\ UNCHANGED <<runnerVars, st, key, uploadVars, pend, stale, active, limit>>

ReaderRemoves(s) ==
    /\ down[s] = "removing" /\ Free(RunnerOf(s))
    /\ Close(removed(s))
    /\ down' = [down EXCEPT ![s] = "exited"]
    /\ UNCHANGED <<runnerVars, key, uploadVars, pend, stale, limit>>

Download(s) ==
    \/ Reply(s) \/ Relayed(s) \/ RelayedDone(s) \/ ReplyRejected(s) \/ RelayFails(s)
    \/ ReadFails(s) \/ ReaderRemoves(s)

(* Steps a reader is bound to take; replies need not come. *)
DownloadMoves(s) ==
    \/ Relayed(s) \/ RelayedDone(s) \/ ReplyRejected(s) \/ RelayFails(s) \/ ReaderRemoves(s)
    \/ (ReadFails(s) /\ Done(s))

-----------------------------------------------------------------------------
(* cleanupIdleSessions: with the mutex held, each session's work is looked   *)
(* at before its lastSeen.                                                   *)

SweepStarts(r) ==
    /\ sweep[r] = None /\ Free(r) /\ phase[r] = "on"
    /\ mu' = [mu EXCEPT ![r] = "sweep"]
    /\ sweep' = [sweep EXCEPT ![r] = [todo |-> OpenOf(r), idle |-> {}]]
    /\ UNCHANGED <<phase, loop, st, key, uploadVars, down, pend, stale, active, limit>>

hasWork_DownloadsOnly(s) == pend[s] > 0

hasWork(s) == queued[s] > 0 \/ pend[s] > 0

SweepWork(r, s) ==
    /\ mu[r] = "sweep" /\ s \in sweep[r].todo /\ sweep[r].idle = {}
    /\ sweep' = [sweep EXCEPT ![r] = [todo |-> @.todo \ {s}, idle |-> IF hasWork(s) THEN {} ELSE {s}]]
    /\ UNCHANGED <<phase, mu, loop, st, key, uploadVars, down, pend, stale, active, limit>>

SweepSeen(r, s) ==
    /\ mu[r] = "sweep" /\ s \in sweep[r].idle
    /\ IF stale[s] THEN Close({s}) ELSE UNCHANGED <<st, active>>
    /\ sweep' = [sweep EXCEPT ![r].idle = {}]
    /\ UNCHANGED <<phase, mu, loop, key, uploadVars, down, pend, stale, limit>>

SweepEnds(r) ==
    /\ mu[r] = "sweep" /\ sweep[r].todo = {} /\ sweep[r].idle = {}
    /\ mu' = [mu EXCEPT ![r] = "free"]
    /\ sweep' = [sweep EXCEPT ![r] = None]
    /\ UNCHANGED <<phase, loop, st, key, uploadVars, down, pend, stale, active, limit>>

Sweep(r) == \E s \in Sessions : SweepWork(r, s) \/ SweepSeen(r, s)

-----------------------------------------------------------------------------
(* Stop, and the environment. *)

Stop(r) ==
    /\ phase[r] = "on"
    /\ phase' = [phase EXCEPT ![r] = "cancelled"]
    /\ UNCHANGED <<mu, loop, sweep, st, key, uploadVars, down, pend, stale, active, limit>>

StopCloses(r) ==
    /\ phase[r] = "cancelled" /\ Free(r)
    /\ Close(OpenOf(r))
    /\ phase' = [phase EXCEPT ![r] = "swept"]
    /\ UNCHANGED <<mu, loop, sweep, key, uploadVars, down, pend, stale, limit>>

Idle(s) == up[s] \in {"none", "exited"} /\ down[s] \in {"none", "exited"}

(* wg.Wait: the read loop, the sweep and every session goroutine are gone.   *)
StopReturns(r) ==
    /\ phase[r] = "swept"
    /\ At(r, "exited") /\ sweep[r] = None
    /\ \A s \in Sessions : st[s] # "fresh" /\ RunnerOf(s) = r => Idle(s)
    /\ phase' = [phase EXCEPT ![r] = "stopped"]
    /\ UNCHANGED <<mu, loop, sweep, st, key, uploadVars, down, pend, stale, active, limit>>

SetUDPMaxSessions(n) ==
    /\ limit # n
    /\ limit' = n
    /\ UNCHANGED <<runnerVars, st, key, uploadVars, down, pend, stale, active>>

(* A minute without traffic.  It does not pass while the read loop has a     *)
(* datagram of the session in its hands, and does not count for a sweep in   *)
(* progress, whose deadline is fixed when it starts.                         *)
GoesIdle(s) ==
    /\ st[s] = "open" /\ ~stale[s]
    /\ sweep[RunnerOf(s)] = None
    /\ \A r \in Runners : ~(loop[r].at \in {"payload", "push"} /\ loop[r].s = s)
    /\ stale' = [stale EXCEPT ![s] = TRUE]
    /\ UNCHANGED <<runnerVars, st, key, uploadVars, down, pend, active, limit>>

Next ==
    \/ \E r \in Runners :
          \/ \E c \in Clients, n \in Sizes : Receive(r, c, n)
          \/ Loop(r) \/ SweepStarts(r) \/ Sweep(r) \/ SweepEnds(r)
          \/ Stop(r) \/ StopCloses(r) \/ StopReturns(r)
    \/ \E s \in Sessions : Upload(s) \/ Download(s) \/ GoesIdle(s)
    \/ \E n \in Limits : SetUDPMaxSessions(n)

Spec == Init /\ [][Next]_vars

(* Go runs every goroutine that can run; writes have a deadline, and reads   *)
(* return once the socket is closed.                                         *)
FairSpec ==
    /\ Spec
    /\ \A r \in Runners :
          /\ WF_vars(Loop(r)) /\ WF_vars(Sweep(r) \/ SweepEnds(r))
          /\ WF_vars(StopCloses(r) \/ StopReturns(r))
    /\ \A s \in Sessions : WF_vars(Upload(s)) /\ WF_vars(DownloadMoves(s))

-----------------------------------------------------------------------------
(* Properties. *)

Sum(q) ==
    LET upTo[i \in 0..Len(q)] == IF i = 0 THEN 0 ELSE upTo[i - 1] + q[i]
    IN  upTo[Len(q)]

(* Shape of the runners' and sessions' state. *)
TypeOK ==
    /\ phase \in [Runners -> {"on", "cancelled", "swept", "stopped"}]
    /\ mu \in [Runners -> {"free", "loop", "sweep"}]
    /\ st \in [Sessions -> {"fresh", "open", "closed"}]
    /\ \A s \in Sessions : queue[s] \in Seq(Sizes) /\ Len(queue[s]) <= QueueCap
    /\ \A s \in Sessions : queued[s] \in 0..QueueBytes /\ pend[s] \in 0..1
    /\ up \in [Sessions -> {"none", "waiting", "sending", "sent", "removing", "draining", "exited"}]
    /\ down \in [Sessions -> {"none", "reading", "relaying", "relayed", "removing", "exited"}]
    /\ stale \in [Sessions -> BOOLEAN]
    /\ limit \in Limits /\ active \in Nat

Dialing == {r \in Runners : loop[r].at = "dial"}

Budget == INSTANCE SessionBudget WITH
              Holders <- Runners \cup Sessions, count <- active,
              holders <- {s \in Sessions : st[s] = "open"} \cup Dialing

(* udpSessionBudget implements a session budget over all rules: it counts    *)
(* exactly the open sessions and the dials in progress, every path that ends *)
(* one (write error, read error, quota store failure, idle sweep, Stop, a    *)
(* failed dial) releases it once, and nobody is let in at or over the limit, *)
(* which may be lowered meanwhile.                                           *)
ImplementsBudget == Budget!Spec

(* A client has one session per rule, and each rule keeps to its limit.      *)
OneSessionPerClient ==
    /\ \A s, t \in Sessions : st[s] = "open" /\ st[t] = "open" /\ key[s] = key[t] => s = t
    /\ \A r \in Runners : Cardinality(OpenOf(r)) <= RuleLimit

(* What the read loop has accounted for and not yet put into the queue of s. *)
pushing(s) ==
    IF st[s] # "fresh" /\ loop[RunnerOf(s)].at = "push" /\ loop[RunnerOf(s)].s = s
    THEN loop[RunnerOf(s)].n ELSE 0

(* queuedBytes is exactly what the queue, the uploader and the read loop     *)
(* hold, whichever way a datagram leaves.                                    *)
QueuedBytesExact ==
    \A s \in Sessions : queued[s] = Sum(queue[s]) + hand[s] + pushing(s)

(* What a rule's session table says.                                         *)
SessionsExact == OneSessionPerClient /\ QueuedBytesExact

(* The idle sweep never ends a session with a datagram queued or being sent, *)
(* although it reads queuedBytes and lastSeen while the uploader changes     *)
(* them.  (A reply that arrives after the sweep found the session idle is    *)
(* lost with it.)                                                            *)
SweepSparesBusy ==
    [][\A r \in Runners, s \in Sessions :
          mu[r] = "sweep" /\ mu'[r] = "sweep" /\ s \in sweep[r].idle /\ st[s] = "open" /\ st'[s] = "closed" =>
             queue[s] = <<>> /\ up[s] \notin {"sending", "sent"}]_vars

(* A late removeSession of an old session never ends the session a client    *)
(* opened since.                                                             *)
RemovesOnlyItsOwn ==
    [][\A s, t \in Sessions :
          down[s] = "removing" /\ down'[s] = "exited" /\ st[t] = "open" /\ st'[t] = "closed" => t = s]_vars

(* Once Stop has closed the sessions none is opened again: a datagram read   *)
(* before the listener closed finds the context done.                        *)
StoppedStaysEmpty ==
    \A r \in Runners : phase[r] \in {"swept", "stopped"} => OpenOf(r) = {} /\ loop[r].at # "dial"

(* Stop returns: its wait for the loop, the sweep and the session goroutines *)
(* ends.                                                                     *)
StopEnds == \A r \in Runners : phase[r] = "cancelled" ~> phase[r] = "stopped"
=============================================================================
