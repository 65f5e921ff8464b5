---------------------------- MODULE RateLimiter ----------------------------
(***************************************************************************)
(* sharedRateLimiter of engine/traffic_control.go: the FIFO token bucket   *)
(* every connection and UDP session of one rule direction waits on.        *)
(*                                                                         *)
(* A call of wait() is a waiter: it joins the queue, waits until its turn  *)
(* channel is closed, then polls the bucket until it can pay.  Its context *)
(* may be cancelled at any moment.  One action is one critical section of  *)
(* limiter.mu or one outcome of a select.  Tokens are whole units; Tick is *)
(* one unit of time, worth Rate tokens at the next poll.                   *)
(***************************************************************************)
EXTENDS Integers, Sequences, FiniteSets

CONSTANTS
    Waiters,   \* calls of wait()
    Sizes,     \* bytes a call asks for
    Rate,      \* tokens per unit of time
    Burst,     \* bucket capacity: at least minimumTrafficBurst, the largest request
    MaxGap     \* bound: units of time between two polls of the bucket

ASSUME LimiterAssumption ==
    /\ Rate \in Nat \ {0}
    /\ Burst \in Nat \ {0}
    /\ Sizes \subseteq 1..Burst
    /\ MaxGap \in Nat /\ MaxGap * Rate >= Burst  \* longer gaps find a full bucket too

VARIABLES
    queue,      \* limiter.queue
    closes,     \* how often each waiter's turn channel was closed
    tokens,
    last,       \* time of the last refill
    now,
    stage,
    bytes,      \* the argument of each call
    cancelled,  \* calls whose context is done
    granted     \* history: bytes paid for by completed calls

limiterVars == <<queue, closes, tokens, last, now, stage, bytes, cancelled, granted>>

Min2(x, y) == IF x <= y THEN x ELSE y

LimiterInit ==
    /\ queue = <<>>
    /\ closes = [w \in Waiters |-> 0]
    /\ tokens = Burst
    /\ last = 0
    /\ now = 0
    /\ stage = [w \in Waiters |-> "start"]
    /\ bytes = [w \in Waiters |-> 0]
    /\ cancelled = {}
    /\ granted = 0

-----------------------------------------------------------------------------
(* q without its entry at index k. *)
Without(q, k) == [i \in 1..(Len(q) - 1) |-> IF i < k THEN q[i] ELSE q[i + 1]]

(* Closing the turn channel of the head of q; nothing to close if q is empty. *)
CloseHead(q) == [w \in Waiters |-> closes[w] + (IF q # <<>> /\ w = Head(q) THEN 1 ELSE 0)]

Enqueue(w, n) ==
    /\ stage[w] = "start"
    /\ queue' = Append(queue, w)
    /\ closes' = IF Len(queue) = 0 THEN CloseHead(queue') ELSE closes
    /\ bytes' = [bytes EXCEPT ![w] = n]
    /\ stage' = [stage EXCEPT ![w] = "waiting"]
    /\ UNCHANGED <<tokens, last, now, cancelled, granted>>

leave_ForgetsNext(w) ==
    \E k \in 1..Len(queue) :
        /\ queue[k] = w
        /\ queue' = Without(queue, k)
        /\ closes' = closes

leave_AlwaysHandsOver(w) ==
    \E k \in 1..Len(queue) :
        /\ queue[k] = w
        /\ queue' = Without(queue, k)
        /\ closes' = CloseHead(queue')

(* cancel: drop the waiter, and hand its turn to the next one if it was head. *)
leave(w) ==
    \E k \in 1..Len(queue) :
        /\ queue[k] = w
        /\ queue' = Without(queue, k)
        /\ closes' = IF k = 1 THEN CloseHead(queue') ELSE closes

(* A done context is noticed while waiting for the turn, before a poll and   *)
(* while sleeping between polls.                                             *)
Cancel(w) ==
    /\ stage[w] \in {"waiting", "turn", "sleeping"}
    /\ w \in cancelled
    /\ leave(w)
    /\ stage' = [stage EXCEPT ![w] = "failed"]
    /\ UNCHANGED <<tokens, last, now, bytes, cancelled, granted>>

TakeTurn(w) ==
    /\ stage[w] = "waiting"
    /\ closes[w] > 0
    /\ stage' = [stage EXCEPT ![w] = "turn"]
    /\ UNCHANGED <<queue, closes, tokens, last, now, bytes, cancelled, granted>>

(* ctx.Err() was nil; the mutex is taken afterwards. *)
CheckContext(w) ==
    /\ stage[w] = "turn"
    /\ w \notin cancelled
    /\ stage' = [stage EXCEPT ![w] = "polling"]
    /\ UNCHANGED <<queue, closes, tokens, last, now, bytes, cancelled, granted>>

refilled_FromStart == Min2(Burst, tokens + now * Rate)

(* The bucket after the refill every poll begins with. *)
refilled == Min2(Burst, tokens + (now - last) * Rate)

(* popHeadLocked: give up the head, and the turn to the next waiter. *)
popHead(w) ==
    IF queue # <<>> /\ Head(queue) = w
    THEN /\ queue' = Tail(queue)
         /\ closes' = CloseHead(queue')
    ELSE UNCHANGED <<queue, closes>>

Pay(w) ==
    /\ stage[w] = "polling"
    /\ refilled >= bytes[w]
    /\ tokens' = refilled - bytes[w]
    /\ last' = now
    /\ popHead(w)
    /\ granted' = granted + bytes[w]
    /\ stage' = [stage EXCEPT ![w] = "granted"]
    /\ UNCHANGED <<now, bytes, cancelled>>

Short(w) ==
    /\ stage[w] = "polling"
    /\ refilled < bytes[w]
    /\ tokens' = refilled
    /\ last' = now
    /\ stage' = [stage EXCEPT ![w] = "sleeping"]
    /\ UNCHANGED <<queue, closes, now, bytes, cancelled, granted>>

(* The timer set for the missing tokens fires: on time, late, or a little    *)
(* early, its duration being rounded down.                                   *)
TimerFires(w) ==
    /\ stage[w] = "sleeping"
    /\ stage' = [stage EXCEPT ![w] = "turn"]
    /\ UNCHANGED <<queue, closes, tokens, last, now, bytes, cancelled, granted>>

(* The environment: a connection closes, time passes. *)
ContextDone(w) ==
    /\ w \notin cancelled
    /\ stage[w] \notin {"granted", "failed"}
    /\ cancelled' = cancelled \cup {w}
    /\ UNCHANGED <<queue, closes, tokens, last, now, stage, bytes, granted>>

Tick ==
    /\ now - last < MaxGap
    /\ now' = now + 1
    /\ UNCHANGED <<queue, closes, tokens, last, stage, bytes, cancelled, granted>>

Step(w) ==
    \/ Cancel(w) \/ TakeTurn(w) \/ CheckContext(w) \/ Pay(w) \/ Short(w) \/ TimerFires(w)

LimiterNext ==
    \/ \E w \in Waiters : (\E n \in Sizes : Enqueue(w, n)) \/ Step(w) \/ ContextDone(w)
    \/ Tick

LimiterSpec == LimiterInit /\ [][LimiterNext]_limiterVars

(* Go runs every runnable goroutine, and time passes. *)
LimiterFairSpec == LimiterSpec /\ WF_limiterVars(Tick) /\ \A w \in Waiters : WF_limiterVars(Step(w))

-----------------------------------------------------------------------------
(* Properties. *)

(* Shape of the limiter's state: the bucket of sharedRateLimiter is never    *)
(* overdrawn nor over its burst, and the queue holds calls in progress.      *)
LimiterTypeOK ==
    /\ queue \in Seq(Waiters)
    /\ closes \in [Waiters -> Nat]
    /\ tokens \in 0..Burst
    /\ now \in Nat /\ last \in 0..now
    /\ stage \in [Waiters -> {"start", "waiting", "turn", "polling", "sleeping", "granted", "failed"}]
    /\ bytes \in [Waiters -> Nat]
    /\ cancelled \subseteq Waiters
    /\ granted \in Nat

(* The queue holds exactly the calls in progress, each once: popHeadLocked   *)
(* and cancel remove a call when it ends, and no other.                      *)
QueueIsLive ==
    /\ \A i, j \in 1..Len(queue) : queue[i] = queue[j] => i = j
    /\ \A w \in Waiters :
          stage[w] \in {"waiting", "turn", "polling", "sleeping"} <=> \E i \in 1..Len(queue) : queue[i] = w

(* The turn is handed on exactly once per call: the head of the queue has    *)
(* it, no one behind the head has, and no turn channel is closed twice       *)
(* (which would panic) although cancel and popHeadLocked both close.         *)
OneTurn ==
    /\ \A w \in Waiters : closes[w] <= 1
    /\ \A i \in 1..Len(queue) : closes[queue[i]] = (IF i = 1 THEN 1 ELSE 0)

(* Only the head polls the bucket, so bytes are granted in queue order.      *)
OnlyHeadPolls ==
    \A w \in Waiters :
        stage[w] \in {"turn", "polling", "sleeping"} => queue # <<>> /\ Head(queue) = w

(* The rule's bandwidth holds over any run of calls and cancellations: the   *)
(* bytes let through never exceed one burst plus Rate per unit of time.      *)
RateBound == granted <= Burst + now * Rate

(* What makes them inductive: a call that has not started has no turn, and   *)
(* tokens and grants together come from the burst and the refills.           *)
TurnInv == \A w \in Waiters : stage[w] = "start" => closes[w] = 0
BucketInv == granted + tokens <= Burst + last * Rate

(* Every call of wait ends, granted or (once cancelled) failed: no lost      *)
(* hand-over, and no head with a done context, keeps the calls behind it     *)
(* waiting for ever.                                                         *)
EveryCallEnds ==
    \A w \in Waiters : stage[w] = "waiting" ~> stage[w] \in {"granted", "failed"}
=============================================================================
