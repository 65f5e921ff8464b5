-------------------------- MODULE UDPRunnerProofs --------------------------
(***************************************************************************)
(* Proofs about UDPRunner, for every set of runners, clients, sessions and *)
(* datagram sizes and for all limits: its type, the session table, the     *)
(* bytes queued, what the idle sweep and Stop leave alone, and that the    *)
(* budget shared by the rules implements SessionBudget.                    *)
(***************************************************************************)
EXTENDS UDPRunner, FiniteSetTheorems, SequenceTheorems, WellFoundedInduction, TLAPS

-----------------------------------------------------------------------------
(* The inductive invariant. *)

(* What the read loop has in its hands. *)
Nothing == [at : {"recv", "exited"}]
Datagram == [at : {"got", "admit", "dial"}, c : Clients, n : Sizes]
Payload == [at : {"payload", "push"}, s : Sessions, n : Sizes]

(* The functions have their domains and their ranges; that the counters do   *)
(* not run below 0 or over their bounds takes the rest of the invariant.     *)
Shape ==
    /\ phase \in [Runners -> {"on", "cancelled", "swept", "stopped"}]
    /\ mu \in [Runners -> {"free", "loop", "sweep"}]
    /\ loop \in [Runners -> Nothing \cup Datagram \cup Payload]
    /\ DOMAIN sweep = Runners
    /\ st \in [Sessions -> {"fresh", "open", "closed"}]
    /\ DOMAIN key = Sessions
    /\ queue \in [Sessions -> Seq(Sizes)]
    /\ queued \in [Sessions -> Int] /\ hand \in [Sessions -> Int] /\ pend \in [Sessions -> Int]
    /\ up \in [Sessions -> {"none", "waiting", "sending", "sent", "removing", "draining", "exited"}]
    /\ down \in [Sessions -> {"none", "reading", "relaying", "relayed", "removing", "exited"}]
    /\ stale \in [Sessions -> BOOLEAN]
    /\ limit \in Limits

(* A session belongs to a runner and a client from the moment it is opened, *)
(* and nothing works for it before.                                         *)
KeyInv ==
    /\ \A s \in Sessions :
          IF st[s] = "fresh"
          THEN up[s] = "none" /\ down[s] = "none" /\ queue[s] = <<>> /\ ~stale[s]
          ELSE key[s] \in Runners \X Clients
    /\ \A r \in Runners : loop[r].at \in {"payload", "push"} =>
          st[loop[r].s] # "fresh" /\ RunnerOf(loop[r].s) = r /\ ~stale[loop[r].s]

(* runner.mu is held over a dial and over a sweep. *)
LockInv ==
    \A r \in Runners :
        /\ mu[r] = "loop" <=> loop[r].at \in {"admit", "dial"}
        /\ mu[r] = "sweep" <=> sweep[r] # None

(* One session per client: a dial in progress is for a client without one.  *)
TableInv ==
    /\ \A s, t \in Sessions : st[s] = "open" /\ st[t] = "open" /\ key[s] = key[t] => s = t
    /\ \A r \in Runners :
          /\ IsFiniteSet(OpenOf(r)) /\ Cardinality(OpenOf(r)) <= RuleLimit
          /\ loop[r].at = "dial" => Cardinality(OpenOf(r)) < RuleLimit
          /\ loop[r].at \in {"admit", "dial"} => \A s \in OpenOf(r) : key[s] # <<r, loop[r].c>>

(* The uploader has a datagram in its hands while it sends. *)
HandInv ==
    \A s \in Sessions : IF up[s] \in {"sending", "sent"} THEN hand[s] \in Sizes ELSE hand[s] = 0

PendInv ==
    \A s \in Sessions : pend[s] = IF down[s] \in {"relaying", "relayed"} THEN 1 ELSE 0

(* What the sweep found without work and without traffic has none. *)
SweepInv ==
    \A r \in Runners : sweep[r] # None =>
        /\ sweep[r] \in [todo : SUBSET Sessions, idle : SUBSET Sessions]
        /\ \A s \in sweep[r].todo \cup sweep[r].idle : st[s] # "fresh" /\ RunnerOf(s) = r
        /\ \A s \in sweep[r].idle : stale[s] => queued[s] = 0

(* The queues keep to their capacity. *)
BoundInv == \A s \in Sessions : Len(queue[s]) <= QueueCap /\ queued[s] <= QueueBytes

(* Who holds a place of the budget, and that they are counted. *)
Held == {s \in Sessions : st[s] = "open"} \cup Dialing
ActiveInv == IsFiniteSet(Held) /\ active = Cardinality(Held)

RunnerInv ==
    /\ Shape /\ KeyInv /\ LockInv /\ TableInv /\ StoppedStaysEmpty
    /\ HandInv /\ PendInv /\ QueuedBytesExact /\ SweepInv /\ BoundInv /\ ActiveInv

-----------------------------------------------------------------------------
(* Sums of sequences. *)

(* Every set of numbers that is not empty has a least element.               *)
LEMMA LeastNatural ==
    ASSUME NEW T \in SUBSET Nat, T # {}
    PROVE  \E x \in T : \A y \in T : x <= y
  <1> DEFINE Less == {ss \in Nat \X Nat : ss[1] < ss[2]}
  <1>1. IsWellFoundedOn(Less, Nat)
    BY NatLessThanWellFounded, Zenon DEF OpToRel
  <1> HIDE DEF Less
  <1>2. PICK x \in T : \A y \in T : ~ (<<y, x>> \in Less)
    BY <1>1, WFMin
  <1>3. \A y \in T : y < x => <<y, x>> \in Less
    BY SMT DEF Less
  <1>4. \A y \in T : x \in Nat /\ y \in Nat /\ ~(y < x)
    BY <1>2, <1>3
  <1>5. \A y \in T : x <= y
    BY <1>4
  <1> QED
    BY <1>5

(* f lists the sums of the prefixes of q of up to n elements. *)
Partial(q, n, f) ==
    /\ f \in [0..n -> Nat]
    /\ f[0] = 0
    /\ \A i \in 1..n : f[i] = f[i - 1] + q[i]

(* Prefix sums exist: a least n without them would have a predecessor with   *)
(* them.                                                                     *)
LEMMA PartialExists ==
    ASSUME NEW q \in Seq(Nat)
    PROVE  \E f : Partial(q, Len(q), f)
  <1> DEFINE Bad == {n \in 0..Len(q) : ~ \E f : Partial(q, n, f)}
  <1>0. Len(q) \in Nat /\ \A i \in 1..Len(q) : q[i] \in Nat
    OBVIOUS
  <1>1. SUFFICES ASSUME Bad # {} PROVE FALSE
    BY <1>0
  <1>2. Bad \in SUBSET Nat
    BY <1>0
  <1>3. PICK n \in Bad : \A m \in Bad : n <= m
    BY <1>1, <1>2, LeastNatural
  <1>4. n \in Nat /\ n <= Len(q)
    BY <1>0
  <1>5. n # 0
    <2>1. Partial(q, 0, [i \in 0..0 |-> 0])
      BY DEF Partial
    <2> QED
      BY <2>1
  <1>6. n - 1 \in Nat /\ n - 1 \in 0..Len(q) /\ n - 1 \notin Bad
    <2> HIDE DEF Bad
    <2> QED
      BY <1>0, <1>3, <1>4, <1>5
  <1>7. PICK f : Partial(q, n - 1, f)
    BY <1>6
  <1> DEFINE g == [i \in 0..n |-> IF i = n THEN f[n - 1] + q[n] ELSE f[i]]
  <1>8. q[n] \in Nat /\ f[n - 1] \in Nat
    BY <1>0, <1>4, <1>5, <1>6, <1>7 DEF Partial
  <1>9. Partial(q, n, g)
    <2>1. \A i \in 0..(n - 1) : f[i] \in Nat
      BY <1>7 DEF Partial
    <2>2. g \in [0..n -> Nat]
      BY <1>4, <1>8, <2>1
    <2>3. g[0] = 0
      BY <1>4, <1>5, <1>7 DEF Partial
    <2>4. ASSUME NEW i \in 1..n PROVE g[i] = g[i - 1] + q[i]
      <3>1. CASE i = n
        BY <1>4, <1>5, <3>1
      <3>2. CASE i # n
        <4>1. i \in 1..(n - 1) /\ i - 1 \in 0..n /\ i - 1 # n /\ i \in 0..n
          BY <1>4, <3>2
        <4>2. f[i] = f[i - 1] + q[i]
          BY <1>7, <4>1 DEF Partial
        <4> QED
          BY <3>2, <4>1, <4>2
      <3> QED
        BY <3>1, <3>2
    <2> HIDE DEF g
    <2> QED
      BY <2>2, <2>3, <2>4 DEF Partial
  <1> QED
    BY <1>9

(* Prefix sums are unique, for the same reason.                              *)
LEMMA PartialUnique ==
    ASSUME NEW q \in Seq(Nat), NEW f, Partial(q, Len(q), f),
           NEW g, DOMAIN g = 0..Len(q), g[0] = 0, \A i \in 1..Len(q) : g[i] = g[i - 1] + q[i]
    PROVE  \A i \in 0..Len(q) : g[i] = f[i]
  <1> DEFINE Bad == {i \in 0..Len(q) : g[i] # f[i]}
  <1>0. Len(q) \in Nat
    OBVIOUS
  <1>1. SUFFICES ASSUME Bad # {} PROVE FALSE
    OBVIOUS
  <1>2. Bad \in SUBSET Nat
    BY <1>0
  <1>3. PICK n \in Bad : \A m \in Bad : n <= m
    BY <1>1, <1>2, LeastNatural
  <1>4. n \in Nat /\ n <= Len(q) /\ n # 0
    BY <1>0 DEF Partial
  <1>5. n - 1 \in 0..Len(q) /\ n - 1 \notin Bad
    BY <1>0, <1>3, <1>4
  <1>6. g[n - 1] = f[n - 1]
    BY <1>5
  <1>7. n \in 1..Len(q)
    BY <1>0, <1>4
  <1> QED
    BY <1>6, <1>7 DEF Partial

(* Sum is the last of them.                                                  *)
LEMMA SumIsPartial ==
    ASSUME NEW q \in Seq(Nat), NEW f, Partial(q, Len(q), f)
    PROVE  Sum(q) = f[Len(q)]
  <1> DEFINE Def(g) == g = [i \in 0..Len(q) |-> IF i = 0 THEN 0 ELSE g[i - 1] + q[i]]
             upTo == CHOOSE g : Def(g)
  <1>0. Len(q) \in Nat
    OBVIOUS
  <1>1. Def(f)
    BY <1>0 DEF Partial
  <1>2. Def(upTo)
    BY <1>1
  <1>3. Sum(q) = upTo[Len(q)]
    BY DEF Sum
  <1> HIDE DEF upTo
  <1>4. /\ DOMAIN upTo = 0..Len(q)
        /\ upTo[0] = 0
        /\ \A i \in 1..Len(q) : upTo[i] = upTo[i - 1] + q[i]
    BY <1>0, <1>2
  <1>5. \A i \in 0..Len(q) : upTo[i] = f[i]
    BY <1>4, PartialUnique
  <1> QED
    BY <1>0, <1>3, <1>5

(* The empty queue holds nothing.                                            *)
LEMMA SumEmpty == Sum(<<>>) = 0
  <1>1. <<>> \in Seq(Nat) /\ Len(<<>>) = 0
    OBVIOUS
  <1>2. PICK f : Partial(<<>>, Len(<<>>), f)
    BY <1>1, PartialExists
  <1> QED
    BY <1>1, <1>2, SumIsPartial DEF Partial

(* A sum is a number.                                                        *)
LEMMA SumNat ==
    ASSUME NEW q \in Seq(Nat)
    PROVE  Sum(q) \in Nat
  <1>1. PICK f : Partial(q, Len(q), f)
    BY PartialExists
  <1>2. Len(q) \in Nat /\ Sum(q) = f[Len(q)]
    BY <1>1, SumIsPartial
  <1> QED
    BY <1>1, <1>2 DEF Partial

(* A datagram put into the queue adds its bytes.                             *)
LEMMA SumAppend ==
    ASSUME NEW q \in Seq(Nat), NEW n \in Nat
    PROVE  Sum(Append(q, n)) = Sum(q) + n
  <1> DEFINE a == Append(q, n)
  <1>1. a \in Seq(Nat) /\ Len(q) \in Nat /\ Len(a) = Len(q) + 1
    OBVIOUS
  <1>2. a[Len(q) + 1] = n /\ \A i \in 1..Len(q) : a[i] = q[i]
    OBVIOUS
  <1> HIDE DEF a
  <1>3. PICK f : Partial(a, Len(a), f)
    BY <1>1, PartialExists
  <1> DEFINE g == [i \in 0..Len(q) |-> f[i]]
  <1>4. Partial(q, Len(q), g)
    BY <1>1, <1>2, <1>3 DEF Partial
  <1>5. Sum(a) = f[Len(q) + 1] /\ Sum(q) = g[Len(q)] /\ g[Len(q)] = f[Len(q)]
    BY <1>1, <1>3, <1>4, SumIsPartial
  <1>6. f[Len(q) + 1] = f[Len(q)] + n
    BY <1>1, <1>2, <1>3 DEF Partial
  <1> QED
    BY <1>5, <1>6 DEF a

(* Taking the first datagram takes its bytes.                                *)
LEMMA SumHeadTail ==
    ASSUME NEW q \in Seq(Nat), q # <<>>
    PROVE  Sum(q) = Head(q) + Sum(Tail(q))
  <1> DEFINE t == Tail(q)
  <1>1. t \in Seq(Nat) /\ Len(t) \in Nat /\ Len(q) = Len(t) + 1 /\ Head(q) \in Nat /\ Head(q) = q[1]
    OBVIOUS
  <1>2. \A i \in 1..Len(t) : t[i] = q[i + 1]
    OBVIOUS
  <1> HIDE DEF t
  <1>3. PICK f : Partial(q, Len(q), f)
    BY PartialExists
  <1> DEFINE g == [i \in 0..Len(t) |-> f[i + 1] - Head(q)]
  <1>4. PICK h : Partial(t, Len(t), h)
    BY <1>1, PartialExists
  <1>5. f[1] = Head(q)
    BY <1>1, <1>3 DEF Partial
  <1>6. /\ DOMAIN g = 0..Len(t)
        /\ g[0] = 0
        /\ \A i \in 1..Len(t) : g[i] = g[i - 1] + t[i]
    <2>1. g[0] = 0
      BY <1>1, <1>5
    <2>2. ASSUME NEW i \in 1..Len(t) PROVE g[i] = g[i - 1] + t[i]
      <3>1. i \in 0..Len(t) /\ i - 1 \in 0..Len(t) /\ i + 1 \in 1..Len(q) /\ i \in 0..Len(q) /\ i - 1 + 1 = i
        BY <1>1
      <3>2. f[i + 1] = f[i] + q[i + 1] /\ f[i] \in Nat /\ q[i + 1] \in Nat
        BY <1>3, <3>1 DEF Partial
      <3>3. g[i] = f[i + 1] - Head(q) /\ g[i - 1] = f[i] - Head(q)
        BY <3>1
      <3> QED
        BY <1>1, <1>2, <3>2, <3>3
    <2> QED
      BY <2>1, <2>2
  <1> HIDE DEF g
  <1>7. \A i \in 0..Len(t) : g[i] = h[i]
    <2>1. t \in Seq(Nat) /\ DOMAIN g = 0..Len(t) /\ g[0] = 0
      BY <1>1, <1>6
    <2>2. \A i \in 1..Len(t) : g[i] = g[i - 1] + t[i]
      BY <1>6
    <2>3. Partial(t, Len(t), h)
      BY <1>4
    <2> QED
      BY <2>1, <2>2, <2>3, PartialUnique, Zenon
  <1>8. Sum(t) = g[Len(t)]
    BY <1>1, <1>4, <1>7, SumIsPartial
  <1>9. Sum(q) = f[Len(t) + 1] /\ f[Len(t) + 1] \in Nat
    <2>1. Sum(q) = f[Len(q)]
      BY <1>3, SumIsPartial
    <2>2. Len(t) + 1 \in 0..Len(q)
      BY <1>1
    <2>3. f[Len(t) + 1] \in Nat
      BY <1>3, <2>2 DEF Partial
    <2> QED
      BY <1>1, <2>1, <2>3
  <1>10. g[Len(t)] = f[Len(t) + 1] - Head(q)
    BY <1>1 DEF g
  <1>11. Sum(q) = Head(q) + Sum(t)
    BY <1>1, <1>8, <1>9, <1>10
  <1> QED
    BY <1>11 DEF t

-----------------------------------------------------------------------------
(* The shape of the state. *)

(* What the loop has in its hands, by where it is.                           *)
LEMMA LoopCases ==
    ASSUME Shape, NEW r \in Runners
    PROVE  /\ loop[r].at \in {"recv", "exited", "got", "admit", "dial", "payload", "push"}
           /\ loop[r].at \in {"got", "admit", "dial"} =>
                 loop[r] \in Datagram /\ loop[r].c \in Clients /\ loop[r].n \in Sizes
           /\ loop[r].at \in {"payload", "push"} =>
                 loop[r] \in Payload /\ loop[r].s \in Sessions /\ loop[r].n \in Sizes
  BY DEF Shape, Nothing, Datagram, Payload

(* The first state has the shape.                                            *)
LEMMA ShapeInit == Init => Shape
  BY UDPAssumption DEF Init, Shape, Nothing

(* The steps of the read loop keep it.                                       *)
LEMMA ShapeLoop ==
    ASSUME Shape, NEW r \in Runners,
           (\E c \in Clients, n \in Sizes : Receive(r, c, n)) \/ Loop(r)
    PROVE  Shape'
  <1> USE DEF Shape, At, uploadVars
  <1>0. /\ loop[r].at \in {"got", "admit", "dial"} =>
              loop[r] \in Datagram /\ loop[r].c \in Clients /\ loop[r].n \in Sizes
        /\ loop[r].at \in {"payload", "push"} =>
              loop[r] \in Payload /\ loop[r].s \in Sessions /\ loop[r].n \in Sizes
        /\ \A n \in Sizes : n \in Int
        /\ [at |-> "recv"] \in Nothing /\ [at |-> "exited"] \in Nothing
    BY LoopCases, UDPAssumption DEF Nothing
  <1>1. ASSUME NEW c \in Clients, NEW n \in Sizes, Receive(r, c, n) PROVE Shape'
    <2>1. [at |-> "got", c |-> c, n |-> n] \in Datagram
      BY DEF Datagram
    <2> QED
      BY <1>1, <2>1 DEF Receive
  <1>2. ASSUME NEW s \in Sessions, HandleKnown(r, s) PROVE Shape'
    <2>1. [at |-> "payload", s |-> s, n |-> loop[r].n] \in Payload
      BY <1>0, <1>2 DEF HandleKnown, Payload
    <2> QED
      BY <1>2, <2>1 DEF HandleKnown
  <1>3. ASSUME HandleNew(r) \/ Acquire(r) PROVE Shape'
    <2>1. loop[r] \in Datagram
      BY <1>0, <1>3 DEF HandleNew, Acquire
    <2>2. [loop[r] EXCEPT !.at = "admit"] \in Datagram /\ [loop[r] EXCEPT !.at = "dial"] \in Datagram
      BY <2>1 DEF Datagram
    <2>3. CASE HandleNew(r)
      BY <2>2, <2>3 DEF HandleNew
    <2>4. CASE Acquire(r)
      BY <2>2, <2>4 DEF Acquire
    <2> QED
      BY <1>3, <2>3, <2>4
  <1>4. ASSUME Refuse(r) \/ DialFails(r) PROVE Shape'
    <2>1. CASE Refuse(r)
      BY <1>0, <2>1 DEF Refuse
    <2>2. CASE DialFails(r)
      BY <1>0, <2>2 DEF DialFails
    <2> QED
      BY <1>4, <2>1, <2>2
  <1>5. ASSUME NEW s \in Sessions, Open(r, s) PROVE Shape'
    <2>1. [at |-> "payload", s |-> s, n |-> loop[r].n] \in Payload
      BY <1>0, <1>5 DEF Open, Payload
    <2> QED
      BY <1>5, <2>1 DEF Open
  <1>6. ASSUME WriteNow(r) \/ DropForBytes(r) \/ LoopExits(r) PROVE Shape'
    BY <1>0, <1>6 DEF WriteNow, DropForBytes, LoopExits
  <1>7. ASSUME WriteNowFails(r) PROVE Shape'
    BY <1>0, <1>7 DEF WriteNowFails, Close
  <1>8. ASSUME Account(r) PROVE Shape'
    <2>1. loop[r] \in Payload
      BY <1>0, <1>8 DEF Account
    <2>2. [loop[r] EXCEPT !.at = "push"] \in Payload
      BY <2>1 DEF Payload
    <2>3. queued' \in [Sessions -> Int]
      BY <1>0, <1>8 DEF Account
    <2> QED
      BY <1>8, <2>2, <2>3 DEF Account
  <1>9. ASSUME Push(r) PROVE Shape'
    <2>1. loop[r].s \in Sessions /\ loop[r].n \in Sizes
      BY <1>0, <1>9 DEF Push
    <2>2. Append(queue[loop[r].s], loop[r].n) \in Seq(Sizes)
      BY <2>1
    <2>3. queue' \in [Sessions -> Seq(Sizes)]
      BY <1>9, <2>2 DEF Push
    <2> QED
      BY <1>0, <1>9, <2>3 DEF Push
  <1>10. ASSUME PushFails(r) PROVE Shape'
    <2>1. queued' \in [Sessions -> Int]
      BY <1>0, <1>10 DEF PushFails, refundDropped
    <2> QED
      BY <1>0, <1>10, <2>1 DEF PushFails
  <1> QED
    BY <1>1, <1>2, <1>3, <1>4, <1>5, <1>6, <1>7, <1>8, <1>9, <1>10 DEF Loop

(* So do the steps of a session's goroutines.                                *)
LEMMA ShapeSession ==
    ASSUME Shape, NEW s \in Sessions, Upload(s) \/ Download(s) \/ GoesIdle(s)
    PROVE  Shape'
  <1> USE DEF Shape, runnerVars, uploadVars
  <1>0. \A q \in Seq(Sizes) : q # <<>> => Head(q) \in Int /\ Tail(q) \in Seq(Sizes)
    <2>1. ASSUME NEW q \in Seq(Sizes), q # <<>> PROVE Head(q) \in Sizes /\ Tail(q) \in Seq(Sizes)
      BY <2>1
    <2>2. \A n \in Sizes : n \in Int
      BY UDPAssumption
    <2> QED
      BY <2>1, <2>2, Zenon
  <1>1. ASSUME TakePacket(s) PROVE Shape'
    <2>1. queue[s] \in Seq(Sizes) /\ queue[s] # <<>>
      BY <1>1 DEF TakePacket
    <2>2. hand' \in [Sessions -> Int] /\ queue' \in [Sessions -> Seq(Sizes)]
      BY <1>0, <1>1, <2>1 DEF TakePacket
    <2> QED
      BY <1>1, <2>2 DEF TakePacket
  <1>2. ASSUME PutDown(s) PROVE queued' \in [Sessions -> Int] /\ hand' \in [Sessions -> Int]
    BY <1>2 DEF PutDown
  <1>3. ASSUME QuotaRejects(s) \/ SentDone(s) \/ SendFails(s) \/ UploaderDone(s) PROVE Shape'
    <2>1. queued' \in [Sessions -> Int] /\ hand' \in [Sessions -> Int]
      BY <1>2, <1>3 DEF QuotaRejects, SentDone, SendFails, UploaderDone
    <2>2. CASE QuotaRejects(s)
      BY <2>1, <2>2 DEF QuotaRejects
    <2>3. CASE SentDone(s)
      BY <2>1, <2>3 DEF SentDone
    <2>4. CASE SendFails(s)
      BY <2>1, <2>4 DEF SendFails
    <2>5. CASE UploaderDone(s)
      BY <2>1, <2>5 DEF UploaderDone
    <2> QED
      BY <1>3, <2>2, <2>3, <2>4, <2>5
  <1>4. ASSUME Sent(s) PROVE Shape'
    BY <1>4 DEF Sent
  <1>5. ASSUME UploaderRemoves(s) PROVE Shape'
    BY <1>5 DEF UploaderRemoves, Close
  <1>6. ASSUME Drain(s) PROVE Shape'
    <2>1. CASE queue[s] = <<>>
      BY <1>6, <2>1 DEF Drain
    <2>2. CASE queue[s] # <<>>
      <3>1. queued' \in [Sessions -> Int] /\ queue' \in [Sessions -> Seq(Sizes)]
        <4>1. Head(queue[s]) \in Int /\ Tail(queue[s]) \in Seq(Sizes)
          BY <1>0, <2>2
        <4>2. queued' = [queued EXCEPT ![s] = queued[s] - Head(queue[s])]
          BY <1>6, <2>2 DEF Drain
        <4>3. queued[s] - Head(queue[s]) \in Int
          BY <4>1
        <4>4. queue' = [queue EXCEPT ![s] = Tail(queue[s])]
          BY <1>6, <2>2 DEF Drain
        <4>5. queued' \in [Sessions -> Int]
          BY <4>2, <4>3
        <4> QED
          BY <4>1, <4>4, <4>5
      <3> QED
        BY <1>6, <2>2, <3>1 DEF Drain
    <2> QED
      BY <2>1, <2>2
  <1>7. ASSUME Reply(s) \/ RelayedDone(s) \/ ReplyRejected(s) \/ RelayFails(s) PROVE Shape'
    <2>1. pend' \in [Sessions -> Int]
      BY <1>7 DEF Reply, RelayedDone, ReplyRejected, RelayFails
    <2>2. CASE Reply(s)
      BY <2>1, <2>2 DEF Reply
    <2>3. CASE RelayedDone(s)
      BY <2>1, <2>3 DEF RelayedDone
    <2>4. CASE ReplyRejected(s)
      BY <2>1, <2>4 DEF ReplyRejected
    <2>5. CASE RelayFails(s)
      BY <2>1, <2>5 DEF RelayFails
    <2> QED
      BY <1>7, <2>2, <2>3, <2>4, <2>5
  <1>8. ASSUME Relayed(s) \/ ReadFails(s) PROVE Shape'
    <2>1. CASE Relayed(s)
      BY <2>1 DEF Relayed
    <2>2. CASE ReadFails(s)
      BY <2>2 DEF ReadFails
    <2> QED
      BY <1>8, <2>1, <2>2
  <1>9. ASSUME ReaderRemoves(s) PROVE Shape'
    BY <1>9 DEF ReaderRemoves, Close
  <1>10. ASSUME GoesIdle(s) PROVE Shape'
    BY <1>10 DEF GoesIdle
  <1> QED
    BY <1>1, <1>3, <1>4, <1>5, <1>6, <1>7, <1>8, <1>9, <1>10 DEF Upload, Download

(* So does every step.                                                       *)
LEMMA ShapeStep ==
    ASSUME Shape, [Next]_vars
    PROVE  Shape'
  <1>1. ASSUME NEW r \in Runners, SweepStarts(r) \/ SweepEnds(r) \/ Stop(r) \/ StopCloses(r) \/ StopReturns(r)
        PROVE  Shape'
    BY <1>1 DEF Shape, SweepStarts, SweepEnds, Stop, StopCloses, StopReturns, Close, uploadVars
  <1>2. ASSUME NEW r \in Runners, Sweep(r) PROVE Shape'
    BY <1>2 DEF Shape, Sweep, SweepWork, SweepSeen, Close, uploadVars
  <1>3. ASSUME NEW n \in Limits, SetUDPMaxSessions(n) PROVE Shape'
    BY <1>3 DEF Shape, SetUDPMaxSessions, runnerVars, uploadVars
  <1>4. ASSUME UNCHANGED vars PROVE Shape'
    BY <1>4 DEF Shape, vars, runnerVars, uploadVars
  <1> QED
    BY <1>1, <1>2, <1>3, <1>4, ShapeLoop, ShapeSession DEF Next

-----------------------------------------------------------------------------
(* Sessions and their keys. *)

(* Closing sessions that were opened.                                        *)
LEMMA CloseEffect ==
    ASSUME Shape, NEW S \in SUBSET Sessions, Close(S), \A s \in S : st[s] # "fresh"
    PROVE  \A s \in Sessions :
              /\ st'[s] = "fresh" <=> st[s] = "fresh"
              /\ st'[s] = "open" <=> st[s] = "open" /\ s \notin S
  BY DEF Shape, Close

(* A step leaves the sessions alone, closes some that were opened, or opens  *)
(* one.                                                                      *)
LEMMA StatusStep ==
    ASSUME Shape, KeyInv, LockInv, SweepInv, [Next]_vars
    PROVE  \/ UNCHANGED <<st, key>>
           \/ UNCHANGED <<key, loop>> /\ \E S \in SUBSET Sessions : Close(S) /\ \A s \in S : st[s] # "fresh"
           \/ \E r \in Runners : WriteNowFails(r)
           \/ \E r \in Runners, s \in Sessions : Open(r, s)
  <1> DEFINE Closes == UNCHANGED <<key, loop>> /\ \E S \in SUBSET Sessions : Close(S) /\ \A s \in S : st[s] # "fresh"
  <1>1. ASSUME NEW r \in Runners, Loop(r)
        PROVE  UNCHANGED <<st, key>> \/ WriteNowFails(r) \/ \E s \in Sessions : Open(r, s)
    BY <1>1 DEF Loop, HandleKnown, HandleNew, Refuse, Acquire, DialFails, WriteNow,
                DropForBytes, Account, Push, PushFails, LoopExits
  <1>2. ASSUME NEW s \in Sessions, Upload(s) PROVE UNCHANGED <<st, key>> \/ Closes
    <2>1. CASE UploaderRemoves(s)
      <3>1. removed(s) \in SUBSET Sessions /\ \A t \in removed(s) : st[t] # "fresh"
        BY DEF removed
      <3> QED
        BY <2>1, <3>1 DEF UploaderRemoves, runnerVars
    <2>2. CASE ~UploaderRemoves(s)
      BY <1>2, <2>2 DEF Upload, TakePacket, QuotaRejects, Sent, SentDone, SendFails, UploaderDone, Drain
    <2> QED
      BY <2>1, <2>2
  <1>3. ASSUME NEW s \in Sessions, Download(s) \/ GoesIdle(s) PROVE UNCHANGED <<st, key>> \/ Closes
    <2>1. CASE ReaderRemoves(s)
      <3>1. removed(s) \in SUBSET Sessions /\ \A t \in removed(s) : st[t] # "fresh"
        BY DEF removed
      <3> QED
        BY <2>1, <3>1 DEF ReaderRemoves, runnerVars
    <2>2. CASE ~ReaderRemoves(s)
      BY <1>3, <2>2 DEF Download, Reply, Relayed, RelayedDone, ReplyRejected, RelayFails, ReadFails, GoesIdle
    <2> QED
      BY <2>1, <2>2
  <1>4. ASSUME NEW r \in Runners, SweepStarts(r) \/ SweepEnds(r) \/ Stop(r) \/ StopReturns(r)
        PROVE  UNCHANGED <<st, key>>
    BY <1>4 DEF SweepStarts, SweepEnds, Stop, StopReturns
  <1>5. ASSUME NEW r \in Runners, StopCloses(r) PROVE Closes
    <2>1. OpenOf(r) \in SUBSET Sessions /\ \A t \in OpenOf(r) : st[t] # "fresh"
      BY DEF OpenOf
    <2> QED
      BY <1>5, <2>1 DEF StopCloses
  <1>6. ASSUME NEW r \in Runners, NEW s \in Sessions, SweepWork(r, s) \/ SweepSeen(r, s)
        PROVE  UNCHANGED <<st, key>> \/ Closes
    <2>1. CASE SweepSeen(r, s)
      <3>1. st[s] # "fresh"
        BY <2>1 DEF SweepSeen, SweepInv, LockInv
      <3>2. {s} \in SUBSET Sessions /\ \A t \in {s} : st[t] # "fresh"
        BY <3>1
      <3> QED
        BY <2>1, <3>2 DEF SweepSeen
    <2>2. CASE SweepWork(r, s)
      BY <2>2 DEF SweepWork
    <2> QED
      BY <1>6, <2>1, <2>2
  <1>7. ASSUME NEW n \in Limits, SetUDPMaxSessions(n) PROVE UNCHANGED <<st, key>>
    BY <1>7 DEF SetUDPMaxSessions
  <1>8. ASSUME UNCHANGED vars PROVE UNCHANGED <<st, key>>
    BY <1>8 DEF vars
  <1>9. ASSUME NEW r \in Runners, NEW c \in Clients, NEW n \in Sizes, Receive(r, c, n) PROVE UNCHANGED <<st, key>>
    BY <1>9 DEF Receive
  <1> HIDE DEF Closes
  <1>10. UNCHANGED <<st, key>> \/ Closes \/ (\E r \in Runners : WriteNowFails(r)) \/ \E r \in Runners, s \in Sessions : Open(r, s)
    BY <1>1, <1>2, <1>3, <1>4, <1>5, <1>6, <1>7, <1>8, <1>9 DEF Next, Sweep
  <1> QED
    BY <1>10 DEF Closes

(* What a session has before it is opened.                                   *)
Unused(s) == up[s] = "none" /\ down[s] = "none" /\ queue[s] = <<>> /\ ~stale[s]

(* Only a session that was opened is put to use.                             *)
LEMMA UnusedStep ==
    ASSUME Shape, KeyInv, [Next]_vars, NEW s \in Sessions, st[s] = "fresh", st'[s] = "fresh"
    PROVE  Unused(s)'
  <1> USE DEF Shape, Unused, At, uploadVars, runnerVars
  <1>0. Unused(s)
    BY DEF KeyInv
  <1>1. ASSUME NEW r \in Runners, Loop(r) PROVE Unused(s)'
    <2>0. loop[r].at \in {"payload", "push"} => loop[r].s \in Sessions /\ st[loop[r].s] # "fresh"
      BY LoopCases DEF KeyInv
    <2>1. ASSUME NEW t \in Sessions, HandleKnown(r, t) PROVE Unused(s)'
      BY <1>0, <2>1 DEF HandleKnown, OpenOf
    <2>2. ASSUME NEW t \in Sessions, Open(r, t) PROVE Unused(s)'
      BY <1>0, <2>2 DEF Open
    <2>3. CASE Push(r)
      BY <1>0, <2>0, <2>3 DEF Push
    <2>4. CASE HandleNew(r) \/ Refuse(r) \/ Acquire(r) \/ DialFails(r) \/ WriteNow(r) \/ WriteNowFails(r)
                 \/ DropForBytes(r) \/ Account(r) \/ PushFails(r) \/ LoopExits(r)
      <3>1. UNCHANGED <<up, down, queue, stale>>
        BY <2>4 DEF HandleNew, Refuse, Acquire, DialFails, WriteNow, WriteNowFails,
                    DropForBytes, Account, PushFails, LoopExits
      <3> QED
        BY <1>0, <3>1
    <2> QED
      BY <1>1, <2>1, <2>2, <2>3, <2>4 DEF Loop
  <1>2. ASSUME NEW t \in Sessions, Upload(t) PROVE Unused(s)'
    <2>1. up[t] # "none"
      BY <1>2 DEF Upload, TakePacket, QuotaRejects, Sent, SentDone, SendFails, UploaderRemoves, UploaderDone, Drain
    <2>2. t # s
      BY <1>0, <2>1
    <2>3. up'[s] = up[s] /\ down'[s] = down[s] /\ queue'[s] = queue[s] /\ stale'[s] = stale[s]
      BY <1>2, <2>2 DEF Upload, TakePacket, QuotaRejects, Sent, SentDone, SendFails, UploaderRemoves, UploaderDone, Drain
    <2> QED
      BY <1>0, <2>3
  <1>3. ASSUME NEW t \in Sessions, Download(t) \/ GoesIdle(t) PROVE Unused(s)'
    <2>1. t # s
      BY <1>0, <1>3 DEF Download, Reply, Relayed, RelayedDone, ReplyRejected, RelayFails, ReadFails, ReaderRemoves, GoesIdle
    <2>2. up'[s] = up[s] /\ down'[s] = down[s] /\ queue'[s] = queue[s] /\ stale'[s] = stale[s]
      BY <1>3, <2>1 DEF Download, Reply, Relayed, RelayedDone, ReplyRejected, RelayFails, ReadFails, ReaderRemoves, GoesIdle
    <2> QED
      BY <1>0, <2>2
  <1>4. ASSUME UNCHANGED <<up, down, queue, stale>> PROVE Unused(s)'
    BY <1>0, <1>4
  <1>5. ASSUME NEW r \in Runners, SweepStarts(r) \/ SweepEnds(r) \/ Stop(r) \/ StopCloses(r) \/ StopReturns(r) \/ Sweep(r)
        PROVE  UNCHANGED <<up, down, queue, stale>>
    BY <1>5 DEF SweepStarts, SweepEnds, Stop, StopCloses, StopReturns, Sweep, SweepWork, SweepSeen
  <1>6. ASSUME \/ \E r \in Runners, c \in Clients, n \in Sizes : Receive(r, c, n)
               \/ \E n \in Limits : SetUDPMaxSessions(n)
               \/ UNCHANGED vars
        PROVE  UNCHANGED <<up, down, queue, stale>>
    BY <1>6 DEF Receive, SetUDPMaxSessions, vars
  <1> QED
    BY <1>1, <1>2, <1>3, <1>4, <1>5, <1>6 DEF Next

(* An opened session stays one, with its key.                                *)
LEMMA KeyKept ==
    ASSUME Shape, KeyInv, LockInv, SweepInv, [Next]_vars
    PROVE  /\ \A s \in Sessions : st[s] # "fresh" => st'[s] # "fresh" /\ key'[s] = key[s] /\ key[s] \in Runners \X Clients
           /\ \A s \in Sessions : st'[s] # "fresh" /\ st[s] = "fresh" => key'[s] \in Runners \X Clients
  <1> USE DEF Shape
  <1>1. CASE UNCHANGED <<st, key>>
    BY <1>1 DEF KeyInv
  <1>2. CASE UNCHANGED <<key, loop>> /\ \E S \in SUBSET Sessions : Close(S) /\ \A s \in S : st[s] # "fresh"
    <2>1. \A s \in Sessions : st'[s] = "fresh" <=> st[s] = "fresh"
      BY <1>2, CloseEffect
    <2> QED
      BY <1>2, <2>1 DEF KeyInv
  <1>3. ASSUME NEW r \in Runners, WriteNowFails(r)
        PROVE  UNCHANGED key /\ \A s \in Sessions : st'[s] = "fresh" <=> st[s] = "fresh"
    BY <1>3, CloseEffect DEF WriteNowFails, removed
  <1>4. CASE \E r \in Runners : WriteNowFails(r)
    BY <1>3, <1>4 DEF KeyInv
  <1>5. ASSUME NEW r \in Runners, NEW s \in Sessions, Open(r, s)
        PROVE  /\ \A t \in Sessions \ {s} : st'[t] = st[t] /\ key'[t] = key[t]
               /\ st[s] = "fresh" /\ key'[s] \in Runners \X Clients
    BY <1>5, LoopCases DEF Open, At
  <1>6. CASE \E r \in Runners, s \in Sessions : Open(r, s)
    BY <1>5, <1>6 DEF KeyInv
  <1> QED
    BY <1>1, <1>2, <1>4, <1>6, StatusStep

(* A session keeps its key, and the loop works for one of its own sessions   *)
(* that is not stale.                                                        *)
LEMMA KeyStep ==
    ASSUME Shape, KeyInv, LockInv, SweepInv, [Next]_vars
    PROVE  KeyInv'
  <1> USE DEF Shape
  <1>0. /\ \A s \in Sessions : st[s] # "fresh" => st'[s] # "fresh" /\ key'[s] = key[s] /\ key[s] \in Runners \X Clients
        /\ \A s \in Sessions : st'[s] # "fresh" /\ st[s] = "fresh" => key'[s] \in Runners \X Clients
    BY KeyKept
  <1>1. ASSUME NEW s \in Sessions
        PROVE  IF st'[s] = "fresh" THEN Unused(s)' ELSE key'[s] \in Runners \X Clients
    BY <1>0, UnusedStep
  <1>2. ASSUME NEW r \in Runners, loop'[r].at \in {"payload", "push"}
        PROVE  st'[loop'[r].s] # "fresh" /\ key'[loop'[r].s][1] = r /\ ~stale'[loop'[r].s]
    <2> USE DEF At, RunnerOf, runnerVars, uploadVars
    <2>0. loop[r].at \in {"payload", "push"} =>
             /\ loop[r].s \in Sessions /\ st[loop[r].s] # "fresh" /\ key[loop[r].s][1] = r /\ ~stale[loop[r].s]
             /\ st'[loop[r].s] # "fresh" /\ key'[loop[r].s] = key[loop[r].s]
      BY <1>0, LoopCases DEF KeyInv
    <2> DEFINE Kept == loop'[r] = loop[r] /\ (loop[r].at \in {"payload", "push"} => ~stale'[loop[r].s])
    <2>1. ASSUME Kept PROVE st'[loop'[r].s] # "fresh" /\ key'[loop'[r].s][1] = r /\ ~stale'[loop'[r].s]
      BY <1>2, <2>0, <2>1
    <2>2. ASSUME NEW q \in Runners, Loop(q) \/ \E c \in Clients, n \in Sizes : Receive(q, c, n), q # r PROVE Kept
      <3>1. loop'[r] = loop[r]
        BY <2>2 DEF Loop, HandleKnown, HandleNew, Refuse, Acquire, DialFails, Open, WriteNow, WriteNowFails,
                    DropForBytes, Account, Push, PushFails, LoopExits, Receive
      <3>2. \A t \in Sessions : ~stale[t] => ~stale'[t]
        BY <2>2 DEF Loop, HandleKnown, HandleNew, Refuse, Acquire, DialFails, Open, WriteNow, WriteNowFails,
                    DropForBytes, Account, Push, PushFails, LoopExits, Receive
      <3> QED
        BY <2>0, <3>1, <3>2
    <2>3. ASSUME NEW s \in Sessions, HandleKnown(r, s)
          PROVE st'[loop'[r].s] # "fresh" /\ key'[loop'[r].s][1] = r /\ ~stale'[loop'[r].s]
      BY <2>3 DEF HandleKnown, OpenOf
    <2>4. ASSUME NEW s \in Sessions, Open(r, s)
          PROVE st'[loop'[r].s] # "fresh" /\ key'[loop'[r].s][1] = r /\ ~stale'[loop'[r].s]
      BY <2>4 DEF Open, KeyInv
    <2>5. CASE Account(r)
      <3>1. loop[r].at = "payload" /\ stale' = stale /\ loop' = [loop EXCEPT ![r].at = "push"]
        BY <2>5 DEF Account
      <3>2. loop[r] \in Payload
        BY <3>1, LoopCases
      <3>3. loop'[r].s = loop[r].s
        BY <3>1, <3>2 DEF Payload
      <3> QED
        BY <2>0, <3>1, <3>3
    <2>6. ASSUME \/ Refuse(r) \/ DialFails(r) \/ WriteNow(r) \/ WriteNowFails(r) \/ DropForBytes(r)
                 \/ Push(r) \/ PushFails(r) \/ LoopExits(r)
          PROVE  FALSE
      BY <1>2, <2>6 DEF Refuse, DialFails, WriteNow, WriteNowFails, DropForBytes, Push, PushFails, LoopExits
    <2>7. ASSUME HandleNew(r) \/ Acquire(r) PROVE FALSE
      <3>1. loop[r] \in Datagram
        BY <2>7, LoopCases DEF HandleNew, Acquire
      <3>2. loop'[r].at \in {"admit", "dial"}
        BY <2>7, <3>1 DEF HandleNew, Acquire, Datagram
      <3> QED
        BY <1>2, <3>2
    <2>8. ASSUME NEW c \in Clients, NEW n \in Sizes, Receive(r, c, n) PROVE FALSE
      BY <1>2, <2>8 DEF Receive
    <2>9. ASSUME NEW s \in Sessions, Upload(s) PROVE Kept
      <3>1. loop' = loop
        BY <2>9 DEF Upload, TakePacket, QuotaRejects, Sent, SentDone, SendFails, UploaderRemoves, UploaderDone, Drain
      <3>2. \A t \in Sessions : ~stale[t] => ~stale'[t]
        BY <2>9 DEF Upload, TakePacket, QuotaRejects, Sent, SentDone, SendFails, UploaderRemoves, UploaderDone, Drain
      <3> QED
        BY <2>0, <3>1, <3>2
    <2>10. ASSUME NEW s \in Sessions, Download(s) PROVE Kept
      <3>1. loop' = loop
        BY <2>10 DEF Download, Reply, Relayed, RelayedDone, ReplyRejected, RelayFails, ReadFails, ReaderRemoves
      <3>2. \A t \in Sessions : ~stale[t] => ~stale'[t]
        BY <2>10 DEF Download, Reply, Relayed, RelayedDone, ReplyRejected, RelayFails, ReadFails, ReaderRemoves
      <3> QED
        BY <2>0, <3>1, <3>2
    <2>11. ASSUME NEW s \in Sessions, GoesIdle(s) PROVE Kept
      BY <2>0, <2>11 DEF GoesIdle
    <2>12. ASSUME NEW q \in Runners, SweepStarts(q) \/ SweepEnds(q) \/ Stop(q) \/ StopCloses(q) \/ StopReturns(q) \/ Sweep(q)
           PROVE  UNCHANGED <<loop, stale>>
      BY <2>12 DEF SweepStarts, SweepEnds, Stop, StopCloses, StopReturns, Sweep, SweepWork, SweepSeen
    <2>13. ASSUME (\E n \in Limits : SetUDPMaxSessions(n)) \/ UNCHANGED vars PROVE UNCHANGED <<loop, stale>>
      BY <2>13 DEF SetUDPMaxSessions, vars
    <2>14. ASSUME UNCHANGED <<loop, stale>> PROVE Kept
      BY <2>0, <2>14
    <2>15. ASSUME Loop(r)
           PROVE st'[loop'[r].s] # "fresh" /\ key'[loop'[r].s][1] = r /\ ~stale'[loop'[r].s]
      BY <2>3, <2>4, <2>5, <2>6, <2>7, <2>15, Zenon DEF Loop
    <2>16. Kept \/ Loop(r)
      <3> HIDE DEF Kept, Shape
      <3> QED
        BY <2>2, <2>8, <2>9, <2>10, <2>11, <2>12, <2>13, <2>14, Zenon DEF Next
    <2> QED
      BY <2>1, <2>15, <2>16, Zenon
  <1>3. ASSUME NEW s \in Sessions
        PROVE  IF st'[s] = "fresh" THEN up'[s] = "none" /\ down'[s] = "none" /\ queue'[s] = <<>> /\ ~stale'[s]
               ELSE key'[s] \in Runners \X Clients
    BY <1>1 DEF Unused
  <1> QED
    BY <1>2, <1>3, Zenon DEF KeyInv, RunnerOf

(* runner.mu is held by the one that took it.                                *)
LEMMA LockStep ==
    ASSUME Shape, LockInv, SweepInv, [Next]_vars
    PROVE  LockInv'
  <1> USE DEF Shape, At, LockInv
  <1>1. ASSUME NEW r \in Runners, Loop(r) \/ \E c \in Clients, n \in Sizes : Receive(r, c, n) PROVE LockInv'
    <2>0. sweep' = sweep /\ \A q \in Runners \ {r} : loop'[q] = loop[q] /\ mu'[q] = mu[q]
      BY <1>1 DEF Loop, HandleKnown, HandleNew, Refuse, Acquire, DialFails, Open, WriteNow, WriteNowFails,
                  DropForBytes, Account, Push, PushFails, LoopExits, Receive
    <2> DEFINE Mine == (mu'[r] = "loop" <=> loop'[r].at \in {"admit", "dial"}) /\ (mu'[r] = "sweep" <=> sweep'[r] # None)
    <2>1. ASSUME NEW c \in Clients, NEW n \in Sizes, Receive(r, c, n) PROVE Mine
      BY <2>1 DEF Receive
    <2>2. ASSUME NEW s \in Sessions, HandleKnown(r, s) PROVE Mine
      BY <2>2 DEF HandleKnown
    <2>3. ASSUME HandleNew(r) PROVE Mine
      <3>1. loop[r] \in Datagram
        BY <2>3, LoopCases DEF HandleNew
      <3> QED
        BY <2>3, <3>1 DEF HandleNew, Free, Datagram
    <2>4. ASSUME Acquire(r) PROVE Mine
      <3>1. loop[r] \in Datagram
        BY <2>4, LoopCases DEF Acquire
      <3> QED
        BY <2>4, <3>1 DEF Acquire, Datagram
    <2>5. ASSUME Account(r) PROVE Mine
      <3>1. loop[r] \in Payload
        BY <2>5, LoopCases DEF Account
      <3> QED
        BY <2>5, <3>1 DEF Account, Payload
    <2>6. ASSUME Refuse(r) PROVE Mine
      BY <2>6 DEF Refuse
    <2>7. ASSUME DialFails(r) PROVE Mine
      BY <2>7 DEF DialFails
    <2>8. ASSUME NEW s \in Sessions, Open(r, s) PROVE Mine
      BY <2>8 DEF Open
    <2>9. ASSUME WriteNow(r) \/ WriteNowFails(r) \/ DropForBytes(r) PROVE Mine
      <3>1. UNCHANGED <<mu, sweep>> /\ loop[r].at = "payload" /\ loop'[r].at = "recv"
        BY <2>9 DEF WriteNow, WriteNowFails, DropForBytes
      <3> QED
        BY <3>1
    <2>10. ASSUME Push(r) \/ PushFails(r) \/ LoopExits(r) PROVE Mine
      <3>1. UNCHANGED <<mu, sweep>> /\ loop[r].at \in {"push", "recv"} /\ loop'[r].at \in {"recv", "exited"}
        BY <2>10 DEF Push, PushFails, LoopExits
      <3> QED
        BY <3>1
    <2>11. Mine
      <3> HIDE DEF Mine
      <3> QED
        BY <1>1, <2>1, <2>2, <2>3, <2>4, <2>5, <2>6, <2>7, <2>8, <2>9, <2>10 DEF Loop
    <2>12. ASSUME NEW q \in Runners
           PROVE  (mu'[q] = "loop" <=> loop'[q].at \in {"admit", "dial"}) /\ (mu'[q] = "sweep" <=> sweep'[q] # None)
      <3>1. CASE q = r
        BY <2>11, <3>1
      <3>2. CASE q # r
        BY <2>0, <3>2
      <3> QED
        BY <3>1, <3>2
    <2> HIDE DEF Mine
    <2> QED
      BY <2>12
  <1>2. ASSUME NEW r \in Runners, SweepStarts(r) PROVE LockInv'
    <2>1. [todo |-> OpenOf(r), idle |-> {}] # None
      BY UDPAssumption DEF OpenOf
    <2> QED
      BY <1>2, <2>1 DEF SweepStarts, Free
  <1>3. ASSUME NEW r \in Runners, SweepEnds(r) PROVE LockInv'
    BY <1>3 DEF SweepEnds
  <1>4. ASSUME NEW r \in Runners, NEW s \in Sessions, SweepWork(r, s) PROVE LockInv'
    <2>1. sweep[r] \in [todo : SUBSET Sessions, idle : SUBSET Sessions]
      BY <1>4 DEF SweepWork, SweepInv
    <2>2. \A T, I \in SUBSET Sessions : [todo |-> T, idle |-> I] # None
      BY UDPAssumption
    <2>3. [todo |-> sweep[r].todo \ {s}, idle |-> IF hasWork(s) THEN {} ELSE {s}] # None
      BY <2>1, <2>2
    <2> QED
      BY <1>4, <2>3 DEF SweepWork
  <1>5. ASSUME NEW r \in Runners, NEW s \in Sessions, SweepSeen(r, s) PROVE LockInv'
    <2>1. sweep[r] \in [todo : SUBSET Sessions, idle : SUBSET Sessions]
      BY <1>5 DEF SweepSeen, SweepInv
    <2>2. [sweep[r] EXCEPT !.idle = {}] \in [todo : SUBSET Sessions, idle : SUBSET Sessions]
      BY <2>1
    <2>3. [sweep[r] EXCEPT !.idle = {}] # None
      BY <2>2, UDPAssumption
    <2> QED
      BY <1>5, <2>3 DEF SweepSeen
  <1>6. ASSUME NEW r \in Runners, Stop(r) \/ StopCloses(r) \/ StopReturns(r) PROVE UNCHANGED <<mu, loop, sweep>>
    BY <1>6 DEF Stop, StopCloses, StopReturns
  <1>7. ASSUME NEW s \in Sessions, Upload(s) \/ Download(s) \/ GoesIdle(s) PROVE UNCHANGED <<mu, loop, sweep>>
    BY <1>7 DEF Upload, TakePacket, QuotaRejects, Sent, SentDone, SendFails, UploaderRemoves, UploaderDone, Drain,
                Download, Reply, Relayed, RelayedDone, ReplyRejected, RelayFails, ReadFails, ReaderRemoves, GoesIdle, runnerVars
  <1>8. ASSUME (\E n \in Limits : SetUDPMaxSessions(n)) \/ UNCHANGED vars PROVE UNCHANGED <<mu, loop, sweep>>
    BY <1>8 DEF SetUDPMaxSessions, vars, runnerVars
  <1>9. ASSUME UNCHANGED <<mu, loop, sweep>> PROVE LockInv'
    BY <1>9
  <1> QED
    BY <1>1, <1>2, <1>3, <1>4, <1>5, <1>6, <1>7, <1>8, <1>9 DEF Next, Sweep

-----------------------------------------------------------------------------
(* What the goroutines of a session have in their hands. *)

(* A datagram in a queue has a size, and the queue behind it is a queue.     *)
LEMMA QueueHead ==
    ASSUME Shape, NEW s \in Sessions, queue[s] # <<>>
    PROVE  Head(queue[s]) \in Sizes /\ Tail(queue[s]) \in Seq(Sizes)
  <1>1. queue[s] \in Seq(Sizes)
    BY DEF Shape
  <1> QED
    BY <1>1

(* The uploader's hand is full exactly while it sends.                       *)
LEMMA HandStep ==
    ASSUME Shape, KeyInv, HandInv, [Next]_vars
    PROVE  HandInv'
  <1> USE DEF Shape, HandInv
  <1>1. ASSUME NEW s \in Sessions, Upload(s) PROVE HandInv'
    <2> DEFINE Mine == IF up'[s] \in {"sending", "sent"} THEN hand'[s] \in Sizes ELSE hand'[s] = 0
    <2>0. \A t \in Sessions \ {s} : up'[t] = up[t] /\ hand'[t] = hand[t]
      BY <1>1 DEF Upload, TakePacket, QuotaRejects, Sent, SentDone, SendFails, UploaderRemoves, UploaderDone, Drain, PutDown
    <2>1. ASSUME TakePacket(s) PROVE Mine
      BY <2>1, QueueHead DEF TakePacket
    <2>2. ASSUME QuotaRejects(s) \/ SentDone(s) \/ SendFails(s) \/ UploaderDone(s) PROVE Mine
      BY <2>2 DEF QuotaRejects, SentDone, SendFails, UploaderDone, PutDown
    <2>3. ASSUME Sent(s) \/ UploaderRemoves(s) PROVE Mine
      BY <2>3 DEF Sent, UploaderRemoves
    <2>4. ASSUME Drain(s) PROVE Mine
      BY <2>4 DEF Drain
    <2>5. Mine
      <3> HIDE DEF Mine
      <3> QED
        BY <1>1, <2>1, <2>2, <2>3, <2>4 DEF Upload
    <2>6. ASSUME NEW t \in Sessions
          PROVE  IF up'[t] \in {"sending", "sent"} THEN hand'[t] \in Sizes ELSE hand'[t] = 0
      BY <2>0, <2>5
    <2> QED
      BY <2>6
  <1>2. ASSUME NEW r \in Runners, NEW s \in Sessions, Open(r, s) PROVE HandInv'
    <2>1. up[s] = "none" /\ hand[s] = 0
      BY <1>2 DEF Open, KeyInv
    <2>2. up'[s] \in {"waiting", "none"} /\ hand' = hand /\ \A t \in Sessions \ {s} : up'[t] = up[t]
      BY <1>2 DEF Open
    <2> QED
      BY <2>1, <2>2
  <1>3. ASSUME NEW r \in Runners, Loop(r), ~ \E s \in Sessions : Open(r, s) PROVE UNCHANGED <<up, hand>>
    BY <1>3 DEF Loop, HandleKnown, HandleNew, Refuse, Acquire, DialFails, WriteNow, WriteNowFails,
                DropForBytes, Account, Push, PushFails, LoopExits, uploadVars
  <1>4. ASSUME NEW s \in Sessions, Download(s) \/ GoesIdle(s) PROVE UNCHANGED <<up, hand>>
    BY <1>4 DEF Download, Reply, Relayed, RelayedDone, ReplyRejected, RelayFails, ReadFails, ReaderRemoves, GoesIdle, uploadVars
  <1>5. ASSUME NEW r \in Runners, SweepStarts(r) \/ SweepEnds(r) \/ Stop(r) \/ StopCloses(r) \/ StopReturns(r) \/ Sweep(r)
        PROVE  UNCHANGED <<up, hand>>
    BY <1>5 DEF SweepStarts, SweepEnds, Stop, StopCloses, StopReturns, Sweep, SweepWork, SweepSeen, uploadVars
  <1>6. ASSUME \/ \E r \in Runners, c \in Clients, n \in Sizes : Receive(r, c, n)
               \/ \E n \in Limits : SetUDPMaxSessions(n)
               \/ UNCHANGED vars
        PROVE  UNCHANGED <<up, hand>>
    BY <1>6 DEF Receive, SetUDPMaxSessions, vars, uploadVars
  <1>7. ASSUME UNCHANGED <<up, hand>> PROVE HandInv'
    BY <1>7
  <1> QED
    BY <1>1, <1>2, <1>3, <1>4, <1>5, <1>6, <1>7 DEF Next

(* One reply is in the reader's hands while it relays.                       *)
LEMMA PendStep ==
    ASSUME Shape, KeyInv, PendInv, [Next]_vars
    PROVE  PendInv'
  <1> USE DEF Shape, PendInv
  <1>1. ASSUME NEW s \in Sessions, Download(s) PROVE PendInv'
    <2> DEFINE Mine == pend'[s] = IF down'[s] \in {"relaying", "relayed"} THEN 1 ELSE 0
    <2>0. \A t \in Sessions \ {s} : down'[t] = down[t] /\ pend'[t] = pend[t]
      BY <1>1 DEF Download, Reply, Relayed, RelayedDone, ReplyRejected, RelayFails, ReadFails, ReaderRemoves
    <2>1. ASSUME Reply(s) PROVE Mine
      <3>1. pend[s] = 0 /\ pend'[s] = pend[s] + 1 /\ down'[s] = "relaying"
        BY <2>1 DEF Reply
      <3> QED
        BY <3>1
    <2>2. ASSUME RelayedDone(s) PROVE Mine
      BY <2>2 DEF RelayedDone
    <2>3. ASSUME ReplyRejected(s) \/ RelayFails(s) PROVE Mine
      BY <2>3 DEF ReplyRejected, RelayFails
    <2>4. ASSUME Relayed(s) \/ ReadFails(s) \/ ReaderRemoves(s) PROVE Mine
      BY <2>4 DEF Relayed, ReadFails, ReaderRemoves
    <2>5. Mine
      <3> HIDE DEF Mine
      <3> QED
        BY <1>1, <2>1, <2>2, <2>3, <2>4 DEF Download
    <2>6. ASSUME NEW t \in Sessions PROVE pend'[t] = IF down'[t] \in {"relaying", "relayed"} THEN 1 ELSE 0
      BY <2>0, <2>5
    <2> QED
      BY <2>6
  <1>2. ASSUME NEW r \in Runners, NEW s \in Sessions, Open(r, s) PROVE PendInv'
    <2>1. down[s] = "none" /\ pend[s] = 0
      BY <1>2 DEF Open, KeyInv
    <2>2. down'[s] = "reading" /\ pend' = pend /\ \A t \in Sessions \ {s} : down'[t] = down[t]
      BY <1>2 DEF Open
    <2> QED
      BY <2>1, <2>2
  <1>3. ASSUME NEW r \in Runners, Loop(r), ~ \E s \in Sessions : Open(r, s) PROVE UNCHANGED <<down, pend>>
    BY <1>3 DEF Loop, HandleKnown, HandleNew, Refuse, Acquire, DialFails, WriteNow, WriteNowFails,
                DropForBytes, Account, Push, PushFails, LoopExits
  <1>4. ASSUME NEW s \in Sessions, Upload(s) \/ GoesIdle(s) PROVE UNCHANGED <<down, pend>>
    BY <1>4 DEF Upload, TakePacket, QuotaRejects, Sent, SentDone, SendFails, UploaderRemoves, UploaderDone, Drain, GoesIdle
  <1>5. ASSUME NEW r \in Runners, SweepStarts(r) \/ SweepEnds(r) \/ Stop(r) \/ StopCloses(r) \/ StopReturns(r) \/ Sweep(r)
        PROVE  UNCHANGED <<down, pend>>
    BY <1>5 DEF SweepStarts, SweepEnds, Stop, StopCloses, StopReturns, Sweep, SweepWork, SweepSeen
  <1>6. ASSUME \/ \E r \in Runners, c \in Clients, n \in Sizes : Receive(r, c, n)
               \/ \E n \in Limits : SetUDPMaxSessions(n)
               \/ UNCHANGED vars
        PROVE  UNCHANGED <<down, pend>>
    BY <1>6 DEF Receive, SetUDPMaxSessions, vars
  <1>7. ASSUME UNCHANGED <<down, pend>> PROVE PendInv'
    BY <1>7
  <1> QED
    BY <1>1, <1>2, <1>3, <1>4, <1>5, <1>6, <1>7 DEF Next

-----------------------------------------------------------------------------
(* The bytes of a session's queue. *)

(* The parts of queuedBytes are numbers.                                     *)
LEMMA Amounts ==
    ASSUME Shape, KeyInv, HandInv, NEW s \in Sessions
    PROVE  /\ queue[s] \in Seq(Nat) /\ Sum(queue[s]) \in Nat
           /\ hand[s] \in Nat /\ pushing(s) \in Nat
  <1>1. \A n \in Sizes : n \in Nat
    BY UDPAssumption
  <1>2. queue[s] \in Seq(Nat)
    <2>1. queue[s] \in Seq(Sizes)
      BY DEF Shape
    <2> QED
      BY <1>1, <2>1
  <1>3. Sum(queue[s]) \in Nat
    BY <1>2, SumNat
  <1>4. hand[s] \in Nat
    BY <1>1 DEF HandInv
  <1>5. pushing(s) \in Nat
    <2>1. CASE st[s] = "fresh" \/ loop[RunnerOf(s)].at # "push"
      BY <2>1 DEF pushing
    <2>2. CASE st[s] # "fresh" /\ loop[RunnerOf(s)].at = "push"
      <3>1. RunnerOf(s) \in Runners
        BY <2>2 DEF KeyInv, RunnerOf
      <3>2. loop[RunnerOf(s)].n \in Nat
        BY <1>1, <2>2, <3>1, LoopCases
      <3> QED
        BY <3>2 DEF pushing
    <2> QED
      BY <2>1, <2>2
  <1> QED
    BY <1>2, <1>3, <1>4, <1>5

(* A loop that is not pushing, before and after, changes nothing.            *)
LEMMA PushingKept ==
    ASSUME Shape, KeyInv, LockInv, SweepInv, [Next]_vars, NEW s \in Sessions,
           \A r \in Runners : (loop[r].at = "push" /\ loop[r].s = s) \/ (loop'[r].at = "push" /\ loop'[r].s = s)
                                  => loop'[r] = loop[r]
    PROVE  pushing(s)' = pushing(s)
  <1>1. CASE st[s] # "fresh"
    <2>1. st'[s] # "fresh" /\ key'[s] = key[s] /\ key[s][1] \in Runners
      BY <1>1, KeyKept
    <2> QED
      BY <1>1, <2>1 DEF pushing, RunnerOf
  <1>2. CASE st'[s] = "fresh" /\ st[s] = "fresh"
    BY <1>2 DEF pushing
  <1>3. CASE st'[s] # "fresh" /\ st[s] = "fresh"
    <2>1. key'[s][1] \in Runners
      BY <1>3, KeyKept
    <2>2. ~(loop'[key'[s][1]].at = "push" /\ loop'[key'[s][1]].s = s)
      BY <1>3, <2>1 DEF KeyInv
    <2> QED
      BY <1>3, <2>2 DEF pushing, RunnerOf
  <1> QED
    BY <1>1, <1>2, <1>3

(* A queue without bytes is empty: no datagram counts for nothing.           *)
LEMMA EmptySum ==
    ASSUME Shape, KeyInv, HandInv, NEW s \in Sessions, Sum(queue[s]) = 0
    PROVE  queue[s] = <<>>
  <1> SUFFICES ASSUME queue[s] # <<>> PROVE FALSE
    OBVIOUS
  <1>1. Head(queue[s]) \in Sizes /\ queue[s] \in Seq(Nat)
    BY QueueHead, Amounts
  <1>2. Tail(queue[s]) \in Seq(Nat)
    BY <1>1
  <1>3. Sum(Tail(queue[s])) \in Nat /\ Sum(queue[s]) = Head(queue[s]) + Sum(Tail(queue[s]))
    BY <1>1, <1>2, SumNat, SumHeadTail
  <1>4. Head(queue[s]) \in Nat /\ Head(queue[s]) # 0
    BY <1>1, UDPAssumption
  <1> QED
    BY <1>3, <1>4

(* queuedBytes stays what the queue, the uploader and the loop hold.         *)
LEMMA QueuedStep ==
    ASSUME Shape, KeyInv, LockInv, SweepInv, HandInv, QueuedBytesExact, [Next]_vars
    PROVE  QueuedBytesExact'
  <1> DEFINE Exact(s) == queued'[s] = Sum(queue'[s]) + hand'[s] + pushing(s)'
  <1>0. \A s \in Sessions : queued[s] = Sum(queue[s]) + hand[s] + pushing(s)
    BY DEF QueuedBytesExact
  <1>a. \A s \in Sessions : Sum(queue[s]) \in Nat /\ hand[s] \in Nat /\ pushing(s) \in Nat /\ queued[s] \in Nat
    BY <1>0, Amounts
  <1>b. ASSUME NEW s \in Sessions, UNCHANGED <<loop>> PROVE pushing(s)' = pushing(s)
    BY <1>b, PushingKept
  <1>1. ASSUME NEW t \in Sessions, Upload(t), NEW s \in Sessions PROVE Exact(s)
    <2> USE DEF Shape, runnerVars
    <2>0. pushing(s)' = pushing(s)
      <3>1. loop' = loop
        BY <1>1 DEF Upload, TakePacket, QuotaRejects, Sent, SentDone, SendFails, UploaderRemoves, UploaderDone, Drain
      <3> QED
        BY <1>b, <3>1
    <2>1. CASE s # t
      <3>1. queued'[s] = queued[s] /\ queue'[s] = queue[s] /\ hand'[s] = hand[s]
        BY <1>1, <2>1 DEF Upload, TakePacket, QuotaRejects, Sent, SentDone, SendFails, UploaderRemoves,
                          UploaderDone, Drain, PutDown
      <3> QED
        BY <1>0, <2>0, <3>1
    <2>2. CASE s = t
      <3>1. ASSUME queue[s] # <<>>
            PROVE  Sum(queue[s]) = Head(queue[s]) + Sum(Tail(queue[s])) /\ Head(queue[s]) \in Nat /\ Sum(Tail(queue[s])) \in Nat
        <4>1. queue[s] \in Seq(Nat)
          BY Amounts
        <4>2. Head(queue[s]) \in Nat /\ Tail(queue[s]) \in Seq(Nat)
          BY <3>1, <4>1
        <4> QED
          BY <3>1, <4>1, <4>2, SumHeadTail, SumNat
      <3>2. CASE TakePacket(s)
        <4>1. hand[s] = 0
          BY <3>2 DEF TakePacket, HandInv
        <4>2. queue[s] # <<>> /\ queued'[s] = queued[s] /\ hand'[s] = Head(queue[s]) /\ queue'[s] = Tail(queue[s])
          BY <3>2 DEF TakePacket
        <4> QED
          BY <1>0, <1>a, <2>0, <3>1, <4>1, <4>2
      <3>3. CASE QuotaRejects(s) \/ SentDone(s) \/ SendFails(s) \/ UploaderDone(s)
        <4>1. queued'[s] = queued[s] - hand[s] /\ hand'[s] = 0 /\ queue'[s] = queue[s]
          BY <3>3 DEF QuotaRejects, SentDone, SendFails, UploaderDone, PutDown
        <4> QED
          BY <1>0, <1>a, <2>0, <4>1
      <3>4. CASE Sent(s) \/ UploaderRemoves(s) \/ (Drain(s) /\ queue[s] = <<>>)
        <4>1. UNCHANGED <<queued, hand, queue>>
          BY <3>4 DEF Sent, UploaderRemoves, Drain
        <4> QED
          BY <1>0, <2>0, <4>1
      <3>5. CASE Drain(s) /\ queue[s] # <<>>
        <4>1. queued'[s] = queued[s] - Head(queue[s]) /\ hand'[s] = hand[s] /\ queue'[s] = Tail(queue[s])
          BY <3>5 DEF Drain
        <4>2. Sum(queue[s]) = Head(queue[s]) + Sum(queue'[s]) /\ Head(queue[s]) \in Nat /\ Sum(queue'[s]) \in Nat
          BY <3>1, <3>5, <4>1
        <4>3. queued[s] = Sum(queue[s]) + hand[s] + pushing(s) /\ hand[s] \in Nat /\ pushing(s) \in Nat
          BY <1>0, <1>a
        <4> QED
          BY <2>0, <4>1, <4>2, <4>3
      <3> QED
        BY <1>1, <2>2, <3>2, <3>3, <3>4, <3>5 DEF Upload
    <2> QED
      BY <2>1, <2>2
  <1>2. ASSUME NEW r \in Runners, Account(r), NEW s \in Sessions PROVE Exact(s)
    <2>1. /\ loop[r].at = "payload" /\ loop[r] \in Payload /\ loop[r].s \in Sessions /\ loop[r].n \in Nat
          /\ st[loop[r].s] # "fresh" /\ key[loop[r].s][1] = r
      BY <1>2, LoopCases, UDPAssumption DEF Account, At, KeyInv, RunnerOf
    <2>2. /\ loop'[r].at = "push" /\ loop'[r].s = loop[r].s /\ loop'[r].n = loop[r].n
          /\ \A q \in Runners \ {r} : loop'[q] = loop[q]
          /\ UNCHANGED <<queue, hand, st, key>>
      BY <1>2, <2>1 DEF Account, Shape, Payload
    <2>3. CASE s = loop[r].s
      <3>1. queued'[s] = queued[s] + loop[r].n
        BY <1>2, <2>3 DEF Account, Shape
      <3>2. pushing(s) = 0
        BY <2>1, <2>3 DEF pushing, RunnerOf
      <3>3. pushing(s)' = loop[r].n
        BY <2>1, <2>2, <2>3 DEF pushing, RunnerOf
      <3> QED
        BY <1>0, <1>a, <2>1, <2>2, <3>1, <3>2, <3>3
    <2>4. CASE s # loop[r].s
      <3>1. queued'[s] = queued[s]
        BY <1>2, <2>4 DEF Account, Shape
      <3>2. pushing(s)' = pushing(s)
        BY <2>1, <2>2, <2>4, PushingKept
      <3> QED
        BY <1>0, <2>2, <3>1, <3>2
    <2> QED
      BY <2>3, <2>4
  <1>3. ASSUME NEW r \in Runners, Push(r) \/ PushFails(r), NEW s \in Sessions PROVE Exact(s)
    <2>1. /\ loop[r].at = "push" /\ loop[r] \in Payload /\ loop[r].s \in Sessions /\ loop[r].n \in Nat
          /\ st[loop[r].s] # "fresh" /\ key[loop[r].s][1] = r
      BY <1>3, LoopCases, UDPAssumption DEF Push, PushFails, At, KeyInv, RunnerOf
    <2>2. /\ loop'[r] = [at |-> "recv"]
          /\ \A q \in Runners \ {r} : loop'[q] = loop[q]
          /\ UNCHANGED <<hand, st, key>>
      BY <1>3, <2>1 DEF Push, PushFails, Shape
    <2>3. CASE s = loop[r].s
      <3>1. pushing(s) = loop[r].n
        BY <2>1, <2>3 DEF pushing, RunnerOf
      <3>2. pushing(s)' = 0
        BY <2>1, <2>2, <2>3 DEF pushing, RunnerOf
      <3>3. CASE Push(r)
        <4>1. queued'[s] = queued[s] /\ queue'[s] = Append(queue[s], loop[r].n)
          BY <2>3, <3>3 DEF Push, Shape
        <4>2. queue[s] \in Seq(Nat)
          BY Amounts
        <4>3. Sum(queue'[s]) = Sum(queue[s]) + loop[r].n
          BY <2>1, <4>1, <4>2, SumAppend
        <4> QED
          BY <1>0, <1>a, <2>1, <2>2, <3>1, <3>2, <4>1, <4>3
      <3>4. CASE PushFails(r)
        <4>1. queued'[s] = queued[s] - loop[r].n /\ queue'[s] = queue[s]
          BY <2>3, <3>4 DEF PushFails, refundDropped, Shape
        <4> QED
          BY <1>0, <1>a, <2>1, <2>2, <3>1, <3>2, <4>1
      <3> QED
        BY <1>3, <3>3, <3>4
    <2>4. CASE s # loop[r].s
      <3>1. queued'[s] = queued[s] /\ queue'[s] = queue[s]
        BY <1>3, <2>4 DEF Push, PushFails, refundDropped, Shape
      <3>2. loop'[r].at # "push"
        BY <2>2
      <3>3. pushing(s)' = pushing(s)
        BY <2>1, <2>2, <2>4, <3>2, PushingKept
      <3> QED
        BY <1>0, <2>2, <3>1, <3>3
    <2> QED
      BY <2>3, <2>4

  <1>4. ASSUME UNCHANGED <<queue, queued, hand>>, NEW s \in Sessions,
               \A r \in Runners : loop'[r] = loop[r] \/ (loop[r].at # "push" /\ loop'[r].at # "push")
        PROVE  Exact(s)
    <2>1. pushing(s)' = pushing(s)
      BY <1>4, PushingKept
    <2> QED
      BY <1>0, <1>4, <2>1
  <1> DEFINE Quiet == UNCHANGED <<queue, queued, hand>> /\ \A r \in Runners : loop'[r] = loop[r] \/ (loop[r].at # "push" /\ loop'[r].at # "push")
  <1>5. ASSUME NEW r \in Runners, Loop(r) \/ (\E c \in Clients, n \in Sizes : Receive(r, c, n)),
               ~Account(r), ~Push(r), ~PushFails(r)
        PROVE  Quiet
    <2>1. UNCHANGED <<queue, queued, hand>> /\ \A q \in Runners \ {r} : loop'[q] = loop[q]
      BY <1>5 DEF Loop, HandleKnown, HandleNew, Refuse, Acquire, DialFails, Open, WriteNow, WriteNowFails,
                  DropForBytes, LoopExits, Receive, uploadVars, Shape
    <2>2. loop[r].at # "push"
      BY <1>5 DEF Loop, HandleKnown, HandleNew, Refuse, Acquire, DialFails, Open, WriteNow, WriteNowFails,
                  DropForBytes, LoopExits, Receive, At
    <2>3. loop'[r].at # "push"
      <3> USE DEF Shape, At
      <3>1. ASSUME HandleNew(r) \/ Acquire(r) PROVE loop'[r].at # "push"
        <4>1. loop[r] \in Datagram
          BY <3>1, LoopCases DEF HandleNew, Acquire
        <4> QED
          BY <3>1, <4>1 DEF HandleNew, Acquire, Datagram
      <3>2. ASSUME NEW s \in Sessions, HandleKnown(r, s) \/ Open(r, s) PROVE loop'[r].at # "push"
        BY <3>2 DEF HandleKnown, Open
      <3>3. ASSUME Refuse(r) \/ DialFails(r) \/ WriteNow(r) \/ WriteNowFails(r) \/ DropForBytes(r) \/ LoopExits(r)
            PROVE  loop'[r].at # "push"
        BY <3>3 DEF Refuse, DialFails, WriteNow, WriteNowFails, DropForBytes, LoopExits
      <3>4. ASSUME NEW c \in Clients, NEW n \in Sizes, Receive(r, c, n) PROVE loop'[r].at # "push"
        BY <3>4 DEF Receive
      <3> QED
        BY <1>5, <3>1, <3>2, <3>3, <3>4 DEF Loop
    <2> QED
      BY <2>1, <2>2, <2>3
  <1>6. ASSUME NEW s \in Sessions, Download(s) \/ GoesIdle(s) PROVE Quiet
    BY <1>6 DEF Download, Reply, Relayed, RelayedDone, ReplyRejected, RelayFails, ReadFails, ReaderRemoves, GoesIdle, runnerVars, uploadVars
  <1>7. ASSUME NEW r \in Runners, SweepStarts(r) \/ SweepEnds(r) \/ Stop(r) \/ StopCloses(r) \/ StopReturns(r) \/ Sweep(r)
        PROVE  Quiet
    BY <1>7 DEF SweepStarts, SweepEnds, Stop, StopCloses, StopReturns, Sweep, SweepWork, SweepSeen, uploadVars
  <1>8. ASSUME (\E n \in Limits : SetUDPMaxSessions(n)) \/ UNCHANGED vars PROVE Quiet
    BY <1>8 DEF SetUDPMaxSessions, vars, runnerVars, uploadVars
  <1>9. ASSUME Quiet, NEW s \in Sessions PROVE Exact(s)
    BY <1>4, <1>9
  <1>10. ASSUME NEW s \in Sessions PROVE Exact(s)
    <2> HIDE DEF Quiet, Exact
    <2> QED
      BY <1>1, <1>2, <1>3, <1>5, <1>6, <1>7, <1>8, <1>9, Zenon DEF Next
  <1> QED
    BY <1>10 DEF QueuedBytesExact

(* A session's queue keeps to its capacity and to its bytes.                 *)
LEMMA BoundStep ==
    ASSUME Shape, KeyInv, HandInv, QueuedBytesExact, BoundInv, [Next]_vars
    PROVE  BoundInv'
  <1> USE DEF Shape, BoundInv
  <1>1. ASSUME NEW s \in Sessions, Upload(s) PROVE BoundInv'
    <2>1. \A t \in Sessions \ {s} : queue'[t] = queue[t] /\ queued'[t] = queued[t]
      BY <1>1 DEF Upload, TakePacket, QuotaRejects, Sent, SentDone, SendFails, UploaderRemoves,
                  UploaderDone, Drain, PutDown
    <2>2. hand[s] \in Nat
      BY Amounts
    <2>3. queue[s] # <<>> => Head(queue[s]) \in Nat /\ Len(Tail(queue[s])) <= QueueCap
      <3>1. ASSUME queue[s] # <<>> PROVE Len(Tail(queue[s])) <= Len(queue[s]) /\ Len(Tail(queue[s])) \in Nat /\ Len(queue[s]) \in Nat
        BY <3>1
      <3>2. ASSUME queue[s] # <<>> PROVE Head(queue[s]) \in Nat
        BY <3>2, QueueHead, UDPAssumption
      <3> QED
        BY <3>1, <3>2, UDPAssumption
    <2>4. queue'[s] = queue[s] \/ (queue[s] # <<>> /\ queue'[s] = Tail(queue[s]))
      BY <1>1 DEF Upload, TakePacket, QuotaRejects, Sent, SentDone, SendFails, UploaderRemoves,
                  UploaderDone, Drain
    <2>5. queued'[s] = queued[s] \/ queued'[s] = queued[s] - hand[s]
             \/ (queue[s] # <<>> /\ queued'[s] = queued[s] - Head(queue[s]))
      BY <1>1 DEF Upload, TakePacket, QuotaRejects, Sent, SentDone, SendFails, UploaderRemoves,
                  UploaderDone, Drain, PutDown
    <2>6. queued'[s] <= QueueBytes
      BY <2>2, <2>3, <2>5, UDPAssumption
    <2>7. Len(queue'[s]) <= QueueCap
      BY <2>3, <2>4
    <2> QED
      BY <2>1, <2>6, <2>7
  <1>2. ASSUME NEW r \in Runners, Account(r) PROVE BoundInv'
    BY <1>2, LoopCases DEF Account, At, fits
  <1>3. ASSUME NEW r \in Runners, Push(r) PROVE BoundInv'
    <2>1. loop[r].s \in Sessions /\ loop[r].n \in Sizes
      BY <1>3, LoopCases DEF Push, At
    <2>2. queue[loop[r].s] \in Seq(Sizes)
      BY <2>1
    <2>3. Len(Append(queue[loop[r].s], loop[r].n)) = Len(queue[loop[r].s]) + 1 /\ Len(queue[loop[r].s]) \in Nat
      BY <2>1, <2>2
    <2>4. Len(Append(queue[loop[r].s], loop[r].n)) <= QueueCap
      BY <1>3, <2>3, UDPAssumption DEF Push
    <2> QED
      BY <1>3, <2>1, <2>4 DEF Push
  <1>4. ASSUME NEW r \in Runners, PushFails(r) PROVE BoundInv'
    <2>1. loop[r].s \in Sessions /\ loop[r].n \in Nat
      BY <1>4, LoopCases, UDPAssumption DEF PushFails, At
    <2>2. queue' = queue /\ queued' = [queued EXCEPT ![loop[r].s] = queued[loop[r].s] - loop[r].n]
      BY <1>4 DEF PushFails, refundDropped
    <2>3. queued[loop[r].s] - loop[r].n <= QueueBytes
      BY <2>1, UDPAssumption
    <2> QED
      BY <2>1, <2>2, <2>3
  <1>5. ASSUME NEW r \in Runners, Loop(r) \/ (\E c \in Clients, n \in Sizes : Receive(r, c, n)),
               ~Account(r), ~Push(r), ~PushFails(r)
        PROVE  UNCHANGED <<queue, queued>>
    BY <1>5 DEF Loop, HandleKnown, HandleNew, Refuse, Acquire, DialFails, Open, WriteNow, WriteNowFails,
                DropForBytes, LoopExits, Receive, uploadVars
  <1>6. ASSUME NEW s \in Sessions, Download(s) \/ GoesIdle(s) PROVE UNCHANGED <<queue, queued>>
    BY <1>6 DEF Download, Reply, Relayed, RelayedDone, ReplyRejected, RelayFails, ReadFails, ReaderRemoves, GoesIdle, uploadVars
  <1>7. ASSUME NEW r \in Runners, SweepStarts(r) \/ SweepEnds(r) \/ Stop(r) \/ StopCloses(r) \/ StopReturns(r) \/ Sweep(r)
        PROVE  UNCHANGED <<queue, queued>>
    BY <1>7 DEF SweepStarts, SweepEnds, Stop, StopCloses, StopReturns, Sweep, SweepWork, SweepSeen, uploadVars
  <1>8. ASSUME (\E n \in Limits : SetUDPMaxSessions(n)) \/ UNCHANGED vars PROVE UNCHANGED <<queue, queued>>
    BY <1>8 DEF SetUDPMaxSessions, vars, uploadVars
  <1>9. ASSUME UNCHANGED <<queue, queued>> PROVE BoundInv'
    BY <1>9
  <1> QED
    BY <1>1, <1>2, <1>3, <1>4, <1>5, <1>6, <1>7, <1>8, <1>9 DEF Next

-----------------------------------------------------------------------------
(* The idle sweep. *)

(* What the sweep found idle and stale has nothing queued: nothing is queued *)
(* for a stale session, and nobody goes idle during a sweep.                 *)
LEMMA SweepStep ==
    ASSUME Shape, KeyInv, LockInv, SweepInv, HandInv, QueuedBytesExact, [Next]_vars
    PROVE  SweepInv'
  <1> USE DEF Shape
  <1>0. \A s \in Sessions : st[s] # "fresh" => st'[s] # "fresh" /\ key'[s] = key[s]
    BY KeyKept
  <1>a. \A s \in Sessions : queued[s] \in Nat /\ hand[s] \in Nat
    BY Amounts DEF QueuedBytesExact
  (* A step that leaves the sweeps alone. *)
  <1>1. ASSUME UNCHANGED sweep,
               \A r \in Runners, s \in Sessions :
                   sweep[r] # None /\ s \in sweep[r].idle /\ stale'[s] /\ (stale[s] => queued[s] = 0) => queued'[s] = 0
        PROVE  SweepInv'
    BY <1>0, <1>1 DEF SweepInv, RunnerOf
  <1> DEFINE Calm == \A s \in Sessions : (stale'[s] => stale[s]) /\ (stale[s] /\ queued[s] = 0 => queued'[s] = 0)
  <1>2. ASSUME UNCHANGED sweep, Calm PROVE SweepInv'
    BY <1>0, <1>2 DEF SweepInv, RunnerOf
  <1>3. ASSUME NEW r \in Runners, Loop(r) \/ (\E c \in Clients, n \in Sizes : Receive(r, c, n)) PROVE UNCHANGED sweep /\ Calm
    <2> USE DEF uploadVars
    <2>1. ASSUME Account(r) \/ PushFails(r) PROVE UNCHANGED sweep /\ Calm
      <3>1. loop[r].s \in Sessions /\ ~stale[loop[r].s]
        BY <2>1, LoopCases DEF Account, PushFails, At, KeyInv
      <3>2. UNCHANGED <<stale, sweep>> /\ \A s \in Sessions \ {loop[r].s} : queued'[s] = queued[s]
        BY <2>1 DEF Account, PushFails, refundDropped
      <3> QED
        BY <3>1, <3>2
    <2>2. ASSUME ~(Account(r) \/ PushFails(r)) PROVE UNCHANGED sweep /\ Calm
      BY <1>3, <2>2 DEF Loop, HandleKnown, HandleNew, Refuse, Acquire, DialFails, Open, WriteNow, WriteNowFails,
                  DropForBytes, Push, LoopExits, Receive
    <2> QED
      BY <2>1, <2>2
  <1>4. ASSUME NEW s \in Sessions, Upload(s) PROVE UNCHANGED sweep /\ Calm
    <2>1. /\ UNCHANGED sweep
          /\ \A t \in Sessions : stale'[t] => stale[t]
          /\ \A t \in Sessions \ {s} : queued'[t] = queued[t]
      BY <1>4 DEF Upload, TakePacket, QuotaRejects, Sent, SentDone, SendFails, UploaderRemoves,
                  UploaderDone, Drain, PutDown, runnerVars
    <2>2. queued'[s] = queued[s] \/ queued'[s] = queued[s] - hand[s]
             \/ (queue[s] # <<>> /\ queued'[s] = queued[s] - Head(queue[s]))
      BY <1>4 DEF Upload, TakePacket, QuotaRejects, Sent, SentDone, SendFails, UploaderRemoves,
                  UploaderDone, Drain, PutDown
    <2>3. queued[s] = Sum(queue[s]) + hand[s] + pushing(s) /\ Sum(queue[s]) \in Nat /\ hand[s] \in Nat /\ pushing(s) \in Nat
      BY Amounts DEF QueuedBytesExact
    <2>4. ASSUME queue[s] # <<>> PROVE Sum(queue[s]) # 0
      BY <2>4, EmptySum
    <2>5. queued[s] = 0 => queued'[s] = 0
      BY <2>2, <2>3, <2>4
    <2> QED
      BY <2>1, <2>5
  <1>5. ASSUME NEW s \in Sessions, Download(s) PROVE UNCHANGED sweep /\ Calm
    BY <1>5 DEF Download, Reply, Relayed, RelayedDone, ReplyRejected, RelayFails, ReadFails, ReaderRemoves, runnerVars, uploadVars
  <1>6. ASSUME NEW s \in Sessions, GoesIdle(s) PROVE SweepInv'
    <2>1. sweep[key[s][1]] = None /\ UNCHANGED <<sweep, queued>> /\ \A t \in Sessions \ {s} : stale'[t] = stale[t]
      BY <1>6 DEF GoesIdle, runnerVars, uploadVars, RunnerOf
    <2>2. \A r \in Runners : sweep[r] # None => s \notin sweep[r].idle
      BY <2>1 DEF SweepInv, RunnerOf
    <2>3. ASSUME NEW r \in Runners, NEW t \in Sessions, sweep[r] # None, t \in sweep[r].idle, stale'[t],
                 stale[t] => queued[t] = 0
          PROVE  queued'[t] = 0
      <3>1. t # s
        BY <2>2, <2>3
      <3>2. stale[t]
        BY <2>1, <2>3, <3>1, Zenon
      <3> QED
        BY <2>1, <2>3, <3>2
    <2>4. UNCHANGED sweep
      BY <2>1
    <2> QED
      BY <1>1, <2>3, <2>4, Zenon
  <1>7. ASSUME NEW r \in Runners, SweepStarts(r) PROVE SweepInv'
    <2>1. /\ sweep' = [sweep EXCEPT ![r] = [todo |-> OpenOf(r), idle |-> {}]]
          /\ UNCHANGED <<st, key, queued, stale>>
      BY <1>7 DEF SweepStarts, uploadVars
    <2>2. OpenOf(r) \in SUBSET Sessions /\ \A s \in OpenOf(r) : st[s] # "fresh" /\ key[s][1] = r
      BY DEF OpenOf, RunnerOf
    <2> QED
      BY <2>1, <2>2 DEF SweepInv, RunnerOf
  <1>8. ASSUME NEW r \in Runners, SweepEnds(r) PROVE SweepInv'
    BY <1>8 DEF SweepEnds, SweepInv, RunnerOf, uploadVars
  <1>9. ASSUME NEW r \in Runners, NEW s \in Sessions, SweepWork(r, s) PROVE SweepInv'
    <2>1. /\ sweep' = [sweep EXCEPT ![r] = [todo |-> sweep[r].todo \ {s}, idle |-> IF hasWork(s) THEN {} ELSE {s}]]
          /\ UNCHANGED <<st, key, queued, stale>> /\ s \in sweep[r].todo /\ sweep[r] # None
      BY <1>9 DEF SweepWork, uploadVars, LockInv
    <2>2. ~hasWork(s) => queued[s] = 0
      BY <1>a DEF hasWork
    <2>3. /\ sweep[r].todo \in SUBSET Sessions
          /\ \A t \in sweep[r].todo : st[t] # "fresh" /\ key[t][1] = r
      BY <2>1 DEF SweepInv, RunnerOf
    <2> DEFINE new == [todo |-> sweep[r].todo \ {s}, idle |-> IF hasWork(s) THEN {} ELSE {s}]
    <2>4. /\ new \in [todo : SUBSET Sessions, idle : SUBSET Sessions]
          /\ \A t \in new.todo \cup new.idle : st[t] # "fresh" /\ key[t][1] = r
          /\ \A t \in new.idle : queued[t] = 0
      BY <2>1, <2>2, <2>3
    <2>5. sweep'[r] = new /\ \A q \in Runners \ {r} : sweep'[q] = sweep[q]
      BY <2>1
    <2> HIDE DEF new
    <2> QED
      BY <2>1, <2>4, <2>5 DEF SweepInv, RunnerOf
  <1>10. ASSUME NEW r \in Runners, NEW s \in Sessions, SweepSeen(r, s) PROVE SweepInv'
    <2>1. /\ sweep' = [sweep EXCEPT ![r].idle = {}]
          /\ UNCHANGED <<key, queued, stale>> /\ sweep[r] # None
      BY <1>10 DEF SweepSeen, uploadVars, LockInv
    <2>2. /\ sweep[r] \in [todo : SUBSET Sessions, idle : SUBSET Sessions]
          /\ \A t \in sweep[r].todo : t \in Sessions /\ st'[t] # "fresh" /\ key[t][1] = r
      BY <1>0, <2>1 DEF SweepInv, RunnerOf
    <2> DEFINE new == [sweep[r] EXCEPT !.idle = {}]
    <2>3. new \in [todo : SUBSET Sessions, idle : SUBSET Sessions] /\ new.todo = sweep[r].todo /\ new.idle = {}
      BY <2>2
    <2>4. sweep'[r] = new /\ \A q \in Runners \ {r} : sweep'[q] = sweep[q]
      BY <2>1
    <2> HIDE DEF new
    <2>5. ASSUME NEW q \in Runners \ {r}, sweep[q] # None
          PROVE  /\ sweep[q] \in [todo : SUBSET Sessions, idle : SUBSET Sessions]
                 /\ \A t \in sweep[q].todo \cup sweep[q].idle : st'[t] # "fresh" /\ key'[t][1] = q
                 /\ \A t \in sweep[q].idle : stale'[t] => queued'[t] = 0
      BY <1>0, <2>1, <2>5 DEF SweepInv, RunnerOf
    <2> QED
      BY <2>1, <2>2, <2>3, <2>4, <2>5 DEF SweepInv, RunnerOf
  <1>11. ASSUME NEW r \in Runners, Stop(r) \/ StopCloses(r) \/ StopReturns(r) PROVE UNCHANGED sweep /\ Calm
    BY <1>11 DEF Stop, StopCloses, StopReturns, uploadVars
  <1>12. ASSUME (\E n \in Limits : SetUDPMaxSessions(n)) \/ UNCHANGED vars PROVE UNCHANGED sweep /\ Calm
    BY <1>12 DEF SetUDPMaxSessions, vars, runnerVars, uploadVars
  <1> HIDE DEF Calm, Shape
  <1> QED
    BY <1>2, <1>3, <1>4, <1>5, <1>6, <1>7, <1>8, <1>9, <1>10, <1>11, <1>12, Zenon DEF Next, Sweep

-----------------------------------------------------------------------------
(* The session table and the budget. *)

(* A step that closes sessions takes its places back: no runner gains one.   *)
LEMMA OpenKept ==
    ASSUME Shape, KeyInv, LockInv, SweepInv, [Next]_vars,
           ~ \E r \in Runners, s \in Sessions : Open(r, s)
    PROVE  /\ \A s \in Sessions : st'[s] = "open" => st[s] = "open" /\ key'[s] = key[s]
           /\ \A r \in Runners : OpenOf(r)' \subseteq OpenOf(r)
  <1>1. \A s \in Sessions : st'[s] = "open" => st[s] = "open" /\ key'[s] = key[s]
    <2>1. CASE UNCHANGED <<st, key>>
      BY <2>1
    <2>2. CASE UNCHANGED <<key, loop>> /\ \E S \in SUBSET Sessions : Close(S) /\ \A s \in S : st[s] # "fresh"
      BY <2>2, CloseEffect
    <2>3. CASE \E r \in Runners : WriteNowFails(r)
      BY <2>3, CloseEffect DEF WriteNowFails, removed
    <2> QED
      BY <2>1, <2>2, <2>3, StatusStep
  <1> QED
    BY <1>1 DEF OpenOf, RunnerOf

(* Removing elements keeps a set finite and makes it no larger.              *)
LEMMA SmallerSet ==
    ASSUME NEW A, NEW B, B \subseteq A, IsFiniteSet(A), NEW k \in Nat
    PROVE  /\ IsFiniteSet(B) /\ Cardinality(A) \in Nat /\ Cardinality(B) \in Nat
           /\ Cardinality(A) <= k => Cardinality(B) <= k
           /\ Cardinality(A) < k => Cardinality(B) < k
  <1>1. IsFiniteSet(B) /\ Cardinality(B) <= Cardinality(A) /\ Cardinality(A) \in Nat /\ Cardinality(B) \in Nat
    BY FS_Subset, FS_CardinalityType
  <1> QED
    BY <1>1

(* The table holds one session per client, within the rule's limit.          *)
LEMMA TableStep ==
    ASSUME Shape, KeyInv, LockInv, SweepInv, TableInv, [Next]_vars
    PROVE  TableInv'
  <1> USE DEF Shape, At
  <1>0. RuleLimit \in Nat
    BY UDPAssumption
  <1>1. ASSUME NEW r \in Runners, NEW s \in Sessions, Open(r, s) PROVE TableInv'
    <2>1. /\ st[s] = "fresh" /\ loop[r].at = "dial" /\ mu[r] = "loop"
          /\ st' = [st EXCEPT ![s] = "open"] /\ key' = [key EXCEPT ![s] = <<r, loop[r].c>>]
          /\ loop'[r].at = "payload" /\ \A q \in Runners \ {r} : loop'[q] = loop[q]
      BY <1>1 DEF Open, LockInv
    <2>2. \A t \in OpenOf(r) : key[t] # <<r, loop[r].c>>
      BY <2>1 DEF TableInv
    <2>3. \A t \in Sessions \ {s} : st'[t] = st[t] /\ key'[t] = key[t]
      BY <2>1
    <2>4. st'[s] = "open" /\ key'[s] = <<r, loop[r].c>>
      BY <2>1
    <2>5. OpenOf(r)' = OpenOf(r) \cup {s} /\ s \notin OpenOf(r)
      BY <2>1, <2>3, <2>4 DEF OpenOf, RunnerOf
    <2>6. \A q \in Runners \ {r} : OpenOf(q)' = OpenOf(q)
      BY <2>1, <2>3, <2>4 DEF OpenOf, RunnerOf
    <2>7. IsFiniteSet(OpenOf(r)) /\ Cardinality(OpenOf(r)) < RuleLimit
      BY <2>1 DEF TableInv
    <2>8. IsFiniteSet(OpenOf(r)') /\ Cardinality(OpenOf(r)') <= RuleLimit
      <3>1. IsFiniteSet(OpenOf(r)') /\ Cardinality(OpenOf(r)') = Cardinality(OpenOf(r)) + 1
        <4>1. /\ IsFiniteSet(OpenOf(r) \cup {s})
              /\ Cardinality(OpenOf(r) \cup {s}) = IF s \in OpenOf(r) THEN Cardinality(OpenOf(r)) ELSE Cardinality(OpenOf(r)) + 1
          BY <2>7, FS_AddElement, Zenon
        <4> QED
          BY <2>5, <4>1
      <3>2. Cardinality(OpenOf(r)) \in Nat
        BY <2>7, FS_CardinalityType
      <3> QED
        BY <1>0, <2>7, <3>1, <3>2
    <2>9. ASSUME NEW t \in Sessions, NEW u \in Sessions, st'[t] = "open", st'[u] = "open", key'[t] = key'[u]
          PROVE  t = u
      <3>1. CASE t # s /\ u # s
        BY <2>3, <2>9, <3>1 DEF TableInv
      <3>2. ASSUME NEW v \in Sessions \ {s}, st[v] = "open", key[v] = <<r, loop[r].c>> PROVE FALSE
        <4>1. key[v][1] = r
          BY <3>2
        <4>2. v \in OpenOf(r)
          BY <3>2, <4>1 DEF OpenOf, RunnerOf
        <4> QED
          BY <2>2, <3>2, <4>2
      <3>3. CASE t = s /\ u # s
        <4>1. u \in Sessions \ {s} /\ st[u] = "open" /\ key[u] = <<r, loop[r].c>>
          BY <2>3, <2>4, <2>9, <3>3
        <4> QED
          BY <3>2, <4>1
      <3>4. CASE t # s /\ u = s
        <4>1. t \in Sessions \ {s} /\ st[t] = "open" /\ key[t] = <<r, loop[r].c>>
          BY <2>3, <2>4, <2>9, <3>4
        <4> QED
          BY <3>2, <4>1
      <3> QED
        BY <3>1, <3>3, <3>4
    <2>10. ASSUME NEW q \in Runners \ {r}
           PROVE  /\ IsFiniteSet(OpenOf(q)') /\ Cardinality(OpenOf(q)') <= RuleLimit
                  /\ loop'[q].at = "dial" => Cardinality(OpenOf(q)') < RuleLimit
                  /\ loop'[q].at \in {"admit", "dial"} => \A t \in OpenOf(q)' : key'[t] # <<q, loop'[q].c>>
      <3>1. \A t \in OpenOf(q) : t \in Sessions \ {s}
        BY <2>1 DEF OpenOf
      <3>2. loop'[q] = loop[q] /\ OpenOf(q)' = OpenOf(q) /\ \A t \in OpenOf(q) : key'[t] = key[t]
        BY <2>1, <2>3, <2>6, <3>1
      <3>3. /\ IsFiniteSet(OpenOf(q)) /\ Cardinality(OpenOf(q)) <= RuleLimit
            /\ loop[q].at = "dial" => Cardinality(OpenOf(q)) < RuleLimit
            /\ loop[q].at \in {"admit", "dial"} => \A t \in OpenOf(q) : key[t] # <<q, loop[q].c>>
        BY DEF TableInv
      <3> HIDE DEF Shape
      <3> QED
        BY <3>2, <3>3
    <2>11. \A q \in Runners : IsFiniteSet(OpenOf(q)') /\ Cardinality(OpenOf(q)') <= RuleLimit
      BY <2>8, <2>10
    <2>12. \A q \in Runners : (loop'[q].at = "dial" => Cardinality(OpenOf(q)') < RuleLimit)
      BY <2>1, <2>10
    <2>13. \A q \in Runners : (loop'[q].at \in {"admit", "dial"} => \A t \in OpenOf(q)' : key'[t] # <<q, loop'[q].c>>)
      BY <2>1, <2>10
    <2> QED
      BY <2>9, <2>11, <2>12, <2>13 DEF TableInv
  <1>2. ASSUME ~ \E r \in Runners, s \in Sessions : Open(r, s) PROVE TableInv'
    <2>1. \A s \in Sessions : st'[s] = "open" => st[s] = "open" /\ key'[s] = key[s]
      BY <1>2, OpenKept
    <2>2. \A r \in Runners : OpenOf(r)' \subseteq OpenOf(r)
      BY <1>2, OpenKept
    <2>3. \A s, t \in Sessions : st'[s] = "open" /\ st'[t] = "open" /\ key'[s] = key'[t] => s = t
      BY <2>1 DEF TableInv
    <2>4. ASSUME NEW r \in Runners
          PROVE  /\ IsFiniteSet(OpenOf(r)') /\ Cardinality(OpenOf(r)') <= RuleLimit
                 /\ Cardinality(OpenOf(r)) < RuleLimit => Cardinality(OpenOf(r)') < RuleLimit
      BY <1>0, <2>2, SmallerSet DEF TableInv
    (* Who reaches admit or dial, and from where. *)
    <2>5. ASSUME NEW r \in Runners, loop'[r].at \in {"admit", "dial"}
          PROVE  \/ loop'[r].at = loop[r].at /\ loop'[r].c = loop[r].c
                 \/ HandleNew(r) /\ loop'[r].at = "admit" /\ loop'[r].c = loop[r].c
                 \/ Acquire(r) /\ loop'[r].at = "dial" /\ loop'[r].c = loop[r].c
      <3>1. CASE loop' = loop
        BY <3>1
      <3>2. ASSUME NEW q \in Runners, q # r, Loop(q) \/ \E c \in Clients, n \in Sizes : Receive(q, c, n) PROVE loop'[r] = loop[r]
        BY <3>2 DEF Loop, HandleKnown, HandleNew, Refuse, Acquire, DialFails, Open, WriteNow, WriteNowFails,
                    DropForBytes, Account, Push, PushFails, LoopExits, Receive
      <3>3. ASSUME NEW c \in Clients, NEW n \in Sizes, Receive(r, c, n) PROVE FALSE
        BY <2>5, <3>3 DEF Receive
      <3>4. ASSUME NEW s \in Sessions, HandleKnown(r, s) \/ Open(r, s) PROVE FALSE
        BY <2>5, <3>4 DEF HandleKnown, Open
      <3>5. ASSUME Refuse(r) \/ DialFails(r) \/ WriteNow(r) \/ WriteNowFails(r)
                   \/ DropForBytes(r) \/ Push(r) \/ PushFails(r) \/ LoopExits(r) PROVE FALSE
        BY <2>5, <3>5 DEF Refuse, DialFails, WriteNow, WriteNowFails, DropForBytes, Push, PushFails, LoopExits
      <3>6. ASSUME Account(r) PROVE FALSE
        <4>1. loop[r] \in Payload
          BY <3>6, LoopCases DEF Account
        <4> QED
          BY <2>5, <3>6, <4>1 DEF Account, Payload
      <3>7. ASSUME HandleNew(r) PROVE loop'[r].at = "admit" /\ loop'[r].c = loop[r].c
        <4>1. loop[r] \in Datagram
          BY <3>7, LoopCases DEF HandleNew
        <4> QED
          BY <3>7, <4>1 DEF HandleNew, Datagram
      <3>8. ASSUME Acquire(r) PROVE loop'[r].at = "dial" /\ loop'[r].c = loop[r].c
        <4>1. loop[r] \in Datagram
          BY <3>8, LoopCases DEF Acquire
        <4> QED
          BY <3>8, <4>1 DEF Acquire, Datagram
      <3>9. ASSUME \/ \E s \in Sessions : Upload(s) \/ Download(s) \/ GoesIdle(s)
                   \/ \E n \in Limits : SetUDPMaxSessions(n)
                   \/ UNCHANGED vars
            PROVE  loop' = loop
        <4>1. ASSUME NEW s \in Sessions, Upload(s) \/ Download(s) \/ GoesIdle(s) PROVE loop' = loop
          BY <4>1 DEF Upload, TakePacket, QuotaRejects, Sent, SentDone, SendFails, UploaderRemoves, UploaderDone, Drain,
                  Download, Reply, Relayed, RelayedDone, ReplyRejected, RelayFails, ReadFails, ReaderRemoves, GoesIdle, runnerVars
        <4> QED
          BY <3>9, <4>1 DEF SetUDPMaxSessions, vars, runnerVars
      <3>10. ASSUME NEW q \in Runners, SweepStarts(q) \/ SweepEnds(q) \/ Stop(q) \/ StopCloses(q) \/ StopReturns(q) \/ Sweep(q)
             PROVE  loop' = loop
        BY <3>10 DEF SweepStarts, SweepEnds, Stop, StopCloses, StopReturns, Sweep, SweepWork, SweepSeen
      <3> HIDE DEF Shape
      <3>11. loop' = loop \/ loop'[r] = loop[r] \/ Loop(r)
        BY <3>2, <3>3, <3>9, <3>10, Zenon DEF Next
      <3> QED
        BY <3>1, <3>4, <3>5, <3>6, <3>7, <3>8, <3>11, Zenon DEF Loop
    <2>6. ASSUME NEW r \in Runners
          PROVE  loop'[r].at = "dial" => Cardinality(OpenOf(r)') < RuleLimit
      BY <2>4, <2>5 DEF TableInv, Acquire, withinLimits
    <2>7. ASSUME NEW r \in Runners, loop'[r].at \in {"admit", "dial"}, NEW s \in OpenOf(r)' PROVE key'[s] # <<r, loop'[r].c>>
      <3>1. s \in OpenOf(r) /\ key'[s] = key[s]
        BY <2>1, <2>2 DEF OpenOf
      <3>2. \A t \in OpenOf(r) : key[t] # <<r, loop[r].c>>
        BY <2>5, <2>7 DEF TableInv, HandleNew, Acquire
      <3> QED
        BY <2>5, <2>7, <3>1, <3>2
    <2> QED
      BY <2>3, <2>4, <2>6, <2>7 DEF TableInv
  <1> QED
    BY <1>1, <1>2

(* Only Acquire, DialFails and Open begin or end a dial.                     *)
LEMMA DialingKept ==
    ASSUME Shape, [Next]_vars,
           \A r \in Runners : ~Acquire(r) /\ ~DialFails(r) /\ \A s \in Sessions : ~Open(r, s)
    PROVE  Dialing' = Dialing
  <1> USE DEF Shape, At
  <1>1. ASSUME NEW r \in Runners, Loop(r) \/ \E c \in Clients, n \in Sizes : Receive(r, c, n) PROVE Dialing' = Dialing
    <2>0. \A q \in Runners \ {r} : loop'[q] = loop[q]
      BY <1>1 DEF Loop, HandleKnown, HandleNew, Refuse, Acquire, DialFails, Open, WriteNow, WriteNowFails,
                  DropForBytes, Account, Push, PushFails, LoopExits, Receive
    <2> DEFINE Mine == loop[r].at # "dial" /\ loop'[r].at # "dial"
    <2>1. ASSUME NEW c \in Clients, NEW n \in Sizes, Receive(r, c, n) PROVE Mine
      BY <2>1 DEF Receive
    <2>2. ASSUME NEW s \in Sessions, HandleKnown(r, s) PROVE Mine
      BY <2>2 DEF HandleKnown
    <2>3. ASSUME HandleNew(r) PROVE Mine
      <3>1. loop[r] \in Datagram
        BY <2>3, LoopCases DEF HandleNew
      <3> QED
        BY <2>3, <3>1 DEF HandleNew, Datagram
    <2>4. ASSUME Account(r) PROVE Mine
      <3>1. loop[r] \in Payload
        BY <2>4, LoopCases DEF Account
      <3> QED
        BY <2>4, <3>1 DEF Account, Payload
    <2>5. ASSUME Refuse(r) \/ WriteNow(r) \/ WriteNowFails(r) \/ DropForBytes(r) \/ Push(r) \/ PushFails(r) \/ LoopExits(r)
          PROVE  Mine
      BY <2>5 DEF Refuse, WriteNow, WriteNowFails, DropForBytes, Push, PushFails, LoopExits
    <2>6. Mine
      <3> HIDE DEF Mine
      <3> QED
        BY <1>1, <2>1, <2>2, <2>3, <2>4, <2>5 DEF Loop
    <2> QED
      BY <2>0, <2>6 DEF Dialing
  <1>2. ASSUME NEW s \in Sessions, Upload(s) \/ Download(s) \/ GoesIdle(s) PROVE loop' = loop
    BY <1>2 DEF Upload, TakePacket, QuotaRejects, Sent, SentDone, SendFails, UploaderRemoves, UploaderDone, Drain,
                Download, Reply, Relayed, RelayedDone, ReplyRejected, RelayFails, ReadFails, ReaderRemoves, GoesIdle, runnerVars
  <1>3. ASSUME NEW r \in Runners, SweepStarts(r) \/ SweepEnds(r) \/ Stop(r) \/ StopCloses(r) \/ StopReturns(r) \/ Sweep(r)
        PROVE  loop' = loop
    BY <1>3 DEF SweepStarts, SweepEnds, Stop, StopCloses, StopReturns, Sweep, SweepWork, SweepSeen
  <1>4. ASSUME (\E n \in Limits : SetUDPMaxSessions(n)) \/ UNCHANGED vars PROVE loop' = loop
    BY <1>4 DEF SetUDPMaxSessions, vars, runnerVars
  <1>5. ASSUME loop' = loop PROVE Dialing' = Dialing
    BY <1>5 DEF Dialing
  <1> QED
    BY <1>1, <1>2, <1>3, <1>4, <1>5 DEF Next

(* The step closes S, a set of opened sessions, and nothing else of the      *)
(* budget changes.                                                           *)
Closing(S) ==
    /\ S \in SUBSET Sessions /\ Close(S) /\ \A s \in S : st[s] # "fresh"
    /\ Dialing' = Dialing /\ limit' = limit

(* What a step does to the budget.                                           *)
Takes(r) == active < limit /\ r \notin Held /\ Held' = Held \cup {r} /\ active' = active + 1 /\ limit' = limit
Gives(T) == T \subseteq Held /\ Held' = Held \ T /\ active' = active - Cardinality(T) /\ limit' = limit
Hands(r, s) == r \in Held /\ s \notin Held /\ Held' = (Held \ {r}) \cup {s} /\ active' = active /\ limit' = limit
Resets == limit' \in Limits /\ Held' = Held /\ active' = active

(* Closing sessions gives back the places of those still open.               *)
LEMMA ClosingGives ==
    ASSUME Shape, NEW S, Closing(S)
    PROVE  \E T : Gives(T)
  <1> DEFINE T == {s \in S : st[s] = "open"}
  <1>1. \A s \in Sessions : st'[s] = "open" <=> st[s] = "open" /\ s \notin S
    BY CloseEffect DEF Closing
  <1>2. T \subseteq Held
    BY DEF Held, Closing
  <1>3. T \cap Dialing = {}
    BY UDPAssumption DEF Dialing, Closing
  <1>4. Held' = Held \ T
    BY <1>1, <1>3 DEF Held, Closing
  <1>5. active' = active - Cardinality(T) /\ limit' = limit
    BY DEF Closing, Close
  <1> QED
    BY <1>2, <1>4, <1>5 DEF Gives

(* Every step takes a place, gives places back, hands one over, resets the   *)
(* limit or leaves the budget alone.                                         *)
LEMMA BudgetStep ==
    ASSUME RunnerInv, [Next]_vars
    PROVE  \/ \E r \in Runners : Takes(r)
           \/ \E T : Gives(T)
           \/ \E r \in Runners, s \in Sessions : Hands(r, s)
           \/ Resets
  <1> USE DEF RunnerInv
  <1>0. Runners \cap Sessions = {}
    BY UDPAssumption
  <1>1. ASSUME NEW r \in Runners, Acquire(r) PROVE Takes(r)
    <2>1. loop[r].at = "admit" /\ loop[r] \in Datagram /\ active < limit /\ active' = active + 1 /\ UNCHANGED <<st, limit>>
      BY <1>1, LoopCases DEF Acquire, At, withinLimits
    <2>2. loop'[r].at = "dial" /\ \A q \in Runners \ {r} : loop'[q] = loop[q]
      BY <1>1, <2>1 DEF Acquire, Shape, Datagram
    <2>3. Dialing' = Dialing \cup {r} /\ r \notin Dialing
      BY <2>1, <2>2 DEF Dialing
    <2> QED
      BY <1>0, <2>1, <2>3 DEF Takes, Held
  <1>2. ASSUME NEW r \in Runners, DialFails(r) PROVE Gives({r})
    <2>1. loop[r].at = "dial" /\ active' = active - 1 /\ UNCHANGED <<st, limit>>
      BY <1>2 DEF DialFails, At
    <2>2. loop'[r].at = "recv" /\ \A q \in Runners \ {r} : loop'[q] = loop[q]
      BY <1>2, <2>1 DEF DialFails, Shape
    <2>3. Dialing' = Dialing \ {r} /\ r \in Dialing
      BY <2>1, <2>2 DEF Dialing
    <2>4. Cardinality({r}) = 1
      BY FS_Singleton
    <2> QED
      BY <1>0, <2>1, <2>3, <2>4 DEF Gives, Held
  <1>3. ASSUME NEW r \in Runners, NEW s \in Sessions, Open(r, s) PROVE Hands(r, s)
    <2>1. /\ loop[r].at = "dial" /\ st[s] = "fresh" /\ st'[s] = "open" /\ UNCHANGED <<active, limit>>
          /\ \A t \in Sessions \ {s} : st'[t] = st[t]
      BY <1>3 DEF Open, At, Shape
    <2>2. loop'[r].at = "payload" /\ \A q \in Runners \ {r} : loop'[q] = loop[q]
      BY <1>3, <2>1 DEF Open, Shape
    <2>3. Dialing' = Dialing \ {r} /\ r \in Dialing /\ s \notin Dialing
      BY <1>0, <2>1, <2>2 DEF Dialing
    <2>4. {t \in Sessions : st'[t] = "open"} = {t \in Sessions : st[t] = "open"} \cup {s}
      BY <2>1
    <2>5. s \notin {t \in Sessions : st[t] = "open"} /\ r \notin {t \in Sessions : st[t] = "open"} /\ r # s
      BY <1>0, <2>1
    <2>6. r \in Held /\ s \notin Held
      BY <2>3, <2>5 DEF Held
    <2>7. Held' = (Held \ {r}) \cup {s}
      BY <2>3, <2>4, <2>5 DEF Held
    <2> QED
      BY <2>1, <2>6, <2>7 DEF Hands
  <1>4. ASSUME \A r \in Runners : ~Acquire(r) /\ ~DialFails(r) /\ \A s \in Sessions : ~Open(r, s)
        PROVE  (\E T : Gives(T)) \/ Resets
    <2>0. Dialing' = Dialing
      BY <1>4, DialingKept
    <2>a. ASSUME UNCHANGED <<st, active, limit>> PROVE \E T : Gives(T)
      <3>1. Gives({})
        <4>1. Cardinality({}) = 0
          BY FS_EmptySet
        <4>2. active \in Int
          BY FS_CardinalityType DEF ActiveInv
        <4> QED
          BY <2>0, <2>a, <4>1, <4>2 DEF Gives, Held
      <3> QED
        BY <3>1
    <2>b. ASSUME NEW s \in Sessions PROVE removed(s) \in SUBSET Sessions /\ \A t \in removed(s) : st[t] # "fresh"
      BY DEF removed
    <2>1. ASSUME NEW r \in Runners, Loop(r) PROVE \E T : Gives(T)
      <3>1. CASE WriteNowFails(r)
        <4>1. loop[r].s \in Sessions /\ Close(removed(loop[r].s)) /\ limit' = limit
          BY <3>1, LoopCases DEF WriteNowFails, At
        <4> QED
          BY <2>0, <2>b, <4>1, ClosingGives DEF Closing
      <3>2. CASE ~WriteNowFails(r)
        <4>1. UNCHANGED <<st, active, limit>>
          BY <1>4, <2>1, <3>2 DEF Loop, HandleKnown, HandleNew, Refuse, WriteNow, DropForBytes, Account, Push, PushFails, LoopExits
        <4> QED
          BY <2>a, <4>1
      <3> QED
        BY <3>1, <3>2
    <2>2. ASSUME NEW s \in Sessions, Upload(s) \/ Download(s) \/ GoesIdle(s) PROVE \E T : Gives(T)
      <3>1. CASE UploaderRemoves(s) \/ ReaderRemoves(s)
        <4>1. Close(removed(s)) /\ limit' = limit
          BY <3>1 DEF UploaderRemoves, ReaderRemoves
        <4> QED
          BY <2>0, <2>b, <4>1, ClosingGives DEF Closing
      <3>2. CASE ~UploaderRemoves(s) /\ ~ReaderRemoves(s)
        <4>1. UNCHANGED <<st, active, limit>>
          BY <2>2, <3>2 DEF Upload, TakePacket, QuotaRejects, Sent, SentDone, SendFails, UploaderDone, Drain,
                Download, Reply, Relayed, RelayedDone, ReplyRejected, RelayFails, ReadFails, GoesIdle
        <4> QED
          BY <2>a, <4>1
      <3> QED
        BY <3>1, <3>2
    <2>3. ASSUME NEW r \in Runners, SweepStarts(r) \/ SweepEnds(r) \/ Stop(r) \/ StopReturns(r) PROVE \E T : Gives(T)
      <3>1. UNCHANGED <<st, active, limit>>
        BY <2>3 DEF SweepStarts, SweepEnds, Stop, StopReturns
      <3> QED
        BY <2>a, <3>1
    <2>4. ASSUME NEW r \in Runners, StopCloses(r) PROVE \E T : Gives(T)
      <3>1. Closing(OpenOf(r))
        BY <2>0, <2>4 DEF Closing, StopCloses, OpenOf
      <3> QED
        BY <3>1, ClosingGives
    <2>5. ASSUME NEW r \in Runners, NEW s \in Sessions, SweepWork(r, s) \/ SweepSeen(r, s) PROVE \E T : Gives(T)
      <3>1. CASE SweepSeen(r, s) /\ stale[s]
        <4>1. st[s] # "fresh"
          BY <3>1 DEF SweepSeen, SweepInv, LockInv
        <4>2. Closing({s})
          BY <2>0, <3>1, <4>1 DEF Closing, SweepSeen
        <4> QED
          BY <4>2, ClosingGives
      <3>2. CASE SweepWork(r, s) \/ (SweepSeen(r, s) /\ ~stale[s])
        <4>1. UNCHANGED <<st, active, limit>>
          BY <3>2 DEF SweepWork, SweepSeen
        <4> QED
          BY <2>a, <4>1
      <3> QED
        BY <2>5, <3>1, <3>2
    <2>6. ASSUME NEW n \in Limits, SetUDPMaxSessions(n) PROVE Resets
      BY <2>0, <2>6 DEF SetUDPMaxSessions, Resets, Held
    <2>7. ASSUME UNCHANGED vars PROVE \E T : Gives(T)
      BY <2>a, <2>7 DEF vars
    <2>8. ASSUME NEW r \in Runners, NEW c \in Clients, NEW n \in Sizes, Receive(r, c, n) PROVE \E T : Gives(T)
      <3>1. UNCHANGED <<st, active, limit>>
        BY <2>8 DEF Receive
      <3> QED
        BY <2>a, <3>1
    <2> QED
      BY <2>1, <2>2, <2>3, <2>4, <2>5, <2>6, <2>7, <2>8, Zenon DEF Next, Sweep
  <1> QED
    BY <1>1, <1>2, <1>3, <1>4, Zenon

(* The counter counts the open sessions and the dials.                       *)
LEMMA ActiveStep ==
    ASSUME RunnerInv, [Next]_vars
    PROVE  ActiveInv'
  <1>0. IsFiniteSet(Held) /\ active = Cardinality(Held) /\ active \in Nat
    BY FS_CardinalityType DEF RunnerInv, ActiveInv
  <1>1. ASSUME NEW r \in Runners, Takes(r) PROVE ActiveInv'
    <2>1. IsFiniteSet(Held \cup {r}) /\ Cardinality(Held \cup {r}) = Cardinality(Held) + 1
      BY <1>0, <1>1, FS_AddElement DEF Takes
    <2> QED
      BY <1>0, <1>1, <2>1 DEF Takes, ActiveInv
  <1>2. ASSUME NEW T, Gives(T) PROVE ActiveInv'
    <2>1. IsFiniteSet(T) /\ IsFiniteSet(Held \ T)
      BY <1>0, <1>2, FS_Subset, FS_Difference DEF Gives
    <2>2. Held \cap T = T
      BY <1>2 DEF Gives
    <2>3. Cardinality(Held \ T) = Cardinality(Held) - Cardinality(Held \cap T)
      BY <1>0, <2>1, FS_Difference
    <2> QED
      BY <1>0, <1>2, <2>1, <2>2, <2>3 DEF Gives, ActiveInv
  <1>3. ASSUME NEW r \in Runners, NEW s \in Sessions, Hands(r, s) PROVE ActiveInv'
    <2>1. IsFiniteSet(Held \ {r}) /\ Cardinality(Held \ {r}) = Cardinality(Held) - 1
      BY <1>0, <1>3, FS_RemoveElement DEF Hands
    <2>2. s \notin Held \ {r}
      BY <1>3 DEF Hands
    <2>3. IsFiniteSet((Held \ {r}) \cup {s}) /\ Cardinality((Held \ {r}) \cup {s}) = Cardinality(Held \ {r}) + 1
      BY <2>1, <2>2, FS_AddElement
    <2> QED
      BY <1>0, <1>3, <2>1, <2>3 DEF Hands, ActiveInv
  <1>4. ASSUME Resets PROVE ActiveInv'
    BY <1>0, <1>4 DEF Resets, ActiveInv
  <1> QED
    BY <1>1, <1>2, <1>3, <1>4, BudgetStep

(* After Stop has closed the sessions, none is opened.                       *)
LEMMA StoppedStep ==
    ASSUME Shape, KeyInv, LockInv, SweepInv, StoppedStaysEmpty, [Next]_vars
    PROVE  StoppedStaysEmpty'
  <1> USE DEF Shape
  <1> DEFINE Over(r) == phase[r] \in {"swept", "stopped"}
  <1>1. ASSUME NEW r \in Runners, StopCloses(r) PROVE StoppedStaysEmpty'
    <2>1. mu[r] = "free" /\ Close(OpenOf(r)) /\ UNCHANGED <<loop, key>> /\ \A q \in Runners \ {r} : phase'[q] = phase[q]
      BY <1>1 DEF StopCloses, Free
    <2>2. loop[r].at # "dial"
      BY <2>1 DEF LockInv
    <2>3. OpenOf(r) \in SUBSET Sessions /\ \A s \in OpenOf(r) : st[s] # "fresh"
      BY DEF OpenOf
    <2>4. \A s \in Sessions : st'[s] = "open" <=> st[s] = "open" /\ s \notin OpenOf(r)
      BY <2>1, <2>3, CloseEffect
    <2>5. OpenOf(r)' = {}
      BY <2>1, <2>4 DEF OpenOf, RunnerOf
    <2>6. \A q \in Runners : OpenOf(q)' \subseteq OpenOf(q)
      BY <2>1, <2>4 DEF OpenOf, RunnerOf
    <2>7. ASSUME NEW q \in Runners, phase'[q] \in {"swept", "stopped"} PROVE OpenOf(q)' = {} /\ loop'[q].at # "dial"
      <3>1. CASE q = r
        BY <2>1, <2>2, <2>5, <3>1
      <3>2. CASE q # r
        BY <2>1, <2>6, <2>7, <3>2 DEF StoppedStaysEmpty
      <3> QED
        BY <3>1, <3>2
    <2> QED
      BY <2>7 DEF StoppedStaysEmpty
  <1>2. ASSUME \A r \in Runners : ~StopCloses(r) PROVE \A r \in Runners : phase'[r] \in {"swept", "stopped"} => Over(r)
    <2>1. ASSUME NEW r \in Runners, Stop(r) \/ StopReturns(r) PROVE \A q \in Runners : phase'[q] \in {"swept", "stopped"} => Over(q)
      BY <2>1 DEF Stop, StopReturns
    <2>2. ASSUME NEW r \in Runners, Loop(r) \/ \E c \in Clients, n \in Sizes : Receive(r, c, n) PROVE phase' = phase
      BY <2>2 DEF Loop, HandleKnown, HandleNew, Refuse, Acquire, DialFails, Open, WriteNow, WriteNowFails,
                  DropForBytes, Account, Push, PushFails, LoopExits, Receive
    <2>3. ASSUME NEW s \in Sessions, Upload(s) \/ Download(s) \/ GoesIdle(s) PROVE phase' = phase
      BY <2>3 DEF Upload, TakePacket, QuotaRejects, Sent, SentDone, SendFails, UploaderRemoves, UploaderDone, Drain,
                Download, Reply, Relayed, RelayedDone, ReplyRejected, RelayFails, ReadFails, ReaderRemoves, GoesIdle, runnerVars
    <2>4. ASSUME NEW r \in Runners, SweepStarts(r) \/ SweepEnds(r) \/ Sweep(r) PROVE phase' = phase
      BY <2>4 DEF SweepStarts, SweepEnds, Sweep, SweepWork, SweepSeen
    <2>5. ASSUME (\E n \in Limits : SetUDPMaxSessions(n)) \/ UNCHANGED vars PROVE phase' = phase
      BY <2>5 DEF SetUDPMaxSessions, vars, runnerVars
    <2>6. ASSUME phase' = phase PROVE \A r \in Runners : phase'[r] \in {"swept", "stopped"} => Over(r)
      BY <2>6
    <2> HIDE DEF Over
    <2> QED
      BY <1>2, <2>1, <2>2, <2>3, <2>4, <2>5, <2>6, Zenon DEF Next
  <1>3. ASSUME NEW r \in Runners, Acquire(r), \A q \in Runners : ~StopCloses(q) PROVE StoppedStaysEmpty'
    <2>1. phase[r] = "on" /\ UNCHANGED <<phase, st, key>> /\ \A q \in Runners \ {r} : loop'[q] = loop[q]
      BY <1>3 DEF Acquire, AdmitGuard
    <2>2. \A q \in Runners : OpenOf(q)' = OpenOf(q)
      BY <2>1 DEF OpenOf, RunnerOf
    <2> QED
      BY <2>1, <2>2 DEF StoppedStaysEmpty
  <1>4. ASSUME NEW r \in Runners, NEW s \in Sessions, Open(r, s) PROVE StoppedStaysEmpty'
    <2>1. /\ ~Over(r) /\ phase' = phase /\ loop'[r].at = "payload" /\ \A q \in Runners \ {r} : loop'[q] = loop[q]
          /\ key'[s] = <<r, loop[r].c>> /\ \A t \in Sessions \ {s} : st'[t] = st[t] /\ key'[t] = key[t]
      BY <1>4 DEF Open, At, StoppedStaysEmpty
    <2>2. ASSUME NEW q \in Runners \ {r} PROVE OpenOf(q)' \subseteq OpenOf(q)
      <3>1. key'[s][1] = r
        BY <2>1
      <3>2. ASSUME NEW t \in Sessions, st'[t] = "open", key'[t][1] = q PROVE t \in OpenOf(q)
        <4>1. t # s
          BY <3>1, <3>2
        <4> QED
          BY <2>1, <3>2, <4>1 DEF OpenOf, RunnerOf
      <3> QED
        BY <3>2 DEF OpenOf, RunnerOf
    <2> QED
      BY <2>1, <2>2 DEF StoppedStaysEmpty
  <1>5. ASSUME \A r \in Runners : ~StopCloses(r) /\ ~Acquire(r) /\ \A s \in Sessions : ~Open(r, s) PROVE StoppedStaysEmpty'
    <2>1. \A r \in Runners : phase'[r] \in {"swept", "stopped"} => Over(r)
      BY <1>2, <1>5
    <2>2. \A r \in Runners : OpenOf(r)' \subseteq OpenOf(r)
      BY <1>5, OpenKept
    <2>3. \A r \in Runners : loop'[r].at = "dial" => loop[r].at = "dial"
      <3>1. ASSUME NEW r \in Runners, DialFails(r) PROVE \A q \in Runners : loop'[q].at = "dial" => loop[q].at = "dial"
        BY <3>1 DEF DialFails
      <3>2. ASSUME \A r \in Runners : ~DialFails(r) PROVE Dialing' = Dialing
        BY <1>5, <3>2, DialingKept
      <3> QED
        BY <3>1, <3>2 DEF Dialing
    <2> QED
      BY <2>1, <2>2, <2>3 DEF StoppedStaysEmpty
  <1> QED
    BY <1>1, <1>3, <1>4, <1>5

-----------------------------------------------------------------------------
(* The theorems. *)

(* The first state satisfies the invariant.                                  *)
LEMMA InvInit == Init => RunnerInv
  <1> SUFFICES ASSUME Init PROVE RunnerInv
    OBVIOUS
  <1> USE DEF Init
  <1>1. Shape
    BY ShapeInit
  <1>2. \A r \in Runners : OpenOf(r) = {}
    BY DEF OpenOf
  <1>3. Held = {}
    BY DEF Held, Dialing
  <1>4. KeyInv /\ LockInv /\ StoppedStaysEmpty
    BY <1>2 DEF KeyInv, LockInv, StoppedStaysEmpty
  <1>5. TableInv
    <2>1. IsFiniteSet({}) /\ Cardinality({}) = 0 /\ 0 <= RuleLimit
      BY FS_EmptySet, UDPAssumption
    <2> QED
      BY <1>2, <2>1 DEF TableInv
  <1>6. HandInv /\ PendInv /\ SweepInv
    BY DEF HandInv, PendInv, SweepInv
  <1>7. QueuedBytesExact
    BY SumEmpty DEF QueuedBytesExact, pushing
  <1>8. BoundInv
    BY UDPAssumption DEF BoundInv
  <1>9. ActiveInv
    BY <1>3, FS_EmptySet DEF ActiveInv
  <1> QED
    BY <1>1, <1>4, <1>5, <1>6, <1>7, <1>8, <1>9 DEF RunnerInv

(* Every step keeps it.                                                      *)
LEMMA InvStep == RunnerInv /\ [Next]_vars => RunnerInv'
  <1> SUFFICES ASSUME RunnerInv, [Next]_vars PROVE RunnerInv'
    OBVIOUS
  <1>0. /\ Shape /\ KeyInv /\ LockInv /\ TableInv /\ StoppedStaysEmpty
        /\ HandInv /\ PendInv /\ QueuedBytesExact /\ SweepInv /\ BoundInv
    BY DEF RunnerInv
  <1>1. Shape' /\ KeyInv' /\ LockInv' /\ TableInv' /\ StoppedStaysEmpty'
    BY <1>0, ShapeStep, KeyStep, LockStep, TableStep, StoppedStep
  <1>2. HandInv' /\ PendInv' /\ QueuedBytesExact' /\ SweepInv' /\ BoundInv'
    BY <1>0, HandStep, PendStep, QueuedStep, SweepStep, BoundStep
  <1>3. ActiveInv'
    BY ActiveStep
  <1> QED
    BY <1>1, <1>2, <1>3 DEF RunnerInv

(* The inductive invariant holds in every reachable state.                   *)
THEOREM RunnerInvariant == Spec => []RunnerInv
  BY InvInit, InvStep, PTL DEF Spec

(* The state has the shape of the code's, and its counters and queues stay   *)
(* within their bounds.                                                      *)
THEOREM TypeCorrect == Spec => []TypeOK
  <1>1. RunnerInv => TypeOK
    <2> SUFFICES ASSUME RunnerInv PROVE TypeOK
      OBVIOUS
    <2>1. Shape /\ KeyInv /\ HandInv /\ PendInv /\ QueuedBytesExact /\ BoundInv /\ ActiveInv
      BY DEF RunnerInv
    <2>2. ASSUME NEW s \in Sessions PROVE queued[s] \in 0..QueueBytes /\ pend[s] \in 0..1
      <3>1. queued[s] \in Nat
        BY <2>1, Amounts DEF QueuedBytesExact
      <3>2. queued[s] <= QueueBytes /\ QueueBytes \in Nat
        BY <2>1, UDPAssumption DEF BoundInv
      <3>3. pend[s] \in {0, 1}
        BY <2>1 DEF PendInv
      <3> QED
        BY <3>1, <3>2, <3>3
    <2>3. \A s \in Sessions : queue[s] \in Seq(Sizes) /\ Len(queue[s]) <= QueueCap
      BY <2>1 DEF Shape, BoundInv
    <2>4. active \in Nat
      BY <2>1, FS_CardinalityType DEF ActiveInv
    <2> QED
      BY <2>1, <2>2, <2>3, <2>4 DEF TypeOK, Shape
  <1> QED
    BY <1>1, RunnerInvariant, PTL

(* A client has one session per rule, each rule keeps to its limit, and      *)
(* queuedBytes is exactly what is queued, being sent or being put in.        *)
THEOREM SessionsExactHolds == Spec => []SessionsExact
  <1>1. RunnerInv => SessionsExact
    BY DEF RunnerInv, TableInv, SessionsExact, OneSessionPerClient
  <1> QED
    BY <1>1, RunnerInvariant, PTL

(* No session is opened once Stop has closed them.                           *)
THEOREM StoppedStaysEmptyHolds == Spec => []StoppedStaysEmpty
  <1>1. RunnerInv => StoppedStaysEmpty
    BY DEF RunnerInv
  <1> QED
    BY <1>1, RunnerInvariant, PTL

(* The sweep ends only sessions with nothing queued and nothing being sent.  *)
THEOREM SweepSparesBusyHolds == Spec => SweepSparesBusy
  <1> DEFINE Spares == \A r \in Runners, s \in Sessions :
          mu[r] = "sweep" /\ mu'[r] = "sweep" /\ s \in sweep[r].idle /\ st[s] = "open" /\ st'[s] = "closed" =>
             queue[s] = <<>> /\ up[s] \notin {"sending", "sent"}
  <1>1. RunnerInv /\ [Next]_vars => Spares
    <2> SUFFICES ASSUME RunnerInv, [Next]_vars, NEW r \in Runners, NEW s \in Sessions,
                        mu[r] = "sweep", s \in sweep[r].idle, st[s] = "open", st'[s] = "closed"
                 PROVE  queue[s] = <<>> /\ up[s] \notin {"sending", "sent"}
      BY Zenon
    <2>0. Shape /\ KeyInv /\ LockInv /\ HandInv /\ QueuedBytesExact /\ SweepInv
      BY DEF RunnerInv
    <2>1. sweep[r] # None /\ key[s][1] = r /\ (stale[s] => queued[s] = 0)
      BY <2>0 DEF LockInv, SweepInv, RunnerOf
    (* Only the sweep itself closes the session: everyone else needs the mutex. *)
    <2>2. stale[s]
      <3>1. ASSUME NEW q \in Runners, StopCloses(q) PROVE FALSE
        <4>1. s \in OpenOf(q)
          BY <2>0, <3>1 DEF StopCloses, Close, Shape
        <4> QED
          BY <2>1, <3>1, <4>1 DEF OpenOf, RunnerOf, StopCloses, Free
      <3>2. ASSUME NEW t \in Sessions, UploaderRemoves(t) \/ ReaderRemoves(t) PROVE FALSE
        <4>1. s \in removed(t)
          BY <2>0, <3>2 DEF UploaderRemoves, ReaderRemoves, Close, Shape
        <4>2. t = s
          BY <4>1 DEF removed
        <4> QED
          BY <2>1, <3>2, <4>2 DEF UploaderRemoves, ReaderRemoves, RunnerOf, Free
      <3>3. ASSUME NEW q \in Runners, WriteNowFails(q) PROVE FALSE
        <4>1. s \in removed(loop[q].s) /\ loop[q].at = "payload" /\ mu[q] = "free"
          BY <2>0, <3>3 DEF WriteNowFails, Close, Shape, At, Free
        <4>2. loop[q].s = s
          BY <4>1 DEF removed
        <4>3. key[s][1] = q
          BY <2>0, <4>1, <4>2 DEF KeyInv, RunnerOf
        <4> QED
          BY <2>1, <4>1, <4>3
      <3>4. ASSUME NEW q \in Runners, NEW t \in Sessions, SweepSeen(q, t) PROVE stale[s]
        <4>1. stale[t] /\ s = t
          BY <2>0, <3>4 DEF SweepSeen, Close, Shape
        <4> QED
          BY <4>1
      <3>5. ASSUME NEW q \in Runners, NEW t \in Sessions, Open(q, t) PROVE FALSE
        BY <2>0, <3>5 DEF Open, Shape
      <3>6. ASSUME NEW q \in Runners, Loop(q), ~WriteNowFails(q), \A t \in Sessions : ~Open(q, t) PROVE st' = st
        BY <3>6 DEF Loop, HandleKnown, HandleNew, Refuse, Acquire, DialFails, WriteNow,
                    DropForBytes, Account, Push, PushFails, LoopExits
      <3>7. ASSUME NEW t \in Sessions, Upload(t) \/ Download(t) \/ GoesIdle(t), ~UploaderRemoves(t), ~ReaderRemoves(t) PROVE st' = st
        BY <3>7 DEF Upload, TakePacket, QuotaRejects, Sent, SentDone, SendFails, UploaderDone, Drain,
                    Download, Reply, Relayed, RelayedDone, ReplyRejected, RelayFails, ReadFails, GoesIdle
      <3>8. ASSUME NEW q \in Runners, SweepStarts(q) \/ SweepEnds(q) \/ Stop(q) \/ StopReturns(q) PROVE st' = st
        BY <3>8 DEF SweepStarts, SweepEnds, Stop, StopReturns
      <3>9. ASSUME NEW q \in Runners, NEW t \in Sessions, SweepWork(q, t) PROVE st' = st
        BY <3>9 DEF SweepWork
      <3>10. ASSUME \/ \E q \in Runners, c \in Clients, n \in Sizes : Receive(q, c, n)
                    \/ \E n \in Limits : SetUDPMaxSessions(n)
                    \/ UNCHANGED vars
             PROVE  st' = st
        BY <3>10 DEF Receive, SetUDPMaxSessions, vars
      <3>11. st' # st
        OBVIOUS
      <3> QED
        BY <3>1, <3>2, <3>3, <3>4, <3>5, <3>6, <3>7, <3>8, <3>9, <3>10, <3>11, Zenon DEF Next, Sweep
    <2>3. queued[s] = 0
      BY <2>1, <2>2
    <2>4. Sum(queue[s]) = 0 /\ hand[s] = 0
      BY <2>0, <2>3, Amounts DEF QueuedBytesExact
    <2>5. up[s] \notin {"sending", "sent"}
      <3>1. 0 \notin Sizes
        BY UDPAssumption
      <3> QED
        BY <2>0, <2>4, <3>1 DEF HandInv
    <2>6. queue[s] = <<>>
      BY <2>0, <2>4, EmptySum
    <2> QED
      BY <2>5, <2>6
  <1> QED
    BY <1>1, RunnerInvariant, PTL DEF Spec, SweepSparesBusy

(* A late removal ends no session but its own.                               *)
THEOREM RemovesOnlyItsOwnHolds == Spec => RemovesOnlyItsOwn
  <1> DEFINE Own == \A s, t \in Sessions :
          down[s] = "removing" /\ down'[s] = "exited" /\ st[t] = "open" /\ st'[t] = "closed" => t = s
  <1>1. RunnerInv /\ [Next]_vars => Own
    <2> SUFFICES ASSUME RunnerInv, [Next]_vars, NEW s \in Sessions, NEW t \in Sessions,
                        down[s] = "removing", down'[s] = "exited", st[t] = "open", st'[t] = "closed"
                 PROVE  t = s
      BY Zenon
    <2>0. Shape
      BY DEF RunnerInv
    <2>1. down'[s] # down[s]
      OBVIOUS
    <2>2. ASSUME NEW u \in Sessions, ReaderRemoves(u) PROVE t = s
      <3>1. u = s
        BY <2>0, <2>1, <2>2 DEF ReaderRemoves, Shape
      <3>2. t \in removed(s)
        BY <2>0, <2>2, <3>1 DEF ReaderRemoves, Close, Shape
      <3> QED
        BY <3>2 DEF removed
    <2>3. ASSUME NEW u \in Sessions, Download(u), ~ReaderRemoves(u) PROVE st' = st
      BY <2>3 DEF Download, Reply, Relayed, RelayedDone, ReplyRejected, RelayFails, ReadFails
    <2>4. ASSUME NEW r \in Runners, NEW u \in Sessions, Open(r, u) PROVE FALSE
      BY <2>0, <2>4 DEF Open, Shape
    <2>5. ASSUME NEW r \in Runners, Loop(r), \A u \in Sessions : ~Open(r, u) PROVE down' = down
      BY <2>5 DEF Loop, HandleKnown, HandleNew, Refuse, Acquire, DialFails, WriteNow, WriteNowFails,
                  DropForBytes, Account, Push, PushFails, LoopExits
    <2>6. ASSUME NEW u \in Sessions, Upload(u) \/ GoesIdle(u) PROVE down' = down
      BY <2>6 DEF Upload, TakePacket, QuotaRejects, Sent, SentDone, SendFails, UploaderRemoves, UploaderDone, Drain, GoesIdle
    <2>7. ASSUME NEW r \in Runners, SweepStarts(r) \/ SweepEnds(r) \/ Stop(r) \/ StopCloses(r) \/ StopReturns(r) \/ Sweep(r)
          PROVE  down' = down
      BY <2>7 DEF SweepStarts, SweepEnds, Stop, StopCloses, StopReturns, Sweep, SweepWork, SweepSeen
    <2>8. ASSUME \/ \E r \in Runners, c \in Clients, n \in Sizes : Receive(r, c, n)
                 \/ \E n \in Limits : SetUDPMaxSessions(n)
                 \/ UNCHANGED vars
          PROVE  down' = down
      BY <2>8 DEF Receive, SetUDPMaxSessions, vars
    <2>9. st' # st /\ down' # down
      BY <2>1
    <2> QED
      BY <2>2, <2>3, <2>4, <2>5, <2>6, <2>7, <2>8, <2>9, Zenon DEF Next
  <1> QED
    BY <1>1, RunnerInvariant, PTL DEF Spec, RemovesOnlyItsOwn

(* The counter of udpSessionBudget implements a session budget over all the  *)
(* rules: every step of the runners takes a place, gives places back, hands  *)
(* one over, changes the limit or leaves the budget alone.                   *)
THEOREM RunnersImplementBudget == Spec => ImplementsBudget
  <1>0. \A S : Budget!Cardinality(S) = Cardinality(S)
    BY DEF Cardinality, Budget!Cardinality
  <1> DEFINE H == {s \in Sessions : st[s] = "open"} \cup Dialing
  <1>1. Init => Budget!Init
    <2> SUFFICES ASSUME Init PROVE Budget!Init
      OBVIOUS
    <2>1. H = {}
      BY DEF Init, Dialing
    <2>2. active = 0 /\ limit \in Nat
      BY UDPAssumption DEF Init
    <2> QED
      BY <2>1, <2>2 DEF Budget!Init
  <1>2. RunnerInv /\ [Next]_vars => [Budget!Next]_(Budget!budgetVars)
    <2> SUFFICES ASSUME RunnerInv, [Next]_vars PROVE [Budget!Next]_(Budget!budgetVars)
      OBVIOUS
    <2>0. H = Held /\ H' = Held' /\ H \subseteq Runners \cup Sessions
      BY DEF Held, Dialing
    <2>1. ASSUME NEW r \in Runners, Takes(r) PROVE Budget!Next
      <3>1. Budget!Take(r)
        BY <2>0, <2>1 DEF Budget!Take, Takes
      <3> QED
        BY <3>1 DEF Budget!Next
    <2>2. ASSUME NEW T, Gives(T) PROVE Budget!Next
      <3>1. Budget!Give(T) /\ T \in SUBSET H
        BY <1>0, <2>0, <2>2 DEF Budget!Give, Gives
      <3> QED
        BY <3>1 DEF Budget!Next
    <2>3. ASSUME NEW r \in Runners, NEW s \in Sessions, Hands(r, s) PROVE Budget!Next
      <3>1. Budget!HandOver(r, s)
        BY <2>0, <2>3 DEF Budget!HandOver, Hands
      <3> QED
        BY <3>1 DEF Budget!Next
    <2>4. ASSUME Resets PROVE Budget!Next
      <3>1. limit' \in Nat
        BY <2>4, UDPAssumption DEF Resets
      <3>2. Budget!SetLimit
        BY <2>0, <2>4, <3>1 DEF Budget!SetLimit, Resets
      <3> QED
        BY <3>2 DEF Budget!Next
    <2> QED
      BY <2>1, <2>2, <2>3, <2>4, BudgetStep
  <1> QED
    BY <1>1, <1>2, RunnerInvariant, PTL DEF Spec, ImplementsBudget, Budget!Spec
=============================================================================
