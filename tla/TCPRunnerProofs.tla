-------------------------- MODULE TCPRunnerProofs --------------------------
(***************************************************************************)
(* Proofs about TCPRunner, for every set of connections, every limit and   *)
(* every number of name servers: its type, what Stop leaves behind, the    *)
(* two action properties, and that the slot counter implements             *)
(* SessionBudget.                                                          *)
(***************************************************************************)
EXTENDS TCPRunner, FiniteSetTheorems, WellFoundedInduction, TLAPS

-----------------------------------------------------------------------------
(* The inductive invariant. *)

PCs == {"none", "accepted", "spawned", "dial", "lookup", "answer", "failed", "connect", "dialed",
        "relay", "ending", "release", "uncount", "gone"}
Copies == {"none", "read", "limit", "passed", "stopped", "write", "eof", "err", "done"}
Socket == {"none", "open", "closed"}

(* The state has the shape the code gives it. *)
TypeOK ==
    /\ phase \in {"on", "cancelled", "deaf", "listed", "closed", "stopped"}
    /\ acc \in Conns \cup {None, "exited"}
    /\ pc \in [Conns -> PCs]
    /\ client \in [Conns -> Socket] /\ target \in [Conns -> Socket]
    /\ copy \in [Conns -> [Dirs -> Copies]]
    /\ left \in [Conns -> Int]
    /\ closing \in [Conns -> BOOLEAN]
    /\ timer \in [Conns -> {"armed", "looked"}]
    /\ pend \in [Conns -> Int]
    /\ stale \in [Conns -> BOOLEAN]
    /\ active \in Int /\ gauge \in Int
    /\ asking \in [Conns -> 0..NumSources]
    /\ reply \in [Conns -> Replies \cup {"none"}]

(* The accept loop has at most one connection in its hands. *)
AcceptInv ==
    /\ \A c \in Conns : acc = c <=> pc[c] = "accepted"
    /\ phase = "stopped" => acc = "exited" /\ \A c \in Conns : pc[c] \in {"none", "gone"}

(* A socket is open, and tracked, only while its goroutine still has a       *)
(* deferred call that closes it.                                             *)
SocketInv ==
    \A c \in Conns :
        /\ client[c] = "open" => pc[c] \notin {"none", "release", "uncount", "gone"}
        /\ target[c] = "open" => pc[c] \in {"dialed", "relay"}

TrackInv ==
    /\ tracked \subseteq Conns \X {"client", "target"}
    /\ \A c \in Conns :
        /\ <<c, "client">> \in tracked => pc[c] \notin {"none", "accepted", "spawned", "release", "uncount", "gone"}
        /\ <<c, "target">> \in tracked => pc[c] = "relay"

(* Connections the gauge has counted. *)
Gauged == {c \in Conns : pc[c] \notin {"none", "accepted", "spawned", "gone"}}

(* The two counters count goroutines. *)
CountInv ==
    /\ IsFiniteSet(Serving) /\ active = Cardinality(Serving)
    /\ IsFiniteSet(Gauged) /\ gauge = Cardinality(Gauged)

(* Copy loops start with the relay. *)
Early == {"none", "accepted", "spawned", "dial", "lookup", "answer", "failed", "connect", "dialed"}
FreshInv == \A c \in Conns : pc[c] \in Early => \A d \in Dirs : copy[c][d] = "none"

Waiting(c, d) == copy[c][d] \in {"limit", "passed", "stopped"}
Ticket(c, d) == IF Waiting(c, d) THEN 1 ELSE 0

(* pending counts the copy loops that wait for a limiter; one that began to  *)
(* after the timer looked has renewed the last activity first.               *)
PendInv ==
    \A c \in Conns :
        /\ pend[c] = Ticket(c, "up") + Ticket(c, "down")
        /\ timer[c] = "looked" /\ (\E d \in Dirs : Waiting(c, d)) => ~stale[c]

(* A query that Stop cut off is looked at only after Stop began.             *)
CutInv == \A c \in Conns : reply[c] = "cut" => pc[c] = "answer" /\ phase # "on"

RunnerInv == AcceptInv /\ SocketInv /\ TrackInv /\ CountInv /\ FreshInv /\ PendInv /\ CutInv

-----------------------------------------------------------------------------
(* Every set of numbers that is not empty has a least element. *)
LEMMA LeastNatural ==
    ASSUME NEW T \in SUBSET Nat, T # {}
    PROVE  \E x \in T : \A y \in T : x <= y
  <1> DEFINE Less == {ss \in Nat \X Nat : ss[1] < ss[2]}
  <1>1. IsWellFoundedOn(Less, Nat)
    BY NatLessThanWellFounded, Zenon DEF OpToRel
  <1> HIDE DEF Less
  <1>2. PICK x \in T : \A y \in T : ~ (<<y, x>> \in Less)
    BY <1>1, WFMin
  <1>3. \A y \in T : y < x => <<y, x>> \in Less
    BY SMT DEF Less
  <1>4. \A y \in T : x \in Nat /\ y \in Nat /\ ~(y < x)
    BY <1>2, <1>3
  <1>5. \A y \in T : x <= y
    BY <1>4
  <1> QED
    BY <1>5

(* The source a lookup turns to is one of the list, or none is left.         *)
LEMMA NextSourceType ==
    ASSUME NEW n \in 0..NumSources
    PROVE  NextSource(n) \in 0..NumSources
  <1> DEFINE later == {s \in (n + 1)..NumSources : s \notin cooling}
  <1>1. later \in SUBSET Nat /\ \A s \in later : s \in 0..NumSources
    BY ConnAssumption
  <1>2. NextSource(n) = IF later = {} THEN 0 ELSE CHOOSE s \in later : \A t \in later : s <= t
    BY DEF NextSource
  <1>3. 0 \in 0..NumSources
    BY ConnAssumption
  <1> HIDE DEF later
  <1>4. CASE later = {}
    BY <1>2, <1>3, <1>4
  <1>5. CASE later # {}
    <2>1. \E s \in later : \A t \in later : s <= t
      BY <1>1, <1>5, LeastNatural
    <2>2. NextSource(n) \in later
      BY <1>2, <1>5, <2>1
    <2> QED
      BY <1>1, <2>2
  <1> QED
    BY <1>4, <1>5

-----------------------------------------------------------------------------
(* Type correctness. *)

(* A copy loop that moves on keeps the table of copy loops well formed.      *)
LEMMA CopyType ==
    ASSUME TypeOK, NEW c \in Conns, NEW d \in Dirs, NEW v \in Copies, CopyTo(c, d, v)
    PROVE  copy' \in [Conns -> [Dirs -> Copies]]
  BY DEF TypeOK, CopyTo

(* Each step keeps the type.                                                 *)
LEMMA TypeStep ==
    ASSUME TypeOK, [Next]_vars
    PROVE  TypeOK'
  <1> USE DEF TypeOK, PCs, Socket, relayVars, sockVars, dnsVars, At, Goto
  <1>1. ASSUME NEW c \in Conns, Accept(c) \/ Reject(c) \/ Admit(c) PROVE TypeOK'
    <2>1. CASE Accept(c)
      BY <2>1 DEF Accept
    <2>2. CASE Reject(c)
      BY <2>2 DEF Reject
    <2>3. CASE Admit(c)
      BY <2>3 DEF Admit
    <2> QED
      BY <1>1, <2>1, <2>2, <2>3
  <1>2. ASSUME NEW c \in Conns, Track(c) \/ DialCancelled(c) \/ QueryFailed(c)
                                 \/ ConnectFails(c) \/ ConnectOk(c) PROVE TypeOK'
    <2>1. CASE Track(c)
      BY <2>1 DEF Track
    <2>2. CASE DialCancelled(c) \/ QueryFailed(c) \/ ConnectFails(c)
      BY <2>2 DEF DialCancelled, QueryFailed, ConnectFails
    <2>3. CASE ConnectOk(c)
      BY <2>3 DEF ConnectOk
    <2> QED
      BY <1>2, <2>1, <2>2, <2>3
  <1>3. ASSUME NEW c \in Conns, Dial(c) PROVE TypeOK'
    <2>1. 0 \in 0..NumSources /\ NextSource(0) \in 0..NumSources
      BY NextSourceType, ConnAssumption
    <2> QED
      BY <1>3, <2>1 DEF Dial, LookupAsks
  <1>4. ASSUME NEW c \in Conns, LookupOk(c) \/ NameNotFound(c) \/ LookupCancelled(c) \/ DialTimesOut(c)
                                 \/ \E r \in Replies : QueryEnds(c, r)
        PROVE  TypeOK'
    <2>1. 0 \in 0..NumSources
      BY ConnAssumption
    <2>2. CASE LookupOk(c) \/ NameNotFound(c)
      BY <2>1, <2>2 DEF LookupOk, NameNotFound, LookupAnswered
    <2>3. CASE LookupCancelled(c) \/ DialTimesOut(c)
      BY <2>1, <2>3 DEF LookupCancelled, DialTimesOut, LookupAbandoned
    <2>4. CASE \E r \in Replies : QueryEnds(c, r)
      BY <2>4 DEF QueryEnds, QueryReturns
    <2> QED
      BY <1>4, <2>2, <2>3, <2>4
  <1>5. ASSUME NEW c \in Conns, SourceFails(c) PROVE TypeOK'
    <2>1. 0 \in 0..NumSources /\ NextSource(asking[c]) \in 0..NumSources
      BY NextSourceType, ConnAssumption
    <2> QED
      BY <1>5, <2>1 DEF SourceFails, LookupFailsOver
  <1>6. ASSUME NEW c \in Conns, StartRelay(c) PROVE TypeOK'
    BY <1>6 DEF StartRelay, Copies
  <1>7. ASSUME NEW c \in Conns, NEW d \in Dirs, Copy(c, d) PROVE TypeOK'
    <2> USE DEF touch
    <2>0. {"read", "limit", "passed", "stopped", "write", "eof", "err"} \subseteq Copies
      BY DEF Copies
    <2>1. CASE ReadData(c, d)
      <3>1. copy' \in [Conns -> [Dirs -> Copies]]
        BY <2>0, <2>1, CopyType DEF ReadData
      <3>2. pend' \in [Conns -> Int]
        BY <2>1 DEF ReadData
      <3>3. stale' \in [Conns -> BOOLEAN]
        BY <2>1 DEF ReadData, notedRead
      <3> QED
        BY <2>1, <3>1, <3>2, <3>3 DEF ReadData
    <2>2. CASE ReadEOF(c, d) \/ ReadFails(c, d) \/ WriteFails(c, d)
      <3>1. copy' \in [Conns -> [Dirs -> Copies]]
        BY <2>0, <2>2, CopyType DEF ReadEOF, ReadFails, WriteFails
      <3> QED
        BY <2>2, <3>1 DEF ReadEOF, ReadFails, WriteFails
    <2>3. CASE LimitPasses(c, d) \/ LimitCancelled(c, d)
      <3>1. copy' \in [Conns -> [Dirs -> Copies]]
        BY <2>0, <2>3, CopyType DEF LimitPasses, LimitCancelled, LimitEnds
      <3> QED
        BY <2>3, <3>1 DEF LimitPasses, LimitCancelled, LimitEnds
    <2>4. CASE NotPending(c, d)
      <3>1. copy' \in [Conns -> [Dirs -> Copies]]
        BY <2>0, <2>4, CopyType DEF NotPending
      <3>2. pend' \in [Conns -> Int]
        BY <2>4 DEF NotPending
      <3> QED
        BY <2>4, <3>1, <3>2 DEF NotPending
    <2>5. CASE Written(c, d)
      <3>1. copy' \in [Conns -> [Dirs -> Copies]]
        BY <2>0, <2>5, CopyType DEF Written
      <3> QED
        BY <2>5, <3>1 DEF Written
    <2> QED
      BY <1>7, <2>1, <2>2, <2>3, <2>4, <2>5 DEF Copy
  <1>8. ASSUME NEW c \in Conns, Select(c) PROVE TypeOK'
    <2>1. CASE RelayCancelled(c)
      BY <2>1 DEF RelayCancelled, closeBoth
    <2>2. ASSUME NEW d \in Dirs, Result(c, d) PROVE TypeOK'
      <3>1. copy' \in [Conns -> [Dirs -> Copies]]
        BY <2>2, CopyType DEF Result, Copies
      <3>2. left' \in [Conns -> Int]
        BY <2>2 DEF Result
      <3>3. closing' \in [Conns -> BOOLEAN] /\ client' \in [Conns -> Socket] /\ target' \in [Conns -> Socket]
        BY <2>2 DEF Result, closeBoth
      <3> QED
        BY <2>2, <3>1, <3>2, <3>3 DEF Result
    <2> QED
      BY <1>8, <2>1, <2>2 DEF Select
  <1>9. ASSUME NEW c \in Conns, IdleLooks(c) \/ GoesIdle(c) PROVE TypeOK'
    BY <1>9 DEF IdleLooks, GoesIdle
  <1>10. ASSUME NEW c \in Conns, IdleDecides(c) PROVE TypeOK'
    BY <1>10 DEF IdleDecides, closeBoth
  <1>11. ASSUME NEW c \in Conns, RelayEnds(c) \/ CloseClient(c) \/ releaseConnSlot(c) \/ Uncount(c)
         PROVE  TypeOK'
    <2>1. CASE RelayEnds(c)
      BY <2>1 DEF RelayEnds
    <2>2. CASE CloseClient(c)
      BY <2>2 DEF CloseClient
    <2>3. CASE releaseConnSlot(c) \/ Uncount(c)
      BY <2>3 DEF releaseConnSlot, Uncount
    <2> QED
      BY <1>11, <2>1, <2>2, <2>3
  <1>12. ASSUME AcceptLoopExits \/ StopCancels \/ StopListening \/ StopLists \/ StopReturns \/ SourceRecovers
         PROVE  TypeOK'
    BY <1>12 DEF AcceptLoopExits, StopCancels, StopListening, StopLists, StopReturns,
                 SourceRecovers, CooldownOver
  <1>13. CASE StopClosesConns
    BY <1>13 DEF StopClosesConns
  <1>14. CASE UNCHANGED vars
    BY <1>14 DEF vars
  <1> QED
    BY <1>1, <1>2, <1>3, <1>4, <1>5, <1>6, <1>7, <1>8, <1>9, <1>10, <1>11, <1>12, <1>13, <1>14
       DEF Next, Handle, Loop, Stopping

-----------------------------------------------------------------------------
(* What the steps do to the goroutines. *)

(* The goroutine of a connection never goes back, and touches neither the    *)
(* accept loop nor Stop; it holds its slot until releaseConnSlot and its     *)
(* place in the gauge from Track to Uncount.                                 *)
LEMMA HandleMoves ==
    ASSUME TypeOK, NEW c \in Conns, Handle(c)
    PROVE  /\ UNCHANGED <<acc, phase>>
           /\ \A x \in Conns : x # c => pc'[x] = pc[x]
           /\ pc[c] \notin {"none", "accepted", "gone"} /\ pc'[c] \notin {"none", "accepted", "spawned"}
           /\ \/ releaseConnSlot(c)
              \/ pc[c] # "uncount" /\ pc'[c] \notin {"uncount", "gone"} /\ active' = active
              \/ pc[c] = "uncount" /\ pc'[c] = "gone" /\ active' = active
           /\ \/ Track(c) \/ Uncount(c)
              \/ pc[c] # "spawned" /\ pc'[c] # "gone" /\ gauge' = gauge
  <1> USE DEF TypeOK, PCs, At, Goto
  <1>1. CASE Track(c) \/ DialCancelled(c) \/ QueryFailed(c) \/ ConnectFails(c) \/ ConnectOk(c) \/ StartRelay(c)
    BY <1>1 DEF Track, DialCancelled, QueryFailed, ConnectFails, ConnectOk, StartRelay
  <1>2. CASE Dial(c) \/ LookupOk(c) \/ NameNotFound(c) \/ SourceFails(c) \/ LookupCancelled(c)
             \/ DialTimesOut(c) \/ \E r \in Replies : QueryEnds(c, r)
    BY <1>2 DEF Dial, LookupOk, NameNotFound, SourceFails, LookupCancelled, DialTimesOut, QueryEnds
  <1>3. CASE IdleDecides(c) \/ RelayEnds(c) \/ CloseClient(c) \/ releaseConnSlot(c) \/ Uncount(c)
    BY <1>3 DEF IdleDecides, RelayEnds, CloseClient, releaseConnSlot, Uncount
  <1> QED
    BY <1>1, <1>2, <1>3 DEF Handle

(* A step of a copy loop, the select loop or the idle timer. *)
Relaying(c) == Select(c) \/ IdleLooks(c) \/ GoesIdle(c) \/ \E d \in Dirs : Copy(c, d)

(* Such a step leaves the goroutines of all connections where they are.      *)
LEMMA RelayingMoves ==
    ASSUME NEW c \in Conns, Relaying(c)
    PROVE  UNCHANGED <<acc, phase, pc, tracked, listed, active, gauge, dnsVars>>
  BY DEF Relaying, Select, RelayCancelled, Result, IdleLooks, GoesIdle, Copy, ReadData, ReadEOF,
         ReadFails, LimitPasses, LimitCancelled, LimitEnds, NotPending, Written, WriteFails, sockVars

(* The accept loop and the phases of Stop stay consistent.                   *)
LEMMA AcceptStep ==
    ASSUME TypeOK, AcceptInv, [Next]_vars
    PROVE  AcceptInv'
  <1> USE ConnAssumption DEF AcceptInv, TypeOK, PCs
  <1>1. ASSUME NEW c \in Conns, Accept(c) PROVE AcceptInv'
    BY <1>1 DEF Accept, At, Goto
  <1>2. ASSUME NEW c \in Conns, Reject(c) PROVE AcceptInv'
    BY <1>2 DEF Reject, Goto
  <1>3. ASSUME NEW c \in Conns, Admit(c) PROVE AcceptInv'
    BY <1>3 DEF Admit, Goto
  <1>4. ASSUME NEW c \in Conns, Handle(c) PROVE AcceptInv'
    <2>1. /\ UNCHANGED <<acc, phase>>
          /\ \A x \in Conns : x # c => pc'[x] = pc[x]
          /\ pc[c] \notin {"none", "accepted", "gone"} /\ pc'[c] # "accepted"
      BY <1>4, HandleMoves
    <2> QED
      BY <2>1
  <1>5. ASSUME NEW c \in Conns, Relaying(c) PROVE AcceptInv'
    BY <1>5, RelayingMoves
  <1>6. CASE AcceptLoopExits
    BY <1>6 DEF AcceptLoopExits
  <1>7. CASE StopCancels \/ StopListening \/ StopLists \/ StopClosesConns \/ StopReturns
    BY <1>7 DEF StopCancels, StopListening, StopLists, StopClosesConns, StopReturns
  <1>8. CASE SourceRecovers \/ UNCHANGED vars
    BY <1>8 DEF SourceRecovers, vars
  <1> QED
    BY <1>1, <1>2, <1>3, <1>4, <1>5, <1>6, <1>7, <1>8 DEF Next, Loop, Stopping, Relaying

-----------------------------------------------------------------------------
(* Sockets. *)

(* Every socket that opens has a goroutine that will close it.               *)
LEMMA SocketStep ==
    ASSUME TypeOK, AcceptInv, SocketInv, [Next]_vars
    PROVE  SocketInv'
  <1> USE ConnAssumption DEF SocketInv, TypeOK, PCs, Socket, At, Goto, sockVars
  <1>1. ASSUME NEW c \in Conns, Accept(c) \/ Reject(c) \/ Admit(c) PROVE SocketInv'
    BY <1>1 DEF Accept, Reject, Admit, AcceptInv
  <1>2. ASSUME NEW c \in Conns, Handle(c) PROVE SocketInv'
    <2>1. CASE Track(c) \/ DialCancelled(c) \/ QueryFailed(c) \/ ConnectFails(c) \/ ConnectOk(c) \/ StartRelay(c)
      BY <2>1 DEF Track, DialCancelled, QueryFailed, ConnectFails, ConnectOk, StartRelay
    <2>2. CASE Dial(c) \/ LookupOk(c) \/ NameNotFound(c) \/ SourceFails(c) \/ LookupCancelled(c)
             \/ DialTimesOut(c) \/ \E r \in Replies : QueryEnds(c, r)
      BY <2>2 DEF Dial, LookupOk, NameNotFound, SourceFails, LookupCancelled, DialTimesOut, QueryEnds
    <2>3. CASE IdleDecides(c) \/ RelayEnds(c) \/ CloseClient(c) \/ releaseConnSlot(c) \/ Uncount(c)
      BY <2>3 DEF IdleDecides, RelayEnds, CloseClient, releaseConnSlot, Uncount, closeBoth
    <2> QED
      BY <1>2, <2>1, <2>2, <2>3 DEF Handle
  <1>3. ASSUME NEW c \in Conns, Relaying(c) PROVE SocketInv'
    <2>1. \A x \in Conns : pc'[x] = pc[x]
      BY <1>3, RelayingMoves
    <2>2. \A x \in Conns :
            /\ client'[x] = "open" => client[x] = "open"
            /\ target'[x] = "open" => target[x] = "open"
      <3>1. CASE Select(c)
        BY <3>1 DEF Select, RelayCancelled, Result, closeBoth
      <3>2. CASE IdleLooks(c) \/ GoesIdle(c) \/ \E d \in Dirs : Copy(c, d)
        BY <3>2 DEF IdleLooks, GoesIdle, Copy, ReadData, ReadEOF, ReadFails, LimitPasses,
                    LimitCancelled, LimitEnds, NotPending, Written, WriteFails
      <3> QED
        BY <1>3, <3>1, <3>2 DEF Relaying
    <2> QED
      BY <2>1, <2>2
  <1>4. CASE StopClosesConns
    BY <1>4 DEF StopClosesConns
  <1>5. CASE AcceptLoopExits \/ StopCancels \/ StopListening \/ StopLists \/ StopReturns
                \/ SourceRecovers \/ UNCHANGED vars
    BY <1>5 DEF AcceptLoopExits, StopCancels, StopListening, StopLists, StopReturns, SourceRecovers, vars
  <1> QED
    BY <1>1, <1>2, <1>3, <1>4, <1>5 DEF Next, Loop, Stopping, Relaying

(* A tracked socket belongs to a goroutine that will untrack it.             *)
LEMMA TrackStep ==
    ASSUME TypeOK, AcceptInv, TrackInv, [Next]_vars
    PROVE  TrackInv'
  <1> USE ConnAssumption DEF TrackInv, TypeOK, PCs, At, Goto, sockVars
  <1>1. ASSUME NEW c \in Conns, Accept(c) \/ Reject(c) \/ Admit(c) PROVE TrackInv'
    <2>1. tracked' = tracked
      BY <1>1 DEF Accept, Reject, Admit
    <2>2. <<c, "client">> \notin tracked
      BY <1>1 DEF Accept, Reject, Admit, AcceptInv
    <2>3. <<c, "target">> \notin tracked
      BY <1>1 DEF Accept, Reject, Admit, AcceptInv
    <2>4. \A x \in Conns : x # c => pc'[x] = pc[x]
      BY <1>1 DEF Accept, Reject, Admit
    <2> QED
      BY <2>1, <2>2, <2>3, <2>4, Zenon
  <1>2. ASSUME NEW c \in Conns, Handle(c) PROVE TrackInv'
    <2>1. CASE Track(c) \/ StartRelay(c)
      BY <2>1 DEF Track, StartRelay
    <2>2. CASE RelayEnds(c) \/ CloseClient(c)
      BY <2>2 DEF RelayEnds, CloseClient
    <2>3. CASE DialCancelled(c) \/ QueryFailed(c) \/ ConnectFails(c) \/ ConnectOk(c)
                 \/ Dial(c) \/ LookupOk(c) \/ NameNotFound(c) \/ SourceFails(c) \/ LookupCancelled(c)
                 \/ DialTimesOut(c) \/ \E r \in Replies : QueryEnds(c, r)
      BY <2>3 DEF DialCancelled, QueryFailed, ConnectFails, ConnectOk, Dial, LookupOk, NameNotFound,
                  SourceFails, LookupCancelled, DialTimesOut, QueryEnds
    <2>4. CASE IdleDecides(c) \/ releaseConnSlot(c) \/ Uncount(c)
      BY <2>4 DEF IdleDecides, releaseConnSlot, Uncount
    <2> QED
      BY <1>2, <2>1, <2>2, <2>3, <2>4 DEF Handle
  <1>3. ASSUME NEW c \in Conns, Relaying(c) PROVE TrackInv'
    BY <1>3, RelayingMoves
  <1>4. CASE AcceptLoopExits \/ StopCancels \/ Stopping \/ SourceRecovers \/ UNCHANGED vars
    BY <1>4 DEF AcceptLoopExits, StopCancels, Stopping, StopListening, StopLists, StopClosesConns,
                StopReturns, SourceRecovers, vars
  <1> QED
    BY <1>1, <1>2, <1>3, <1>4 DEF Next, Loop, Relaying

-----------------------------------------------------------------------------
(* Counters. *)

(* A connection let in takes a slot, one that releases it gives it back.     *)
LEMMA ServingStep ==
    ASSUME TypeOK, AcceptInv, [Next]_vars
    PROVE  \/ \E c \in Conns : /\ MaxConn = 0 \/ active < MaxConn
                               /\ c \notin Serving /\ Serving' = Serving \cup {c}
                               /\ active' = active + 1
           \/ \E c \in Conns : /\ c \in Serving /\ Serving' = Serving \ {c}
                               /\ active' = active - 1
           \/ UNCHANGED <<Serving, active>>
  <1> USE ConnAssumption DEF TypeOK, PCs, Serving
  <1>1. ASSUME NEW c \in Conns, Accept(c) \/ Reject(c) PROVE UNCHANGED <<Serving, active>>
    BY <1>1 DEF Accept, Reject, AcceptInv, At, Goto
  <1>2. ASSUME NEW c \in Conns, Admit(c)
        PROVE  /\ MaxConn = 0 \/ active < MaxConn
               /\ c \notin Serving /\ Serving' = Serving \cup {c} /\ active' = active + 1
    BY <1>2 DEF Admit, reserveConnSlot, AcceptInv, Goto
  <1>3. ASSUME NEW c \in Conns, Handle(c), ~releaseConnSlot(c) PROVE UNCHANGED <<Serving, active>>
    BY <1>3, HandleMoves
  <1>4. ASSUME NEW c \in Conns, releaseConnSlot(c)
        PROVE  c \in Serving /\ Serving' = Serving \ {c} /\ active' = active - 1
    BY <1>4 DEF releaseConnSlot, At, Goto
  <1>5. ASSUME NEW c \in Conns, Relaying(c) PROVE UNCHANGED <<Serving, active>>
    BY <1>5, RelayingMoves
  <1>6. CASE AcceptLoopExits \/ StopCancels \/ Stopping \/ SourceRecovers \/ UNCHANGED vars
    BY <1>6 DEF AcceptLoopExits, StopCancels, Stopping, StopListening, StopLists, StopClosesConns,
                StopReturns, SourceRecovers, vars
  <1> HIDE DEF Serving
  <1> QED
    BY <1>1, <1>2, <1>3, <1>4, <1>5, <1>6 DEF Next, Loop, Relaying

(* The collector's gauge goes up at Track and down at Uncount.               *)
LEMMA GaugedStep ==
    ASSUME TypeOK, AcceptInv, [Next]_vars
    PROVE  \/ \E c \in Conns : c \notin Gauged /\ Gauged' = Gauged \cup {c} /\ gauge' = gauge + 1
           \/ \E c \in Conns : c \in Gauged /\ Gauged' = Gauged \ {c} /\ gauge' = gauge - 1
           \/ UNCHANGED <<Gauged, gauge>>
  <1> USE ConnAssumption DEF TypeOK, PCs, Gauged
  <1>1. ASSUME NEW c \in Conns, Accept(c) \/ Reject(c) \/ Admit(c) PROVE UNCHANGED <<Gauged, gauge>>
    BY <1>1 DEF Accept, Reject, Admit, AcceptInv, At, Goto
  <1>2. ASSUME NEW c \in Conns, Track(c)
        PROVE  c \notin Gauged /\ Gauged' = Gauged \cup {c} /\ gauge' = gauge + 1
    BY <1>2 DEF Track, At, Goto
  <1>3. ASSUME NEW c \in Conns, Handle(c), ~Track(c), ~Uncount(c) PROVE UNCHANGED <<Gauged, gauge>>
    BY <1>3, HandleMoves
  <1>4. ASSUME NEW c \in Conns, Uncount(c)
        PROVE  c \in Gauged /\ Gauged' = Gauged \ {c} /\ gauge' = gauge - 1
    BY <1>4 DEF Uncount, At, Goto
  <1>5. ASSUME NEW c \in Conns, Relaying(c) PROVE UNCHANGED <<Gauged, gauge>>
    BY <1>5, RelayingMoves
  <1>6. CASE AcceptLoopExits \/ StopCancels \/ Stopping \/ SourceRecovers \/ UNCHANGED vars
    BY <1>6 DEF AcceptLoopExits, StopCancels, Stopping, StopListening, StopLists, StopClosesConns,
                StopReturns, SourceRecovers, vars
  <1> HIDE DEF Gauged
  <1> QED
    BY <1>1, <1>2, <1>3, <1>4, <1>5, <1>6 DEF Next, Loop, Relaying

(* Both counters keep counting their goroutines.                             *)
LEMMA CountStep ==
    ASSUME TypeOK, AcceptInv, CountInv, [Next]_vars
    PROVE  CountInv'
  <1>1. IsFiniteSet(Serving') /\ active' = Cardinality(Serving')
    BY ServingStep, FS_AddElement, FS_RemoveElement DEF CountInv
  <1>2. IsFiniteSet(Gauged') /\ gauge' = Cardinality(Gauged')
    BY GaugedStep, FS_AddElement, FS_RemoveElement DEF CountInv
  <1> QED
    BY <1>1, <1>2 DEF CountInv

-----------------------------------------------------------------------------
(* Waiting for a limiter. *)

(* A copy loop that moves to a state changes its own ticket and no other.    *)
LEMMA TicketStep ==
    ASSUME TypeOK, NEW c \in Conns, NEW d \in Dirs, NEW v \in Copies, CopyTo(c, d, v)
    PROVE  /\ copy'[c][d] = v
           /\ \A x \in Conns, e \in Dirs : x # c \/ e # d => copy'[x][e] = copy[x][e]
  BY DEF TypeOK, CopyTo

(* No copy loop runs before its relay.                                       *)
LEMMA FreshStep ==
    ASSUME TypeOK, AcceptInv, FreshInv, [Next]_vars
    PROVE  FreshInv'
  <1> USE DEF FreshInv, Early
  <1> DEFINE Later == copy' = copy /\ \A x \in Conns : pc'[x] \in Early => pc[x] \in Early
  <1>0. Later => FreshInv'
    OBVIOUS
  <1>1. ASSUME NEW c \in Conns, StartRelay(c) PROVE FreshInv'
    BY <1>1 DEF StartRelay, Goto, TypeOK, PCs
  <1>2. ASSUME NEW c \in Conns, Handle(c), ~StartRelay(c) PROVE Later
    BY <1>2 DEF Handle, Track, Dial, DialCancelled, LookupOk, NameNotFound, QueryFailed, SourceFails,
                LookupCancelled, DialTimesOut, QueryEnds, ConnectFails, ConnectOk, IdleDecides, RelayEnds, CloseClient,
                releaseConnSlot, Uncount, relayVars, At, Goto, TypeOK, PCs
  <1>3. ASSUME NEW c \in Conns, NEW d \in Dirs, NEW v \in Copies, CopyTo(c, d, v),
               copy[c][d] # "none", pc' = pc
        PROVE  FreshInv'
    BY <1>3, TicketStep
  <1>4. ASSUME NEW c \in Conns, NEW d \in Dirs, Copy(c, d) PROVE FreshInv'
    <2>1. \E v \in Copies : CopyTo(c, d, v) /\ copy[c][d] # "none" /\ pc' = pc
      BY <1>4 DEF Copy, ReadData, ReadEOF, ReadFails, LimitPasses, LimitCancelled, LimitEnds, NotPending,
                  Written, WriteFails, Copying, Copies
    <2> QED
      BY <1>3, <2>1
  <1>5. ASSUME NEW c \in Conns, NEW d \in Dirs, Result(c, d) PROVE FreshInv'
    <2>1. CopyTo(c, d, "done") /\ copy[c][d] # "none" /\ pc' = pc
      BY <1>5 DEF Result
    <2> QED
      BY <1>3, <2>1 DEF Copies
  <1>6. ASSUME NEW c \in Conns, RelayCancelled(c) \/ IdleLooks(c) \/ GoesIdle(c) PROVE Later
    BY <1>6 DEF RelayCancelled, IdleLooks, GoesIdle
  <1>7. ASSUME NEW c \in Conns, Accept(c) \/ Reject(c) \/ Admit(c) PROVE Later
    BY <1>7, ConnAssumption DEF Accept, Reject, Admit, relayVars, At, Goto, AcceptInv, TypeOK, PCs
  <1>8. CASE AcceptLoopExits \/ StopCancels \/ Stopping \/ SourceRecovers \/ UNCHANGED vars
    <2>1. Later
      BY <1>8 DEF AcceptLoopExits, StopCancels, Stopping, StopListening, StopLists, StopClosesConns,
                  StopReturns, SourceRecovers, vars, relayVars
    <2> QED
      BY <1>0, <2>1
  <1> HIDE DEF Later, FreshInv
  <1> QED
    BY <1>0, <1>1, <1>2, <1>4, <1>5, <1>6, <1>7, <1>8 DEF Next, Loop, Select

(* The copy loops keep pending and the last activity in step.                *)
LEMMA PendCopy ==
    ASSUME TypeOK, PendInv, NEW c \in Conns, NEW d \in Dirs, Copy(c, d)
    PROVE  PendInv'
  <1> USE DEF PendInv, Waiting, Ticket
  <1>1. timer' = timer /\ timer \in [Conns -> {"armed", "looked"}] /\ pend \in [Conns -> Int]
                      /\ stale \in [Conns -> BOOLEAN]
    BY DEF Copy, ReadData, ReadEOF, ReadFails, LimitPasses, LimitCancelled, LimitEnds, NotPending,
           Written, WriteFails, TypeOK
  <1>2. {"read", "limit", "passed", "stopped", "write", "eof", "err"} \subseteq Copies
    BY DEF Copies
  <1>3. d = "up" \/ d = "down"
    BY DEF Dirs
  <1>4. ASSUME NEW v \in Copies, CopyTo(c, d, v),
               v \notin {"limit", "passed", "stopped"}, copy[c][d] \notin {"limit", "passed", "stopped"},
               pend' = pend, stale' = stale \/ stale' = [stale EXCEPT ![c] = FALSE]
        PROVE  PendInv'
    <2>1. copy'[c][d] = v /\ \A x \in Conns, e \in Dirs : x # c \/ e # d => copy'[x][e] = copy[x][e]
      BY <1>4, TicketStep
    <2> QED
      BY <1>1, <1>3, <1>4, <2>1 DEF Dirs
  <1>5. CASE ReadData(c, d) /\ RateLimited
    <2>1. copy'[c][d] = "limit" /\ \A x \in Conns, e \in Dirs : x # c \/ e # d => copy'[x][e] = copy[x][e]
      BY <1>2, <1>5, TicketStep DEF ReadData
    <2>2. copy[c][d] = "read" /\ pend' = [pend EXCEPT ![c] = @ + 1] /\ stale' = [stale EXCEPT ![c] = FALSE]
      BY <1>5 DEF ReadData, notedRead, touch, Copying
    <2> QED
      BY <1>1, <1>3, <2>1, <2>2 DEF Dirs
  <1>6. CASE LimitPasses(c, d) \/ LimitCancelled(c, d)
    <2>1. PICK v \in {"passed", "stopped"} : LimitEnds(c, d, v)
      BY <1>6 DEF LimitPasses, LimitCancelled
    <2>2. copy'[c][d] = v /\ \A x \in Conns, e \in Dirs : x # c \/ e # d => copy'[x][e] = copy[x][e]
      BY <1>2, <2>1, TicketStep DEF LimitEnds
    <2>3. copy[c][d] = "limit" /\ pend' = pend /\ stale' = [stale EXCEPT ![c] = FALSE]
      BY <2>1 DEF LimitEnds, touch, Copying
    <2> QED
      BY <1>1, <1>3, <2>2, <2>3 DEF Dirs
  <1>7. CASE NotPending(c, d)
    <2>1. PICK v \in {"write", "err"} : CopyTo(c, d, v)
      BY <1>7 DEF NotPending
    <2>2. copy'[c][d] = v /\ \A x \in Conns, e \in Dirs : x # c \/ e # d => copy'[x][e] = copy[x][e]
      BY <1>2, <2>1, TicketStep
    <2>3. copy[c][d] \in {"passed", "stopped"} /\ pend' = [pend EXCEPT ![c] = @ - 1] /\ stale' = stale
      BY <1>7 DEF NotPending
    <2> QED
      BY <1>1, <1>3, <2>2, <2>3 DEF Dirs
  <1>8. CASE ReadData(c, d) /\ ~RateLimited
    <2>1. /\ CopyTo(c, d, "write") /\ copy[c][d] = "read"
          /\ pend' = pend /\ stale' = [stale EXCEPT ![c] = FALSE]
      BY <1>8 DEF ReadData, notedRead, touch, Copying
    <2> QED
      BY <1>2, <1>4, <2>1
  <1>9. CASE Written(c, d)
    <2>1. /\ CopyTo(c, d, "read") /\ copy[c][d] = "write"
          /\ pend' = pend /\ stale' = [stale EXCEPT ![c] = FALSE]
      BY <1>9 DEF Written, touch, Copying
    <2> QED
      BY <1>2, <1>4, <2>1
  <1>10. CASE ReadEOF(c, d) \/ ReadFails(c, d) \/ WriteFails(c, d)
    <2>1. PICK v \in {"eof", "err"} : /\ CopyTo(c, d, v) /\ copy[c][d] \in {"read", "write"}
                                      /\ pend' = pend /\ stale' = stale
      BY <1>10 DEF ReadEOF, ReadFails, WriteFails, Copying
    <2> QED
      BY <1>2, <1>4, <2>1
  <1> QED
    BY <1>5, <1>6, <1>7, <1>8, <1>9, <1>10 DEF Copy

(* So does every step.                                                       *)
LEMMA PendStep ==
    ASSUME TypeOK, FreshInv, PendInv, [Next]_vars
    PROVE  PendInv'
  <1> USE DEF PendInv, Waiting, Ticket
  <1> DEFINE Rest == UNCHANGED <<copy, pend, timer, stale>>
  <1>0. Rest => PendInv'
    OBVIOUS
  <1>1. ASSUME NEW c \in Conns, StartRelay(c) PROVE PendInv'
    <2>1. \A d \in Dirs : copy[c][d] = "none" /\ copy'[c][d] = "read"
      BY <1>1 DEF StartRelay, At, FreshInv, Early, TypeOK
    <2>2. \A x \in Conns : x # c => copy'[x] = copy[x]
      BY <1>1 DEF StartRelay, TypeOK
    <2>3. UNCHANGED <<pend, timer, stale>>
      BY <1>1 DEF StartRelay
    <2> QED
      BY <2>1, <2>2, <2>3 DEF Dirs
  <1>2. ASSUME NEW c \in Conns, IdleDecides(c) PROVE PendInv'
    BY <1>2 DEF IdleDecides, TypeOK
  <1>3. ASSUME NEW c \in Conns, Handle(c), ~StartRelay(c), ~IdleDecides(c) PROVE Rest
    BY <1>3 DEF Handle, Track, Dial, DialCancelled, LookupOk, NameNotFound, QueryFailed, SourceFails,
                LookupCancelled, DialTimesOut, QueryEnds, ConnectFails, ConnectOk, RelayEnds, CloseClient, releaseConnSlot,
                Uncount, relayVars
  <1>4. ASSUME NEW c \in Conns, NEW d \in Dirs, Copy(c, d) PROVE PendInv'
    BY <1>4, PendCopy
  <1>5. ASSUME NEW c \in Conns, NEW d \in Dirs, Result(c, d) PROVE PendInv'
    <2>1. /\ copy'[c][d] = "done"
          /\ \A x \in Conns, e \in Dirs : x # c \/ e # d => copy'[x][e] = copy[x][e]
      BY <1>5, TicketStep DEF Result, Copies
    <2>2. copy[c][d] \in {"eof", "err"} /\ UNCHANGED <<pend, timer, stale>>
      BY <1>5 DEF Result
    <2> QED
      BY <2>1, <2>2 DEF Dirs, TypeOK
  <1>6. ASSUME NEW c \in Conns, RelayCancelled(c) PROVE Rest
    BY <1>6 DEF RelayCancelled
  <1>7. ASSUME NEW c \in Conns, IdleLooks(c) PROVE PendInv'
    BY <1>7 DEF IdleLooks, hasPending, TypeOK, Dirs
  <1>8. ASSUME NEW c \in Conns, GoesIdle(c) PROVE PendInv'
    BY <1>8 DEF GoesIdle, TypeOK
  <1>9. ASSUME NEW c \in Conns, Accept(c) \/ Reject(c) \/ Admit(c) PROVE Rest
    BY <1>9 DEF Accept, Reject, Admit, relayVars
  <1>10. CASE AcceptLoopExits \/ StopCancels \/ Stopping \/ SourceRecovers \/ UNCHANGED vars
    <2>1. Rest
      BY <1>10 DEF AcceptLoopExits, StopCancels, Stopping, StopListening, StopLists, StopClosesConns,
                  StopReturns, SourceRecovers, vars, relayVars
    <2> QED
      BY <1>0, <2>1
  <1> HIDE DEF Rest, PendInv
  <1> QED
    BY <1>0, <1>1, <1>2, <1>3, <1>4, <1>5, <1>6, <1>7, <1>8, <1>9, <1>10 DEF Next, Loop, Select

-----------------------------------------------------------------------------
(* Lookups. *)

(* What the steps of a lookup do to why its query ended.                     *)
LEMMA CutStep ==
    ASSUME TypeOK, AcceptInv, CutInv, [Next]_vars
    PROVE  CutInv'
  <1> USE DEF CutInv, At, Goto
  <1> DEFINE Rest == UNCHANGED <<pc, reply>> /\ (phase # "on" => phase' # "on")
  <1>0. Rest => CutInv'
    OBVIOUS
  <1>1. ASSUME NEW c \in Conns, NEW r \in Replies, QueryEnds(c, r) PROVE CutInv'
    BY <1>1 DEF QueryEnds, QueryReturns, TypeOK, PCs
  <1>2. ASSUME NEW c \in Conns, LookupCancelled(c) \/ DialTimesOut(c) PROVE CutInv'
    BY <1>2 DEF LookupCancelled, DialTimesOut, LookupAbandoned, TypeOK, PCs
  <1>3. ASSUME NEW c \in Conns, LookupOk(c) \/ NameNotFound(c) PROVE CutInv'
    BY <1>3 DEF LookupOk, NameNotFound, LookupAnswered, TypeOK, PCs
  <1>4. ASSUME NEW c \in Conns, QueryFailed(c) PROVE CutInv'
    BY <1>4 DEF QueryFailed, ctxErr, dnsVars, TypeOK, PCs
  <1>5. ASSUME NEW c \in Conns, SourceFails(c) PROVE CutInv'
    BY <1>5 DEF SourceFails, LookupFailsOver, TypeOK, PCs
  <1>6. ASSUME NEW c \in Conns, Dial(c) PROVE CutInv'
    BY <1>6 DEF Dial, LookupAsks, dnsVars, TypeOK, PCs
  <1>7. ASSUME NEW c \in Conns, Track(c) \/ DialCancelled(c) \/ ConnectFails(c) \/ ConnectOk(c) \/ StartRelay(c)
        PROVE  CutInv'
    BY <1>7 DEF Track, DialCancelled, ConnectFails, ConnectOk, StartRelay, dnsVars, TypeOK, PCs
  <1>8. ASSUME NEW c \in Conns, RelayEnds(c) \/ CloseClient(c) \/ releaseConnSlot(c) \/ Uncount(c)
        PROVE  CutInv'
    BY <1>8 DEF RelayEnds, CloseClient, releaseConnSlot, Uncount, dnsVars, TypeOK, PCs
  <1>9. ASSUME NEW c \in Conns, Accept(c) \/ Reject(c) \/ Admit(c) PROVE CutInv'
    <2>1. pc[c] # "answer"
      BY <1>9, ConnAssumption DEF Accept, Reject, Admit, AcceptInv
    <2> QED
      BY <1>9, <2>1 DEF Accept, Reject, Admit, dnsVars, TypeOK, PCs
  <1>10. ASSUME NEW c \in Conns, Relaying(c) \/ IdleDecides(c) PROVE Rest
    BY <1>10, RelayingMoves DEF IdleDecides, dnsVars
  <1>11. CASE AcceptLoopExits \/ StopCancels \/ Stopping \/ SourceRecovers \/ UNCHANGED vars
    <2>1. Rest
      BY <1>11 DEF AcceptLoopExits, StopCancels, Stopping, StopListening, StopLists, StopClosesConns,
                   StopReturns, SourceRecovers, CooldownOver, vars, dnsVars
    <2> QED
      BY <1>0, <2>1
  <1> HIDE DEF Rest, CutInv
  <1>12. ASSUME NEW c \in Conns, Handle(c) PROVE CutInv'
    BY <1>12, <1>0, <1>1, <1>2, <1>3, <1>4, <1>5, <1>6, <1>7, <1>8, <1>10 DEF Handle
  <1> QED
    BY <1>0, <1>9, <1>10, <1>11, <1>12 DEF Next, Loop, Relaying

-----------------------------------------------------------------------------
(* Theorems. *)

(* A runner without connections satisfies the invariant.                     *)
LEMMA InitInv == Init => TypeOK /\ RunnerInv
  <1> SUFFICES ASSUME Init PROVE TypeOK /\ RunnerInv
    OBVIOUS
  <1>1. TypeOK
    BY ConnAssumption DEF Init, InitDNS, TypeOK, PCs, Socket, Copies
  <1>2. AcceptInv /\ SocketInv /\ TrackInv
    BY ConnAssumption DEF Init, AcceptInv, SocketInv, TrackInv
  <1>3. Serving = {} /\ Gauged = {} /\ active = 0 /\ gauge = 0
    BY DEF Init, Serving, Gauged
  <1>4. CountInv
    BY <1>3, FS_EmptySet DEF CountInv
  <1>5. FreshInv /\ PendInv /\ CutInv
    BY ConnAssumption DEF Init, InitDNS, CutInv, FreshInv, PendInv, Waiting, Ticket, Dirs
  <1> QED
    BY <1>1, <1>2, <1>4, <1>5 DEF RunnerInv

(* Every step keeps it, conjunct by conjunct.                                *)
LEMMA StepInv == TypeOK /\ RunnerInv /\ [Next]_vars => TypeOK' /\ RunnerInv'
  BY TypeStep, AcceptStep, SocketStep, TrackStep, CountStep, FreshStep, PendStep, CutStep DEF RunnerInv

(* The inductive invariant behind the theorems below holds in every reach-   *)
(* able state of tcpRunner.                                                  *)
THEOREM RunnerInvariant == Spec => [](TypeOK /\ RunnerInv)
  BY InitInv, StepInv, PTL DEF Spec

(* The state of tcpRunner keeps its type.                                    *)
THEOREM TypeCorrect == Spec => []TypeOK
  BY RunnerInvariant, PTL

(* When Stop returns every socket is closed, also one accepted, dialled or   *)
(* tracked after closeAllConns looked, and both counters are back at zero.   *)
THEOREM StoppedIsCleanHolds == Spec => []StoppedIsClean
  <1>1. TypeOK /\ RunnerInv => StoppedIsClean
    <2> SUFFICES ASSUME TypeOK, RunnerInv, phase = "stopped"
                 PROVE  /\ \A c \in Conns : client[c] # "open" /\ target[c] # "open"
                        /\ tracked = {} /\ active = 0 /\ gauge = 0
      BY DEF StoppedIsClean
    <2>1. \A c \in Conns : pc[c] \in {"none", "gone"}
      BY DEF RunnerInv, AcceptInv
    <2>2. \A c \in Conns : client[c] # "open" /\ target[c] # "open"
      BY <2>1 DEF RunnerInv, SocketInv
    <2>3. tracked = {}
      <3>1. \A t \in tracked : \E c \in Conns : t = <<c, "client">> \/ t = <<c, "target">>
        BY DEF RunnerInv, TrackInv
      <3> QED
        BY <2>1, <3>1 DEF RunnerInv, TrackInv
    <2>4. Serving = {} /\ Gauged = {}
      BY <2>1 DEF Serving, Gauged
    <2>5. active = 0 /\ gauge = 0
      BY <2>4, FS_EmptySet DEF RunnerInv, CountInv
    <2> QED
      BY <2>2, <2>3, <2>5
  <1> QED
    BY <1>1, RunnerInvariant, PTL

(* The idle timer closes no connection that waits for a limiter.             *)
THEOREM IdleSparesPendingHolds == Spec => IdleSparesPending
  <1>1. TypeOK /\ RunnerInv /\ [Next]_vars =>
           [\A c \in Conns :
               timer[c] = "looked" /\ timer'[c] = "armed" /\ ~closing[c] /\ closing'[c] =>
                  \A d \in Dirs : copy[c][d] \notin {"limit", "passed"}]_vars
    <2> SUFFICES ASSUME TypeOK, PendInv, Next, NEW c \in Conns,
                        timer[c] = "looked", timer'[c] = "armed", ~closing[c], closing'[c]
                 PROVE  \A d \in Dirs : copy[c][d] \notin {"limit", "passed"}
      BY DEF RunnerInv
    <2>1. stale[c]
      <3>1. ASSUME NEW x \in Conns, IdleDecides(x) PROVE stale[c]
        BY <3>1 DEF IdleDecides, closeBoth, TypeOK
      <3>2. ASSUME NEW x \in Conns, IdleLooks(x) PROVE FALSE
        BY <3>2 DEF IdleLooks
      <3>3. ASSUME NEW x \in Conns, Handle(x), ~IdleDecides(x) PROVE timer' = timer
        BY <3>3 DEF Handle, Track, Dial, DialCancelled, LookupOk, NameNotFound, QueryFailed, SourceFails,
                    LookupCancelled, DialTimesOut, QueryEnds, ConnectFails, ConnectOk, StartRelay, RelayEnds, CloseClient,
                    releaseConnSlot, Uncount, relayVars
      <3>4. ASSUME NEW x \in Conns, Select(x) \/ GoesIdle(x) \/ \E d \in Dirs : Copy(x, d)
            PROVE  timer' = timer
        BY <3>4 DEF Select, RelayCancelled, Result, GoesIdle, Copy, ReadData, ReadEOF, ReadFails,
                    LimitPasses, LimitCancelled, LimitEnds, NotPending, Written, WriteFails
      <3>5. ASSUME NEW x \in Conns, Accept(x) \/ Reject(x) \/ Admit(x) PROVE timer' = timer
        BY <3>5 DEF Accept, Reject, Admit, relayVars
      <3>6. CASE AcceptLoopExits \/ StopCancels \/ Stopping \/ SourceRecovers
        BY <3>6 DEF AcceptLoopExits, StopCancels, Stopping, StopListening, StopLists, StopClosesConns,
                    StopReturns, SourceRecovers, relayVars
      <3> QED
        BY <3>1, <3>2, <3>3, <3>4, <3>5, <3>6 DEF Next, Loop
    <2> QED
      BY <2>1 DEF PendInv, Waiting
  <1> QED
    BY <1>1, RunnerInvariant, PTL DEF Spec, IdleSparesPending

(* Stopping a rule blames no name server for a query it cut off: such a      *)
(* query is looked at with the context done, so it is given up and never     *)
(* reaches markUnhealthy.                                                    *)
THEOREM StopSparesResolverHolds == Spec => StopSparesResolver
  <1>1. TypeOK /\ RunnerInv /\ [Next]_vars =>
           [\A c \in Conns :
               reply[c] = "cut" /\ asking'[c] # asking[c] => cooling' \subseteq cooling]_vars
    <2> SUFFICES ASSUME TypeOK, CutInv, AcceptInv, Next, NEW c \in Conns,
                        reply[c] = "cut", asking'[c] # asking[c]
                 PROVE  cooling' \subseteq cooling
      BY DEF RunnerInv
    <2>1. pc[c] = "answer" /\ phase # "on"
      BY DEF CutInv
    <2>2. ASSUME NEW x \in Conns, SourceFails(x) PROVE FALSE
      BY <2>1, <2>2 DEF SourceFails, LookupFailsOver, At, TypeOK
    <2>3. ASSUME NEW x \in Conns, Handle(x), ~SourceFails(x) PROVE cooling' \subseteq cooling
      BY <2>3 DEF Handle, Track, Dial, DialCancelled, LookupOk, NameNotFound, QueryFailed, QueryEnds,
                  LookupCancelled, DialTimesOut, ConnectFails, ConnectOk, StartRelay, IdleDecides, RelayEnds,
                  CloseClient, releaseConnSlot, Uncount, dnsVars, LookupAsks, LookupAnswered,
                  LookupAbandoned, QueryReturns
    <2>4. ASSUME NEW x \in Conns, Relaying(x) \/ Accept(x) \/ Reject(x) \/ Admit(x)
          PROVE  cooling' \subseteq cooling
      BY <2>4, RelayingMoves DEF dnsVars, Accept, Reject, Admit
    <2>5. CASE AcceptLoopExits \/ StopCancels \/ Stopping \/ SourceRecovers
      BY <2>5 DEF AcceptLoopExits, StopCancels, Stopping, StopListening, StopLists, StopClosesConns,
                  StopReturns, SourceRecovers, CooldownOver, dnsVars
    <2> QED
      BY <2>2, <2>3, <2>4, <2>5 DEF Next, Loop, Relaying
  <1> QED
    BY <1>1, RunnerInvariant, PTL DEF Spec, StopSparesResolver

(* activeConn implements a session budget of MaxConn: the slots are the      *)
(* connections being served, each taken and given back once, none beyond the *)
(* limit.                                                                    *)
THEOREM RunnerImplementsBudget == Spec => ImplementsBudget
  <1>1. Init => Slots!Init
    BY ConnAssumption DEF Init, Slots!Init, Serving
  <1>2. TypeOK /\ RunnerInv /\ [Next]_vars => [Slots!Next]_(Slots!budgetVars)
    <2> SUFFICES ASSUME TypeOK, AcceptInv, [Next]_vars PROVE [Slots!Next]_(Slots!budgetVars)
      BY DEF RunnerInv
    <2>1. CASE \E c \in Conns : /\ MaxConn = 0 \/ active < MaxConn
                                /\ c \notin Serving /\ Serving' = Serving \cup {c}
                                /\ active' = active + 1
      BY <2>1 DEF Slots!Next, Slots!Take
    <2>2. CASE \E c \in Conns : /\ c \in Serving /\ Serving' = Serving \ {c}
                                /\ active' = active - 1
      <3>1. PICK c \in Conns : c \in Serving /\ Serving' = Serving \ {c} /\ active' = active - 1
        BY <2>2
      <3>2. {c} \in SUBSET Serving /\ Cardinality({c}) = 1
        BY <3>1, FS_Singleton
      <3>3. Slots!Cardinality({c}) = Cardinality({c})
        BY DEF Cardinality, Slots!Cardinality
      <3>4. Slots!Give({c})
        BY <3>1, <3>2, <3>3 DEF Slots!Give
      <3> QED
        BY <3>2, <3>4 DEF Slots!Next
    <2>3. CASE UNCHANGED <<Serving, active>>
      BY <2>3 DEF Slots!budgetVars
    <2> QED
      BY <2>1, <2>2, <2>3, ServingStep
  <1> QED
    BY <1>1, <1>2, RunnerInvariant, PTL DEF Spec, ImplementsBudget, Slots!Spec
=============================================================================
