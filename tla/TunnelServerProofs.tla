------------------------- MODULE TunnelServerProofs -------------------------
(***************************************************************************)
(* Proofs about TunnelServer, for every set of sessions, clients, tunnels  *)
(* and public connections: a registered session has all its listeners, a   *)
(* reload disconnects what it revoked, and a data connection does not      *)
(* outlive the public connection that took it.                             *)
(***************************************************************************)
EXTENDS TunnelServer, FiniteSetTheorems, TLAPS

-----------------------------------------------------------------------------
(* The inductive invariant. *)

Phases == {"none", "hello", "found", "evict", "starting", "serving", "ending", "gone"}

(* The functions have their domains and their ranges. *)
TypeOK ==
    /\ proto \in {"tcp", "udp"} /\ up \in {"on", "stopping", "returned"}
    /\ granted \in SUBSET Sessions /\ reloads \in Nat
    /\ reload \in {"none", "swapped", "listed"}
    /\ doomed \in SUBSET Sessions /\ before \in SUBSET Sessions
    /\ sess \in [Sessions -> Phases]
    /\ started \in [Sessions -> Nat]
    /\ clients \in [Clients -> Sessions \cup {None}] /\ overlap \in BOOLEAN
    /\ listeners \in [Keys -> Listeners \cup {None}]
    /\ port \in [Keys -> Listeners \cup {None}]
    /\ cancelled \in SUBSET Listeners
    /\ work \in [Actors -> SUBSET Keys]
    /\ waits \in [Actors -> [l : Listeners, s : {"removed", "closed"}] \cup {None}]
    /\ victim \in [Actors -> Sessions \cup {None}]
    /\ peer \in [Peers -> {"none", "spawned", "waiting", "piping", "write", "reading", "gone", "gave_up"}]
    /\ at \in [Peers -> Listeners \cup {None}]
    /\ DOMAIN via = Peers /\ pending \in SUBSET Peers
    /\ chan \in [Peers -> {"empty", "nil", "data"}]
    /\ data \in [Peers -> {"none", "asked", "held", "open", "closed"}]
    /\ udp \in [Listeners -> Peers \cup {None}]

(* A registered session is one being served; only a session that is starting *)
(* has tunnels it has not been registered for.                               *)
SessionInv ==
    /\ \A c \in Clients : clients[c] # None => ClientOf[clients[c]] = c /\ sess[clients[c]] = "serving"
    /\ \A s \in Sessions : sess[s] = "starting" => started[s] <= Len(Specs(s))
    /\ \A s \in Sessions : sess[s] # "starting" => started[s] = 0

(* What registerSession found is a session. *)
FoundInv == \A s \in Sessions : sess[s] = "found" => victim[s] \in Sessions

(* A listener is kept under its key, which is one its hello asked for; until *)
(* an overlap, those of a client belong to sessions with the same tunnels.   *)
Alike ==
    \A j, k \in Keys :
        /\ listeners[j] # None /\ listeners[k] # None
        /\ ClientOf[listeners[j][1]] = ClientOf[listeners[k][1]]
        => KeysOf(listeners[j][1]) = KeysOf(listeners[k][1])

ListenerInv ==
    /\ \A k \in Keys : listeners[k] # None =>
          listeners[k][2] = k /\ k \in KeysOf(listeners[k][1])
    /\ ~overlap => Alike

(* The keys whose listeners a session counts on. *)
Holds(s, k) ==
    \/ s \in Registered /\ k \in KeysOf(s)
    \/ sess[s] = "starting" /\ \E i \in 1..started[s] : Specs(s)[i] = k

(* A session that has begun to start listeners, and is past that. *)
Past == {s \in Sessions : sess[s] \in {"serving", "ending", "gone"}}

(* While the server runs, until an overlap: what a session counts on is there, and nobody is   *)
(* about to take it down; a key an actor has to stop is in the map with a    *)
(* listener whose session no longer counts on it, and is for that actor      *)
(* alone.                                                                    *)
HeldInv ==
    \A s \in Sessions, k \in Keys : Holds(s, k) =>
        listeners[k] = <<s, k>> /\ port[k] = <<s, k>>

WorkInv ==
    \A a \in Actors, k \in Keys : k \in work[a] =>
        /\ listeners[k] # None
        /\ listeners[k][1] \in Past \ Registered
        /\ \A b \in Actors : k \in work[b] => b = a

WaitInv ==
    \A a \in Actors : waits[a] # None => waits[a].l[1] \in Past \ Registered

ServeInv == up = "on" /\ ~overlap => HeldInv /\ WorkInv /\ WaitInv

(* A session registered when the access list was swapped never registers     *)
(* again, and is dropped if the list no longer has it.                       *)
ReloadInv ==
    /\ before \subseteq Past
    /\ reload = "listed" => (Registered \ granted) \cap before \subseteq doomed

(* A UDP session is that of the datagram that opened it, while its goroutine *)
(* writes or reads.                                                          *)
UDPInv ==
    \A l \in Listeners : udp[l] # None =>
        peer[udp[l]] \in {"write", "reading"} /\ at[udp[l]] = l /\ via[udp[l]] = udp[l]

(* What the data connection of a public connection may be, by where its      *)
(* goroutine is.                                                             *)
DataOf(p) ==
    /\ peer[p] \in {"none", "spawned"} => data[p] = "none" /\ chan[p] = "empty" /\ p \notin pending
    /\ peer[p] = "waiting" => (chan[p] = "data" <=> data[p] = "open")
    /\ peer[p] = "piping" => data[p] = "open"
    /\ peer[p] \in {"write", "reading"} =>
          /\ data[p] \in {"none", "open", "closed"}
          /\ data[p] = "open" => via[p] = p /\ udp[at[p]] = p
    /\ peer[p] = "reading" => via[p] = p
    /\ peer[p] \in {"spawned", "waiting", "piping", "write", "reading"} <=> at[p] # None
    /\ peer[p] = "gone" => data[p] \in {"none", "closed"}

DataInv == \A p \in Peers : DataOf(p)

TunnelInv == TypeOK /\ SessionInv /\ FoundInv /\ ListenerInv /\ ServeInv /\ ReloadInv /\ UDPInv /\ DataInv

-----------------------------------------------------------------------------
(* The shape of the state. *)

(* The tunnels of a session.                                                 *)
LEMMA SpecsType ==
    ASSUME NEW s \in Sessions
    PROVE  /\ ClientOf[s] \in Clients /\ Specs(s) \in Seq(Keys) /\ Len(Specs(s)) \in Nat
           /\ \A i \in 1..Len(Specs(s)) : Specs(s)[i] \in Keys /\ Specs(s)[i] \in KeysOf(s)
           /\ \A k \in KeysOf(s) : k \in Keys /\ \E i \in 1..Len(Specs(s)) : Specs(s)[i] = k
           /\ KeysOf(s) # {}
  <1>1. ClientOf[s] \in Clients
    BY DEF Clients
  <1>2. Specs(s) \in Seq(Keys)
    BY TunnelAssumption
  <1>3. Len(Specs(s)) \in Nat /\ \A i \in 1..Len(Specs(s)) : Specs(s)[i] \in Keys
    BY <1>2
  <1>4. KeysOf(s) = {Specs(s)[i] : i \in 1..Len(Specs(s))}
    BY DEF KeysOf
  <1>5. KeysOf(s) \subseteq Keys
    BY <1>3, <1>4
  <1>6. Len(Specs(s)) # 0
    BY <1>2, TunnelAssumption
  <1>7. KeysOf(s) # {}
    BY <1>3, <1>4, <1>6
  <1> QED
    BY <1>1, <1>2, <1>3, <1>4, <1>5, <1>7

(* A control connection's steps keep the shape.                              *)
LEMMA TypeControl ==
    ASSUME TypeOK, NEW s \in Sessions, Hello(s) \/ Control(s) \/ ControlEnds(s)
    PROVE  TypeOK'
  <1> USE DEF TypeOK, Set, Phases, regVars, lisVars, peerVars, cfgVars
  <1>0. s \in Actors /\ ClientOf[s] \in Clients /\ Owned(ClientOf[s]) \in SUBSET Keys
    BY SpecsType DEF Actors, Owned
  <1>a. ASSUME NEW a \in Actors, NEW t, unregisterSession(a, t)
        PROVE  clients' \in [Clients -> Sessions \cup {None}] /\ work' \in [Actors -> SUBSET Keys]
    <2>1. Owned(ClientOf[t]) \in SUBSET Keys
      BY DEF Owned
    <2> QED
      BY <1>a, <2>1 DEF unregisterSession
  <1>1. CASE Hello(s)
    BY <1>1 DEF Hello
  <1>2. CASE FindPrevious(s)
    <2>1. clients[ClientOf[s]] # None => clients[ClientOf[s]] \in Sessions
      BY <1>0
    <2>3. victim' \in [Actors -> Sessions \cup {None}]
      BY <1>0, <1>2, <2>1 DEF FindPrevious
    <2>4. sess' \in [Sessions -> Phases]
      BY <1>2 DEF FindPrevious
    <2> QED
      BY <1>2, <2>3, <2>4 DEF FindPrevious
  <1>2a. CASE Evict(s)
    <2>1. clients' \in [Clients -> Sessions \cup {None}] /\ work' \in [Actors -> SUBSET Keys]
      BY <1>0, <1>2a, <1>a DEF Evict
    <2>2. sess' \in [Sessions -> Phases]
      BY <1>2a DEF Evict
    <2> QED
      BY <1>2a, <2>1, <2>2 DEF Evict
  <1>3. CASE Evicted(s)
    BY <1>3 DEF Evicted
  <1>4. CASE Register(s)
    BY <1>0, <1>4 DEF Register
  <1>5. CASE HandlerEnds(s)
    BY <1>5 DEF HandlerEnds
  <1>6. CASE StartListener(s)
    <2>1. started[s] + 1 \in 1..Len(Specs(s)) /\ started[s] + 1 \in Nat
      BY <1>6, SpecsType DEF StartListener, Starting
    <2>2. NextKey(s) \in Keys /\ <<s, NextKey(s)>> \in Listeners
      BY <2>1, SpecsType DEF NextKey, Listeners
    <2>3. started' \in [Sessions -> Nat]
      BY <1>6, <2>1 DEF StartListener
    <2> QED
      BY <1>6, <2>2, <2>3 DEF StartListener
  <1>7. CASE StartFails(s)
    <2>1. \A i \in 1..started[s] : Specs(s)[i] \in Keys
      BY <1>7, SpecsType DEF StartFails, Starting
    <2>2. {Specs(s)[i] : i \in 1..started[s]} \in SUBSET Keys
      BY <2>1
    <2>3. work' \in [Actors -> SUBSET Keys]
      BY <1>0, <1>7, <2>2 DEF StartFails
    <2> QED
      BY <1>7, <2>3 DEF StartFails
  <1>8. CASE ControlEnds(s)
    <2>1. clients' \in [Clients -> Sessions \cup {None}] /\ work' \in [Actors -> SUBSET Keys]
      BY <1>0, <1>8, <1>a DEF ControlEnds
    <2> QED
      BY <1>8, <2>1 DEF ControlEnds
  <1> QED
    BY <1>1, <1>2, <1>2a, <1>3, <1>4, <1>5, <1>6, <1>7, <1>8 DEF Control

(* So do the steps that stop listeners and sessions, and a reload's.         *)
LEMMA TypeStops ==
    ASSUME TypeOK,
           \/ \E a \in Actors : Stops(a)
           \/ Reload \/ \E allowed \in SUBSET Sessions : ReloadSwaps(allowed)
           \/ StopAll \/ RunReturns
    PROVE  TypeOK'
  <1> USE DEF TypeOK, Set, Phases, regVars, lisVars, peerVars, cfgVars
  <1>0. Registered \in SUBSET Sessions /\ Reloader \in Actors /\ Stopper \in Actors
    BY DEF Registered, Actors
  <1>1. ASSUME NEW a \in Actors, NEW k \in Keys, StopKey(a, k) PROVE TypeOK'
    <2>1. listeners[k] # None => [l |-> listeners[k], s |-> "removed"] \in [l : Listeners, s : {"removed", "closed"}]
      OBVIOUS
    <2>2. waits' \in [Actors -> [l : Listeners, s : {"removed", "closed"}] \cup {None}]
      BY <1>1, <2>1 DEF StopKey
    <2>3. work' \in [Actors -> SUBSET Keys] /\ listeners' \in [Keys -> Listeners \cup {None}]
      BY <1>1 DEF StopKey
    <2> QED
      BY <1>1, <2>2, <2>3 DEF StopKey
  <1>2. ASSUME NEW a \in Actors, StopCloses(a) PROVE TypeOK'
    <2>1. waits[a] \in [l : Listeners, s : {"removed", "closed"}]
      BY <1>2 DEF StopCloses
    <2>2. waits[a].l \in Listeners /\ [waits[a] EXCEPT !.s = "closed"] \in [l : Listeners, s : {"removed", "closed"}]
      BY <2>1
    <2>3. waits' \in [Actors -> [l : Listeners, s : {"removed", "closed"}] \cup {None}]
      BY <1>2, <2>2 DEF StopCloses
    <2>4. cancelled' \in SUBSET Listeners /\ port' \in [Keys -> Listeners \cup {None}]
      BY <1>2, <2>2 DEF StopCloses
    <2>5. udp' \in [Listeners -> Peers \cup {None}]
             /\ data' \in [Peers -> {"none", "asked", "held", "open", "closed"}]
      BY <1>2, <2>2 DEF StopCloses, closeSession
    <2> QED
      BY <1>2, <2>3, <2>4, <2>5 DEF StopCloses
  <1>3. ASSUME NEW a \in Actors, StopWaited(a) PROVE TypeOK'
    BY <1>3 DEF StopWaited
  <1>4. ASSUME NEW s \in Sessions, ReloadDrops(s) PROVE TypeOK'
    <2>1. Owned(ClientOf[s]) \in SUBSET Keys
      BY DEF Owned
    <2>2. clients' \in [Clients -> Sessions \cup {None}] /\ work' \in [Actors -> SUBSET Keys]
      BY <1>0, <1>4, <2>1 DEF ReloadDrops, unregisterSession
    <2>3. victim' \in [Actors -> Sessions \cup {None}] /\ doomed' \in SUBSET Sessions
      BY <1>0, <1>4 DEF ReloadDrops
    <2> QED
      BY <1>4, <2>2, <2>3 DEF ReloadDrops
  <1>5. ASSUME ReloadLists PROVE TypeOK'
    BY <1>0, <1>5 DEF ReloadLists
  <1>6. ASSUME ReloadCloses PROVE TypeOK'
    BY <1>0, <1>6 DEF ReloadCloses
  <1>7. ASSUME ReloadReturns PROVE TypeOK'
    BY <1>7 DEF ReloadReturns
  <1>8. ASSUME NEW allowed \in SUBSET Sessions, ReloadSwaps(allowed) PROVE TypeOK'
    BY <1>0, <1>8 DEF ReloadSwaps
  <1>9. ASSUME StopAll PROVE TypeOK'
    <2>1. work' \in [Actors -> SUBSET Keys]
      BY <1>0, <1>9 DEF StopAll
    <2>2. chan' \in [Peers -> {"empty", "nil", "data"}]
      BY <1>9 DEF StopAll
    <2> QED
      BY <1>9, <2>1, <2>2 DEF StopAll
  <1>10. ASSUME RunReturns PROVE TypeOK'
    BY <1>10 DEF RunReturns
  <1> QED
    BY <1>1, <1>2, <1>3, <1>4, <1>5, <1>6, <1>7, <1>8, <1>9, <1>10 DEF Stops, Reload

(* So do those of the public connections.                                    *)
LEMMA TypePeers ==
    ASSUME TypeOK,
           \/ \E p \in Peers :
                 \/ Serve(p) \/ \E k \in Reached : Arrive(p, k)
                 \/ DataArrives(p) \/ DataQueued(p) \/ ClientDeclines(p) \/ ClientAborts(p)
                 \/ PipeEnds(p) \/ SessionReadEnds(p)
           \/ \E l \in Listeners : ClosesIdle(l)
    PROVE  TypeOK'
  <1> USE DEF TypeOK, Set, regVars, lisVars, peerVars, cfgVars
  <1>0. ASSUME NEW l, closeSession(l)
        PROVE  udp' \in [Listeners -> Peers \cup {None}]
               /\ data' \in [Peers -> {"none", "asked", "held", "open", "closed"}]
    BY <1>0 DEF closeSession
  <1>1. ASSUME NEW p \in Peers, NEW k \in Reached, Arrive(p, k) PROVE TypeOK'
    <2>1. port[k] \in Listeners
      BY <1>1, TunnelAssumption DEF Arrive
    <2> QED
      BY <1>1, <2>1 DEF Arrive, Gone, Leaves
  <1>2. ASSUME NEW p \in Peers, UseSession(p) PROVE TypeOK'
    BY <1>2 DEF UseSession
  <1>3. ASSUME NEW p \in Peers, Open(p) PROVE TypeOK'
    BY <1>3 DEF Open, Gone, Leaves
  <1>4. ASSUME NEW p \in Peers, Cancelled(p) PROVE TypeOK'
    BY <1>4 DEF Cancelled, Leaves
  <1>5. ASSUME NEW p \in Peers, GiveUp(p) PROVE TypeOK'
    BY <1>5 DEF GiveUp, Leaves
  <1>6. ASSUME NEW p \in Peers, Pipe(p) PROVE TypeOK'
    BY <1>6 DEF Pipe
  <1>7. ASSUME NEW p \in Peers, OpenSession(p) PROVE TypeOK'
    BY <1>7 DEF OpenSession
  <1>8. ASSUME NEW p \in Peers, WriteDatagram(p) PROVE TypeOK'
    <2>1. udp' \in [Listeners -> Peers \cup {None}]
               /\ data' \in [Peers -> {"none", "asked", "held", "open", "closed"}]
      BY <1>0, <1>8 DEF WriteDatagram
    <2> QED
      BY <1>8, <2>1 DEF WriteDatagram, Gone, Leaves
  <1>9. ASSUME NEW p \in Peers, DataArrives(p) PROVE TypeOK'
    BY <1>9 DEF DataArrives
  <1>10. ASSUME NEW p \in Peers, DataQueued(p) PROVE TypeOK'
    BY <1>10 DEF DataQueued
  <1>11. ASSUME NEW p \in Peers, ClientDeclines(p) PROVE TypeOK'
    BY <1>11 DEF ClientDeclines, cancelPending
  <1>12. ASSUME NEW p \in Peers, ClientAborts(p) PROVE TypeOK'
    BY <1>12 DEF ClientAborts, cancelPending
  <1>13. ASSUME NEW p \in Peers, PipeEnds(p) PROVE TypeOK'
    BY <1>13 DEF PipeEnds, Gone, Leaves
  <1>14. ASSUME NEW p \in Peers, SessionReadEnds(p) PROVE TypeOK'
    <2>1. udp' \in [Listeners -> Peers \cup {None}]
               /\ data' \in [Peers -> {"none", "asked", "held", "open", "closed"}]
      BY <1>0, <1>14 DEF SessionReadEnds
    <2> QED
      BY <1>14, <2>1 DEF SessionReadEnds, Gone, Leaves
  <1>15. ASSUME NEW l \in Listeners, ClosesIdle(l) PROVE TypeOK'
    <2>1. udp' \in [Listeners -> Peers \cup {None}]
               /\ data' \in [Peers -> {"none", "asked", "held", "open", "closed"}]
      BY <1>0, <1>15 DEF ClosesIdle
    <2> QED
      BY <1>15, <2>1 DEF ClosesIdle
  <1> QED
    BY <1>1, <1>2, <1>3, <1>4, <1>5, <1>6, <1>7, <1>8, <1>9, <1>10, <1>11, <1>12, <1>13, <1>14, <1>15 DEF Serve

(* So does every step.                                                       *)
LEMMA TypeStep ==
    ASSUME TypeOK, [Next]_vars
    PROVE  TypeOK'
  <1>1. ASSUME UNCHANGED vars PROVE TypeOK'
    BY <1>1 DEF TypeOK, vars, regVars, lisVars, peerVars, cfgVars
  <1> QED
    BY <1>1, TypeControl, TypeStops, TypePeers DEF Next

-----------------------------------------------------------------------------
(* Sessions and their listeners. *)

(* The steps of the public connections and of their data connections. *)
PeerStep ==
    \/ \E p \in Peers :
          \/ Serve(p) \/ \E k \in Reached : Arrive(p, k)
          \/ DataArrives(p) \/ DataQueued(p) \/ ClientDeclines(p) \/ ClientAborts(p)
          \/ PipeEnds(p) \/ SessionReadEnds(p)
    \/ \E l \in Listeners : ClosesIdle(l)

(* They leave the sessions, the listeners and the access list alone.         *)
LEMMA PeerFrame ==
    ASSUME PeerStep
    PROVE  UNCHANGED <<proto, up, wire, regVars, lisVars, cfgVars>>
  <1>1. ASSUME NEW p \in Peers, Serve(p) PROVE UNCHANGED <<proto, up, wire, regVars, lisVars, cfgVars>>
    BY <1>1 DEF Serve, UseSession, Open, Cancelled, GiveUp, Pipe, OpenSession, WriteDatagram
  <1>2. ASSUME NEW p \in Peers, NEW k \in Reached, Arrive(p, k) PROVE UNCHANGED <<proto, up, wire, regVars, lisVars, cfgVars>>
    BY <1>2 DEF Arrive
  <1>3. ASSUME NEW p \in Peers, DataArrives(p) \/ DataQueued(p) \/ ClientDeclines(p) \/ ClientAborts(p)
                                   \/ PipeEnds(p) \/ SessionReadEnds(p)
        PROVE UNCHANGED <<proto, up, wire, regVars, lisVars, cfgVars>>
    BY <1>3 DEF DataArrives, DataQueued, ClientDeclines, ClientAborts, PipeEnds, SessionReadEnds
  <1>4. ASSUME NEW l \in Listeners, ClosesIdle(l) PROVE UNCHANGED <<proto, up, wire, regVars, lisVars, cfgVars>>
    BY <1>4 DEF ClosesIdle
  <1> QED
    BY <1>1, <1>2, <1>3, <1>4 DEF PeerStep

(* The current session of a client changes only when one registers or is     *)
(* unregistered.                                                             *)
LEMMA SessionStep ==
    ASSUME TypeOK, SessionInv, FoundInv, [Next]_vars
    PROVE  SessionInv'
  <1> USE DEF TypeOK, Set, SessionInv
  <1>0. \A s \in Sessions : ClientOf[s] \in Clients /\ Len(Specs(s)) \in Nat
    BY SpecsType
  <1>a. \A s \in Sessions : Specs(s)' = Specs(s)
    BY DEF Specs
  <1>b. None \notin Sessions
    BY TunnelAssumption
  <1>c. ASSUME NEW a, NEW t \in Sessions, unregisterSession(a, t)
        PROVE  \A c \in Clients : clients'[c] # None => clients'[c] = clients[c] /\ (clients[ClientOf[t]] = t => c # ClientOf[t])
    BY <1>0, <1>c DEF unregisterSession
  <1>1. ASSUME NEW s \in Sessions, Hello(s) PROVE SessionInv'
    <2>1. \A t \in Sessions \ {s} : sess'[t] = sess[t]
      BY <1>1 DEF Hello
    <2>2. sess[s] = "none" /\ sess'[s] \in {"hello", "gone"} /\ UNCHANGED <<started, clients>>
      BY <1>1 DEF Hello, runOnce
    <2>3. \A c \in Clients : clients[c] # None => clients[c] \in Sessions \ {s}
      BY <2>2
    <2> QED
      BY <1>a, <2>1, <2>2, <2>3
  <1>2. ASSUME NEW s \in Sessions, FindPrevious(s) PROVE SessionInv'
    <2>1. /\ sess[s] = "hello" /\ sess'[s] \in {"starting", "found"} /\ UNCHANGED <<started, clients>>
          /\ \A t \in Sessions \ {s} : sess'[t] = sess[t]
      BY <1>2 DEF FindPrevious
    <2>3. \A c \in Clients : clients[c] # None => clients[c] \in Sessions \ {s}
      BY <2>1
    <2>4. started[s] = 0
      BY <2>1
    <2> QED
      BY <1>0, <1>a, <2>1, <2>3, <2>4
  <1>2a. ASSUME NEW s \in Sessions, Evict(s) PROVE SessionInv'
    <2>1. /\ sess[s] = "found" /\ sess'[s] = "evict" /\ UNCHANGED started
          /\ \A t \in Sessions \ {s} : sess'[t] = sess[t]
      BY <1>2a DEF Evict
    <2>2. victim[s] \in Sessions /\ unregisterSession(s, victim[s])
      BY <1>2a, <2>1 DEF Evict, FoundInv
    <2>3. \A c \in Clients : clients'[c] # None => clients'[c] = clients[c]
      BY <1>c, <2>2
    <2>4. \A c \in Clients : clients[c] # None => clients[c] \in Sessions \ {s}
      BY <2>1
    <2> QED
      BY <1>0, <1>a, <2>1, <2>3, <2>4
  <1>3. ASSUME NEW s \in Sessions, Evicted(s) PROVE SessionInv'
    <2>1. /\ sess[s] = "evict" /\ sess'[s] = "starting" /\ UNCHANGED <<started, clients>>
          /\ \A t \in Sessions \ {s} : sess'[t] = sess[t]
      BY <1>3 DEF Evicted
    <2>2. \A c \in Clients : clients[c] # None => clients[c] \in Sessions \ {s}
      BY <2>1
    <2>3. started[s] = 0
      BY <2>1
    <2> QED
      BY <1>0, <1>a, <2>1, <2>2, <2>3
  <1>4. ASSUME NEW s \in Sessions, Register(s) PROVE SessionInv'
    <2>1. /\ sess' = [sess EXCEPT ![s] = "serving"] /\ started' = [started EXCEPT ![s] = 0]
          /\ clients' = [clients EXCEPT ![ClientOf[s]] = s]
      BY <1>4 DEF Register
    <2> QED
      BY <1>0, <1>a, <2>1
  <1>5. ASSUME NEW s \in Sessions, HandlerEnds(s) PROVE SessionInv'
    <2>1. /\ sess[s] = "ending" /\ sess'[s] = "gone" /\ UNCHANGED <<started, clients>>
          /\ \A t \in Sessions \ {s} : sess'[t] = sess[t]
      BY <1>5 DEF HandlerEnds
    <2>2. \A c \in Clients : clients[c] # None => clients[c] \in Sessions \ {s}
      BY <2>1
    <2> QED
      BY <1>a, <2>1, <2>2
  <1>6. ASSUME NEW s \in Sessions, StartListener(s) PROVE SessionInv'
    <2>1. /\ UNCHANGED <<sess, clients>> /\ started' = [started EXCEPT ![s] = started[s] + 1]
          /\ sess[s] = "starting" /\ started[s] < Len(Specs(s))
      BY <1>6 DEF StartListener, Starting
    <2>2. started[s] + 1 <= Len(Specs(s))
      BY <1>0, <2>1
    <2> QED
      BY <1>a, <2>1, <2>2
  <1>7. ASSUME NEW s \in Sessions, StartFails(s) PROVE SessionInv'
    <2>1. /\ sess[s] = "starting" /\ sess' = [sess EXCEPT ![s] = "ending"] /\ UNCHANGED clients
          /\ started' = [started EXCEPT ![s] = 0]
      BY <1>7 DEF StartFails, Starting
    <2>2. \A c \in Clients : clients[c] # None => clients[c] \in Sessions \ {s}
      BY <2>1
    <2> QED
      BY <1>a, <2>1, <2>2
  <1>8. ASSUME NEW s \in Sessions, ControlEnds(s) PROVE SessionInv'
    <2>1. /\ sess[s] = "serving" /\ sess' = [sess EXCEPT ![s] = "ending"] /\ UNCHANGED started
      BY <1>8 DEF ControlEnds
    <2>2. \A c \in Clients : clients'[c] # None => clients'[c] = clients[c] /\ (clients[ClientOf[s]] = s => c # ClientOf[s])
      BY <1>8, <1>c DEF ControlEnds
    <2>3. ASSUME NEW c \in Clients, clients'[c] # None PROVE clients[c] \in Sessions \ {s}
      <3>1. clients[c] # None /\ clients[c] \in Sessions /\ ClientOf[clients[c]] = c
        BY <2>2, <2>3
      <3> QED
        BY <2>2, <2>3, <3>1
    <2> QED
      BY <1>a, <2>1, <2>2, <2>3
  <1>9. ASSUME NEW s \in Sessions, ReloadDrops(s) PROVE SessionInv'
    <2>1. UNCHANGED <<sess, started>>
      BY <1>9 DEF ReloadDrops
    <2>2. \A c \in Clients : clients'[c] # None => clients'[c] = clients[c]
      BY <1>9, <1>c DEF ReloadDrops
    <2> QED
      BY <1>a, <2>1, <2>2
  <1>10. ASSUME UNCHANGED regVars PROVE SessionInv'
    BY <1>10, <1>a DEF regVars
  <1>11. ASSUME NEW a \in Actors, Stops(a) PROVE UNCHANGED regVars
    BY <1>11 DEF Stops, StopCloses, StopWaited, StopKey
  <1>12. ASSUME \/ ReloadLists \/ ReloadCloses \/ ReloadReturns \/ \E allowed \in SUBSET Sessions : ReloadSwaps(allowed)
                \/ StopAll \/ RunReturns \/ UNCHANGED vars
         PROVE  UNCHANGED regVars
    BY <1>12 DEF ReloadLists, ReloadCloses, ReloadReturns, ReloadSwaps, StopAll, RunReturns, vars
  <1>13. ASSUME PeerStep PROVE UNCHANGED regVars
    BY <1>13, PeerFrame
  <1> HIDE DEF TypeOK, SessionInv
  <1> QED
    BY <1>1, <1>2, <1>2a, <1>3, <1>4, <1>5, <1>6, <1>7, <1>8, <1>9, <1>10, <1>11, <1>12, <1>13
    DEF Next, Control, Reload, PeerStep

(* Only registerSession of the session itself changes what it found.         *)
LEMMA FoundStep ==
    ASSUME TypeOK, FoundInv, [Next]_vars
    PROVE  FoundInv'
  <1> USE DEF TypeOK, Set, FoundInv
  <1>0. None \notin Sessions /\ Reloader \notin Sessions /\ \A s \in Sessions : ClientOf[s] \in Clients
    BY SpecsType, TunnelAssumption
  <1>1. ASSUME NEW s \in Sessions, FindPrevious(s) PROVE FoundInv'
    <2>1. clients[ClientOf[s]] # None => clients[ClientOf[s]] \in Sessions
      BY <1>0
    <2>2. s \in Actors /\ \A t \in Sessions : t \in Actors
      BY DEF Actors
    <2> QED
      BY <1>1, <2>1, <2>2 DEF FindPrevious
  <1>2. ASSUME NEW s \in Sessions, Evicted(s) PROVE FoundInv'
    BY <1>2 DEF Evicted, Actors
  <1>3. ASSUME NEW s \in Sessions, Hello(s) \/ Evict(s) \/ Register(s) \/ HandlerEnds(s) \/ StartFails(s) \/ ControlEnds(s)
        PROVE  FoundInv'
    BY <1>3 DEF Hello, Evict, Register, HandlerEnds, StartFails, ControlEnds, lisVars
  <1>4. ASSUME NEW s \in Sessions, ReloadDrops(s) PROVE FoundInv'
    BY <1>0, <1>4 DEF ReloadDrops, Actors
  <1>5. ASSUME ReloadCloses PROVE FoundInv'
    BY <1>0, <1>5 DEF ReloadCloses, regVars, Actors
  <1>6. ASSUME UNCHANGED <<sess, victim>> PROVE FoundInv'
    BY <1>6
  <1>7. ASSUME NEW s \in Sessions, StartListener(s) PROVE UNCHANGED <<sess, victim>>
    BY <1>7 DEF StartListener
  <1>8. ASSUME NEW a \in Actors, Stops(a) PROVE UNCHANGED <<sess, victim>>
    BY <1>8 DEF Stops, StopCloses, StopWaited, StopKey, regVars
  <1>9. ASSUME \/ ReloadLists \/ ReloadReturns \/ \E allowed \in SUBSET Sessions : ReloadSwaps(allowed)
               \/ StopAll \/ RunReturns \/ UNCHANGED vars
        PROVE  UNCHANGED <<sess, victim>>
    BY <1>9 DEF ReloadLists, ReloadReturns, ReloadSwaps, StopAll, RunReturns, vars, regVars, lisVars
  <1>10. ASSUME PeerStep PROVE UNCHANGED <<sess, victim>>
    BY <1>10, PeerFrame DEF regVars, lisVars
  <1> HIDE DEF TypeOK, FoundInv
  <1> QED
    BY <1>1, <1>2, <1>3, <1>4, <1>5, <1>6, <1>7, <1>8, <1>9, <1>10 DEF Next, Control, Reload, PeerStep

(* An overlap is never forgotten.                                            *)
LEMMA OverlapStep ==
    ASSUME [Next]_vars, ~overlap'
    PROVE  ~overlap
  <1>1. ASSUME NEW s \in Sessions, StartListener(s) PROVE ~overlap
    BY <1>1, Zenon DEF StartListener
  <1>2. ASSUME NEW s \in Sessions,
               \/ Hello(s) \/ FindPrevious(s) \/ Evict(s) \/ Evicted(s) \/ Register(s) \/ HandlerEnds(s)
               \/ StartFails(s) \/ ControlEnds(s) \/ ReloadDrops(s)
        PROVE  UNCHANGED overlap
    BY <1>2 DEF Hello, FindPrevious, Evict, Evicted, Register, HandlerEnds, StartFails, ControlEnds, ReloadDrops
  <1>3. ASSUME NEW a \in Actors, Stops(a) PROVE UNCHANGED overlap
    BY <1>3 DEF Stops, StopCloses, StopWaited, StopKey, regVars
  <1>4. ASSUME \/ ReloadLists \/ ReloadCloses \/ ReloadReturns \/ \E allowed \in SUBSET Sessions : ReloadSwaps(allowed)
               \/ StopAll \/ RunReturns \/ UNCHANGED vars
        PROVE  UNCHANGED overlap
    BY <1>4 DEF ReloadLists, ReloadCloses, ReloadReturns, ReloadSwaps, StopAll, RunReturns, vars, regVars
  <1>5. ASSUME PeerStep PROVE UNCHANGED overlap
    BY <1>5, PeerFrame DEF regVars
  <1>6. ASSUME UNCHANGED overlap PROVE ~overlap
    BY <1>6
  <1> QED
    BY <1>1, <1>2, <1>3, <1>4, <1>5, <1>6, Zenon DEF Next, Control, Reload, PeerStep

(* A listener is entered under its own key, and with one of another session  *)
(* of its client in the map only if they asked for the same tunnels.         *)
LEMMA ListenerStep ==
    ASSUME TypeOK, ListenerInv, [Next]_vars
    PROVE  ListenerInv'
  <1> USE DEF TypeOK, Set, ListenerInv
  <1>a. ~overlap' => ~overlap
    BY OverlapStep
  <1>1. ASSUME NEW s \in Sessions, StartListener(s) PROVE ListenerInv'
    <2>1. started[s] + 1 \in 1..Len(Specs(s))
      BY <1>1, SpecsType DEF StartListener, Starting
    <2>2. NextKey(s) \in Keys /\ NextKey(s) \in KeysOf(s)
      BY <2>1, SpecsType DEF NextKey
    <2>3. listeners' = [listeners EXCEPT ![NextKey(s)] = <<s, NextKey(s)>>]
      BY <1>1 DEF StartListener
    <2>4. \A k \in Keys : listeners'[k] # None => listeners'[k][2] = k /\ k \in KeysOf(listeners'[k][1])
      BY <2>2, <2>3
    <2>5. ASSUME ~overlap' PROVE Alike'
      <3>1. ~MeetsOther(s)
        BY <1>1, <2>5, Zenon DEF StartListener
      <3>2. \A k \in Keys : listeners[k] # None /\ ClientOf[listeners[k][1]] = ClientOf[s] => KeysOf(listeners[k][1]) = KeysOf(s)
        BY <3>1 DEF MeetsOther, Owned
      <3>3. Alike
        BY <1>a, <2>5
      <3>4. \A k \in Keys : listeners'[k] = listeners[k] \/ listeners'[k] = <<s, NextKey(s)>>
        BY <2>3
      <3> HIDE DEF TypeOK, ListenerInv
      <3>5. ASSUME NEW j \in Keys, NEW k \in Keys, listeners'[j] # None, listeners'[k] # None,
                   ClientOf[listeners'[j][1]] = ClientOf[listeners'[k][1]]
            PROVE  KeysOf(listeners'[j][1]) = KeysOf(listeners'[k][1])
        <4>1. CASE listeners'[j] = listeners[j] /\ listeners'[k] = listeners[k]
          BY <3>3, <3>5, <4>1 DEF Alike
        <4>2. CASE listeners'[j] = <<s, NextKey(s)>> /\ listeners'[k] = listeners[k]
          BY <3>2, <3>5, <4>2
        <4>3. CASE listeners'[j] = listeners[j] /\ listeners'[k] = <<s, NextKey(s)>>
          BY <3>2, <3>5, <4>3
        <4>4. CASE listeners'[j] = <<s, NextKey(s)>> /\ listeners'[k] = <<s, NextKey(s)>>
          BY <4>4
        <4> QED
          BY <3>4, <4>1, <4>2, <4>3, <4>4
      <3> QED
        BY <3>5 DEF Alike
    <2> QED
      BY <2>4, <2>5
  <1>2. ASSUME NEW a \in Actors, NEW k \in Keys, StopKey(a, k) PROVE ListenerInv'
    <2>1. \A j \in Keys : listeners'[j] # None => listeners'[j] = listeners[j]
      BY <1>2 DEF StopKey
    <2>2. Alike => Alike'
      BY <2>1 DEF Alike
    <2> QED
      BY <1>a, <2>1, <2>2
  <1>3. ASSUME NEW s \in Sessions, Hello(s) \/ FindPrevious(s) \/ Evict(s) \/ Evicted(s) \/ Register(s) \/ HandlerEnds(s)
                                     \/ StartFails(s) \/ ControlEnds(s) \/ ReloadDrops(s)
        PROVE  listeners' = listeners
    BY <1>3 DEF Hello, FindPrevious, Evict, Evicted, Register, HandlerEnds, StartFails, ControlEnds, ReloadDrops, lisVars
  <1>4. ASSUME NEW a \in Actors, StopCloses(a) \/ StopWaited(a) PROVE listeners' = listeners
    BY <1>4 DEF StopCloses, StopWaited
  <1>5. ASSUME \/ ReloadLists \/ ReloadCloses \/ ReloadReturns \/ \E allowed \in SUBSET Sessions : ReloadSwaps(allowed)
               \/ StopAll \/ RunReturns \/ UNCHANGED vars
        PROVE  listeners' = listeners
    BY <1>5 DEF ReloadLists, ReloadCloses, ReloadReturns, ReloadSwaps, StopAll, RunReturns, vars, lisVars
  <1>6. ASSUME PeerStep PROVE listeners' = listeners
    BY <1>6, PeerFrame DEF lisVars
  <1>7. ASSUME listeners' = listeners PROVE ListenerInv'
    <2>1. Alike => Alike'
      BY <1>7 DEF Alike
    <2> QED
      BY <1>a, <1>7, <2>1
  <1> HIDE DEF TypeOK, ListenerInv
  <1> QED
    BY <1>1, <1>2, <1>3, <1>4, <1>5, <1>6, <1>7 DEF Next, Control, Reload, PeerStep, Stops

(* A session that holds a key is registered or starting.                     *)
LEMMA HoldsFacts ==
    ASSUME TypeOK, SessionInv, NEW s \in Sessions, NEW k, Holds(s, k)
    PROVE  s \notin Past \ Registered
  BY DEF TypeOK, SessionInv, Holds, Past, Phases

(* A registered session is past its start.                                   *)
LEMMA RegisteredPast ==
    ASSUME TypeOK, SessionInv
    PROVE  Registered \subseteq Past
  <1>1. ASSUME NEW s \in Registered PROVE s \in Past
    <2>1. s \in Sessions /\ clients[ClientOf[s]] = s /\ ClientOf[s] \in Clients
      BY SpecsType DEF Registered
    <2> QED
      BY <2>1, TunnelAssumption DEF SessionInv, Past
  <1> QED
    BY <1>1

(* Steps that add nothing to what sessions hold, to what is to be stopped    *)
(* and to what is being stopped.                                             *)
LEMMA ServeKept ==
    ASSUME HeldInv, WorkInv, WaitInv,
           UNCHANGED <<listeners, port, work>>,
           \A s \in Sessions, k \in Keys : Holds(s, k)' => Holds(s, k),
           Past \subseteq Past', Registered' \subseteq Registered,
           \A a \in Actors : waits'[a] # None => waits[a] # None /\ waits'[a].l = waits[a].l
    PROVE  HeldInv' /\ WorkInv' /\ WaitInv'
  <1>1. HeldInv'
    BY DEF HeldInv
  <1>2. WorkInv'
    BY DEF WorkInv
  <1>3. WaitInv'
    BY DEF WaitInv
  <1> QED
    BY <1>1, <1>2, <1>3

(* Unregistering the current session of a client leaves its listeners to the *)
(* one that did it: they are the client's only ones, and nobody else has     *)
(* them to stop.                                                             *)
LEMMA ServeUnregister ==
    ASSUME TypeOK, SessionInv, ListenerInv, ~overlap, HeldInv, WorkInv, WaitInv,
           NEW a \in Actors, NEW t \in Registered, unregisterSession(a, t),
           UNCHANGED <<listeners, port, waits>>,
           \A s \in Sessions, k \in Keys : Holds(s, k)' => Holds(s, k),
           Past \subseteq Past', Registered' = Registered \ {t}
    PROVE  HeldInv' /\ WorkInv' /\ WaitInv'
  <1>0. t \in Sessions /\ clients[ClientOf[t]] = t
    BY DEF Registered
  <1>1. work' = [work EXCEPT ![a] = Owned(ClientOf[t])]
    BY <1>0 DEF unregisterSession, Set
  <1>2. ASSUME NEW k \in Owned(ClientOf[t])
        PROVE  k \in Keys /\ listeners[k] # None /\ listeners[k][1] = t /\ Holds(t, k)
    <2>1. k \in Keys /\ listeners[k] # None /\ ClientOf[listeners[k][1]] = ClientOf[t]
      BY DEF Owned
    <2>a. PICK j \in KeysOf(t) : j \in Keys
      BY <1>0, SpecsType
    <2>b. Holds(t, j)
      BY DEF Holds
    <2>c. listeners[j] = <<t, j>>
      BY <1>0, <2>a, <2>b DEF HeldInv
    <2>e. <<t, j>> \in Listeners
      BY <1>0, <2>a DEF Listeners
    <2>f. listeners[j] # None /\ listeners[j][1] = t
      BY <2>c, <2>e, TunnelAssumption
    <2>g. Alike
      BY DEF ListenerInv
    <2>d. KeysOf(listeners[k][1]) = KeysOf(t)
      BY <2>1, <2>a, <2>f, <2>g DEF Alike
    <2>2. k \in KeysOf(t)
      BY <2>1, <2>d DEF ListenerInv
    <2>3. Holds(t, k)
      BY <2>2 DEF Holds
    <2>4. listeners[k] = <<t, k>>
      BY <1>0, <2>1, <2>3 DEF HeldInv
    <2> QED
      BY <2>1, <2>3, <2>4
  <1>3. ASSUME NEW b \in Actors, NEW k \in work[b] PROVE k \notin Owned(ClientOf[t])
    <2>1. k \in Keys /\ listeners[k][1] \in Past \ Registered
      BY DEF WorkInv, TypeOK
    <2> QED
      BY <1>2, <2>1
  <1>4. HeldInv'
    BY DEF HeldInv
  <1>5. WaitInv'
    BY DEF WaitInv
  <1>6. t \in Past \ Registered' /\ t \in Past'
    BY RegisteredPast
  <1>7. ASSUME NEW b \in Actors, NEW k \in Keys, k \in work'[b]
        PROVE  /\ listeners'[k] # None
               /\ listeners'[k][1] \in Past' \ Registered'
               /\ \A d \in Actors : k \in work'[d] => d = b
    <2>0. work'[a] = Owned(ClientOf[t]) /\ \A d \in Actors \ {a} : work'[d] = work[d]
      BY <1>1 DEF TypeOK
    <2>1. CASE b = a
      <3>1. k \in Owned(ClientOf[t])
        BY <1>7, <2>0, <2>1
      <3>2. \A d \in Actors : k \in work'[d] => d = b
        BY <1>3, <2>0, <2>1, <3>1
      <3> QED
        BY <1>2, <1>6, <3>1, <3>2
    <2>2. CASE b # a
      <3>1. k \in work[b]
        BY <1>7, <2>0, <2>2
      <3>2. \A d \in Actors : k \in work'[d] => d = b
        <4>1. k \notin Owned(ClientOf[t])
          BY <1>3, <3>1
        <4>2. \A d \in Actors : k \in work[d] => d = b
          BY <3>1 DEF WorkInv
        <4> QED
          BY <2>0, <4>1, <4>2
      <3>3. listeners[k] # None /\ listeners[k][1] \in Past \ Registered
        BY <3>1 DEF WorkInv
      <3> QED
        BY <3>2, <3>3
    <2> QED
      BY <2>1, <2>2
  <1>8. WorkInv'
    BY <1>7 DEF WorkInv
  <1> QED
    BY <1>4, <1>5, <1>8

(* While the server runs, what a session counts on stays.                    *)
LEMMA ServeStep ==
    ASSUME TypeOK, SessionInv, FoundInv, ListenerInv, ServeInv, [Next]_vars, TypeOK', SessionInv'
    PROVE  ServeInv'
  <1> SUFFICES ASSUME up' = "on", ~overlap' PROVE HeldInv' /\ WorkInv' /\ WaitInv'
    BY DEF ServeInv
  <1> DEFINE Kept == HeldInv' /\ WorkInv' /\ WaitInv'
  <1>on. up = "on" /\ ~overlap /\ HeldInv /\ WorkInv /\ WaitInv
    <2>0. ~overlap
      BY OverlapStep
    <2>1. up = "on"
      <3>1. ASSUME NEW s \in Sessions, Hello(s) \/ Control(s) \/ ControlEnds(s) \/ ReloadDrops(s) PROVE up' = up
        BY <3>1 DEF Hello, Control, ControlEnds, ReloadDrops, FindPrevious, Evict, Evicted, Register, HandlerEnds, StartListener, StartFails
      <3>2. ASSUME NEW a \in Actors, Stops(a) PROVE up' = up
        BY <3>2 DEF Stops, StopCloses, StopWaited, StopKey
      <3>3. ASSUME \/ ReloadLists \/ ReloadCloses \/ ReloadReturns \/ \E allowed \in SUBSET Sessions : ReloadSwaps(allowed)
                   \/ UNCHANGED vars
            PROVE  up' = up
        BY <3>3 DEF ReloadLists, ReloadCloses, ReloadReturns, ReloadSwaps, vars
      <3>4. ASSUME PeerStep PROVE up' = up
        BY <3>4, PeerFrame
      <3>5. ~StopAll /\ ~RunReturns
        BY DEF StopAll, RunReturns
      <3>6. up' = up
        BY <3>1, <3>2, <3>3, <3>4, <3>5 DEF Next, Reload, PeerStep
      <3> QED
        BY <3>6
    <2> QED
      BY <2>0, <2>1 DEF ServeInv
  <1>0. /\ None \notin Sessions
        /\ \A s \in Sessions : ClientOf[s] \in Clients /\ s \in Actors
    BY SpecsType, TunnelAssumption DEF Actors
  <1>a. UNCHANGED clients => Registered' = Registered
    BY DEF Registered
  <1>b. ASSUME NEW t \in Registered, clients' = [clients EXCEPT ![ClientOf[t]] = None]
        PROVE  Registered' = Registered \ {t}
    BY <1>0, <1>b DEF Registered, TypeOK
  <1>1. ASSUME NEW s \in Sessions, Hello(s) PROVE Kept
    <2>1. /\ UNCHANGED <<listeners, port, work, waits, clients, started>>
          /\ sess[s] = "none" /\ sess'[s] \in {"hello", "gone"} /\ \A t \in Sessions \ {s} : sess'[t] = sess[t]
      BY <1>1 DEF Hello, runOnce, lisVars, TypeOK, Set
    <2>2. Past \subseteq Past' /\ Registered' = Registered
      BY <1>a, <2>1 DEF Past
    <2>3. \A t \in Sessions, k \in Keys : Holds(t, k)' => Holds(t, k)
      BY <2>1, <2>2 DEF Holds, Specs
    <2> QED
      BY <1>on, <2>1, <2>2, <2>3, ServeKept
  <1>2. ASSUME NEW s \in Sessions, FindPrevious(s) PROVE Kept
    <2>1. /\ UNCHANGED <<listeners, port, work, waits, started, clients>>
          /\ sess[s] = "hello" /\ sess'[s] \in {"starting", "found"} /\ \A t \in Sessions \ {s} : sess'[t] = sess[t]
      BY <1>2 DEF FindPrevious, TypeOK, Set
    <2>2. Past \subseteq Past' /\ Registered' = Registered /\ started[s] = 0
      BY <1>a, <2>1 DEF Past, SessionInv
    <2>3. \A t \in Sessions, k \in Keys : Holds(t, k)' => Holds(t, k)
      BY <2>1, <2>2 DEF Holds, Specs
    <2> QED
      BY <1>on, <2>1, <2>2, <2>3, ServeKept
  <1>2a. ASSUME NEW s \in Sessions, Evict(s) PROVE Kept
    <2> DEFINE t == victim[s]
    <2>1. /\ UNCHANGED <<listeners, port, waits, started>> /\ unregisterSession(s, t)
          /\ sess[s] = "found" /\ sess'[s] = "evict" /\ \A u \in Sessions \ {s} : sess'[u] = sess[u]
      BY <1>2a DEF Evict, TypeOK, Set
    <2>2. Past \subseteq Past'
      BY <2>1 DEF Past
    <2>3. t \in Sessions
      BY <2>1 DEF FoundInv
    <2> HIDE DEF t
    <2>4. ASSUME Registered' \subseteq Registered, NEW u \in Sessions, NEW k \in Keys, Holds(u, k)' PROVE Holds(u, k)
      BY <2>1, <2>4 DEF Holds, Specs
    <2>5. CASE t \notin Registered
      <3>1. UNCHANGED <<clients, work>>
        BY <2>1, <2>3, <2>5 DEF unregisterSession, Registered
      <3> QED
        BY <1>on, <1>a, <2>1, <2>2, <2>4, <3>1, ServeKept
    <2>6. CASE t \in Registered
      <3>1. clients' = [clients EXCEPT ![ClientOf[t]] = None]
        BY <2>1, <2>6 DEF unregisterSession, Registered, Set
      <3>2. Registered' = Registered \ {t}
        BY <1>b, <2>6, <3>1
      <3> QED
        BY <1>0, <1>on, <2>1, <2>2, <2>4, <2>6, <3>2, ServeUnregister
    <2> QED
      BY <2>5, <2>6
  <1>3. ASSUME NEW s \in Sessions, Evicted(s) PROVE Kept
    <2>1. /\ UNCHANGED <<listeners, port, work, waits, started, clients>>
          /\ sess[s] = "evict" /\ sess'[s] = "starting" /\ \A t \in Sessions \ {s} : sess'[t] = sess[t]
      BY <1>3 DEF Evicted, TypeOK, Set
    <2>2. Past \subseteq Past' /\ Registered' = Registered /\ started[s] = 0
      BY <1>a, <2>1 DEF Past, SessionInv
    <2>3. \A t \in Sessions, k \in Keys : Holds(t, k)' => Holds(t, k)
      BY <2>1, <2>2 DEF Holds, Specs
    <2> QED
      BY <1>on, <2>1, <2>2, <2>3, ServeKept
  <1>4. ASSUME NEW s \in Sessions, HandlerEnds(s) PROVE Kept
    <2>1. /\ UNCHANGED <<listeners, port, work, waits, started, clients>>
          /\ sess[s] = "ending" /\ sess'[s] = "gone" /\ \A t \in Sessions \ {s} : sess'[t] = sess[t]
      BY <1>4 DEF HandlerEnds, TypeOK, Set, lisVars
    <2>2. Past \subseteq Past' /\ Registered' = Registered
      BY <1>a, <2>1 DEF Past
    <2>3. \A t \in Sessions, k \in Keys : Holds(t, k)' => Holds(t, k)
      BY <2>1, <2>2 DEF Holds, Specs
    <2> QED
      BY <1>on, <2>1, <2>2, <2>3, ServeKept
  <1>5. ASSUME NEW s \in Sessions, ControlEnds(s) \/ ReloadDrops(s) PROVE Kept
    <2>1. /\ UNCHANGED <<listeners, port, waits, started>>
          /\ \E a \in Actors : unregisterSession(a, s)
          /\ \A t \in Sessions : sess'[t] = sess[t] \/ (sess[t] = "serving" /\ sess'[t] = "ending")
      BY <1>0, <1>5 DEF ControlEnds, ReloadDrops, Actors, TypeOK, Set
    <2>2. PICK a \in Actors : unregisterSession(a, s)
      BY <2>1
    <2>3. Past \subseteq Past'
      BY <2>1 DEF Past
    <2>4. ASSUME Registered' \subseteq Registered, NEW t \in Sessions, NEW k \in Keys, Holds(t, k)' PROVE Holds(t, k)
      BY <2>1, <2>4 DEF Holds, Specs
    <2>5. CASE s \in Registered
      <3>1. clients' = [clients EXCEPT ![ClientOf[s]] = None]
        BY <2>2, <2>5 DEF unregisterSession, Registered, Set
      <3>2. Registered' = Registered \ {s}
        BY <1>b, <2>5, <3>1
      <3> QED
        BY <1>on, <2>1, <2>2, <2>3, <2>4, <2>5, <3>2, ServeUnregister
    <2>6. CASE s \notin Registered
      <3>1. UNCHANGED <<clients, work>>
        BY <2>2, <2>6 DEF unregisterSession, Registered
      <3> QED
        BY <1>on, <1>a, <2>1, <2>3, <2>4, <3>1, ServeKept
    <2> QED
      BY <2>5, <2>6
  <1>6. ASSUME UNCHANGED <<listeners, port, work, waits, sess, started, clients>> PROVE Kept
    <2>1. Past' = Past /\ Registered' = Registered
      BY <1>a, <1>6 DEF Past
    <2>2. \A t \in Sessions, k \in Keys : Holds(t, k)' => Holds(t, k)
      BY <1>6, <2>1 DEF Holds, Specs
    <2> QED
      BY <1>on, <1>6, <2>1, <2>2, ServeKept
  <1>7. ASSUME NEW a \in Actors, StopWaited(a) PROVE Kept
    <2>1. UNCHANGED <<listeners, port, work, sess, started, clients>> /\ waits' = [waits EXCEPT ![a] = None]
      BY <1>7 DEF StopWaited, regVars, Set
    <2>2. Past' = Past /\ Registered' = Registered
      BY <1>a, <2>1 DEF Past
    <2>3. \A t \in Sessions, k \in Keys : Holds(t, k)' => Holds(t, k)
      BY <2>1, <2>2 DEF Holds, Specs
    <2>4. \A b \in Actors : waits'[b] # None => waits[b] # None /\ waits'[b].l = waits[b].l
      BY <2>1 DEF TypeOK
    <2> QED
      BY <1>on, <2>1, <2>2, <2>3, <2>4, ServeKept
  <1>8. ASSUME NEW s \in Sessions, Register(s) PROVE Kept
    <2>1. /\ UNCHANGED <<listeners, port, work, waits>>
          /\ clients' = [clients EXCEPT ![ClientOf[s]] = s]
          /\ sess[s] = "starting" /\ started[s] = Len(Specs(s)) /\ sess'[s] = "serving"
          /\ \A t \in Sessions \ {s} : sess'[t] = sess[t] /\ started'[t] = started[t]
      BY <1>8 DEF Register, lisVars, TypeOK, Set
    <2>2. Past' = Past \cup {s} /\ s \notin Past
      BY <2>1 DEF Past
    <2>3. Registered' \subseteq Registered \cup {s}
      BY <1>0, <2>1 DEF Registered, TypeOK
    <2>4. \A t \in Sessions, k \in Keys : Holds(t, k)' => Holds(t, k)
      <3>1. ASSUME NEW k \in KeysOf(s) PROVE Holds(s, k)
        BY <2>1, SpecsType DEF Holds
      <3>2. ASSUME NEW k \in Keys, Holds(s, k)' PROVE k \in KeysOf(s)
        BY <2>1, <3>2 DEF Holds
      <3>3. ASSUME NEW t \in Sessions \ {s}, NEW k \in Keys, Holds(t, k)' PROVE Holds(t, k)
        BY <2>1, <2>3, <3>3 DEF Holds, Specs
      <3> QED
        BY <3>1, <3>2, <3>3
    <2>5. HeldInv'
      BY <1>on, <2>1, <2>4 DEF HeldInv
    <2>6. Past \ Registered \subseteq Past' \ Registered'
      BY <2>2, <2>3
    <2>7. WorkInv'
      BY <1>on, <2>1, <2>6 DEF WorkInv
    <2>8. WaitInv'
      BY <1>on, <2>1, <2>6 DEF WaitInv
    <2> QED
      BY <2>5, <2>7, <2>8
  <1>9. ASSUME NEW s \in Sessions, StartListener(s) PROVE Kept
    <2> DEFINE j == NextKey(s)
    <2>1. started[s] \in Nat /\ started[s] + 1 \in 1..Len(Specs(s)) /\ sess[s] = "starting"
      BY <1>9, SpecsType DEF StartListener, Starting, TypeOK
    <2>2. j \in Keys /\ j = Specs(s)[started[s] + 1]
      BY <2>1, SpecsType DEF NextKey
    <2> HIDE DEF j
    <2>3. /\ listeners[j] = None /\ listeners' = [listeners EXCEPT ![j] = <<s, j>>]
          /\ port[j] = None /\ port' = [port EXCEPT ![j] = <<s, j>>]
          /\ started' = [started EXCEPT ![s] = started[s] + 1]
          /\ UNCHANGED <<sess, clients, work, waits>>
      BY <1>9 DEF StartListener, Set, j
    <2>4. Past' = Past /\ Registered' = Registered
      BY <1>a, <2>3 DEF Past
    <2>5. \A t \in Sessions : ~Holds(t, j)
      <3>1. ASSUME NEW t \in Sessions, Holds(t, j) PROVE FALSE
        <4>1. listeners[j] = <<t, j>> /\ <<t, j>> \in Listeners
          BY <1>on, <2>2, <3>1 DEF HeldInv, Listeners
        <4> QED
          BY <2>3, <4>1, TunnelAssumption
      <3> QED
        BY <3>1
    <2>6. \A t \in Sessions, k \in Keys : Holds(t, k)' => Holds(t, k) \/ (t = s /\ k = j)
      <3>1. ASSUME NEW t \in Sessions \ {s}, NEW k \in Keys, Holds(t, k)' PROVE Holds(t, k)
        <4>1. started'[t] = started[t]
          BY <2>3 DEF TypeOK
        <4> QED
          BY <2>3, <2>4, <3>1, <4>1 DEF Holds, Specs
      <3>2. ASSUME NEW k \in Keys, Holds(s, k)', k # j PROVE Holds(s, k)
        <4>1. started'[s] = started[s] + 1
          BY <2>3 DEF TypeOK
        <4>2. CASE s \in Registered' /\ k \in KeysOf(s)
          BY <2>4, <4>2 DEF Holds
        <4>3. CASE \E i \in 1..(started[s] + 1) : Specs(s)[i] = k
          <5>1. PICK i \in 1..(started[s] + 1) : Specs(s)[i] = k
            BY <4>3
          <5>2. i # started[s] + 1
            BY <2>2, <3>2, <5>1
          <5>3. i \in 1..started[s]
            BY <2>1, <5>1, <5>2
          <5> QED
            BY <2>1, <5>1, <5>3 DEF Holds
        <4> QED
          BY <3>2, <4>1, <4>2, <4>3 DEF Holds, Specs
      <3> QED
        BY <3>1, <3>2
    <2>7. HeldInv'
      <3>1. ASSUME NEW t \in Sessions, NEW k \in Keys, Holds(t, k)'
            PROVE  listeners'[k] = <<t, k>> /\ port'[k] = <<t, k>>
        <4>1. CASE t = s /\ k = j
          BY <2>2, <2>3, <4>1 DEF TypeOK
        <4>2. CASE Holds(t, k)
          <5>1. k # j
            BY <2>5, <4>2
          <5> QED
            BY <1>on, <2>3, <4>2, <5>1 DEF TypeOK, HeldInv
        <4> QED
          BY <2>6, <3>1, <4>1, <4>2
      <3> QED
        BY <3>1 DEF HeldInv
    <2>8. WorkInv'
      <3>1. \A a \in Actors : j \notin work[a]
        BY <1>on, <2>2, <2>3 DEF WorkInv
      <3>2. ASSUME NEW a \in Actors, NEW k \in Keys, k \in work'[a]
            PROVE  /\ listeners'[k] # None
                   /\ listeners'[k][1] \in Past' \ Registered'
                   /\ \A b \in Actors : k \in work'[b] => b = a
        <4>1. k \in work[a] /\ k # j
          BY <2>3, <3>1, <3>2
        <4>2. listeners'[k] = listeners[k]
          BY <2>3, <4>1 DEF TypeOK
        <4> QED
          BY <1>on, <2>3, <2>4, <4>1, <4>2 DEF WorkInv
      <3> QED
        BY <3>2 DEF WorkInv
    <2>9. WaitInv'
      BY <1>on, <2>3, <2>4 DEF WaitInv
    <2> QED
      BY <2>7, <2>8, <2>9
  <1>10. ASSUME NEW s \in Sessions, StartFails(s) PROVE Kept
    <2> DEFINE W == {Specs(s)[i] : i \in 1..started[s]}
    <2>1. /\ UNCHANGED <<listeners, port, waits, clients>>
          /\ work' = [work EXCEPT ![s] = W]
          /\ sess[s] = "starting" /\ sess'[s] = "ending"
          /\ \A t \in Sessions \ {s} : sess'[t] = sess[t] /\ started'[t] = started[t]
      BY <1>10 DEF StartFails, Starting, TypeOK, Set
    <2>2. Past' = Past \cup {s} /\ s \notin Past /\ Registered' = Registered
      BY <1>a, <2>1 DEF Past
    <2>3. s \notin Registered
      BY <2>2, RegisteredPast
    <2>4. \A t \in Sessions, k \in Keys : Holds(t, k)' => Holds(t, k)
      <3>1. ASSUME NEW t \in Sessions \ {s}, NEW k \in Keys, Holds(t, k)' PROVE Holds(t, k)
        BY <2>1, <2>2, <3>1 DEF Holds, Specs
      <3>2. ASSUME NEW k \in Keys, Holds(s, k)' PROVE FALSE
        BY <2>1, <2>2, <2>3, <3>2 DEF Holds
      <3> QED
        BY <3>1, <3>2
    <2>5. HeldInv'
      BY <1>on, <2>1, <2>4 DEF HeldInv
    <2>6. WaitInv'
      BY <1>on, <2>1, <2>2 DEF WaitInv
    <2>7. ASSUME NEW k \in W, k \in Keys PROVE listeners[k] = <<s, k>> /\ listeners[k] # None /\ \A b \in Actors : k \notin work[b]
      <3>1. Holds(s, k)
        BY <2>1 DEF Holds
      <3>2. listeners[k] = <<s, k>>
        BY <1>on, <2>7, <3>1 DEF HeldInv
      <3>3. listeners[k] # None
        BY <2>7, <3>2, TunnelAssumption DEF Listeners
      <3>4. ASSUME NEW b \in Actors, k \in work[b] PROVE FALSE
        <4>1. listeners[k][1] \in Past
          BY <1>on, <2>7, <3>4 DEF WorkInv
        <4> QED
          BY <2>2, <3>2, <4>1
      <3> QED
        BY <3>2, <3>3, <3>4
    <2> HIDE DEF W
    <2>8. ASSUME NEW a \in Actors, NEW k \in Keys, k \in work'[a]
          PROVE  /\ listeners'[k] # None
                 /\ listeners'[k][1] \in Past' \ Registered'
                 /\ \A b \in Actors : k \in work'[b] => b = a
      <3>0. work'[s] = W /\ \A b \in Actors \ {s} : work'[b] = work[b]
        BY <1>0, <2>1 DEF TypeOK
      <3>1. CASE a = s
        <4>1. k \in W
          BY <2>8, <3>0, <3>1
        <4>2. listeners[k] = <<s, k>> /\ listeners[k] # None /\ \A b \in Actors : k \notin work[b]
          BY <2>7, <4>1
        <4>3. listeners'[k] # None /\ listeners'[k][1] = s
          BY <2>1, <4>2
        <4>4. \A b \in Actors : k \in work'[b] => b = a
          BY <3>0, <3>1, <4>2
        <4> QED
          BY <2>2, <2>3, <4>3, <4>4
      <3>2. CASE a # s
        <4>1. k \in work[a]
          BY <2>8, <3>0, <3>2
        <4>2. k \notin W
          BY <2>7, <4>1
        <4>3. /\ listeners[k] # None /\ listeners[k][1] \in Past \ Registered
              /\ \A b \in Actors : k \in work[b] => b = a
          BY <1>on, <4>1 DEF WorkInv
        <4> QED
          BY <2>1, <2>2, <3>0, <4>2, <4>3
      <3> QED
        BY <3>1, <3>2
    <2>9. WorkInv'
      BY <2>8 DEF WorkInv
    <2> QED
      BY <2>5, <2>6, <2>9
  <1>11. ASSUME NEW a \in Actors, NEW k \in Keys, StopKey(a, k) PROVE Kept
    <2>1. /\ k \in work[a] /\ work' = [work EXCEPT ![a] = work[a] \ {k}]
          /\ listeners' = [listeners EXCEPT ![k] = None]
          /\ UNCHANGED <<port, sess, started, clients>>
      BY <1>11 DEF StopKey, regVars, Set
    <2>2. listeners[k] # None /\ listeners[k][1] \in Past \ Registered /\ \A b \in Actors : k \in work[b] => b = a
      BY <1>on, <2>1 DEF WorkInv
    <2>3. Past' = Past /\ Registered' = Registered
      BY <1>a, <2>1 DEF Past
    <2>4. \A t \in Sessions, j \in Keys : Holds(t, j)' => Holds(t, j)
      BY <2>1, <2>3 DEF Holds, Specs
    <2>5. ASSUME NEW t \in Sessions PROVE ~Holds(t, k)
      <3>1. SUFFICES ASSUME Holds(t, k) PROVE FALSE
        OBVIOUS
      <3>2. listeners[k] = <<t, k>>
        BY <1>on, <3>1 DEF HeldInv
      <3>3. t \in Past \ Registered
        BY <2>2, <3>2
      <3> QED
        BY <3>1, <3>3, HoldsFacts
    <2>6. HeldInv'
      <3>1. ASSUME NEW t \in Sessions, NEW j \in Keys, Holds(t, j)' PROVE listeners'[j] = <<t, j>> /\ port'[j] = <<t, j>>
        <4>1. Holds(t, j) /\ j # k
          BY <2>4, <2>5, <3>1
        <4> QED
          BY <1>on, <2>1, <4>1 DEF HeldInv, TypeOK
      <3> QED
        BY <3>1 DEF HeldInv
    <2>7. WorkInv'
      <3>1. ASSUME NEW b \in Actors, NEW j \in Keys, j \in work'[b]
            PROVE  /\ listeners'[j] # None
                   /\ listeners'[j][1] \in Past' \ Registered'
                   /\ \A d \in Actors : j \in work'[d] => d = b
        <4>0. work'[a] = work[a] \ {k} /\ \A d \in Actors \ {a} : work'[d] = work[d]
          BY <2>1 DEF TypeOK
        <4>1. j \in work[b] /\ j # k
          BY <2>2, <3>1, <4>0
        <4>2. listeners'[j] = listeners[j]
          BY <2>1, <4>1 DEF TypeOK
        <4>3. \A d \in Actors : j \in work'[d] => j \in work[d]
          BY <4>0
        <4> QED
          BY <1>on, <2>3, <4>1, <4>2, <4>3 DEF WorkInv
      <3> QED
        BY <3>1 DEF WorkInv
    <2>8. WaitInv'
      <3>1. waits' = [waits EXCEPT ![a] = [l |-> listeners[k], s |-> "removed"]]
        BY <1>11, <2>2 DEF StopKey, Set
      <3>2. ASSUME NEW b \in Actors, waits'[b] # None PROVE waits'[b].l[1] \in Past' \ Registered'
        <4>1. CASE b = a
          <5>1. waits'[b].l = listeners[k]
            BY <3>1, <4>1 DEF TypeOK
          <5> QED
            BY <2>2, <2>3, <5>1
        <4>2. CASE b # a
          <5>1. waits'[b] = waits[b]
            BY <3>1, <4>2 DEF TypeOK
          <5> QED
            BY <1>on, <2>3, <3>2, <5>1 DEF WaitInv
        <4> QED
          BY <4>1, <4>2
      <3> QED
        BY <3>2 DEF WaitInv
    <2> QED
      BY <2>6, <2>7, <2>8
  <1>12. ASSUME NEW a \in Actors, StopCloses(a) PROVE Kept
    <2> DEFINE m == waits[a].l
    <2>1. /\ waits[a] # None /\ port' = [k \in Keys |-> IF port[k] = m THEN None ELSE port[k]]
          /\ UNCHANGED <<listeners, work, sess, started, clients>>
          /\ waits' = [waits EXCEPT ![a] = [waits[a] EXCEPT !.s = "closed"]]
      BY <1>12 DEF StopCloses, regVars, Set
    <2>2. m[1] \in Past \ Registered
      BY <1>on, <2>1 DEF WaitInv
    <2>3. Past' = Past /\ Registered' = Registered
      BY <1>a, <2>1 DEF Past
    <2>4. \A t \in Sessions, j \in Keys : Holds(t, j)' => Holds(t, j)
      BY <2>1, <2>3 DEF Holds, Specs
    <2>5. HeldInv'
      <3>1. ASSUME NEW t \in Sessions, NEW j \in Keys, Holds(t, j)' PROVE listeners'[j] = <<t, j>> /\ port'[j] = <<t, j>>
        <4>1. Holds(t, j)
          BY <2>4, <3>1
        <4>2. listeners[j] = <<t, j>> /\ port[j] = <<t, j>>
          BY <1>on, <4>1 DEF HeldInv
        <4>3. t \notin Past \ Registered
          BY <4>1, HoldsFacts
        <4>4. port[j] # m
          BY <2>2, <4>2, <4>3
        <4> QED
          BY <2>1, <4>2, <4>4
      <3> QED
        BY <3>1 DEF HeldInv
    <2>6. WorkInv'
      BY <1>on, <2>1, <2>3 DEF WorkInv
    <2>7. WaitInv'
      <3>0. waits[a] \in [l : Listeners, s : {"removed", "closed"}]
        BY <2>1 DEF TypeOK
      <3>1. ASSUME NEW b \in Actors, waits'[b] # None PROVE waits'[b].l[1] \in Past' \ Registered'
        <4>1. CASE b = a
          <5>1. waits'[b].l = m
            BY <2>1, <3>0, <4>1 DEF TypeOK
          <5> QED
            BY <2>2, <2>3, <5>1
        <4>2. CASE b # a
          <5>1. waits'[b] = waits[b]
            BY <2>1, <4>2 DEF TypeOK
          <5> QED
            BY <1>on, <2>3, <3>1, <5>1 DEF WaitInv
        <4> QED
          BY <4>1, <4>2
      <3> QED
        BY <3>1 DEF WaitInv
    <2> QED
      BY <2>5, <2>6, <2>7
  <1>13. ASSUME \/ ReloadLists \/ ReloadCloses \/ ReloadReturns \/ \E allowed \in SUBSET Sessions : ReloadSwaps(allowed)
                \/ RunReturns \/ UNCHANGED vars
         PROVE  UNCHANGED <<listeners, port, work, waits, sess, started, clients>>
    BY <1>13 DEF ReloadLists, ReloadCloses, ReloadReturns, ReloadSwaps, RunReturns, vars, regVars, lisVars
  <1>14. ASSUME PeerStep PROVE UNCHANGED <<listeners, port, work, waits, sess, started, clients>>
    BY <1>14, PeerFrame DEF regVars, lisVars
  <1>15. ~StopAll
    BY DEF StopAll
  <1> HIDE DEF Kept
  <1>16. Kept
    BY <1>1, <1>2, <1>2a, <1>3, <1>4, <1>5, <1>6, <1>7, <1>8, <1>9, <1>10, <1>11, <1>12, <1>13, <1>14, <1>15, Zenon
    DEF Next, Control, Reload, PeerStep, Stops
  <1> QED
    BY <1>16 DEF Kept

-----------------------------------------------------------------------------
(* The reload. *)

(* A session that is past its start stays so and does not register again.    *)
LEMMA PastStep ==
    ASSUME TypeOK, SessionInv, FoundInv, [Next]_vars
    PROVE  Past \subseteq Past' /\ Registered' \cap Past \subseteq Registered
  <1> USE DEF TypeOK, Set
  <1>0. None \notin Sessions /\ \A s \in Sessions : ClientOf[s] \in Clients
    BY SpecsType, TunnelAssumption
  <1> DEFINE Keeps == Past \subseteq Past' /\ Registered' \cap Past \subseteq Registered
  <1>a. ASSUME NEW a, NEW t \in Sessions, unregisterSession(a, t) PROVE Registered' \subseteq Registered
    BY <1>0, <1>a DEF unregisterSession, Registered
  <1>b. ASSUME UNCHANGED clients PROVE Registered' = Registered
    BY <1>b DEF Registered
  <1>1. ASSUME NEW s \in Sessions, Hello(s) \/ Evicted(s) \/ HandlerEnds(s) \/ StartFails(s) PROVE Keeps
    <2>1. UNCHANGED clients /\ \A t \in Sessions : sess'[t] = sess[t] \/ sess[t] \in {"none", "evict", "starting"}
                                                                      \/ sess'[t] = "gone"
      BY <1>1 DEF Hello, runOnce, Evicted, HandlerEnds, StartFails, Starting
    <2> QED
      BY <1>b, <2>1 DEF Past
  <1>2. ASSUME NEW s \in Sessions, FindPrevious(s) PROVE Keeps
    <2>1. UNCHANGED clients /\ \A t \in Sessions : sess'[t] = sess[t] \/ sess[t] = "hello"
      BY <1>2 DEF FindPrevious
    <2> QED
      BY <1>b, <2>1 DEF Past
  <1>2a. ASSUME NEW s \in Sessions, Evict(s) PROVE Keeps
    <2>1. victim[s] \in Sessions /\ unregisterSession(s, victim[s])
      BY <1>2a DEF Evict, FoundInv
    <2>2. Registered' \subseteq Registered
      BY <1>a, <2>1
    <2>3. \A t \in Sessions : sess'[t] = sess[t] \/ sess[t] = "found"
      BY <1>2a DEF Evict
    <2> QED
      BY <2>2, <2>3 DEF Past
  <1>3. ASSUME NEW s \in Sessions, Register(s) PROVE Keeps
    <2>1. /\ clients' = [clients EXCEPT ![ClientOf[s]] = s] /\ sess[s] = "starting"
          /\ \A t \in Sessions \ {s} : sess'[t] = sess[t]
      BY <1>3 DEF Register
    <2>2. Registered' \subseteq Registered \cup {s} /\ s \notin Past
      BY <1>0, <2>1 DEF Registered, Past
    <2> QED
      BY <2>1, <2>2 DEF Past
  <1>4. ASSUME NEW s \in Sessions, StartListener(s) PROVE UNCHANGED <<sess, clients>>
    BY <1>4 DEF StartListener
  <1>5. ASSUME NEW s \in Sessions, ControlEnds(s) \/ ReloadDrops(s) PROVE Keeps
    <2>1. Registered' \subseteq Registered
      BY <1>5, <1>a DEF ControlEnds, ReloadDrops
    <2>2. \A t \in Sessions : sess'[t] = sess[t] \/ sess'[t] = "ending"
      BY <1>5 DEF ControlEnds, ReloadDrops
    <2> QED
      BY <2>1, <2>2 DEF Past
  <1>6. ASSUME NEW a \in Actors, Stops(a) PROVE UNCHANGED <<sess, clients>>
    BY <1>6 DEF Stops, StopCloses, StopWaited, StopKey, regVars
  <1>7. ASSUME \/ ReloadLists \/ ReloadCloses \/ ReloadReturns \/ \E allowed \in SUBSET Sessions : ReloadSwaps(allowed)
               \/ StopAll \/ RunReturns \/ UNCHANGED vars
        PROVE  UNCHANGED <<sess, clients>>
    BY <1>7 DEF ReloadLists, ReloadCloses, ReloadReturns, ReloadSwaps, StopAll, RunReturns, vars, regVars
  <1>8. ASSUME PeerStep PROVE UNCHANGED <<sess, clients>>
    BY <1>8, PeerFrame DEF regVars
  <1>9. ASSUME UNCHANGED <<sess, clients>> PROVE Keeps
    BY <1>b, <1>9 DEF Past
  <1> HIDE DEF Keeps, TypeOK
  <1>10. Keeps
    BY <1>1, <1>2, <1>2a, <1>3, <1>4, <1>5, <1>6, <1>7, <1>8, <1>9, Zenon DEF Next, Control, Reload, PeerStep
  <1> QED
    BY <1>10 DEF Keeps

(* What the reload revoked is on its list until it is unregistered.          *)
LEMMA ReloadStep ==
    ASSUME TypeOK, SessionInv, FoundInv, ReloadInv, [Next]_vars
    PROVE  ReloadInv'
  <1> USE DEF ReloadInv
  <1>0. Past \subseteq Past' /\ Registered' \cap Past \subseteq Registered
    BY PastStep
  <1>1. ASSUME UNCHANGED cfgVars PROVE ReloadInv'
    BY <1>0, <1>1 DEF cfgVars
  <1>2. ASSUME NEW allowed \in SUBSET Sessions, ReloadSwaps(allowed) PROVE ReloadInv'
    <2>1. before' = Registered /\ reload' = "swapped"
      BY <1>2 DEF ReloadSwaps
    <2> QED
      BY <1>0, <2>1, RegisteredPast
  <1>3. ASSUME ReloadLists PROVE ReloadInv'
    <2>1. doomed' = Registered \ granted /\ UNCHANGED <<granted, before, clients>>
      BY <1>3 DEF ReloadLists, sessionAllowedByConfig, regVars
    <2>2. Registered' = Registered
      BY <2>1 DEF Registered
    <2> QED
      BY <1>0, <2>1, <2>2
  <1>4. ASSUME NEW s \in Sessions, ReloadDrops(s) PROVE ReloadInv'
    <2>1. doomed' = doomed \ {s} /\ UNCHANGED <<granted, before, reload>> /\ unregisterSession(Reloader, s) /\ reload = "listed"
      BY <1>4 DEF ReloadDrops
    <2>2. s \notin Registered'
      <3>1. ClientOf[s] \in Clients /\ None # s
        BY SpecsType, TunnelAssumption
      <3> QED
        BY <2>1, <3>1 DEF unregisterSession, Set, Registered, TypeOK
    <2> QED
      BY <1>0, <2>1, <2>2
  <1>5. ASSUME ReloadReturns PROVE ReloadInv'
    BY <1>0, <1>5 DEF ReloadReturns
  <1>6. ASSUME ReloadCloses \/ StopAll \/ RunReturns \/ UNCHANGED vars PROVE UNCHANGED cfgVars
    BY <1>6 DEF ReloadCloses, StopAll, RunReturns, vars
  <1>7. ASSUME NEW s \in Sessions, Hello(s) \/ Control(s) \/ ControlEnds(s) PROVE UNCHANGED cfgVars
    BY <1>7 DEF Hello, Control, ControlEnds, FindPrevious, Evict, Evicted, Register, HandlerEnds, StartListener, StartFails
  <1>8. ASSUME NEW a \in Actors, Stops(a) PROVE UNCHANGED cfgVars
    BY <1>8 DEF Stops, StopCloses, StopWaited, StopKey
  <1>9. ASSUME PeerStep PROVE UNCHANGED cfgVars
    BY <1>9, PeerFrame
  <1> HIDE DEF ReloadInv
  <1> QED
    BY <1>1, <1>2, <1>3, <1>4, <1>5, <1>6, <1>7, <1>8, <1>9, Zenon DEF Next, Reload, PeerStep

-----------------------------------------------------------------------------
(* Public connections and their data connections. *)

(* The state of the public connections. *)
PeerInv == UDPInv /\ DataInv

(* What closing the UDP session of a listener does.                          *)
LEMMA CloseSessionEffect ==
    ASSUME TypeOK, UDPInv, NEW m \in Listeners, closeSession(m)
    PROVE  /\ udp'[m] = None /\ \A l \in Listeners \ {m} : udp'[l] = udp[l]
           /\ \A p \in Peers : data'[p] = data[p] \/ (udp[m] = p /\ data'[p] = "closed")
           /\ \A p \in Peers : udp[m] = p => data'[p] = "closed"
  BY TunnelAssumption DEF TypeOK, closeSession, Set

(* Closing one keeps the invariant.                                          *)
LEMMA PeerCloses ==
    ASSUME TypeOK, PeerInv, NEW m \in Listeners, closeSession(m), UNCHANGED <<peer, at, via, pending, chan>>
    PROVE  PeerInv'
  <1>0. /\ udp'[m] = None /\ \A l \in Listeners \ {m} : udp'[l] = udp[l]
        /\ \A p \in Peers : data'[p] = data[p] \/ (udp[m] = p /\ data'[p] = "closed")
        /\ \A p \in Peers : udp[m] = p => data'[p] = "closed"
    BY CloseSessionEffect DEF PeerInv
  <1>1. UDPInv'
    <2>1. ASSUME NEW l \in Listeners, udp'[l] # None
          PROVE  peer'[udp'[l]] \in {"write", "reading"} /\ at'[udp'[l]] = l /\ via'[udp'[l]] = udp'[l]
      BY <1>0, <2>1 DEF PeerInv, UDPInv
    <2> QED
      BY <2>1 DEF UDPInv
  <1>2. ASSUME NEW p \in Peers, udp[m] = p PROVE peer[p] \in {"write", "reading"}
    BY <1>2, TunnelAssumption DEF PeerInv, UDPInv
  <1>3. ASSUME NEW p \in Peers PROVE DataOf(p)'
    <2>0. DataOf(p)
      BY DEF PeerInv, DataInv
    <2>1. CASE udp[m] = p
      BY <1>0, <1>2, <2>0, <2>1 DEF DataOf
    <2>2. CASE udp[m] # p
      <3>1. data'[p] = data[p]
        BY <1>0, <2>2
      <3>2. peer[p] \in {"write", "reading"} => at[p] \in Listeners
        BY <2>0 DEF DataOf, TypeOK
      <3>3. peer[p] \in {"write", "reading"} /\ data[p] = "open" => udp'[at[p]] = p
        BY <1>0, <2>0, <2>2, <3>2 DEF DataOf
      <3> QED
        BY <2>0, <3>1, <3>3 DEF DataOf
    <2> QED
      BY <2>1, <2>2
  <1>4. DataInv'
    BY <1>3 DEF DataInv
  <1> QED
    BY <1>1, <1>4 DEF PeerInv

(* The other public connections are not touched. *)
OnlyMoves(p) ==
    \A q \in Peers \ {p} :
        /\ peer'[q] = peer[q] /\ at'[q] = at[q] /\ via'[q] = via[q] /\ chan'[q] = chan[q]
        /\ q \in pending' <=> q \in pending

(* A step of one public connection that leaves the UDP sessions alone.       *)
LEMMA PeerMoves ==
    ASSUME TypeOK, PeerInv, NEW p \in Peers, OnlyMoves(p), UNCHANGED udp,
           \A q \in Peers \ {p} : data'[q] = data[q],
           \A l \in Listeners : udp[l] = p => peer'[p] \in {"write", "reading"} /\ at'[p] = l /\ via'[p] = p,
           DataOf(p)'
    PROVE  PeerInv'
  <1>1. ASSUME NEW l \in Listeners, udp'[l] # None
        PROVE  peer'[udp'[l]] \in {"write", "reading"} /\ at'[udp'[l]] = l /\ via'[udp'[l]] = udp'[l]
    <2>1. udp[l] \in Peers
      BY <1>1 DEF TypeOK
    <2>2. CASE udp[l] = p
      BY <2>2
    <2>3. CASE udp[l] # p
      BY <1>1, <2>1, <2>3 DEF PeerInv, UDPInv, OnlyMoves
    <2> QED
      BY <2>2, <2>3
  <1>2. ASSUME NEW q \in Peers \ {p} PROVE DataOf(q)'
    BY DEF PeerInv, DataInv, DataOf, OnlyMoves
  <1> QED
    BY <1>1, <1>2 DEF PeerInv, UDPInv, DataInv

(* A step of one public connection that closes a UDP session.                *)
LEMMA PeerMovesCloses ==
    ASSUME TypeOK, PeerInv, NEW p \in Peers, OnlyMoves(p), NEW m \in Listeners, closeSession(m),
           \A l \in Listeners \ {m} : udp[l] # p,
           DataOf(p)'
    PROVE  PeerInv'
  <1>0. /\ udp'[m] = None /\ \A l \in Listeners \ {m} : udp'[l] = udp[l]
        /\ \A q \in Peers : data'[q] = data[q] \/ (udp[m] = q /\ data'[q] = "closed")
        /\ \A q \in Peers : udp[m] = q => data'[q] = "closed"
    BY CloseSessionEffect DEF PeerInv
  <1>1. ASSUME NEW l \in Listeners, udp'[l] # None
        PROVE  peer'[udp'[l]] \in {"write", "reading"} /\ at'[udp'[l]] = l /\ via'[udp'[l]] = udp'[l]
    <2>1. l # m /\ udp'[l] = udp[l] /\ udp[l] \in Peers \ {p}
      BY <1>0, <1>1 DEF TypeOK
    <2> QED
      BY <1>1, <2>1 DEF PeerInv, UDPInv, OnlyMoves
  <1>2. ASSUME NEW q \in Peers \ {p} PROVE DataOf(q)'
    <2>0. DataOf(q)
      BY DEF PeerInv, DataInv
    <2>1. CASE udp[m] = q
      <3>1. peer[q] \in {"write", "reading"} /\ data'[q] = "closed"
        BY <1>0, <2>1, TunnelAssumption DEF PeerInv, UDPInv
      <3> QED
        BY <2>0, <3>1 DEF DataOf, OnlyMoves
    <2>2. CASE udp[m] # q
      <3>1. data'[q] = data[q]
        BY <1>0, <2>2
      <3>2. peer[q] \in {"write", "reading"} => at[q] \in Listeners
        BY <2>0 DEF DataOf, TypeOK
      <3>3. peer[q] \in {"write", "reading"} /\ data[q] = "open" => udp'[at[q]] = q
        BY <1>0, <2>0, <2>2, <3>2 DEF DataOf
      <3> QED
        BY <2>0, <3>1, <3>3 DEF DataOf, OnlyMoves
    <2> QED
      BY <2>1, <2>2
  <1> QED
    BY <1>1, <1>2 DEF PeerInv, UDPInv, DataInv

(* Every step of a public connection keeps the invariant.                    *)
LEMMA PeerInvPeer ==
    ASSUME TypeOK, PeerInv, NEW p \in Peers,
           \/ Serve(p) \/ \E k \in Reached : Arrive(p, k)
           \/ DataArrives(p) \/ DataQueued(p) \/ ClientDeclines(p) \/ ClientAborts(p)
           \/ PipeEnds(p) \/ SessionReadEnds(p)
    PROVE  PeerInv'
  <1> USE DEF TypeOK, Set, OnlyMoves
  <1>0. DataOf(p) /\ None \notin Peers /\ None \notin Listeners
    BY TunnelAssumption DEF PeerInv, DataInv
  <1>a. \A l \in Listeners : udp[l] = p => peer[p] \in {"write", "reading"} /\ at[p] = l /\ via[p] = p
    BY <1>0 DEF PeerInv, UDPInv
  <1>1. ASSUME NEW k \in Reached, Arrive(p, k) PROVE PeerInv'
    <2>1. port[k] \in Listeners /\ peer[p] = "none"
      BY <1>1, TunnelAssumption DEF Arrive
    <2>2. OnlyMoves(p) /\ UNCHANGED <<udp, data>> /\ peer'[p] \in {"gone", "spawned"}
      BY <1>1 DEF Arrive, Gone, Leaves
    <2>3. DataOf(p)'
      BY <1>0, <1>1, <2>1 DEF Arrive, Gone, Leaves, DataOf
    <2> HIDE DEF TypeOK, OnlyMoves
    <2> QED
      BY <1>a, <2>1, <2>2, <2>3, PeerMoves
  <1>2. ASSUME UseSession(p) PROVE PeerInv'
    <2>1. peer[p] = "spawned" /\ peer'[p] = "write" /\ OnlyMoves(p) /\ UNCHANGED <<udp, data, at>>
      BY <1>2 DEF UseSession
    <2>2. DataOf(p)'
      BY <1>0, <2>1 DEF DataOf
    <2> HIDE DEF TypeOK, OnlyMoves
    <2> QED
      BY <1>a, <2>1, <2>2, PeerMoves
  <1>3. ASSUME Open(p) PROVE PeerInv'
    <2>1. peer[p] = "spawned" /\ OnlyMoves(p) /\ UNCHANGED udp /\ \A q \in Peers \ {p} : data'[q] = data[q]
      BY <1>3 DEF Open, Gone, Leaves
    <2>2. DataOf(p)'
      BY <1>0, <1>3 DEF Open, Gone, Leaves, DataOf
    <2> HIDE DEF TypeOK, OnlyMoves
    <2> QED
      BY <1>a, <2>1, <2>2, PeerMoves
  <1>4. ASSUME Cancelled(p) \/ GiveUp(p) PROVE PeerInv'
    <2>1. peer[p] = "waiting" /\ peer'[p] = "gave_up" /\ at'[p] = None /\ OnlyMoves(p) /\ UNCHANGED <<udp, data>>
      BY <1>4 DEF Cancelled, GiveUp, Leaves
    <2>2. DataOf(p)'
      BY <2>1 DEF DataOf
    <2> HIDE DEF TypeOK, OnlyMoves
    <2> QED
      BY <1>a, <2>1, <2>2, PeerMoves
  <1>5. ASSUME Pipe(p) PROVE PeerInv'
    <2>1. peer[p] = "waiting" /\ chan[p] = "data" /\ peer'[p] = "piping" /\ OnlyMoves(p) /\ UNCHANGED <<udp, data, at>>
      BY <1>5 DEF Pipe
    <2>2. DataOf(p)'
      BY <1>0, <2>1 DEF DataOf
    <2> HIDE DEF TypeOK, OnlyMoves
    <2> QED
      BY <1>a, <2>1, <2>2, PeerMoves
  <1>6. ASSUME PipeEnds(p) PROVE PeerInv'
    <2>1. /\ peer[p] = "piping" /\ peer'[p] = "gone" /\ data'[p] = "closed" /\ at'[p] = None /\ OnlyMoves(p) /\ UNCHANGED udp
          /\ \A q \in Peers \ {p} : data'[q] = data[q]
      BY <1>6 DEF PipeEnds, Gone, Leaves
    <2>2. DataOf(p)'
      BY <2>1 DEF DataOf
    <2> HIDE DEF TypeOK, OnlyMoves
    <2> QED
      BY <1>a, <2>1, <2>2, PeerMoves
  <1>7. ASSUME DataArrives(p) PROVE PeerInv'
    <2>1. /\ data[p] = "asked" /\ data'[p] \in {"held", "closed"} /\ OnlyMoves(p) /\ UNCHANGED <<udp, peer, at, via, chan, pending>>
          /\ \A q \in Peers \ {p} : data'[q] = data[q]
      BY <1>7 DEF DataArrives
    <2>2. DataOf(p)'
      BY <1>0, <2>1 DEF DataOf
    <2> HIDE DEF TypeOK, OnlyMoves
    <2> QED
      BY <1>a, <2>1, <2>2, PeerMoves
  <1>8. ASSUME DataQueued(p) PROVE PeerInv'
    <2>1. /\ data[p] = "held" /\ OnlyMoves(p) /\ UNCHANGED <<udp, peer, at, via, pending>>
          /\ \/ data'[p] = "open" /\ chan'[p] = "data"
             \/ data'[p] = "closed" /\ chan'[p] = chan[p]
          /\ \A q \in Peers \ {p} : data'[q] = data[q]
      <3>1. CASE chan[p] = "empty"
        BY <1>8, <3>1 DEF DataQueued
      <3>2. CASE chan[p] # "empty"
        BY <1>8, <3>2 DEF DataQueued
      <3> QED
        BY <3>1, <3>2
    <2>2. DataOf(p)'
      BY <1>0, <2>1 DEF DataOf
    <2> HIDE DEF TypeOK, OnlyMoves
    <2> QED
      BY <1>a, <2>1, <2>2, PeerMoves
  <1>9. ASSUME ClientDeclines(p) PROVE PeerInv'
    <2>1. /\ data[p] = "asked" /\ OnlyMoves(p) /\ UNCHANGED <<udp, peer, at, via, pending>>
          /\ data'[p] = "none" /\ (chan'[p] = "nil" \/ chan'[p] = chan[p])
          /\ \A q \in Peers \ {p} : data'[q] = data[q]
      BY <1>9 DEF ClientDeclines, cancelPending
    <2>2. DataOf(p)'
      BY <1>0, <2>1 DEF DataOf
    <2> HIDE DEF TypeOK, OnlyMoves
    <2> QED
      BY <1>a, <2>1, <2>2, PeerMoves
  <1>10. ASSUME ClientAborts(p) PROVE PeerInv'
    <2>1. /\ data[p] \in {"held", "open"} /\ OnlyMoves(p) /\ UNCHANGED <<udp, peer, at, via, pending, data>>
          /\ chan[p] = "empty" /\ chan'[p] = "nil"
      BY <1>10 DEF ClientAborts, cancelPending
    <2>2. DataOf(p)'
      BY <1>0, <2>1 DEF DataOf
    <2> HIDE DEF TypeOK, OnlyMoves
    <2> QED
      BY <1>a, <2>1, <2>2, PeerMoves
  <1>11. ASSUME OpenSession(p) PROVE PeerInv'
    <2>0. /\ peer[p] = "waiting" /\ chan[p] = "data" /\ peer'[p] = "write" /\ at' = at /\ OnlyMoves(p)
          /\ at[p] \in Listeners
      BY <1>0, <1>11 DEF OpenSession, DataOf
    <2>1. CASE udp[at[p]] # None
      <3>1. data'[p] = "closed" /\ UNCHANGED udp /\ \A q \in Peers \ {p} : data'[q] = data[q]
        BY <1>11, <2>1 DEF OpenSession
      <3>2. DataOf(p)'
        BY <1>0, <2>0, <3>1 DEF DataOf
      <3> HIDE DEF TypeOK, OnlyMoves
      <3> QED
        BY <1>a, <2>0, <3>1, <3>2, PeerMoves
    <2>2. CASE udp[at[p]] = None
      <3>1. via'[p] = p /\ udp' = [udp EXCEPT ![at[p]] = p] /\ UNCHANGED data
        BY <1>11, <2>2 DEF OpenSession
      <3>2. DataOf(p)'
        BY <1>0, <2>0, <3>1 DEF DataOf
      <3>3. ASSUME NEW q \in Peers \ {p} PROVE DataOf(q)'
        <4>1. DataOf(q)
          BY DEF PeerInv, DataInv
        <4>2. peer[q] \in {"write", "reading"} /\ data[q] = "open" => at[q] # at[p]
          BY <1>0, <2>2, <4>1 DEF DataOf
        <4>3. peer[q] \in {"write", "reading"} => at[q] \in Listeners
          BY <4>1 DEF DataOf
        <4>4. peer[q] \in {"write", "reading"} /\ data[q] = "open" => udp'[at[q]] = udp[at[q]]
          BY <3>1, <4>2, <4>3
        <4> QED
          BY <2>0, <3>1, <4>1, <4>4 DEF DataOf
      <3>4. ASSUME NEW l \in Listeners, udp'[l] # None
            PROVE  peer'[udp'[l]] \in {"write", "reading"} /\ at'[udp'[l]] = l /\ via'[udp'[l]] = udp'[l]
        <4>1. CASE l = at[p]
          BY <2>0, <3>1, <4>1
        <4>2. CASE l # at[p]
          <5>1. udp'[l] = udp[l] /\ udp[l] \in Peers \ {p}
            BY <1>a, <2>0, <3>1, <3>4, <4>2
          <5> QED
            BY <2>0, <3>4, <5>1 DEF PeerInv, UDPInv
        <4> QED
          BY <4>1, <4>2
      <3> QED
        BY <3>2, <3>3, <3>4 DEF PeerInv, UDPInv, DataInv
    <2> QED
      BY <2>1, <2>2
  <1>12. ASSUME WriteDatagram(p) PROVE PeerInv'
    <2>0. /\ peer[p] = "write" /\ OnlyMoves(p) /\ UNCHANGED <<via, chan>> /\ at[p] \in Listeners
          /\ \/ via[p] = p /\ peer'[p] = "reading" /\ at'[p] = at[p]
             \/ via[p] # p /\ peer'[p] = "gone" /\ at'[p] = None
      BY <1>0, <1>12 DEF WriteDatagram, Gone, Leaves, DataOf
    <2>1. CASE UNCHANGED <<udp, data>>
      <3>1. DataOf(p)'
        BY <1>0, <2>0, <2>1 DEF DataOf
      <3> HIDE DEF TypeOK, OnlyMoves
      <3> QED
        BY <1>a, <2>0, <2>1, <3>1, PeerMoves
    <2>2. CASE closeSession(at[p])
      <3>0. /\ \A q \in Peers : data'[q] = data[q] \/ (udp[at[p]] = q /\ data'[q] = "closed")
            /\ \A q \in Peers : udp[at[p]] = q => data'[q] = "closed"
        BY <2>0, <2>2, CloseSessionEffect DEF PeerInv
      <3>1. DataOf(p)'
        BY <1>0, <2>0, <3>0 DEF DataOf
      <3>2. \A l \in Listeners \ {at[p]} : udp[l] # p
        BY <1>a
      <3> HIDE DEF TypeOK, OnlyMoves
      <3> QED
        BY <2>0, <2>2, <3>1, <3>2, PeerMovesCloses
    <2> QED
      BY <1>12, <2>1, <2>2 DEF WriteDatagram
  <1>13. ASSUME SessionReadEnds(p) PROVE PeerInv'
    <2>0. /\ peer[p] = "reading" /\ OnlyMoves(p) /\ at[p] \in Listeners
          /\ peer'[p] = "gone" /\ at'[p] = None /\ closeSession(at[p])
      BY <1>0, <1>13 DEF SessionReadEnds, Gone, Leaves, DataOf
    <2>1. /\ \A q \in Peers : data'[q] = data[q] \/ (udp[at[p]] = q /\ data'[q] = "closed")
          /\ \A q \in Peers : udp[at[p]] = q => data'[q] = "closed"
      BY <2>0, CloseSessionEffect DEF PeerInv
    <2>2. DataOf(p)'
      BY <1>0, <2>0, <2>1 DEF DataOf
    <2>3. \A l \in Listeners \ {at[p]} : udp[l] # p
      BY <1>a
    <2> HIDE DEF TypeOK, OnlyMoves
    <2> QED
      BY <2>0, <2>2, <2>3, PeerMovesCloses
  <1> QED
    BY <1>1, <1>2, <1>3, <1>4, <1>5, <1>6, <1>7, <1>8, <1>9, <1>10, <1>11, <1>12, <1>13 DEF Serve


(* And so does every other step.                                             *)
LEMMA PeerInvStep ==
    ASSUME TypeOK, PeerInv, [Next]_vars
    PROVE  PeerInv'
  <1>0. ASSUME UNCHANGED peerVars PROVE PeerInv'
    BY <1>0 DEF peerVars, PeerInv, UDPInv, DataInv, DataOf
  <1>1. ASSUME NEW s \in Sessions, Hello(s) \/ Control(s) \/ ControlEnds(s) PROVE UNCHANGED peerVars
    BY <1>1 DEF Hello, Control, FindPrevious, Evict, Evicted, Register, HandlerEnds, StartListener, StartFails, ControlEnds
  <1>2. ASSUME NEW a \in Actors, StopCloses(a) PROVE PeerInv'
    <2>1. waits[a].l \in Listeners
      BY <1>2 DEF StopCloses, TypeOK
    <2>2. closeSession(waits[a].l) /\ UNCHANGED <<peer, at, via, pending, chan>>
      BY <1>2 DEF StopCloses
    <2> QED
      BY <2>1, <2>2, PeerCloses
  <1>3. ASSUME NEW a \in Actors, StopWaited(a) \/ \E k \in Keys : StopKey(a, k) PROVE UNCHANGED peerVars
    BY <1>3 DEF StopWaited, StopKey
  <1>4. ASSUME Reload \/ (\E allowed \in SUBSET Sessions : ReloadSwaps(allowed)) \/ RunReturns
        PROVE  UNCHANGED peerVars
    BY <1>4 DEF Reload, ReloadLists, ReloadCloses, ReloadReturns, ReloadDrops, ReloadSwaps, RunReturns
  <1>5. ASSUME NEW l \in Listeners, ClosesIdle(l) PROVE PeerInv'
    BY <1>5, PeerCloses DEF ClosesIdle
  <1>6. ASSUME StopAll PROVE PeerInv'
    <2>1. UNCHANGED <<peer, at, via, pending, data, udp>>
      BY <1>6 DEF StopAll
    <2>2. \A p \in Peers : chan'[p] = chan[p] \/ (p \in pending /\ chan[p] = "empty" /\ chan'[p] = "nil")
      BY <1>6 DEF StopAll
    <2>3. ASSUME NEW p \in Peers PROVE DataOf(p)'
      BY <2>1, <2>2 DEF PeerInv, DataInv, DataOf
    <2> QED
      BY <2>1, <2>3 DEF PeerInv, UDPInv, DataInv
  <1>7. ASSUME UNCHANGED vars PROVE UNCHANGED peerVars
    BY <1>7 DEF vars
  <1> QED
    BY <1>0, <1>1, <1>2, <1>3, <1>4, <1>5, <1>6, <1>7, PeerInvPeer DEF Next, Stops

-----------------------------------------------------------------------------
(* The theorems. *)

(* The server starts with no session, no listener and no connection.         *)
LEMMA InvInit ==
    Init => TunnelInv
  <1> SUFFICES ASSUME Init PROVE TunnelInv
    OBVIOUS
  <1>1. TypeOK
    BY DEF Init, TypeOK, Phases
  <1>2. SessionInv /\ FoundInv
    BY DEF Init, SessionInv, FoundInv
  <1>3. ListenerInv
    BY DEF Init, ListenerInv, Alike
  <1>4. Registered = {}
    BY SpecsType, TunnelAssumption DEF Init, Registered
  <1>5. ServeInv
    BY <1>4 DEF Init, ServeInv, HeldInv, WorkInv, WaitInv, Holds
  <1>6. ReloadInv
    BY DEF Init, ReloadInv
  <1>7. UDPInv /\ DataInv
    BY DEF Init, UDPInv, DataInv, DataOf
  <1> QED
    BY <1>1, <1>2, <1>3, <1>5, <1>6, <1>7 DEF TunnelInv

(* Every step keeps the whole invariant.                                     *)
LEMMA InvStep ==
    TunnelInv /\ [Next]_vars => TunnelInv'
  <1> SUFFICES ASSUME TunnelInv, [Next]_vars PROVE TunnelInv'
    OBVIOUS
  <1>0. TypeOK /\ SessionInv /\ FoundInv /\ ListenerInv /\ ServeInv /\ ReloadInv /\ PeerInv
    BY DEF TunnelInv, PeerInv
  <1>1. TypeOK'
    BY <1>0, TypeStep
  <1>2. SessionInv' /\ FoundInv'
    BY <1>0, SessionStep, FoundStep
  <1>3. ListenerInv'
    BY <1>0, ListenerStep
  <1>4. ServeInv'
    BY <1>0, <1>1, <1>2, ServeStep
  <1>5. ReloadInv'
    BY <1>0, ReloadStep
  <1>6. PeerInv'
    BY <1>0, PeerInvStep
  <1> QED
    BY <1>1, <1>2, <1>3, <1>4, <1>5, <1>6 DEF TunnelInv, PeerInv

(* The invariant holds in every state of the tunnel server.                  *)
THEOREM TunnelInvariant == Spec => []TunnelInv
  BY InvInit, InvStep, PTL DEF Spec

(* The shape of the state: in particular an actor that stops listeners has   *)
(* at most one of them in hand, and a listener is a session's under one of   *)
(* the keys.                                                                 *)
THEOREM TypeCorrect == Spec => []TypeOK
  <1>1. TunnelInv => TypeOK
    BY DEF TunnelInv
  <1> QED
    BY <1>1, TunnelInvariant, PTL

(* A client whose session is registered has all the tunnels of its hello,    *)
(* whatever sessions registerSession replaced, failed to start or            *)
(* unregistered, whatever tunnels each of them asked for, and whatever a     *)
(* reload revoked, until two sessions of one client with different tunnels   *)
(* have listeners at once.                                                   *)
THEOREM ServingHasListenersHolds == Spec => []ServingHasListeners
  <1>1. TunnelInv => ServingHasListeners
    <2> SUFFICES ASSUME TunnelInv, up = "on", ~overlap, NEW s \in Registered, NEW k \in KeysOf(s)
                 PROVE  listeners[k] = <<s, k>> /\ port[k] = <<s, k>>
      BY DEF ServingHasListeners
    <2>1. s \in Sessions
      BY DEF Registered
    <2>2. k \in Keys
      BY <2>1, SpecsType
    <2>3. Holds(s, k)
      BY DEF Holds
    <2> QED
      BY <2>1, <2>2, <2>3 DEF TunnelInv, ServeInv, HeldInv
  <1> QED
    BY <1>1, TunnelInvariant, PTL

(* A reload returns only after every session it revoked and found registered *)
(* is out of the registry.                                                   *)
THEOREM ReloadDisconnectsHolds == Spec => ReloadDisconnects
  <1> DEFINE Step == reload = "listed" /\ reload' = "none" => (Registered \ granted) \cap before = {}
  <1>1. TunnelInv /\ [Next]_vars => [Step]_vars
    <2> SUFFICES ASSUME TunnelInv, [Next]_vars, reload = "listed", reload' = "none"
                 PROVE  doomed = {}
      BY DEF TunnelInv, ReloadInv
    <2>1. ASSUME NEW s \in Sessions, Hello(s) \/ Control(s) \/ ControlEnds(s) PROVE reload' = reload
      BY <2>1 DEF Hello, Control, FindPrevious, Evict, Evicted, Register, HandlerEnds, StartListener, StartFails,
                  ControlEnds, cfgVars
    <2>2. ASSUME NEW a \in Actors, Stops(a) PROVE reload' = reload
      BY <2>2 DEF Stops, StopCloses, StopWaited, StopKey, cfgVars
    <2>3. ASSUME Reload PROVE doomed = {}
      BY <2>3 DEF Reload, ReloadLists, ReloadCloses, ReloadReturns, ReloadDrops, cfgVars
    <2>4. ASSUME NEW allowed \in SUBSET Sessions, ReloadSwaps(allowed) PROVE reload' = "swapped"
      BY <2>4 DEF ReloadSwaps
    <2>5. ASSUME PeerStep PROVE reload' = reload
      BY <2>5, PeerFrame DEF cfgVars
    <2>6. ASSUME StopAll \/ RunReturns PROVE reload' = reload
      BY <2>6 DEF StopAll, RunReturns, cfgVars
    <2>7. ASSUME UNCHANGED vars PROVE reload' = reload
      BY <2>7 DEF vars, cfgVars
    <2> QED
      BY <2>1, <2>2, <2>3, <2>4, <2>5, <2>6, <2>7 DEF Next, PeerStep
  <1> QED
    BY <1>1, TunnelInvariant, PTL DEF Spec, ReloadDisconnects

(* No data connection outlives the public connection that used it.           *)
THEOREM NoStrayDataHolds == Spec => []NoStrayData
  <1>1. TunnelInv => NoStrayData
    BY DEF TunnelInv, DataInv, DataOf, NoStrayData
  <1> QED
    BY <1>1, TunnelInvariant, PTL
=============================================================================
