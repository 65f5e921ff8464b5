---------------------------- MODULE TunnelServer ----------------------------
(***************************************************************************)
(* The reverse tunnel, tunnel/*.go: the registry of client sessions, the   *)
(* public listeners they own, the handshake that pairs a public connection *)
(* (or a UDP peer) with a data connection of the client, the reload of the *)
(* access list, and stopping.                                              *)
(*                                                                         *)
(* A session is one control connection.  A listener is the pair of the     *)
(* session that started it and its key.  Several actors stop listeners:    *)
(* the handler of a hello that replaces a session, the read loop of a      *)
(* session that ended, the reload, and stopAll.                            *)
(***************************************************************************)
EXTENDS Integers, FiniteSets, Sequences

CONSTANTS
    Sessions,  \* control connections, each made once
    ClientOf,  \* the client id each hello names
    SpecsOf,   \* the keys of the tunnels each hello asks for, in their order
    Peers,     \* TCP: public connections; UDP: datagrams of one address
    Reached,   \* keys they are sent to
    MaxConn,   \* max_conn of the tunnels, 0 = no limit
    MaxReloads,
    None

Clients == {ClientOf[s] : s \in Sessions}
Specs(s) == SpecsOf[s]
KeysOf(s) == {Specs(s)[i] : i \in 1..Len(Specs(s))}
Keys == UNION {KeysOf(s) : s \in Sessions}
Listeners == Sessions \X Keys

Reloader == "reload"
Stopper == "stop"
Actors == Sessions \cup {Reloader, Stopper}

(* A hello without tunnels is refused before anything else, and None is      *)
(* nobody.                                                                   *)
ASSUME TunnelAssumption ==
    /\ DOMAIN ClientOf = Sessions
    /\ \A s \in Sessions : Specs(s) \in Seq(Keys) /\ Specs(s) # << >>
    /\ Reached \subseteq Keys
    /\ None \notin Sessions \cup Peers \cup Listeners
    /\ \A x \in Listeners, y \in {"removed", "closed"} : None # [l |-> x, s |-> y]
    /\ Reloader \notin Sessions /\ Stopper \notin Sessions

VARIABLES
    proto,      \* protocol of the tunnels
    up,         \* Run: "on", "stopping" or "returned"
    granted,    \* sessions whose token and tunnels cfg allows
    reloads, reload,  \* reloads made; ReloadConfig: "none", "swapped", "listed"
    doomed,     \* sessions disconnectInvalidSessions still has to look at
    sess,       \* the handler of each control connection
    wire,       \* control connections that are open
    started,    \* tunnels registerSession has started
    clients,    \* Server.clients
    overlap,    \* listeners of two sessions of a client that asked for
                \* different tunnels have been in the map together
    listeners,  \* Server.listeners and Server.udpListeners
    port,       \* the listener that holds each public port
    cancelled,  \* listeners whose context is done
    work,       \* keys an actor still has to stop
    waits,      \* the listener an actor stops: [l, s], s "removed" or "closed"
    victim,     \* the session whose connection it closes afterwards
    peer,       \* the goroutine of each public connection or datagram
    at, via,    \* its listener; the session it asks
    pending,    \* Server.pending
    chan,       \* its channel: "empty", "nil" or "data"
    data,       \* its data connection
    udp,        \* UDP session of the address at each listener: its first datagram
    before      \* sessions registered when the last reload swapped cfg

regVars == <<sess, started, clients, overlap>>
lisVars == <<listeners, port, cancelled, work, waits, victim>>
peerVars == <<peer, at, via, pending, chan, data, udp>>
cfgVars == <<granted, reloads, reload, doomed, before>>
vars == <<proto, up, wire, regVars, lisVars, peerVars, cfgVars>>

Init ==
    /\ proto \in {"tcp", "udp"} /\ up = "on"
    /\ granted = Sessions /\ reloads = 0 /\ reload = "none" /\ doomed = {} /\ before = {}
    /\ sess = [s \in Sessions |-> "none"] /\ wire = {}
    /\ started = [s \in Sessions |-> 0]
    /\ clients = [c \in Clients |-> None] /\ overlap = FALSE
    /\ listeners = [k \in Keys |-> None] /\ port = [k \in Keys |-> None]
    /\ cancelled = {}
    /\ work = [a \in Actors |-> {}] /\ waits = [a \in Actors |-> None]
    /\ victim = [a \in Actors |-> None]
    /\ peer = [p \in Peers |-> "none"] /\ at = [p \in Peers |-> None]
    /\ via = [p \in Peers |-> None] /\ pending = {}
    /\ chan = [p \in Peers |-> "empty"] /\ data = [p \in Peers |-> "none"]
    /\ udp = [l \in Listeners |-> None]

Set(f, x, v) == [f EXCEPT ![x] = v]

-----------------------------------------------------------------------------
(* Stopping listeners. *)

Idle(a) == work[a] = {} /\ waits[a] = None

Owned(c) == {k \in Keys : listeners[k] # None /\ ClientOf[listeners[k][1]] = c}

unregisterSession_Blind(a, s) ==
    /\ clients' = Set(clients, ClientOf[s], None)
    /\ work' = Set(work, a, Owned(ClientOf[s]))

(* A session that is no longer the client's current one takes nothing down. *)
unregisterSession(a, s) ==
    IF clients[ClientOf[s]] = s
    THEN /\ clients' = Set(clients, ClientOf[s], None)
         /\ work' = Set(work, a, Owned(ClientOf[s]))
    ELSE UNCHANGED <<clients, work>>

(* stopAnyRemoteListener, by key: out of the map, *)
StopKey(a, k) ==
    /\ k \in work[a] /\ waits[a] = None
    /\ work' = Set(work, a, work[a] \ {k})
    /\ listeners' = Set(listeners, k, None)
    /\ waits' = IF listeners[k] = None THEN waits
                ELSE Set(waits, a, [l |-> listeners[k], s |-> "removed"])
    /\ UNCHANGED <<proto, up, wire, regVars, port, cancelled, victim, peerVars, cfgVars>>

closeSession(l) ==
    /\ udp' = Set(udp, l, None)
    /\ data' = IF udp[l] = None THEN data ELSE Set(data, udp[l], "closed")

(* cancelled and closed, for UDP with the sessions of the moment, *)
StopCloses(a) ==
    /\ waits[a] # None /\ waits[a].s = "removed"
    /\ LET l == waits[a].l
       IN  /\ cancelled' = cancelled \cup {l}
           /\ port' = [k \in Keys |-> IF port[k] = l THEN None ELSE port[k]]
           /\ closeSession(l)
    /\ waits' = Set(waits, a, [waits[a] EXCEPT !.s = "closed"])
    /\ UNCHANGED <<proto, up, wire, regVars, listeners, work, victim,
                   peer, at, via, pending, chan, cfgVars>>

Busy(l) == \E p \in Peers : at[p] = l

(* and waited for. *)
StopWaited(a) ==
    /\ waits[a] # None /\ waits[a].s = "closed" /\ ~Busy(waits[a].l)
    /\ waits' = Set(waits, a, None)
    /\ UNCHANGED <<proto, up, wire, regVars, listeners, port, cancelled, work, victim, peerVars, cfgVars>>

-----------------------------------------------------------------------------
(* A control connection. *)

(* Client.Run: each session is one runOnce, made again after a delay. *)
runOnce(s) == sess[s] = "none" /\ up = "on"

(* The token is the client's and its tunnels are allowed. *)
aclAllows(s) == s \in granted

(* handleHello up to registerSession. *)
Hello(s) ==
    /\ runOnce(s)
    /\ IF aclAllows(s)
       THEN sess' = Set(sess, s, "hello") /\ wire' = wire \cup {s}
       ELSE sess' = Set(sess, s, "gone") /\ UNCHANGED wire
    /\ UNCHANGED <<proto, up, started, clients, overlap, lisVars, peerVars, cfgVars>>

(* registerSession looks for the client's session, *)
FindPrevious(s) ==
    /\ sess[s] = "hello"
    /\ LET previous == clients[ClientOf[s]]
       IN  IF previous = None
           THEN sess' = Set(sess, s, "starting") /\ UNCHANGED victim
           ELSE sess' = Set(sess, s, "found") /\ victim' = Set(victim, s, previous)
    /\ UNCHANGED <<proto, up, wire, started, clients, overlap, listeners, port, cancelled, work, waits,
                   peerVars, cfgVars>>

(* unregisters it if it still is the client's, *)
Evict(s) ==
    /\ sess[s] = "found"
    /\ sess' = Set(sess, s, "evict")
    /\ unregisterSession(s, victim[s])
    /\ UNCHANGED <<proto, up, wire, started, overlap, listeners, port, cancelled, waits, victim,
                   peerVars, cfgVars>>

(* and closes it once its listeners are down. *)
Evicted(s) ==
    /\ sess[s] = "evict" /\ Idle(s)
    /\ sess' = Set(sess, s, "starting")
    /\ wire' = wire \ {victim[s]}
    /\ victim' = Set(victim, s, None)
    /\ UNCHANGED <<proto, up, started, clients, overlap, listeners, port, cancelled, work, waits, peerVars, cfgVars>>

Starting(s) == sess[s] = "starting" /\ started[s] < Len(Specs(s))
NextKey(s) == Specs(s)[started[s] + 1]

(* Its client still has a listener of a session with other tunnels. *)
MeetsOther(s) == \E k \in Owned(ClientOf[s]) : KeysOf(listeners[k][1]) # KeysOf(s)

(* One tunnel: its key must be free in both maps, and its port. *)
StartListener(s) ==
    /\ Starting(s)
    /\ listeners[NextKey(s)] = None /\ port[NextKey(s)] = None
    /\ listeners' = Set(listeners, NextKey(s), <<s, NextKey(s)>>)
    /\ port' = Set(port, NextKey(s), <<s, NextKey(s)>>)
    /\ started' = Set(started, s, started[s] + 1)
    /\ overlap' = (overlap \/ MeetsOther(s))
    /\ UNCHANGED <<proto, up, wire, sess, clients, cancelled, work, waits, victim, peerVars, cfgVars>>

(* In use, or the listen failed for a reason of its own: the tunnels started *)
(* are stopped by key.                                                       *)
StartFails(s) ==
    /\ Starting(s)
    /\ work' = Set(work, s, {Specs(s)[i] : i \in 1..started[s]})
    /\ sess' = Set(sess, s, "ending")
    /\ started' = Set(started, s, 0)
    /\ UNCHANGED <<proto, up, wire, clients, overlap, listeners, port, cancelled, waits, victim, peerVars, cfgVars>>

Register(s) ==
    /\ sess[s] = "starting" /\ started[s] = Len(Specs(s))
    /\ clients' = Set(clients, ClientOf[s], s)
    /\ sess' = Set(sess, s, "serving")
    /\ started' = Set(started, s, 0)
    /\ UNCHANGED <<proto, up, wire, overlap, lisVars, peerVars, cfgVars>>

(* controlReadLoop ends: the connection was closed here, or by the client. *)
ControlEnds(s) ==
    /\ sess[s] = "serving"
    /\ unregisterSession(s, s)
    /\ sess' = Set(sess, s, "ending")
    /\ UNCHANGED <<proto, up, wire, started, overlap, listeners, port, cancelled, waits, victim, peerVars, cfgVars>>

HandlerEnds(s) ==
    /\ sess[s] = "ending" /\ Idle(s)
    /\ sess' = Set(sess, s, "gone")
    /\ wire' = wire \ {s}
    /\ UNCHANGED <<proto, up, started, clients, overlap, lisVars, peerVars, cfgVars>>

-----------------------------------------------------------------------------
(* ReloadConfig. *)

Registered == {s \in Sessions : clients[ClientOf[s]] = s}

(* handleReload: an administrator's request with a file that parses and      *)
(* passes the precheck.                                                      *)
handleReload == reload = "none" /\ reloads < MaxReloads /\ up = "on"

(* The new access list is in place; nothing of it is undone later. *)
ReloadSwaps(allowed) ==
    /\ handleReload
    /\ reload' = "swapped" /\ reloads' = reloads + 1
    /\ granted' = allowed
    /\ before' = Registered
    /\ UNCHANGED <<proto, up, wire, regVars, lisVars, peerVars, doomed>>

sessionAllowedByConfig(s) == s \in granted

(* disconnectInvalidSessions: the sessions of the moment, *)
ReloadLists ==
    /\ reload = "swapped"
    /\ reload' = "listed"
    /\ doomed' = {s \in Registered : ~sessionAllowedByConfig(s)}
    /\ UNCHANGED <<proto, up, wire, regVars, lisVars, peerVars, granted, reloads, before>>

ReloadDrops_ClosesOnly(s) ==
    /\ reload = "listed" /\ s \in doomed /\ Idle(Reloader) /\ victim[Reloader] = None
    /\ doomed' = doomed \ {s}
    /\ victim' = Set(victim, Reloader, s)
    /\ UNCHANGED <<proto, up, wire, regVars, listeners, port, cancelled, work, waits, peerVars,
                   granted, reloads, reload, before>>

(* each of them unregistered if it is still current, *)
ReloadDrops(s) ==
    /\ reload = "listed" /\ s \in doomed /\ Idle(Reloader) /\ victim[Reloader] = None
    /\ doomed' = doomed \ {s}
    /\ unregisterSession(Reloader, s)
    /\ victim' = Set(victim, Reloader, s)
    /\ UNCHANGED <<proto, up, wire, sess, started, overlap, listeners, port, cancelled, waits, peerVars,
                   granted, reloads, reload, before>>

(* and closed. *)
ReloadCloses ==
    /\ victim[Reloader] # None /\ Idle(Reloader)
    /\ wire' = wire \ {victim[Reloader]}
    /\ victim' = Set(victim, Reloader, None)
    /\ UNCHANGED <<proto, up, regVars, listeners, port, cancelled, work, waits, peerVars, cfgVars>>

ReloadReturns ==
    /\ reload = "listed" /\ doomed = {} /\ Idle(Reloader) /\ victim[Reloader] = None
    /\ reload' = "none" /\ before' = {}
    /\ UNCHANGED <<proto, up, wire, regVars, lisVars, peerVars, granted, reloads, doomed>>

-----------------------------------------------------------------------------
(* A public connection, or a datagram, and its data connection. *)

(* The count is raised by the goroutine, not before it is started. *)
Active(l) == Cardinality({p \in Peers : at[p] = l /\ peer[p] # "spawned"})

(* The goroutine ends; nothing refers to its listener any more. *)
Leaves(p, how) ==
    /\ peer' = Set(peer, p, how)
    /\ at' = Set(at, p, None)
    /\ pending' = pending \ {p}

Gone(p) == Leaves(p, "gone")

(* acceptLoop and readLoop: a goroutine is started; a TCP connection beyond  *)
(* max_conn is closed instead.                                               *)
Arrive(p, k) ==
    /\ peer[p] = "none" /\ port[k] # None
    /\ IF proto = "tcp" /\ MaxConn > 0 /\ Active(port[k]) >= MaxConn
       THEN Gone(p)
       ELSE /\ at' = Set(at, p, port[k]) /\ peer' = Set(peer, p, "spawned")
            /\ UNCHANGED pending
    /\ UNCHANGED <<proto, up, wire, regVars, lisVars, via, chan, data, udp, cfgVars>>

(* getOrOpenSession finds the session of the address. *)
UseSession(p) ==
    /\ peer[p] = "spawned" /\ proto = "udp"
    /\ udp[at[p]] # None
    /\ peer' = Set(peer, p, "write")
    /\ via' = Set(via, p, udp[at[p]])
    /\ UNCHANGED <<proto, up, wire, regVars, lisVars, at, pending, chan, data, udp, cfgVars>>

(* The client's session is looked up, the channel entered under a fresh id   *)
(* and an open message written: no session, or a closed connection, ends it. *)
Open(p) ==
    /\ peer[p] = "spawned"
    /\ proto = "udp" => udp[at[p]] = None
    /\ LET session == clients[ClientOf[at[p][1]]]
       IN  IF session \in wire
           THEN /\ peer' = Set(peer, p, "waiting")
                /\ pending' = pending \cup {p}
                /\ via' = Set(via, p, session)
                /\ data' = Set(data, p, "asked")
                /\ UNCHANGED at
           ELSE Gone(p) /\ UNCHANGED <<via, data>>
    /\ UNCHANGED <<proto, up, wire, regVars, lisVars, chan, udp, cfgVars>>

(* A data connection shows the token only: it is known as long as the        *)
(* session is allowed, and may still be when only its tunnels are not.       *)
authenticate(s) == IF s \in granted THEN {TRUE} ELSE BOOLEAN

(* handleOpen of the client dials the server and sends the data message; the *)
(* server authenticates it and finds the channel.                            *)
DataArrives(p) ==
    /\ data[p] = "asked" /\ up = "on"
    /\ \E known \in authenticate(via[p]) :
          data' = Set(data, p, IF known /\ p \in pending THEN "held" ELSE "closed")
    /\ UNCHANGED <<proto, up, wire, regVars, lisVars, peer, at, via, pending, chan, udp, cfgVars>>

(* The channel holds one. *)
DataQueued(p) ==
    /\ data[p] = "held"
    /\ IF chan[p] = "empty"
       THEN chan' = Set(chan, p, "data") /\ data' = Set(data, p, "open")
       ELSE data' = Set(data, p, "closed") /\ UNCHANGED chan
    /\ UNCHANGED <<proto, up, wire, regVars, lisVars, peer, at, via, pending, udp, cfgVars>>

(* cancelPending: a close message finds the channel empty, or is dropped. *)
cancelPending(p) ==
    /\ via[p] \in wire /\ p \in pending /\ chan[p] = "empty"
    /\ chan' = Set(chan, p, "nil")

(* The client cannot serve the tunnel, or cannot dial the server, and sends  *)
(* a close message; or dies without a word.                                  *)
ClientDeclines(p) ==
    /\ data[p] = "asked"
    /\ data' = Set(data, p, "none")
    /\ cancelPending(p) \/ UNCHANGED chan
    /\ UNCHANGED <<proto, up, wire, regVars, lisVars, peer, at, via, pending, udp, cfgVars>>

(* It sent the data message, but cannot dial its local target. *)
ClientAborts(p) ==
    /\ data[p] \in {"held", "open"} /\ proto = "tcp"
    /\ cancelPending(p)
    /\ UNCHANGED <<proto, up, wire, regVars, lisVars, peer, at, via, pending, data, udp, cfgVars>>

Cancelled(p) ==
    /\ peer[p] = "waiting" /\ chan[p] = "nil"
    /\ chan' = Set(chan, p, "empty")
    /\ Leaves(p, "gave_up")
    /\ UNCHANGED <<proto, up, wire, regVars, lisVars, via, data, udp, cfgVars>>

(* The open timeout, or the listener's context. *)
GiveUp(p) ==
    /\ peer[p] = "waiting"
    /\ Leaves(p, "gave_up")
    /\ UNCHANGED <<proto, up, wire, regVars, lisVars, via, chan, data, udp, cfgVars>>

Pipe(p) ==
    /\ proto = "tcp"
    /\ peer[p] = "waiting" /\ chan[p] = "data"
    /\ chan' = Set(chan, p, "empty")
    /\ peer' = Set(peer, p, "piping")
    /\ UNCHANGED <<proto, up, wire, regVars, lisVars, at, via, pending, data, udp, cfgVars>>

PipeEnds_LeavesRight(p) ==
    /\ peer[p] = "piping"
    /\ UNCHANGED data
    /\ Gone(p)
    /\ UNCHANGED <<proto, up, wire, regVars, lisVars, via, chan, udp, cfgVars>>

(* pipePair: either side ends, and both are closed.  No stop ends it. *)
PipeEnds(p) ==
    /\ peer[p] = "piping"
    /\ data' = Set(data, p, "closed")
    /\ Gone(p)
    /\ UNCHANGED <<proto, up, wire, regVars, lisVars, via, chan, udp, cfgVars>>

(* A UDP session is entered unless another datagram was first. *)
OpenSession(p) ==
    /\ proto = "udp"
    /\ peer[p] = "waiting" /\ chan[p] = "data"
    /\ chan' = Set(chan, p, "empty")
    /\ pending' = pending \ {p}
    /\ peer' = Set(peer, p, "write")
    /\ IF udp[at[p]] # None
       THEN via' = Set(via, p, udp[at[p]]) /\ data' = Set(data, p, "closed") /\ UNCHANGED udp
       ELSE via' = Set(via, p, p) /\ udp' = Set(udp, at[p], p) /\ UNCHANGED data
    /\ UNCHANGED <<proto, up, wire, regVars, lisVars, at, cfgVars>>

(* The datagram is written to the data connection, via[p] by now the         *)
(* datagram that opened it; a write error closes the session of the address. *)
(* The one that opened a session goes on as its read loop.                   *)
WriteDatagram(p) ==
    /\ peer[p] = "write"
    /\ \/ data[via[p]] = "open" /\ UNCHANGED <<udp, data>>
       \/ closeSession(at[p])
    /\ IF via[p] = p
       THEN peer' = Set(peer, p, "reading") /\ UNCHANGED <<at, pending>>
       ELSE Gone(p)
    /\ UNCHANGED <<proto, up, wire, regVars, lisVars, via, chan, cfgVars>>

(* udpSessionReadLoop ends and closes the session its address has now. *)
SessionReadEnds(p) ==
    /\ peer[p] = "reading"
    /\ Gone(p)
    /\ closeSession(at[p])
    /\ UNCHANGED <<proto, up, wire, regVars, lisVars, via, chan, cfgVars>>

(* cleanupLoop. *)
ClosesIdle(l) ==
    /\ udp[l] # None /\ l \notin cancelled
    /\ closeSession(l)
    /\ UNCHANGED <<proto, up, wire, regVars, lisVars, peer, at, via, pending, chan, cfgVars>>

-----------------------------------------------------------------------------
(* Run ends: the contexts of all listeners, which are the children of its    *)
(* own, are done, and stopAll sweeps what it finds.                          *)
StopAll ==
    /\ up = "on"
    /\ up' = "stopping"
    /\ cancelled' = Listeners
    /\ wire' = wire \ Registered
    /\ chan' = [p \in Peers |-> IF p \in pending /\ chan[p] = "empty" THEN "nil" ELSE chan[p]]
    /\ work' = Set(work, Stopper, {k \in Keys : listeners[k] # None})
    /\ UNCHANGED <<proto, regVars, listeners, port, waits, victim, peer, at, via, pending, data, udp, cfgVars>>

(* wg.Wait for the control connections. *)
RunReturns ==
    /\ up = "stopping" /\ Idle(Stopper)
    /\ \A s \in Sessions : sess[s] \in {"none", "gone"}
    /\ up' = "returned"
    /\ UNCHANGED <<proto, wire, regVars, lisVars, peerVars, cfgVars>>

-----------------------------------------------------------------------------
Control(s) ==
    \/ FindPrevious(s) \/ Evict(s) \/ Evicted(s) \/ Register(s) \/ HandlerEnds(s)
    \/ StartListener(s) \/ StartFails(s)

Stops(a) == StopCloses(a) \/ StopWaited(a) \/ \E k \in Keys : StopKey(a, k)

Reload == ReloadLists \/ ReloadCloses \/ ReloadReturns \/ \E s \in Sessions : ReloadDrops(s)

(* What a public connection does without its peers. *)
Serve(p) ==
    \/ UseSession(p) \/ Open(p) \/ Cancelled(p) \/ GiveUp(p)
    \/ Pipe(p) \/ OpenSession(p) \/ WriteDatagram(p)

Next ==
    \/ \E s \in Sessions : Hello(s) \/ Control(s) \/ ControlEnds(s)
    \/ \E a \in Actors : Stops(a)
    \/ Reload \/ \E allowed \in SUBSET Sessions : ReloadSwaps(allowed)
    \/ \E p \in Peers :
          \/ Serve(p) \/ \E k \in Reached : Arrive(p, k)
          \/ DataArrives(p) \/ DataQueued(p) \/ ClientDeclines(p) \/ ClientAborts(p)
          \/ PipeEnds(p) \/ SessionReadEnds(p)
    \/ \E l \in Listeners : ClosesIdle(l)
    \/ StopAll \/ RunReturns

Spec == Init /\ [][Next]_vars

-----------------------------------------------------------------------------
(* Properties. *)

(* A client whose session is registered has all the tunnels of its hello:    *)
(* neither the end of the session it replaced, which may have had others,    *)
(* nor a hello that lost the race for a key, nor a reload takes down a       *)
(* listener of the current session.  The exception is real: two sessions of  *)
(* a client with different tunnels that start at once can both succeed, and  *)
(* the end of either then stops, by client id, the listeners of the other.   *)
ServingHasListeners ==
    up = "on" /\ ~overlap =>
        \A s \in Registered : \A k \in KeysOf(s) :
            listeners[k] = <<s, k>> /\ port[k] = <<s, k>>

(* When a reload returns, no session it revoked is registered, except one    *)
(* that was still between its authentication and its registration when the   *)
(* access list was swapped.                                                  *)
ReloadDisconnects ==
    [][reload = "listed" /\ reload' = "none" => (Registered \ granted) \cap before = {}]_vars

(* The only data connection that outlives the public connection it was       *)
(* opened for is one put into the channel of a handler that had given up,    *)
(* at its timeout, at the listener's end or at a close message.              *)
NoStrayData ==
    \A p \in Peers : data[p] = "open" => peer[p] # "gone"
=============================================================================
