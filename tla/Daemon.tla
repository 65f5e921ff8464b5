------------------------------- MODULE Daemon -------------------------------
(***************************************************************************)
(* The life of one daemon process: runForwardingWithReadyAndReporter of    *)
(* cmd/vmflow/main.go, its periodic statistics flusher, and the statistics *)
(* file of internal/statsstore that carries the counters from one process  *)
(* to the next.  Who starts and signals the process is NativeService.      *)
(*                                                                         *)
(* Counters are one number.  A save is a temp file, an fsync and a rename, *)
(* so the file always holds the counters of some earlier moment.           *)
(***************************************************************************)
EXTENDS Naturals

CONSTANTS MaxTraffic    \* bound: units of traffic the counters ever count

ASSUME TrafficAssumption == MaxTraffic \in Nat

VARIABLES
    daemon,     \* [phase, term, live, snap]: the process; snap # NotSaving while the flusher saves
    statsFile,  \* counters the statistics file holds
    total,      \* ghost: what a process that lost nothing would show
    lost        \* ghost: counters were lost in a way the code reports or cannot see

daemonVars == <<daemon, statsFile, total, lost>>

Phases == {"down", "loading", "applying", "up", "draining", "stopped", "saved"}
NotSaving   == MaxTraffic + 1                    \* snap: the flusher is not saving
Serving == {"applying", "up", "draining"}   \* the rules are running

DownState == [phase |-> "down", term |-> FALSE, live |-> 0, snap |-> NotSaving]

DaemonTypeOK ==
    /\ daemon \in [phase: Phases, term: BOOLEAN, live: 0..MaxTraffic, snap: 0..NotSaving]
    /\ statsFile \in 0..MaxTraffic /\ total \in 0..MaxTraffic /\ lost \in BOOLEAN

DaemonInit == daemon = DownState /\ statsFile = 0 /\ total = 0 /\ lost = FALSE
-----------------------------------------------------------------------------
(* The process starts: TLS, quota ledger and manager are built.            *)
Launch == daemon' = [DownState EXCEPT !.phase = "loading"]

Dies(l) == daemon' = DownState /\ lost' = l /\ UNCHANGED <<statsFile, total>>

(* statsStore.Load restores the counters; a file that cannot be read is    *)
(* logged and the counters start from zero.  ApplySnapshot starts the      *)
(* rules, so traffic counts from here on.                                  *)
LoadStats ==
    /\ daemon.phase = "loading"
    /\ \E ok \in BOOLEAN :
          LET live == IF ok THEN statsFile ELSE 0 IN
          /\ daemon' = [daemon EXCEPT !.phase = "applying", !.live = live]
          /\ total' = IF lost \/ ~ok THEN live ELSE total
    /\ lost' = FALSE
    /\ UNCHANGED statsFile

(* The first Save proves the path writable, then the control listener      *)
(* opens, the bot and the flusher start, and the process reports ready.    *)
InitialSave ==
    /\ daemon.phase = "applying"
    /\ statsFile' = daemon.live
    /\ daemon' = [daemon EXCEPT !.phase = "up"]
    /\ UNCHANGED <<total, lost>>

(* TLS, quota state, a rule, the first save or the listener failed: the    *)
(* rules stop and the process exits.                                       *)
StartupFails == daemon.phase \in {"loading", "applying"} /\ Dies(lost \/ daemon.phase = "applying")

Traffic ==
    /\ daemon.phase \in Serving /\ total < MaxTraffic
    /\ daemon' = [daemon EXCEPT !.live = @ + 1]
    /\ total' = total + 1
    /\ UNCHANGED <<statsFile, lost>>

(* flushStats: the snapshot is taken, then written.                        *)
FlushSnapshot ==
    /\ daemon.phase = "up" /\ daemon.snap = NotSaving
    /\ daemon' = [daemon EXCEPT !.snap = daemon.live]
    /\ UNCHANGED <<statsFile, total, lost>>

FlushWrite ==
    /\ daemon.snap # NotSaving
    /\ daemon' = [daemon EXCEPT !.snap = NotSaving]
    /\ statsFile' \in {statsFile, daemon.snap}      \* a failed flush is only logged
    /\ UNCHANGED <<total, lost>>

(* statsFlusher.Stop cancels the loop and waits for a save under way.      *)
flusherStopped_Cancels == TRUE
flusherStopped == daemon.snap = NotSaving

(* The select ends on a signal, or when the control server failed: the     *)
(* flusher stops, then the bot and the server, while the rules still run.  *)
ShutDown(fails) ==
    /\ daemon.phase = "up" /\ (daemon.term \/ fails) /\ flusherStopped
    /\ daemon' = [daemon EXCEPT !.phase = "draining"]
    /\ UNCHANGED <<statsFile, total, lost>>

StopAll ==
    /\ daemon.phase = "draining"
    /\ daemon' = [daemon EXCEPT !.phase = "stopped"]
    /\ UNCHANGED <<statsFile, total, lost>>

(* The last save; a failure is logged and the process exits all the same.  *)
FinalSave ==
    /\ daemon.phase = "stopped"
    /\ daemon' = [daemon EXCEPT !.phase = "saved"]
    /\ \/ statsFile' = daemon.live /\ UNCHANGED lost
       \/ lost' = TRUE /\ UNCHANGED statsFile
    /\ UNCHANGED total

Exit == daemon.phase = "saved" /\ Dies(lost)

(* Execute waits six seconds for the shutdown and then lets the process    *)
(* go, whatever it has not saved.                                          *)
StopTimesOut == daemon.phase \in {"draining", "stopped"} /\ Dies(TRUE)

(* The process is killed or the host goes down.                            *)
Killed == daemon.phase # "down" /\ Dies(TRUE)

DaemonNext ==
    \/ LoadStats \/ InitialSave \/ StartupFails \/ Traffic \/ FlushSnapshot \/ FlushWrite
    \/ ShutDown(FALSE) \/ StopAll \/ FinalSave \/ Exit
-----------------------------------------------------------------------------
(* Counters survive a clean restart: unless a kill, an unreadable file or  *)
(* a failed last save lost them, a running process shows every byte        *)
(* counted before it, also when a periodic flush was under way at the      *)
(* signal or the rules carried traffic during the shutdown                 *)
(* (main.go:400-418).                                                      *)
CleanRestartKeepsCounters == daemon.phase \in Serving /\ ~lost => daemon.live = total
=============================================================================
