---------------------------- MODULE QuotaLedger ----------------------------
(***************************************************************************)
(* The traffic-quota ledger of engine/quota.go with its write-behind       *)
(* persistence to quota-state.json.                                        *)
(*                                                                         *)
(* Forwarding goroutines (Conns) reserve bytes before a write and refund   *)
(* what the write did not use.  A reserve that raises the durable          *)
(* watermark hands the save to a single-flight flusher that runs outside   *)
(* the ledger's mutex; a failed save gates later reserves.  The process    *)
(* may crash at any step and restarts from what the store holds.           *)
(*                                                                         *)
(* One action is one critical section of QuotaLedger.mu, or one call of    *)
(* the store.  Bytes are small naturals, a period is a day or month number *)
(* (the calendar strings of the code are ordered the same way).            *)
(***************************************************************************)
EXTENDS Integers, FiniteSets

CONSTANTS
    Rules,        \* rule identifiers
    Conns,        \* forwarding goroutines
    Helpers,      \* identities for the goroutines started by "go runFlush()"
    Limit,        \* Limit[<<r, k>>]: bytes of rule r per period of kind k, 0 = none
    Chunk,        \* durableChunk
    Requests,     \* sizes a goroutine asks for
    MonthOf,      \* MonthOf[d]: the month that contains day d
    MaxDay,       \* bound: days the clock can show
    MaxMoves,     \* bound: clock changes
    MaxFailures,  \* bound: failing saves
    MaxCrashes    \* bound: crashes and shutdowns

Kinds == {"daily", "monthly"}

(* One usage map per rule and period kind: the four maps of quotaRuleUsage. *)
Accts == Rules \X Kinds

Procs == Conns \cup Helpers

(* Days and months share one numbering. *)
Periods == 0..MaxDay

ASSUME QuotaAssumption ==
    /\ Conns \cap Helpers = {}
    /\ Limit \in [Accts -> Nat]
    /\ Chunk \in Nat \ {0}
    /\ Requests \subseteq Nat \ {0}
    /\ MaxDay \in Nat
    /\ MonthOf \in [Periods -> Periods]
    /\ \A d, e \in Periods : d <= e => MonthOf[d] <= MonthOf[e]
    /\ MaxMoves \in Nat
    /\ MaxFailures \in Nat
    /\ MaxCrashes \in Nat

VARIABLES
    used,         \* [Accts -> period map]: dailyUsed and monthlyUsed
    durable,      \* [Accts -> period map]: dailyDurable and monthlyDurable
    flushPending,
    flushErr,     \* flushErr # nil
    flushing,     \* the single-flight guard
    cooling,      \* now - flushFailAt < quotaPersistRetryCooldown
    pc,           \* where each forwarding goroutine is
    call,         \* its reserve call, or the reservation it holds
    fpc,          \* where each goroutine is inside runFlush
    snap,         \* the snapshot a flusher is saving
    stored,       \* what quota-state.json holds
    phase,        \* the process: "up", "stopping" or "down"
    day,          \* what the clock shows
    \* history
    maxDay,       \* the latest day the clock has shown
    wire,         \* bytes granted and not handed back, per account and period
    lossy,        \* the process once ended while the ledger was not settled
    moves, failures, crashes

ledgerVars == <<used, durable, flushPending, flushErr, flushing, cooling>>
procVars   == <<pc, call, fpc, snap>>
boundVars  == <<moves, failures, crashes>>
vars == <<ledgerVars, procVars, stored, phase, day, maxDay, wire, lossy, boundVars>>

-----------------------------------------------------------------------------
(* Go maps from period to bytes. *)

IsPeriodMap(m) == DOMAIN m \subseteq Periods /\ \A p \in DOMAIN m : m[p] \in Nat

(* One period map per account. *)
IsUsage(u) == DOMAIN u = Accts /\ \A a \in Accts : IsPeriodMap(u[a])

EmptyMap == [p \in {} |-> 0]

(* A read of a missing key yields 0. *)
At(m, p) == IF p \in DOMAIN m THEN m[p] ELSE 0

Set(m, p, v) == [q \in DOMAIN m \cup {p} |-> IF q = p THEN v ELSE m[q]]

MinOf(x, y) == IF x <= y THEN x ELSE y
MaxOf(x, y) == IF x >= y THEN x ELSE y

-----------------------------------------------------------------------------
(* The pure helpers of the ledger. *)

(* The calendar period of kind k that contains day d. *)
periodOf(k, d) == IF k = "daily" THEN d ELSE MonthOf[d]

(* Keys of the active period and of the two before it survive a prune. *)
quotaRetainedPastPeriods == 2

prunePeriodMap(m, cutoff) == [p \in {q \in DOMAIN m : q >= cutoff} |-> m[p]]

(* What pruneQuotaPeriods leaves of a map m of account a: the length of the  *)
(* used map decides, for the used and for the durable map.                   *)
pruneQuotaPeriods(m, a) ==
    IF Cardinality(DOMAIN used[a]) > quotaRetainedPastPeriods + 1
    THEN prunePeriodMap(m, periodOf(a[2], day) - quotaRetainedPastPeriods)
    ELSE m

(* The bytes account a lets through of n, given its pruned usage map. *)
capped(a, n) ==
    IF Limit[a] > 0
    THEN MinOf(n, MaxOf(0, Limit[a] - At(pruneQuotaPeriods(used[a], a), periodOf(a[2], day))))
    ELSE n

allowed(r, n) == capped(<<r, "monthly">>, capped(<<r, "daily">>, n))

growDurablePeriod_ForgetsGrant(d, u, p, limit, n) ==
    IF At(d, p) >= At(u, p)
    THEN d
    ELSE Set(d, p, MinOf(limit, MaxOf(At(u, p), At(d, p) + Chunk)))

(* The watermark account a needs before n more bytes are granted. *)
growDurablePeriod(d, u, p, limit, n) ==
    LET required == At(u, p) + n
    IN  IF At(d, p) >= required
        THEN d
        ELSE Set(d, p, MinOf(limit, MaxOf(required, At(d, p) + Chunk)))

refundQuotaPeriod(u, p, amount) ==
    Set(u, p, IF At(u, p) > amount THEN At(u, p) - amount ELSE 0)

(* The rule has a quota at all; reserve returns at once otherwise. *)
Metered(r) == Limit[<<r, "daily">>] > 0 \/ Limit[<<r, "monthly">>] > 0

(* The accounts a grant of rule r charges. *)
Charged(r) == {a \in Accts : a[1] = r /\ Limit[a] > 0}

NoCall == [rule |-> "none", bytes |-> 0, allOrNothing |-> FALSE, day |-> 0]

-----------------------------------------------------------------------------
Init ==
    /\ used = [a \in Accts |-> EmptyMap]
    /\ durable = [a \in Accts |-> EmptyMap]
    /\ flushPending = FALSE
    /\ flushErr = FALSE
    /\ flushing = FALSE
    /\ cooling = FALSE
    /\ pc = [c \in Conns |-> "idle"]
    /\ call = [c \in Conns |-> NoCall]
    /\ fpc = [x \in Procs |-> "off"]
    /\ snap = [x \in Procs |-> [a \in Accts |-> EmptyMap]]
    /\ stored = [a \in Accts |-> EmptyMap]
    /\ phase = "up"
    /\ day = 0
    /\ maxDay = 0
    /\ wire = [a \in Accts |-> [p \in Periods |-> 0]]
    /\ lossy = FALSE
    /\ moves = 0
    /\ failures = 0
    /\ crashes = 0

-----------------------------------------------------------------------------
(* The second critical section of reserve: prune, cap, raise the watermarks, *)
(* charge, and start the flusher if a watermark moved and none is running.   *)
(* A denied request has pruned all the same.                                 *)

Deny(c, r, n, aon) ==
    LET got == allowed(r, n)
    IN  /\ got <= 0 \/ (aon /\ got < n)
        /\ used' = [a \in Accts |-> IF a[1] = r THEN pruneQuotaPeriods(used[a], a) ELSE used[a]]
        /\ durable' = [a \in Accts |-> IF a[1] = r THEN pruneQuotaPeriods(durable[a], a) ELSE durable[a]]
        /\ pc' = [pc EXCEPT ![c] = "idle"]
        /\ call' = [call EXCEPT ![c] = NoCall]
        /\ UNCHANGED <<flushPending, flushErr, flushing, cooling, fpc, snap, stored,
                       phase, day, maxDay, wire, lossy, boundVars>>

(* durable after a grant of n bytes to rule r. *)
grownDurable(r, n) ==
    [a \in Accts |->
        IF a \in Charged(r)
        THEN growDurablePeriod(pruneQuotaPeriods(durable[a], a), pruneQuotaPeriods(used[a], a),
                               periodOf(a[2], day), Limit[a], n)
        ELSE IF a[1] = r THEN pruneQuotaPeriods(durable[a], a) ELSE durable[a]]

(* used after a grant of n bytes to rule r. *)
chargedUsed(r, n) ==
    [a \in Accts |->
        LET u == pruneQuotaPeriods(used[a], a)
            p == periodOf(a[2], day)
        IN  IF a \in Charged(r) THEN Set(u, p, At(u, p) + n)
            ELSE IF a[1] = r THEN u ELSE used[a]]

raised_UnlessSaving(r, n) ==
    /\ ~flushing
    /\ \E a \in Charged(r) :
          At(pruneQuotaPeriods(durable[a], a), periodOf(a[2], day))
              < At(pruneQuotaPeriods(used[a], a), periodOf(a[2], day)) + n

(* growDurablePeriod returned true for some account of the rule. *)
raised(r, n) ==
    \E a \in Charged(r) :
        At(pruneQuotaPeriods(durable[a], a), periodOf(a[2], day))
            < At(pruneQuotaPeriods(used[a], a), periodOf(a[2], day)) + n

Grant(c, r, n, aon) ==
    LET got == allowed(r, n)
    IN  /\ got > 0
        /\ aon => got >= n
        /\ durable' = grownDurable(r, got)
        /\ used' = chargedUsed(r, got)
        /\ wire' = [a \in Accts |->
                      IF a \in Charged(r)
                      THEN [wire[a] EXCEPT ![periodOf(a[2], day)] = @ + got]
                      ELSE wire[a]]
        /\ flushPending' = (flushPending \/ raised(r, got))
        /\ IF raised(r, got) /\ ~flushing
           THEN /\ flushing' = TRUE
                /\ \E h \in Helpers :
                      /\ fpc[h] = "off"
                      /\ fpc' = [fpc EXCEPT ![h] = "check"]
           ELSE UNCHANGED <<flushing, fpc>>
        /\ pc' = [pc EXCEPT ![c] = "holding"]
        /\ call' = [call EXCEPT ![c] = [rule |-> r, bytes |-> got, allOrNothing |-> aon, day |-> day]]
        /\ UNCHANGED <<flushErr, cooling, snap, stored, phase, day, maxDay, lossy, boundVars>>

-----------------------------------------------------------------------------
(* reserve.  While the gate is up and the cooldown runs the call fails and   *)
(* changes nothing, so it is not a step.                                     *)

CanReserve(c, r) ==
    /\ phase # "down"
    /\ pc[c] = "idle"
    /\ Metered(r)

ReserveGrant(c, r, n, aon) ==
    /\ CanReserve(c, r)
    /\ ~flushErr
    /\ Grant(c, r, n, aon)

ReserveDeny(c, r, n, aon) ==
    /\ CanReserve(c, r)
    /\ ~flushErr
    /\ Deny(c, r, n, aon)

(* The gate is up, the cooldown is over and no save is in flight: this       *)
(* goroutine runs the flush itself.                                          *)
ReserveRetry(c, r, n, aon) ==
    /\ CanReserve(c, r)
    /\ flushErr /\ ~cooling /\ ~flushing
    /\ flushPending' = TRUE
    /\ flushing' = TRUE
    /\ pc' = [pc EXCEPT ![c] = "retrying"]
    /\ fpc' = [fpc EXCEPT ![c] = "check"]
    /\ call' = [call EXCEPT ![c] = [rule |-> r, bytes |-> n, allOrNothing |-> aon, day |-> 0]]
    /\ UNCHANGED <<used, durable, flushErr, cooling, snap, stored, phase, day, maxDay, wire,
                   lossy, boundVars>>

(* Another goroutine is already saving: ask for another round and fail.      *)
ReserveFailBusy(c, r) ==
    /\ CanReserve(c, r)
    /\ flushErr /\ ~cooling /\ flushing
    /\ flushPending' = TRUE
    /\ UNCHANGED <<used, durable, flushErr, flushing, cooling, procVars, stored, phase, day,
                   maxDay, wire, lossy, boundVars>>

(* The retry's runFlush returned nil; the goroutine takes the mutex again    *)
(* and goes on without looking at the gate a second time.                    *)
RetriedGrant(c) ==
    /\ pc[c] = "flushed"
    /\ Grant(c, call[c].rule, call[c].bytes, call[c].allOrNothing)

RetriedDeny(c) ==
    /\ pc[c] = "flushed"
    /\ Deny(c, call[c].rule, call[c].bytes, call[c].allOrNothing)

reservedPeriod_Current(c, a) == periodOf(a[2], day)

(* The period the reservation of c charged in account a. *)
reservedPeriod(c, a) == periodOf(a[2], call[c].day)

(* finish(written): the part that was not written is refunded to the periods *)
(* the reservation was charged to.  A goroutine of a stopping runner then    *)
(* ends, its sockets being closed.                                           *)
Finish(c) ==
    /\ pc[c] = "holding"
    /\ \E written \in 0..call[c].bytes :
          LET refund == call[c].bytes - written
              back(a) == a \in Charged(call[c].rule) /\ refund > 0
              p(a) == periodOf(a[2], call[c].day)
          IN  /\ used' = [a \in Accts |->
                            IF back(a) THEN refundQuotaPeriod(used[a], reservedPeriod(c, a), refund)
                            ELSE used[a]]
              /\ wire' = [a \in Accts |->
                            IF back(a) THEN [wire[a] EXCEPT ![p(a)] = @ - refund] ELSE wire[a]]
    /\ pc' = [pc EXCEPT ![c] = IF phase = "stopping" THEN "gone" ELSE "idle"]
    /\ call' = [call EXCEPT ![c] = NoCall]
    /\ UNCHANGED <<durable, flushPending, flushErr, flushing, cooling, fpc, snap, stored, phase,
                   day, maxDay, lossy, boundVars>>

-----------------------------------------------------------------------------
(* runFlush, by a helper goroutine or by a retrying reserve. *)

ReleaseFlushGuard_Missing == UNCHANGED flushing

(* Both ways out of runFlush free the single-flight guard and wake waiters.  *)
ReleaseFlushGuard == flushing' = FALSE

FlushSnapshot(x) ==
    /\ fpc[x] = "check"
    /\ flushPending
    /\ snap' = [snap EXCEPT ![x] = durable]
    /\ flushPending' = FALSE
    /\ fpc' = [fpc EXCEPT ![x] = "saving"]
    /\ UNCHANGED <<used, durable, flushErr, flushing, cooling, pc, call, stored, phase, day,
                   maxDay, wire, lossy, boundVars>>

FlushDrained(x) ==
    /\ fpc[x] = "check"
    /\ ~flushPending
    /\ flushErr' = FALSE
    /\ ReleaseFlushGuard
    /\ fpc' = [fpc EXCEPT ![x] = "off"]
    /\ pc' = [c \in Conns |-> IF c = x THEN "flushed" ELSE pc[c]]
    /\ UNCHANGED <<used, durable, flushPending, cooling, call, snap, stored, phase, day, maxDay,
                   wire, lossy, boundVars>>

FlushSaved(x) ==
    /\ fpc[x] = "saving"
    /\ stored' = snap[x]
    /\ fpc' = [fpc EXCEPT ![x] = "check"]
    /\ snap' = [snap EXCEPT ![x] = [a \in Accts |-> EmptyMap]]
    /\ UNCHANGED <<ledgerVars, pc, call, phase, day, maxDay, wire, lossy, boundVars>>

(* SaveQuotaState failed: before the rename, or after it when only the       *)
(* directory sync failed.                                                    *)
FlushFailed(x) ==
    /\ fpc[x] = "saving"
    /\ failures < MaxFailures
    /\ failures' = failures + 1
    /\ stored' \in {stored, snap[x]}
    /\ flushErr' = TRUE
    /\ cooling' = TRUE
    /\ ReleaseFlushGuard
    /\ fpc' = [fpc EXCEPT ![x] = "off"]
    /\ snap' = [snap EXCEPT ![x] = [a \in Accts |-> EmptyMap]]
    /\ pc' = [c \in Conns |-> IF c = x THEN "idle" ELSE pc[c]]
    /\ call' = [c \in Conns |-> IF c = x THEN NoCall ELSE call[c]]
    /\ UNCHANGED <<used, durable, flushPending, phase, day, maxDay, wire, lossy, moves, crashes>>

CooldownElapsed ==
    /\ cooling
    /\ cooling' = FALSE
    /\ UNCHANGED <<used, durable, flushPending, flushErr, flushing, procVars, stored, phase, day,
                   maxDay, wire, lossy, boundVars>>

-----------------------------------------------------------------------------
(* The process and its clock. *)

(* Nothing is being saved, waits to be saved or failed to be saved. *)
Settled == ~flushing /\ ~flushPending /\ ~flushErr

(* Shutdown: Manager.StopAll ends the forwarding goroutines ... *)
BeginStop ==
    /\ phase = "up"
    /\ crashes < MaxCrashes
    /\ crashes' = crashes + 1
    /\ phase' = "stopping"
    /\ UNCHANGED <<ledgerVars, procVars, stored, day, maxDay, wire, lossy, moves, failures>>

ConnExit(c) ==
    /\ phase = "stopping"
    /\ pc[c] = "idle"
    /\ pc' = [pc EXCEPT ![c] = "gone"]
    /\ UNCHANGED <<ledgerVars, call, fpc, snap, stored, phase, day, maxDay, wire, lossy, boundVars>>

(* ... then SaveExact waits out a running flush and replaces the watermarks  *)
(* by the exact counts; the process exits whether the save worked or not.    *)
SaveExact ==
    /\ phase = "stopping"
    /\ \A c \in Conns : pc[c] = "gone"
    /\ ~flushing
    /\ flushPending' = FALSE
    /\ durable' = used
    /\ \/ stored' = used /\ flushErr' = FALSE /\ UNCHANGED failures
       \/ /\ failures < MaxFailures
          /\ failures' = failures + 1
          /\ stored' \in {stored, used}
          /\ UNCHANGED flushErr
    /\ phase' = "down"
    /\ lossy' = (lossy \/ flushErr')
    /\ UNCHANGED <<used, flushing, cooling, procVars, day, maxDay, wire, moves, crashes>>

Crash ==
    /\ phase # "down"
    /\ crashes < MaxCrashes
    /\ crashes' = crashes + 1
    /\ phase' = "down"
    /\ lossy' = (lossy \/ ~Settled)
    /\ UNCHANGED <<ledgerVars, procVars, stored, day, maxDay, wire, moves, failures>>

(* newQuotaLedger and restoreQuotaPeriods: both maps start at the stored one. *)
Restart ==
    /\ phase = "down"
    /\ phase' = "up"
    /\ used' = stored
    /\ durable' = stored
    /\ flushPending' = FALSE
    /\ flushErr' = FALSE
    /\ flushing' = FALSE
    /\ cooling' = FALSE
    /\ pc' = [c \in Conns |-> "idle"]
    /\ call' = [c \in Conns |-> NoCall]
    /\ fpc' = [x \in Procs |-> "off"]
    /\ snap' = [x \in Procs |-> [a \in Accts |-> EmptyMap]]
    /\ UNCHANGED <<stored, day, maxDay, wire, lossy, boundVars>>

(* Midnight, or an adjustment of the clock in either direction. *)
ClockMove ==
    /\ moves < MaxMoves
    /\ moves' = moves + 1
    /\ \E d \in Periods \ {day} :
          /\ day' = d
          /\ maxDay' = MaxOf(maxDay, d)
    /\ UNCHANGED <<ledgerVars, procVars, stored, phase, wire, lossy, failures, crashes>>

-----------------------------------------------------------------------------
FlushStep(x) ==
    /\ phase # "down"
    /\ FlushSnapshot(x) \/ FlushDrained(x) \/ FlushSaved(x) \/ FlushFailed(x)

ConnStep(c) ==
    /\ phase # "down"
    /\ RetriedGrant(c) \/ RetriedDeny(c) \/ Finish(c) \/ ConnExit(c)

Reserve(c) ==
    \E r \in Rules, n \in Requests, aon \in BOOLEAN :
        \/ ReserveGrant(c, r, n, aon)
        \/ ReserveDeny(c, r, n, aon)
        \/ ReserveRetry(c, r, n, aon)
        \/ ReserveFailBusy(c, r)

Next ==
    \/ \E c \in Conns : Reserve(c) \/ ConnStep(c)
    \/ \E x \in Procs : FlushStep(x)
    \/ CooldownElapsed
    \/ BeginStop
    \/ SaveExact
    \/ Crash
    \/ Restart
    \/ ClockMove

Spec == Init /\ [][Next]_vars

(* Go schedules every runnable goroutine, the store answers every call, and  *)
(* main goes through its shutdown sequence.                                  *)
Fairness ==
    /\ \A x \in Procs : WF_vars(FlushStep(x))
    /\ \A c \in Conns : WF_vars(ConnStep(c))
    /\ WF_vars(SaveExact)

FairSpec == Spec /\ Fairness

(* The environment of GateLifts: clients keep sending and time passes. *)
RetryByTraffic ==
    \E c \in Conns, r \in Rules, n \in Requests : ReserveRetry(c, r, n, FALSE)

TrafficSpec ==
    FairSpec /\ WF_vars(CooldownElapsed) /\ SF_vars(RetryByTraffic)

-----------------------------------------------------------------------------
(* Properties. *)

(* Every ledger map holds non-negative counts for periods of the calendar,   *)
(* and each goroutine is at a line of reserve or runFlush: quotaRuleUsage    *)
(* and restoreQuotaPeriods (no negative count).                              *)
TypeOK ==
    /\ IsUsage(used) /\ IsUsage(durable) /\ IsUsage(stored)
    /\ DOMAIN snap = Procs /\ \A x \in Procs : IsUsage(snap[x])
    /\ flushPending \in BOOLEAN /\ flushErr \in BOOLEAN
    /\ flushing \in BOOLEAN /\ cooling \in BOOLEAN
    /\ pc \in [Conns -> {"idle", "retrying", "flushed", "holding", "gone"}]
    /\ call \in [Conns -> [rule: Rules \cup {"none"}, bytes: Nat,
                            allOrNothing: BOOLEAN, day: Periods]]
    /\ \A c \in Conns : pc[c] \in {"retrying", "flushed", "holding"} => call[c].rule \in Rules
    /\ fpc \in [Procs -> {"off", "check", "saving"}]
    /\ phase \in {"up", "stopping", "down"}
    /\ day \in Periods /\ maxDay \in Periods
    /\ wire \in [Accts -> [Periods -> Int]]
    /\ lossy \in BOOLEAN
    /\ moves \in Nat /\ failures \in Nat /\ crashes \in Nat

(* The periods of account a that no prune has been able to drop: the active  *)
(* one and quotaRetainedPastPeriods before the latest the clock has shown.   *)
Retained(a) == {p \in Periods : p >= periodOf(a[2], maxDay) - 2}

(* flushing guards runFlush: one goroutine at most is inside it, and one is  *)
(* inside it whenever the guard is taken, so no two snapshots race for the   *)
(* file and the guard is never left taken by nobody.                         *)
SingleFlight ==
    phase # "down" =>
        /\ flushing <=> \E x \in Procs : fpc[x] # "off"
        /\ \A x, y \in Procs : fpc[x] # "off" /\ fpc[y] # "off" => x = y

(* A ledger with no save running, requested or failed has every byte it      *)
(* counts covered by quota-state.json: a bump raised while a save was in     *)
(* flight is never dropped, and a gate is never lifted by a save that        *)
(* missed it.                                                                *)
SettledMeansStored ==
    phase # "down" /\ Settled =>
        \A a \in Accts : \A p \in Periods : At(used[a], p) <= At(stored[a], p)

(* The quota itself: as long as every end of the process found the ledger    *)
(* settled, the bytes forwarded in a period stay within the rule's limit,    *)
(* through refunds, saves, crashes, restarts, midnight and clock rollback    *)
(* within the retained periods.                                              *)
QuotaNeverExceeded ==
    ~lossy => \A a \in Accts : Limit[a] > 0 =>
                \A p \in Retained(a) : wire[a][p] <= Limit[a]

(* Until the process first ends, the count of a retained period is exactly   *)
(* the bytes forwarded: a refund goes back to the period that was charged,   *)
(* once, whatever the clock shows by then.                                   *)
UsageExact ==
    crashes = 0 => \A a \in Accts : \A p \in Retained(a) : At(used[a], p) = wire[a][p]

(* The inductive strengthening behind SingleFlight, SettledMeansStored and   *)
(* QuotaNeverExceeded, part by part.                                         *)

(* Usage map u counts no more than usage map v. *)
Covers(u, v) == \A a \in Accts : \A p \in Periods : At(u[a], p) <= At(v[a], p)

WithinLimits(u) ==
    \A a \in Accts : Limit[a] > 0 => \A p \in Periods : At(u[a], p) <= Limit[a]

(* The watermark is raised before the bytes are granted, never past the limit. *)
WatermarkInv ==
    /\ Covers(used, durable)
    /\ WithinLimits(durable)
    /\ WithinLimits(stored)
    /\ \A x \in Procs : WithinLimits(snap[x])

(* SingleFlight in every phase, and a bump that waits has a flusher or a gate. *)
FlightInv ==
    /\ flushing <=> \E x \in Procs : fpc[x] # "off"
    /\ \A x, y \in Procs : fpc[x] # "off" /\ fpc[y] # "off" => x = y
    /\ flushPending /\ ~flushing => flushErr

(* Where the watermarks that are no longer pending are: in the snapshot being *)
(* saved, then in the store.                                                 *)
CoverInv ==
    /\ \A x \in Procs : ~flushPending /\ fpc[x] = "saving" => Covers(durable, snap[x])
    /\ \A x \in Procs : ~flushPending /\ fpc[x] = "check" => Covers(durable, stored)
    /\ Settled => Covers(durable, stored)

(* What the ledger counts, or will count after a restart. *)
Counted(a) == IF phase = "down" THEN stored[a] ELSE used[a]

(* Every forwarded byte of a retained period is counted. *)
WireInv ==
    /\ day <= maxDay
    /\ ~lossy => \A a \in Accts : \A p \in Retained(a) : wire[a][p] <= At(Counted(a), p)

(* Only a goroutine inside its retry runs a flush on a connection's behalf.  *)
RetryInv == \A c \in Conns : fpc[c] # "off" => pc[c] = "retrying"

LedgerInv == WatermarkInv /\ FlightInv /\ CoverInv /\ WireInv

(* A shutdown that has begun completes: SaveExact's wait for the flusher     *)
(* ends, whichever way the flush rounds go.                                  *)
StopCompletes == phase = "stopping" ~> phase = "down"

(* A failed save does not gate the rule for ever: once the store works and   *)
(* traffic keeps coming, some reserve retries the save and lifts the gate.   *)
GateLifts == (flushErr /\ phase = "up") ~> (~flushErr \/ phase # "up")

(* engine/quota.go:30 and :178 and statsstore/quota.go:19: "a crash may      *)
(* under-count usage by up to one durable chunk per rule and period".        *)
CrashUndercountWithinChunk ==
    \A a \in Accts : \A p \in Retained(a) : wire[a][p] - At(used[a], p) <= Chunk
=============================================================================
