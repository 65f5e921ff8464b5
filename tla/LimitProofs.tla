---------------------------- MODULE LimitProofs ----------------------------
(***************************************************************************)
(* Proofs about the two components that hold a rule back: QuotaLedger, its *)
(* traffic quota, and RateLimiter, its bandwidth.                          *)
(*                                                                         *)
(* For the ledger: the type invariant, the inductive invariant LedgerInv,  *)
(* and from it SingleFlight, SettledMeansStored and QuotaNeverExceeded,    *)
(* and with a second one UsageExact, for every set of rules, goroutines    *)
(* and limits.  For the limiter: the turn is handed on exactly once per    *)
(* call, only the head polls, and the rate holds, for any number of        *)
(* callers.                                                                *)
(***************************************************************************)
EXTENDS QuotaLedger, RateLimiter, FiniteSetTheorems, SequenceTheorems, TLAPS

-----------------------------------------------------------------------------
(* Facts about the period maps. *)

(* Writing one key of a usage map changes the reading of that key only.      *)
LEMMA AtSet ==
    ASSUME NEW m, NEW p, NEW v, NEW q
    PROVE  At(Set(m, p, v), q) = IF q = p THEN v ELSE At(m, q)
  BY DEF At, Set

(* Writing a count keeps a usage map well formed.                            *)
LEMMA SetIsMap ==
    ASSUME NEW m, IsPeriodMap(m), NEW p \in Periods, NEW v \in Nat
    PROVE  IsPeriodMap(Set(m, p, v))
  BY DEF IsPeriodMap, Set

(* Every reading of a well-formed usage map is a natural number.             *)
LEMMA AtNat ==
    ASSUME NEW m, IsPeriodMap(m), NEW p
    PROVE  At(m, p) \in Nat
  BY DEF IsPeriodMap, At

(* The active period of an account is one of the calendar's.                 *)
LEMMA PeriodType ==
    ASSUME NEW a \in Accts, NEW d \in Periods
    PROVE  periodOf(a[2], d) \in Periods
  BY QuotaAssumption DEF periodOf, Accts, Kinds

(* Later days are in later periods, for days and for months.                 *)
LEMMA PeriodMonotone ==
    ASSUME NEW a \in Accts, NEW d \in Periods, NEW e \in Periods, d <= e
    PROVE  periodOf(a[2], d) <= periodOf(a[2], e)
  BY QuotaAssumption DEF periodOf, Accts, Kinds

(* The condition under which pruneQuotaPeriods keeps key p of account a.     *)
Kept(a, p) ==
    Cardinality(DOMAIN used[a]) > quotaRetainedPastPeriods + 1
        => p >= periodOf(a[2], day) - quotaRetainedPastPeriods

(* A prune zeroes the keys older than the retained window and no other, in   *)
(* the used and in the durable map alike.                                    *)
LEMMA AtPrune ==
    ASSUME NEW m, NEW a, NEW p
    PROVE  At(pruneQuotaPeriods(m, a), p) = IF Kept(a, p) THEN At(m, p) ELSE 0
  BY DEF At, pruneQuotaPeriods, prunePeriodMap, Kept

(* A pruned usage map is well formed.                                        *)
LEMMA PruneIsMap ==
    ASSUME NEW m, IsPeriodMap(m), NEW a
    PROVE  IsPeriodMap(pruneQuotaPeriods(m, a))
  BY DEF IsPeriodMap, pruneQuotaPeriods, prunePeriodMap

(* The retained periods survive every prune.                                 *)
LEMMA RetainedKept ==
    ASSUME NEW a \in Accts, day \in Periods, maxDay \in Periods, day <= maxDay,
           NEW p \in Retained(a)
    PROVE  Kept(a, p)
  <1>1. periodOf(a[2], day) <= periodOf(a[2], maxDay)
    BY PeriodMonotone
  <1>2. periodOf(a[2], day) \in Periods /\ periodOf(a[2], maxDay) \in Periods
    BY PeriodType
  <1> QED
    BY <1>1, <1>2, QuotaAssumption DEF Kept, Retained, quotaRetainedPastPeriods, Periods

(* The active period is not pruned.                                          *)
LEMMA CurrentKept ==
    ASSUME NEW a \in Accts, day \in Periods
    PROVE  Kept(a, periodOf(a[2], day))
  BY PeriodType, QuotaAssumption DEF Kept, quotaRetainedPastPeriods, Periods

-----------------------------------------------------------------------------
(* What reserve lets through. *)

(* One limit's cap is between nothing and the request, and within what is    *)
(* left of the limit.                                                        *)
LEMMA CappedBound ==
    ASSUME NEW a \in Accts, NEW n \in Nat, IsPeriodMap(used[a]), day \in Periods
    PROVE  /\ capped(a, n) \in Nat
           /\ capped(a, n) <= n
           /\ Limit[a] > 0 /\ capped(a, n) > 0
                 => At(used[a], periodOf(a[2], day)) + capped(a, n) <= Limit[a]
  <1>1. At(pruneQuotaPeriods(used[a], a), periodOf(a[2], day)) = At(used[a], periodOf(a[2], day))
    BY AtPrune, CurrentKept
  <1>2. At(used[a], periodOf(a[2], day)) \in Nat
    BY AtNat
  <1>3. Limit[a] \in Nat
    BY QuotaAssumption
  <1> QED
    BY <1>1, <1>2, <1>3 DEF capped, MinOf, MaxOf

(* A granted amount fits into every limit of the rule.                       *)
LEMMA AllowedBound ==
    ASSUME NEW r \in Rules, NEW n \in Nat, IsUsage(used), day \in Periods
    PROVE  /\ allowed(r, n) \in Nat
           /\ allowed(r, n) > 0 =>
                \A a \in Charged(r) :
                    At(used[a], periodOf(a[2], day)) + allowed(r, n) <= Limit[a]
  <1> DEFINE D == <<r, "daily">>
             M == <<r, "monthly">>
             k == capped(D, n)
  <1>1. D \in Accts /\ M \in Accts
    BY DEF Accts, Kinds
  <1>2. IsPeriodMap(used[D]) /\ IsPeriodMap(used[M])
    BY <1>1 DEF IsUsage
  <1>3. /\ k \in Nat
        /\ Limit[D] > 0 /\ k > 0 => At(used[D], periodOf(D[2], day)) + k <= Limit[D]
    <2> HIDE DEF D, M
    <2> QED BY <1>1, <1>2, CappedBound
  <1>4. /\ capped(M, k) \in Nat
        /\ capped(M, k) <= k
        /\ Limit[M] > 0 /\ capped(M, k) > 0
              => At(used[M], periodOf(M[2], day)) + capped(M, k) <= Limit[M]
    <2> HIDE DEF D, M, k
    <2> QED BY <1>1, <1>2, <1>3, CappedBound
  <1>5. allowed(r, n) = capped(M, k)
    BY DEF allowed
  <1>6. \A a \in Charged(r) : (a = D \/ a = M) /\ Limit[a] > 0
    BY DEF Charged, Accts, Kinds
  <1>7. At(used[D], periodOf(D[2], day)) \in Nat /\ Limit[D] \in Nat
    BY <1>1, <1>2, AtNat, QuotaAssumption
  <1> HIDE DEF D, M, k
  <1> QED
    BY <1>3, <1>4, <1>5, <1>6, <1>7

-----------------------------------------------------------------------------
(* What one critical section of reserve does to the two usage maps. *)

(* The reading of key p of account a after rule r's maps are pruned. *)
Pruned(r, m, a, p) == IF a[1] = r /\ ~Kept(a, p) THEN 0 ELSE At(m[a], p)

(* Deny prunes and does nothing else to the maps.                            *)
LEMMA DenyMaps ==
    ASSUME TypeOK, NEW c \in Conns, NEW r \in Rules, NEW n, NEW aon, Deny(c, r, n, aon)
    PROVE  /\ IsUsage(used') /\ IsUsage(durable')
           /\ \A a \in Accts : \A p \in Periods :
                 /\ At(used'[a], p) = Pruned(r, used, a, p)
                 /\ At(durable'[a], p) = Pruned(r, durable, a, p)
  <1>1. /\ used' = [a \in Accts |-> IF a[1] = r THEN pruneQuotaPeriods(used[a], a) ELSE used[a]]
        /\ durable' = [a \in Accts |-> IF a[1] = r THEN pruneQuotaPeriods(durable[a], a)
                                       ELSE durable[a]]
    BY DEF Deny
  <1>2. IsUsage(used) /\ IsUsage(durable)
    BY DEF TypeOK
  <1>3. IsUsage(used') /\ IsUsage(durable')
    BY <1>1, <1>2, PruneIsMap DEF IsUsage
  <1>4. \A a \in Accts : \A p \in Periods :
            /\ At(used'[a], p) = Pruned(r, used, a, p)
            /\ At(durable'[a], p) = Pruned(r, durable, a, p)
    BY <1>1, AtPrune DEF Pruned
  <1> QED
    BY <1>3, <1>4

(* A raised watermark reaches what is required and stays within the limit;   *)
(* other keys are left alone.                                                *)
LEMMA GrowBound ==
    ASSUME NEW d, NEW u, IsPeriodMap(d), IsPeriodMap(u), NEW p \in Periods, NEW limit \in Nat,
           NEW n \in Nat, At(u, p) + n <= limit
    PROVE  /\ IsPeriodMap(growDurablePeriod(d, u, p, limit, n))
           /\ At(growDurablePeriod(d, u, p, limit, n), p) >= At(u, p) + n
           /\ At(d, p) <= limit => At(growDurablePeriod(d, u, p, limit, n), p) <= limit
           /\ At(d, p) >= At(u, p) + n => growDurablePeriod(d, u, p, limit, n) = d
           /\ \A q : q # p => At(growDurablePeriod(d, u, p, limit, n), q) = At(d, q)
  <1> DEFINE v == MinOf(limit, MaxOf(At(u, p) + n, At(d, p) + Chunk))
  <1>1. At(u, p) \in Nat /\ At(d, p) \in Nat /\ Chunk \in Nat
    BY AtNat, QuotaAssumption
  <1>2. v \in Nat /\ v >= At(u, p) + n /\ v <= limit
    BY <1>1 DEF MinOf, MaxOf
  <1>3. growDurablePeriod(d, u, p, limit, n) = IF At(d, p) >= At(u, p) + n THEN d ELSE Set(d, p, v)
    BY DEF growDurablePeriod
  <1> HIDE DEF v
  <1>4. IsPeriodMap(Set(d, p, v))
    BY <1>2, SetIsMap
  <1>5. At(Set(d, p, v), p) = v /\ \A q : q # p => At(Set(d, p, v), q) = At(d, q)
    BY AtSet
  <1> QED
    BY <1>1, <1>2, <1>3, <1>4, <1>5

(* Grant charges the active periods of the rule's limited accounts, after    *)
(* their watermarks were raised far enough, and raises no watermark without  *)
(* asking for a save.                                                        *)
LEMMA GrantMaps ==
    ASSUME TypeOK, Covers(used, durable), WithinLimits(durable),
           NEW c \in Conns, NEW r \in Rules, NEW n \in Nat, NEW aon, Grant(c, r, n, aon)
    PROVE  /\ IsUsage(used') /\ IsUsage(durable')
           /\ Covers(used', durable')
           /\ WithinLimits(durable')
           /\ \A a \in Accts : \A p \in Periods :
                 At(used'[a], p) = Pruned(r, used, a, p)
                     + (IF a \in Charged(r) /\ p = periodOf(a[2], day) THEN allowed(r, n) ELSE 0)
           /\ ~raised(r, allowed(r, n)) => Covers(durable', durable)
  <1> DEFINE g == allowed(r, n)
             cur(a) == periodOf(a[2], day)
             pu(a) == pruneQuotaPeriods(used[a], a)
             pd(a) == pruneQuotaPeriods(durable[a], a)
  <1>1. /\ used' = chargedUsed(r, g)
        /\ durable' = grownDurable(r, g)
        /\ g > 0
    BY DEF Grant
  <1>2. IsUsage(used) /\ IsUsage(durable) /\ day \in Periods
    BY DEF TypeOK
  <1>3. /\ g \in Nat
        /\ \A a \in Charged(r) : At(used[a], cur(a)) + g <= Limit[a]
    BY <1>1, <1>2, AllowedBound
  <1> HIDE DEF g
  <1>4. ASSUME NEW a \in Accts
        PROVE  /\ IsPeriodMap(used[a]) /\ IsPeriodMap(durable[a])
               /\ IsPeriodMap(pu(a)) /\ IsPeriodMap(pd(a))
               /\ cur(a) \in Periods /\ Limit[a] \in Nat
               /\ At(pu(a), cur(a)) = At(used[a], cur(a))
               /\ At(pd(a), cur(a)) = At(durable[a], cur(a))
               /\ \A p : At(pu(a), p) \in Nat /\ At(pd(a), p) \in Nat
               /\ \A p : At(used[a], p) \in Nat /\ At(durable[a], p) \in Nat
    <2>1. IsPeriodMap(used[a]) /\ IsPeriodMap(durable[a])
      BY <1>2 DEF IsUsage
    <2>2. IsPeriodMap(pu(a)) /\ IsPeriodMap(pd(a))
      BY <2>1, PruneIsMap
    <2>3. Kept(a, cur(a))
      BY <1>2, CurrentKept
    <2>4. At(pu(a), cur(a)) = At(used[a], cur(a)) /\ At(pd(a), cur(a)) = At(durable[a], cur(a))
      BY <2>3, AtPrune
    <2>5. cur(a) \in Periods /\ Limit[a] \in Nat
      BY <1>2, PeriodType, QuotaAssumption
    <2>6. \A p : At(pu(a), p) \in Nat /\ At(pd(a), p) \in Nat
      BY <2>2, AtNat
    <2>7. \A p : At(used[a], p) \in Nat /\ At(durable[a], p) \in Nat
      BY <2>1, AtNat
    <2> QED BY <2>1, <2>2, <2>4, <2>5, <2>6, <2>7
  <1>5. ASSUME NEW a \in Charged(r)
        PROVE  /\ used'[a] = Set(pu(a), cur(a), At(pu(a), cur(a)) + g)
               /\ durable'[a] = growDurablePeriod(pd(a), pu(a), cur(a), Limit[a], g)
               /\ a \in Accts /\ a[1] = r /\ Limit[a] > 0
    BY <1>1 DEF chargedUsed, grownDurable, Charged
  <1>6. ASSUME NEW a \in Accts, a \notin Charged(r)
        PROVE  IF a[1] = r THEN used'[a] = pu(a) /\ durable'[a] = pd(a)
               ELSE used'[a] = used[a] /\ durable'[a] = durable[a]
    BY <1>1, <1>6 DEF chargedUsed, grownDurable
  <1>7. ASSUME NEW a \in Charged(r)
        PROVE  /\ IsPeriodMap(used'[a])
               /\ IsPeriodMap(durable'[a])
               /\ At(durable'[a], cur(a)) >= At(used[a], cur(a)) + g
               /\ At(durable[a], cur(a)) <= Limit[a] => At(durable'[a], cur(a)) <= Limit[a]
               /\ At(durable[a], cur(a)) >= At(used[a], cur(a)) + g => durable'[a] = pd(a)
               /\ \A q : q # cur(a) => At(durable'[a], q) = At(pd(a), q)
               /\ \A q : At(used'[a], q) = IF q = cur(a) THEN At(used[a], q) + g ELSE At(pu(a), q)
    <2>1. a \in Accts
      BY <1>5
    <2>2. At(pu(a), cur(a)) + g <= Limit[a]
      BY <1>3, <1>4, <2>1
    <2> HIDE DEF cur, pu, pd
    <2>3. At(pu(a), cur(a)) + g \in Nat
      BY <1>3, <1>4, <2>1
    <2>4. IsPeriodMap(used'[a])
      BY <1>4, <1>5, <2>1, <2>3, SetIsMap
    <2>5. \A q : At(used'[a], q) = IF q = cur(a) THEN At(used[a], q) + g ELSE At(pu(a), q)
      BY <1>4, <1>5, <2>1, AtSet
    <2> QED
      BY <1>3, <1>4, <1>5, <2>1, <2>2, <2>4, <2>5, GrowBound
  <1>8. \A a \in Accts : \A p \in Periods :
            /\ At(pu(a), p) = IF Kept(a, p) THEN At(used[a], p) ELSE 0
            /\ At(pd(a), p) = IF Kept(a, p) THEN At(durable[a], p) ELSE 0
    BY AtPrune
  <1>9. \A a \in Accts : Kept(a, cur(a))
    BY <1>2, CurrentKept
  <1>10. \A a \in Accts : \A p \in Periods : At(used[a], p) <= At(durable[a], p)
    BY DEF Covers
  <1> HIDE DEF cur, pu, pd
  <1>11. IsUsage(used') /\ IsUsage(durable')
    <2>1. DOMAIN used' = Accts /\ DOMAIN durable' = Accts
      BY <1>1 DEF chargedUsed, grownDurable
    <2> QED BY <2>1, <1>4, <1>6, <1>7 DEF IsUsage
  <1>12. Covers(used', durable')
    BY <1>3, <1>4, <1>6, <1>7, <1>8, <1>10 DEF Covers
  <1>13. WithinLimits(durable')
    BY <1>3, <1>4, <1>5, <1>6, <1>7, <1>8 DEF WithinLimits
  <1>14. \A a \in Accts : \A p \in Periods :
             At(used'[a], p) = Pruned(r, used, a, p)
                 + (IF a \in Charged(r) /\ p = cur(a) THEN g ELSE 0)
    BY <1>3, <1>4, <1>5, <1>6, <1>7, <1>8, <1>9 DEF Pruned
  <1>15. ~raised(r, g) => Covers(durable', durable)
    <2> SUFFICES ASSUME ~raised(r, g), NEW a \in Accts, NEW p \in Periods
                 PROVE  At(durable'[a], p) <= At(durable[a], p)
      BY DEF Covers
    <2>1. CASE a \in Charged(r)
      <3>1. ~(At(pd(a), cur(a)) < At(pu(a), cur(a)) + g)
        BY <2>1 DEF raised, pd, pu, cur
      <3>2. durable'[a] = pd(a)
        BY <1>3, <1>4, <1>7, <2>1, <3>1
      <3> QED BY <1>4, <1>8, <3>2
    <2>2. CASE a \notin Charged(r)
      BY <1>4, <1>6, <1>8, <2>2
    <2> QED BY <2>1, <2>2
  <1> QED
    BY <1>11, <1>12, <1>13, <1>14, <1>15 DEF g, cur

-----------------------------------------------------------------------------
(* The invariants hold initially. *)

(* A ledger over an empty quota-state.json satisfies the invariants.         *)
LEMMA InitInv == Init => TypeOK /\ LedgerInv
  <1> SUFFICES ASSUME Init PROVE TypeOK /\ LedgerInv
    OBVIOUS
  <1> USE DEF Init
  <1>1. 0 \in Periods
    BY QuotaAssumption DEF Periods
  <1>2. IsPeriodMap(EmptyMap) /\ \A p : At(EmptyMap, p) = 0
    BY DEF IsPeriodMap, EmptyMap, At
  <1>3. TypeOK
    <2>1. IsUsage(used) /\ IsUsage(durable) /\ IsUsage(stored)
      BY <1>2 DEF IsUsage
    <2>2. DOMAIN snap = Procs /\ \A x \in Procs : IsUsage(snap[x])
      BY <1>2 DEF IsUsage
    <2>3. NoCall \in [rule: Rules \cup {"none"}, bytes: Nat, allOrNothing: BOOLEAN, day: Periods]
      BY <1>1 DEF NoCall
    <2>4. call \in [Conns -> [rule: Rules \cup {"none"}, bytes: Nat,
                             allOrNothing: BOOLEAN, day: Periods]]
      BY <2>3
    <2>5. /\ pc \in [Conns -> {"idle", "retrying", "flushed", "holding", "gone"}]
          /\ \A c \in Conns : pc[c] \in {"retrying", "flushed", "holding"} => call[c].rule \in Rules
      OBVIOUS
    <2>6. /\ fpc \in [Procs -> {"off", "check", "saving"}]
          /\ phase \in {"up", "stopping", "down"}
          /\ day \in Periods /\ maxDay \in Periods
          /\ wire \in [Accts -> [Periods -> Int]]
      BY <1>1
    <2> QED BY <2>1, <2>2, <2>4, <2>5, <2>6 DEF TypeOK
  <1>4. WatermarkInv /\ FlightInv /\ CoverInv
    BY <1>2, QuotaAssumption DEF WatermarkInv, FlightInv, CoverInv, Covers, WithinLimits
  <1>5. WireInv
    BY <1>2 DEF WireInv, Counted, Retained
  <1> QED
    BY <1>3, <1>4, <1>5 DEF LedgerInv

-----------------------------------------------------------------------------
(* Every step preserves them: one lemma per operation. *)

(* A denied reserve only prunes, and never a retained period.                *)
LEMMA DenyInv ==
    ASSUME TypeOK, LedgerInv, phase # "down",
           NEW c \in Conns, NEW r \in Rules, NEW n \in Nat, NEW aon, Deny(c, r, n, aon)
    PROVE  TypeOK' /\ LedgerInv'
  <1>1. /\ IsUsage(used') /\ IsUsage(durable')
        /\ \A a \in Accts : \A p \in Periods :
              /\ At(used'[a], p) = Pruned(r, used, a, p)
              /\ At(durable'[a], p) = Pruned(r, durable, a, p)
    BY DenyMaps
  <1>2. /\ pc' = [pc EXCEPT ![c] = "idle"]
        /\ call' = [call EXCEPT ![c] = NoCall]
        /\ UNCHANGED <<flushPending, flushErr, flushing, cooling, fpc, snap, stored,
                       phase, day, maxDay, wire, lossy, moves, failures, crashes>>
    BY DEF Deny, boundVars
  <1>3. 0 \in Periods
    BY QuotaAssumption DEF Periods
  <1>4. TypeOK'
    BY <1>1, <1>2, <1>3 DEF TypeOK, NoCall
  <1>5. \A a \in Accts : \A p \in Periods :
            /\ At(used[a], p) \in Nat /\ At(durable[a], p) \in Nat
    BY AtNat DEF TypeOK, IsUsage
  <1>6. Covers(used', durable') /\ Covers(durable', durable)
    BY <1>1, <1>5 DEF Covers, Pruned, LedgerInv, WatermarkInv
  <1>7. \A a \in Accts : Limit[a] \in Nat
    BY QuotaAssumption
  <1>8. WithinLimits(durable')
    BY <1>1, <1>5, <1>7 DEF WithinLimits, Pruned, LedgerInv, WatermarkInv
  <1>9. WatermarkInv'
    BY <1>2, <1>6, <1>8 DEF WatermarkInv, WithinLimits, LedgerInv
  <1>10. FlightInv'
    BY <1>2 DEF FlightInv, LedgerInv
  <1>11. CoverInv'
    <2>1. \A v : IsUsage(v) /\ Covers(durable, v) => Covers(durable', v)
      <3> SUFFICES ASSUME NEW v, IsUsage(v), Covers(durable, v),
                          NEW a \in Accts, NEW p \in Periods
                   PROVE  At(durable'[a], p) <= At(v[a], p)
        BY DEF Covers
      <3>1. At(durable'[a], p) <= At(durable[a], p) /\ At(durable[a], p) <= At(v[a], p)
        BY <1>6 DEF Covers
      <3>2. At(v[a], p) \in Nat /\ At(durable[a], p) \in Nat /\ At(durable'[a], p) \in Nat
        BY <1>1, AtNat DEF IsUsage, TypeOK
      <3> QED BY <3>1, <3>2
    <2>2. /\ \A x \in Procs : IsUsage(snap[x])
          /\ IsUsage(stored)
      BY DEF TypeOK
    <2> QED
      BY <1>2, <2>1, <2>2 DEF CoverInv, Settled, LedgerInv
  <1>12. WireInv'
    <2>1. ASSUME NEW a \in Accts, NEW p \in Retained(a)
          PROVE  At(used'[a], p) = At(used[a], p)
      <3>1. Kept(a, p) /\ p \in Periods
        BY RetainedKept DEF TypeOK, LedgerInv, WireInv, Retained
      <3> QED BY <1>1, <3>1 DEF Pruned
    <2>2. \A a \in Accts : Retained(a)' = Retained(a) /\ Counted(a)' = used'[a]
      BY <1>2 DEF Retained, Counted
    <2> QED
      BY <1>2, <2>1, <2>2 DEF WireInv, LedgerInv, Counted
  <1> QED
    BY <1>4, <1>9, <1>10, <1>11, <1>12 DEF LedgerInv

(* A grant charges bytes the watermarks already cover, and leaves a flusher  *)
(* in charge of every watermark it raised.                                   *)
LEMMA GrantInv ==
    ASSUME TypeOK, LedgerInv, phase # "down",
           NEW c \in Conns, NEW r \in Rules, NEW n \in Nat, NEW aon \in BOOLEAN,
           Grant(c, r, n, aon)
    PROVE  TypeOK' /\ LedgerInv'
  <1> DEFINE g == allowed(r, n)
             cur(a) == periodOf(a[2], day)
  <1>1. /\ IsUsage(used') /\ IsUsage(durable')
        /\ Covers(used', durable')
        /\ WithinLimits(durable')
        /\ \A a \in Accts : \A p \in Periods :
              At(used'[a], p) = Pruned(r, used, a, p)
                  + (IF a \in Charged(r) /\ p = cur(a) THEN g ELSE 0)
        /\ ~raised(r, g) => Covers(durable', durable)
    BY GrantMaps DEF LedgerInv, WatermarkInv
  <1>2. /\ wire' = [a \in Accts |->
                      IF a \in Charged(r) THEN [wire[a] EXCEPT ![cur(a)] = @ + g] ELSE wire[a]]
        /\ flushPending' = (flushPending \/ raised(r, g))
        /\ pc' = [pc EXCEPT ![c] = "holding"]
        /\ call' = [call EXCEPT ![c] = [rule |-> r, bytes |-> g, allOrNothing |-> aon, day |-> day]]
        /\ UNCHANGED <<flushErr, cooling, snap, stored, phase, day, maxDay, lossy,
                       moves, failures, crashes>>
    BY DEF Grant, boundVars
  <1>3. \/ /\ raised(r, g) /\ ~flushing /\ flushing' = TRUE
           /\ \E h \in Helpers : fpc[h] = "off" /\ fpc' = [fpc EXCEPT ![h] = "check"]
        \/ /\ raised(r, g) => flushing
           /\ flushing' = flushing /\ fpc' = fpc
    BY DEF Grant
  <1>4. g \in Nat /\ day \in Periods /\ maxDay \in Periods /\ day <= maxDay
    BY AllowedBound DEF TypeOK, LedgerInv, WireInv
  <1>5. \A a \in Accts : cur(a) \in Periods
    BY <1>4, PeriodType
  <1>6. \A a \in Accts : \A p \in Retained(a) : Kept(a, p) /\ p \in Periods
    BY <1>4, RetainedKept DEF Retained
  <1>7. raised(r, g) \in BOOLEAN
    BY DEF raised
  <1> HIDE DEF g, cur
  <1>8. TypeOK'
    <2>1. wire' \in [Accts -> [Periods -> Int]]
      BY <1>2, <1>4, <1>5 DEF TypeOK
    <2>2. fpc' \in [Procs -> {"off", "check", "saving"}]
      BY <1>3 DEF TypeOK, Procs
    <2>3. call' \in [Conns -> [rule: Rules \cup {"none"}, bytes: Nat,
                               allOrNothing: BOOLEAN, day: Periods]]
      BY <1>2, <1>4 DEF TypeOK
    <2>4. \A k \in Conns : pc'[k] \in {"retrying", "flushed", "holding"} => call'[k].rule \in Rules
      BY <1>2 DEF TypeOK
    <2>5. pc' \in [Conns -> {"idle", "retrying", "flushed", "holding", "gone"}]
      BY <1>2 DEF TypeOK
    <2>6. flushPending' \in BOOLEAN /\ flushing' \in BOOLEAN
      BY <1>2, <1>3, <1>7 DEF TypeOK
    <2> QED
      BY <1>1, <1>2, <2>1, <2>2, <2>3, <2>4, <2>5, <2>6 DEF TypeOK
  <1>9. WatermarkInv'
    BY <1>1, <1>2 DEF WatermarkInv, WithinLimits, LedgerInv
  <1>10. FlightInv'
    <2>1. fpc \in [Procs -> {"off", "check", "saving"}]
      BY DEF TypeOK
    <2>2. FlightInv
      BY DEF LedgerInv
    <2>3. CASE /\ raised(r, g) /\ ~flushing /\ flushing' = TRUE
               /\ \E h \in Helpers : fpc[h] = "off" /\ fpc' = [fpc EXCEPT ![h] = "check"]
      <3>1. PICK h \in Helpers : fpc' = [fpc EXCEPT ![h] = "check"]
        BY <2>3
      <3>2. \A x \in Procs : fpc[x] = "off"
        BY <2>2, <2>3 DEF FlightInv
      <3>3. h \in Procs /\ \A x \in Procs : fpc'[x] # "off" <=> x = h
        BY <2>1, <3>1, <3>2 DEF Procs
      <3> QED BY <2>3, <3>3 DEF FlightInv
    <2>4. CASE /\ raised(r, g) => flushing
               /\ flushing' = flushing /\ fpc' = fpc
      BY <1>2, <1>7, <2>2, <2>4 DEF FlightInv
    <2> QED BY <1>3, <2>3, <2>4
  <1>11. CoverInv'
    <2>1. CASE raised(r, g)
      BY <1>2, <2>1 DEF CoverInv, Settled
    <2>2. CASE ~raised(r, g)
      <3>1. \A v : IsUsage(v) /\ Covers(durable, v) => Covers(durable', v)
        <4> SUFFICES ASSUME NEW v, IsUsage(v), Covers(durable, v),
                            NEW a \in Accts, NEW p \in Periods
                     PROVE  At(durable'[a], p) <= At(v[a], p)
          BY DEF Covers
        <4>1. At(durable'[a], p) <= At(durable[a], p) /\ At(durable[a], p) <= At(v[a], p)
          BY <1>1, <2>2 DEF Covers
        <4>2. At(v[a], p) \in Nat /\ At(durable[a], p) \in Nat /\ At(durable'[a], p) \in Nat
          BY <1>1, AtNat DEF IsUsage, TypeOK
        <4> QED BY <4>1, <4>2
      <3>2. /\ \A x \in Procs : IsUsage(snap[x])
            /\ IsUsage(stored)
        BY DEF TypeOK
      <3> QED
        BY <1>2, <1>3, <2>2, <3>1, <3>2 DEF CoverInv, Settled, LedgerInv
    <2> QED BY <2>1, <2>2
  <1>12. WireInv'
    <2>1. \A a \in Accts : Retained(a)' = Retained(a) /\ Counted(a)' = used'[a] /\ Counted(a) = used[a]
      BY <1>2 DEF Retained, Counted
    <2>2. ASSUME ~lossy, NEW a \in Accts, NEW p \in Retained(a)
          PROVE  wire'[a][p] <= At(used'[a], p)
      <3>1. p \in Periods /\ Kept(a, p)
        BY <1>6
      <3>2. wire[a][p] <= At(used[a], p)
        BY <2>1, <2>2 DEF LedgerInv, WireInv
      <3>3. At(used'[a], p) = At(used[a], p) + (IF a \in Charged(r) /\ p = cur(a) THEN g ELSE 0)
        BY <1>1, <3>1 DEF Pruned
      <3>4. At(used[a], p) \in Nat /\ wire[a] \in [Periods -> Int]
        BY AtNat DEF TypeOK, IsUsage
      <3>5. wire'[a][p] = wire[a][p] + (IF a \in Charged(r) /\ p = cur(a) THEN g ELSE 0)
        BY <1>2, <1>4, <3>1, <3>4
      <3> QED
        BY <1>4, <3>1, <3>2, <3>3, <3>4, <3>5
    <2> QED
      BY <1>2, <1>4, <2>1, <2>2 DEF WireInv
  <1> QED
    BY <1>8, <1>9, <1>10, <1>11, <1>12 DEF LedgerInv

(* A refund lowers the counts of the charged periods and the bytes forwarded *)
(* alike, whatever happened to those periods since.                          *)
LEMMA FinishInv ==
    ASSUME TypeOK, LedgerInv, phase # "down", NEW c \in Conns, Finish(c)
    PROVE  TypeOK' /\ LedgerInv'
  <1> DEFINE r == call[c].rule
             cur(a) == periodOf(a[2], call[c].day)
  <1>1. PICK w \in 0..call[c].bytes :
            /\ used' = [a \in Accts |->
                          IF a \in Charged(r) /\ call[c].bytes - w > 0
                          THEN refundQuotaPeriod(used[a], cur(a), call[c].bytes - w)
                          ELSE used[a]]
            /\ wire' = [a \in Accts |->
                          IF a \in Charged(r) /\ call[c].bytes - w > 0
                          THEN [wire[a] EXCEPT ![cur(a)] = @ - (call[c].bytes - w)]
                          ELSE wire[a]]
    BY DEF Finish, reservedPeriod
  <1> DEFINE f == call[c].bytes - w
  <1>2. /\ pc' = [pc EXCEPT ![c] = IF phase = "stopping" THEN "gone" ELSE "idle"]
        /\ call' = [call EXCEPT ![c] = NoCall]
        /\ UNCHANGED <<durable, flushPending, flushErr, flushing, cooling, fpc, snap, stored, phase,
                       day, maxDay, lossy, moves, failures, crashes>>
    BY DEF Finish, boundVars
  <1>3. call[c].bytes \in Nat /\ call[c].day \in Periods
    BY DEF TypeOK
  <1>4. f \in Nat
    BY <1>3
  <1>5. \A a \in Accts : cur(a) \in Periods
    BY <1>3, PeriodType
  <1>6. 0 \in Periods
    BY QuotaAssumption DEF Periods
  <1>7. used' = [a \in Accts |-> IF a \in Charged(r) /\ f > 0
                                 THEN refundQuotaPeriod(used[a], cur(a), f) ELSE used[a]]
    BY <1>1
  <1>8. wire' = [a \in Accts |-> IF a \in Charged(r) /\ f > 0
                                 THEN [wire[a] EXCEPT ![cur(a)] = @ - f] ELSE wire[a]]
    BY <1>1
  <1> HIDE DEF r, cur, f
  <1>9. ASSUME NEW a \in Accts
        PROVE  /\ IsPeriodMap(used'[a])
               /\ \A p \in Periods : At(used'[a], p) <= At(used[a], p)
               /\ \A p \in Periods : wire'[a][p] - wire[a][p] <= At(used'[a], p) - At(used[a], p)
    <2> DEFINE v == IF At(used[a], cur(a)) > f THEN At(used[a], cur(a)) - f ELSE 0
    <2>1. IsPeriodMap(used[a]) /\ wire[a] \in [Periods -> Int]
      BY DEF TypeOK, IsUsage
    <2>2. \A p : At(used[a], p) \in Nat
      BY <2>1, AtNat
    <2>3. v \in Nat /\ v <= At(used[a], cur(a)) /\ v >= At(used[a], cur(a)) - f
      BY <1>4, <2>2
    <2>4. refundQuotaPeriod(used[a], cur(a), f) = Set(used[a], cur(a), v)
      BY DEF refundQuotaPeriod
    <2> HIDE DEF v
    <2>5. IsPeriodMap(Set(used[a], cur(a), v))
      BY <1>5, <2>1, <2>3, SetIsMap
    <2>6. \A p : At(Set(used[a], cur(a), v), p) = IF p = cur(a) THEN v ELSE At(used[a], p)
      BY AtSet
    <2>7. CASE a \in Charged(r) /\ f > 0
      <3>1. used'[a] = Set(used[a], cur(a), v)
        BY <1>7, <2>4, <2>7
      <3>2. \A p \in Periods : wire'[a][p] = IF p = cur(a) THEN wire[a][p] - f ELSE wire[a][p]
        BY <1>8, <1>5, <2>1, <2>7
      <3>3. IsPeriodMap(used'[a]) /\ \A p \in Periods : At(used'[a], p) <= At(used[a], p)
        BY <2>2, <2>3, <2>5, <2>6, <3>1
      <3>4. \A p \in Periods : wire'[a][p] - wire[a][p] <= At(used'[a], p) - At(used[a], p)
        BY <1>4, <2>1, <2>2, <2>3, <2>6, <3>1, <3>2
      <3> QED BY <3>3, <3>4
    <2>8. CASE ~(a \in Charged(r) /\ f > 0)
      BY <1>7, <1>8, <2>1, <2>2, <2>8
    <2> QED BY <2>7, <2>8
  <1>10. wire' \in [Accts -> [Periods -> Int]]
    BY <1>4, <1>5, <1>8 DEF TypeOK
  <1>11. IsUsage(used')
    <2>1. DOMAIN used' = Accts
      BY <1>7
    <2> QED BY <1>9, <2>1 DEF IsUsage
  <1>12. TypeOK'
    <2>1. call' \in [Conns -> [rule: Rules \cup {"none"}, bytes: Nat,
                               allOrNothing: BOOLEAN, day: Periods]]
      BY <1>2, <1>6 DEF TypeOK, NoCall
    <2>2. \A k \in Conns : pc'[k] \in {"retrying", "flushed", "holding"} => call'[k].rule \in Rules
      BY <1>2 DEF TypeOK
    <2>3. pc' \in [Conns -> {"idle", "retrying", "flushed", "holding", "gone"}]
      BY <1>2 DEF TypeOK
    <2> QED BY <1>2, <1>10, <1>11, <2>1, <2>2, <2>3 DEF TypeOK
  <1>13. \A a \in Accts : \A p \in Periods :
             /\ At(used[a], p) \in Nat /\ At(used'[a], p) \in Nat /\ At(durable[a], p) \in Nat
             /\ wire[a][p] \in Int /\ wire'[a][p] \in Int
    BY <1>10, <1>11, AtNat DEF TypeOK, IsUsage
  <1>14. WatermarkInv'
    <2>1. Covers(used', durable)
      BY <1>9, <1>13 DEF Covers, LedgerInv, WatermarkInv
    <2> QED BY <1>2, <2>1 DEF WatermarkInv, WithinLimits, LedgerInv
  <1>15. FlightInv' /\ CoverInv'
    BY <1>2 DEF FlightInv, CoverInv, Settled, Covers, LedgerInv
  <1>16. WireInv'
    <2>1. \A a \in Accts : Retained(a)' = Retained(a) /\ Counted(a)' = used'[a] /\ Counted(a) = used[a]
      BY <1>2 DEF Retained, Counted
    <2>2. ASSUME ~lossy, NEW a \in Accts, NEW p \in Retained(a)
          PROVE  wire'[a][p] <= At(used'[a], p)
      <3>1. p \in Periods /\ wire[a][p] <= At(used[a], p)
        BY <2>1, <2>2 DEF LedgerInv, WireInv, Retained
      <3> QED BY <1>9, <1>13, <3>1
    <2> QED BY <1>2, <2>1, <2>2 DEF WireInv, LedgerInv
  <1> QED
    BY <1>12, <1>14, <1>15, <1>16 DEF LedgerInv

(* Steps that leave the maps, the store and the process alone: only the      *)
(* flusher's control state can be disturbed.                                 *)
LEMMA ControlOnly ==
    ASSUME LedgerInv,
           UNCHANGED <<used, durable, stored, snap, phase, day, maxDay, wire, lossy>>
    PROVE  WatermarkInv' /\ WireInv'
  BY DEF LedgerInv, WatermarkInv, WireInv, Covers, WithinLimits, Counted, Retained

(* A reserve that finds the gate up and the cooldown over starts the one     *)
(* flusher, or asks the running one for another round.                       *)
LEMMA ReserveGatedInv ==
    ASSUME TypeOK, LedgerInv, NEW c \in Conns, NEW r \in Rules, NEW n \in Nat,
           NEW aon \in BOOLEAN, ReserveRetry(c, r, n, aon) \/ ReserveFailBusy(c, r)
    PROVE  TypeOK' /\ LedgerInv'
  <1>1. CASE ReserveRetry(c, r, n, aon)
    <2> USE <1>1 DEF ReserveRetry, boundVars
    <2>1. c \in Procs /\ 0 \in Periods
      BY QuotaAssumption DEF Procs, Periods
    <2>2. TypeOK'
      BY <2>1 DEF TypeOK, IsUsage
    <2>3. WatermarkInv' /\ WireInv'
      BY ControlOnly
    <2>4. \A x \in Procs : fpc[x] = "off"
      BY DEF LedgerInv, FlightInv
    <2>5. \A x \in Procs : fpc'[x] # "off" <=> x = c
      BY <2>1, <2>4 DEF TypeOK
    <2>6. FlightInv'
      BY <2>1, <2>5 DEF FlightInv
    <2>7. CoverInv'
      BY DEF CoverInv, Settled
    <2> QED BY <2>2, <2>3, <2>6, <2>7 DEF LedgerInv
  <1>2. CASE ReserveFailBusy(c, r)
    <2> USE <1>2 DEF ReserveFailBusy, boundVars, procVars
    <2>1. TypeOK'
      BY DEF TypeOK, IsUsage
    <2>2. WatermarkInv' /\ WireInv'
      BY ControlOnly
    <2>3. FlightInv' /\ CoverInv'
      BY DEF FlightInv, CoverInv, Settled, LedgerInv
    <2> QED BY <2>1, <2>2, <2>3 DEF LedgerInv
  <1> QED BY <1>1, <1>2

(* A flush round snapshots every watermark raised so far.                    *)
LEMMA FlushSnapshotInv ==
    ASSUME TypeOK, LedgerInv, NEW x \in Procs, FlushSnapshot(x)
    PROVE  TypeOK' /\ LedgerInv'
  <1> USE DEF FlushSnapshot, boundVars
  <1>1. TypeOK'
    BY DEF TypeOK
  <1>2. snap' = [snap EXCEPT ![x] = durable] /\ DOMAIN snap = Procs
    BY DEF TypeOK
  <1>3. WatermarkInv'
    BY <1>2 DEF LedgerInv, WatermarkInv, Covers, WithinLimits
  <1>4. \A y \in Procs : fpc'[y] # "off" <=> fpc[y] # "off"
    BY DEF TypeOK
  <1>5. FlightInv'
    BY <1>4 DEF LedgerInv, FlightInv
  <1>6. CoverInv'
    <2>1. \A y \in Procs : fpc[y] # "off" => y = x
      BY DEF LedgerInv, FlightInv
    <2>2. \A y \in Procs : /\ fpc'[y] # "check"
                           /\ fpc'[y] = "saving" => y = x
      BY <2>1 DEF TypeOK
    <2>3. Covers(durable', snap'[x])
      <3>1. \A a \in Accts : \A p \in Periods : At(durable[a], p) \in Nat
        BY AtNat DEF TypeOK, IsUsage
      <3> QED BY <1>2, <3>1 DEF Covers
    <2>4. flushing' = TRUE
      BY DEF LedgerInv, FlightInv, TypeOK
    <2> QED BY <2>2, <2>3, <2>4 DEF CoverInv, Settled
  <1>7. WireInv'
    BY DEF LedgerInv, WireInv, Counted, Retained
  <1> QED BY <1>1, <1>3, <1>5, <1>6, <1>7 DEF LedgerInv

(* A drained flusher frees the guard only when the store covers everything.  *)
LEMMA FlushDrainedInv ==
    ASSUME TypeOK, LedgerInv, NEW x \in Procs, FlushDrained(x),
           x \in Conns => call[x].rule \in Rules
    PROVE  TypeOK' /\ LedgerInv'
  <1> USE DEF FlushDrained, ReleaseFlushGuard, boundVars
  <1>1. TypeOK'
    <2>1. pc' \in [Conns -> {"idle", "retrying", "flushed", "holding", "gone"}]
      BY DEF TypeOK
    <2>2. \A k \in Conns : pc'[k] \in {"retrying", "flushed", "holding"} => call'[k].rule \in Rules
      BY DEF TypeOK
    <2> QED BY <2>1, <2>2 DEF TypeOK, IsUsage
  <1>2. WatermarkInv' /\ WireInv'
    BY ControlOnly
  <1>3. \A y \in Procs : fpc[y] # "off" => y = x
    BY DEF LedgerInv, FlightInv
  <1>4. \A y \in Procs : fpc'[y] = "off"
    BY <1>3 DEF TypeOK
  <1>5. FlightInv'
    BY <1>4 DEF FlightInv
  <1>6. CoverInv'
    <2>1. Covers(durable, stored)
      BY DEF LedgerInv, CoverInv
    <2> QED BY <1>4, <2>1 DEF CoverInv, Covers
  <1> QED BY <1>1, <1>2, <1>5, <1>6 DEF LedgerInv

(* A completed save moves the cover from the snapshot to the store.          *)
LEMMA FlushSavedInv ==
    ASSUME TypeOK, LedgerInv, NEW x \in Procs, FlushSaved(x), phase # "down"
    PROVE  TypeOK' /\ LedgerInv'
  <1> USE DEF FlushSaved, boundVars, ledgerVars
  <1>1. IsPeriodMap(EmptyMap) /\ \A p : At(EmptyMap, p) = 0
    BY DEF IsPeriodMap, EmptyMap, At
  <1> DEFINE none == [a \in Accts |-> EmptyMap]
  <1>2. IsUsage(none) /\ WithinLimits(none)
    BY <1>1, QuotaAssumption DEF IsUsage, WithinLimits
  <1>3. snap' = [snap EXCEPT ![x] = none] /\ DOMAIN snap = Procs
    BY DEF TypeOK
  <1> HIDE DEF none
  <1>4. TypeOK'
    <2>1. IsUsage(stored') /\ DOMAIN snap' = Procs /\ \A y \in Procs : IsUsage(snap'[y])
      BY <1>2, <1>3 DEF TypeOK
    <2> QED BY <2>1 DEF TypeOK, IsUsage
  <1>5. WatermarkInv'
    <2>1. WithinLimits(stored') /\ \A y \in Procs : WithinLimits(snap'[y])
      BY <1>2, <1>3 DEF LedgerInv, WatermarkInv
    <2>2. Covers(used', durable') /\ WithinLimits(durable')
      BY DEF LedgerInv, WatermarkInv, Covers, WithinLimits
    <2> QED BY <2>1, <2>2 DEF WatermarkInv
  <1>6. \A y \in Procs : fpc'[y] # "off" <=> fpc[y] # "off"
    BY DEF TypeOK
  <1>7. FlightInv'
    BY <1>6 DEF LedgerInv, FlightInv
  <1>8. CoverInv'
    <2>1. \A y \in Procs : fpc[y] # "off" => y = x
      BY DEF LedgerInv, FlightInv
    <2>2. \A y \in Procs : fpc'[y] # "saving"
      BY <2>1 DEF TypeOK
    <2>3. ~flushPending => Covers(durable', stored')
      BY DEF LedgerInv, CoverInv, Covers
    <2>4. flushing' = TRUE
      BY DEF LedgerInv, FlightInv, TypeOK
    <2> QED BY <2>2, <2>3, <2>4 DEF CoverInv, Settled
  <1>9. WireInv'
    BY DEF LedgerInv, WireInv, Counted, Retained
  <1> QED BY <1>4, <1>5, <1>7, <1>8, <1>9 DEF LedgerInv

(* A failed save raises the gate, so the ledger does not count as settled.   *)
LEMMA FlushFailedInv ==
    ASSUME TypeOK, LedgerInv, NEW x \in Procs, FlushFailed(x), phase # "down"
    PROVE  TypeOK' /\ LedgerInv'
  <1> USE DEF FlushFailed, ReleaseFlushGuard
  <1>1. IsPeriodMap(EmptyMap) /\ \A p : At(EmptyMap, p) = 0
    BY DEF IsPeriodMap, EmptyMap, At
  <1> DEFINE none == [a \in Accts |-> EmptyMap]
  <1>2. IsUsage(none) /\ WithinLimits(none)
    BY <1>1, QuotaAssumption DEF IsUsage, WithinLimits
  <1>3. snap' = [snap EXCEPT ![x] = none] /\ DOMAIN snap = Procs
    BY DEF TypeOK
  <1> HIDE DEF none
  <1>4. TypeOK'
    <2>1. IsUsage(stored') /\ DOMAIN snap' = Procs /\ \A y \in Procs : IsUsage(snap'[y])
      BY <1>2, <1>3 DEF TypeOK
    <2>2. 0 \in Periods
      BY QuotaAssumption DEF Periods
    <2>3. /\ pc' \in [Conns -> {"idle", "retrying", "flushed", "holding", "gone"}]
          /\ call' \in [Conns -> [rule: Rules \cup {"none"}, bytes: Nat,
                                  allOrNothing: BOOLEAN, day: Periods]]
      BY <2>2 DEF TypeOK, NoCall
    <2>4. \A k \in Conns : pc'[k] \in {"retrying", "flushed", "holding"} => call'[k].rule \in Rules
      BY DEF TypeOK
    <2>5. failures' \in Nat
      BY DEF TypeOK
    <2> QED BY <2>1, <2>3, <2>4, <2>5 DEF TypeOK, IsUsage
  <1>5. WatermarkInv'
    <2>1. WithinLimits(stored') /\ \A y \in Procs : WithinLimits(snap'[y])
      BY <1>2, <1>3 DEF LedgerInv, WatermarkInv
    <2>2. Covers(used', durable') /\ WithinLimits(durable')
      BY DEF LedgerInv, WatermarkInv, Covers, WithinLimits
    <2> QED BY <2>1, <2>2 DEF WatermarkInv
  <1>6. \A y \in Procs : fpc[y] # "off" => y = x
    BY DEF LedgerInv, FlightInv
  <1>7. \A y \in Procs : fpc'[y] = "off"
    BY <1>6 DEF TypeOK
  <1>8. FlightInv' /\ CoverInv'
    BY <1>7 DEF FlightInv, CoverInv, Settled
  <1>9. WireInv'
    BY DEF LedgerInv, WireInv, Counted, Retained
  <1> QED BY <1>4, <1>5, <1>8, <1>9 DEF LedgerInv

(* A clean stop stores the exact counts, or leaves the gate up.              *)
LEMMA SaveExactInv ==
    ASSUME TypeOK, LedgerInv, SaveExact
    PROVE  TypeOK' /\ LedgerInv'
  <1> USE DEF SaveExact, procVars
  <1>1. /\ durable' = used /\ used' = used /\ flushPending' = FALSE /\ phase' = "down"
        /\ ~flushing /\ flushing' = flushing /\ fpc' = fpc /\ snap' = snap
        /\ stored' = used \/ (stored' = stored /\ flushErr' = flushErr)
        /\ lossy' = (lossy \/ flushErr') /\ wire' = wire /\ day' = day /\ maxDay' = maxDay
        /\ failures' = failures \/ failures' = failures + 1
        /\ phase = "stopping"
        /\ flushErr' \in {FALSE, flushErr}
    OBVIOUS
  <1>2. \A a \in Accts : \A p \in Periods :
            At(used[a], p) \in Nat /\ At(durable[a], p) \in Nat /\ At(stored[a], p) \in Nat
    BY AtNat DEF TypeOK, IsUsage
  <1>3. Covers(used, used)
    BY <1>2 DEF Covers
  <1>4. \A a \in Accts : Limit[a] \in Nat
    BY QuotaAssumption
  <1>5. WithinLimits(used)
    BY <1>2, <1>4 DEF WithinLimits, Covers, LedgerInv, WatermarkInv
  <1>6. \A x \in Procs : fpc[x] = "off"
    BY <1>1 DEF LedgerInv, FlightInv
  <1>7. ~flushErr => Covers(used, stored)
    <2> SUFFICES ASSUME ~flushErr PROVE Covers(used, stored)
      OBVIOUS
    <2>1. Settled
      BY <1>1 DEF Settled, LedgerInv, FlightInv
    <2>2. Covers(durable, stored) /\ Covers(used, durable)
      BY <2>1 DEF LedgerInv, CoverInv, WatermarkInv
    <2> QED BY <1>2, <2>2 DEF Covers
  <1>8. ~flushErr' => Covers(used, stored')
    BY <1>1, <1>3, <1>7 DEF TypeOK
  <1>9. TypeOK'
    <2>1. failures' \in Nat
      BY <1>1 DEF TypeOK
    <2>2. flushErr' \in BOOLEAN
      BY <1>1 DEF TypeOK
    <2>3. lossy' \in BOOLEAN
      BY <1>1, <2>2 DEF TypeOK
    <2> QED BY <1>1, <2>1, <2>2, <2>3 DEF TypeOK, IsUsage
  <1>10. WatermarkInv'
    BY <1>1, <1>3, <1>5 DEF WatermarkInv, LedgerInv, WithinLimits
  <1>11. FlightInv'
    BY <1>1, <1>6 DEF FlightInv, LedgerInv
  <1>12. CoverInv'
    BY <1>1, <1>6, <1>8 DEF CoverInv, Settled
  <1>13. WireInv'
    <2>1. \A a \in Accts : Retained(a)' = Retained(a) /\ Counted(a)' = stored'[a] /\ Counted(a) = used[a]
      BY <1>1 DEF Retained, Counted
    <2>2. ASSUME ~lossy', NEW a \in Accts, NEW p \in Retained(a)
          PROVE  wire'[a][p] <= At(stored'[a], p)
      <3>1. ~lossy /\ ~flushErr'
        BY <1>1, <2>2
      <3>2. wire[a][p] <= At(used[a], p) /\ p \in Periods
        BY <2>1, <3>1 DEF LedgerInv, WireInv, Retained
      <3>3. At(used[a], p) <= At(stored'[a], p)
        BY <1>8, <3>1, <3>2 DEF Covers
      <3>4. wire[a][p] \in Int /\ At(used[a], p) \in Int /\ At(stored'[a], p) \in Int
        BY <1>1, <1>2, <3>2 DEF TypeOK
      <3> QED BY <1>1, <3>2, <3>3, <3>4
    <2> QED BY <1>1, <2>1, <2>2 DEF WireInv, LedgerInv
  <1> QED BY <1>9, <1>10, <1>11, <1>12, <1>13 DEF LedgerInv

(* A crash of a settled ledger loses no byte.                                *)
LEMMA CrashInv ==
    ASSUME TypeOK, LedgerInv, Crash
    PROVE  TypeOK' /\ LedgerInv'
  <1> USE DEF Crash, procVars, ledgerVars
  <1>1. TypeOK'
    <2>1. Settled \in BOOLEAN
      BY DEF Settled, TypeOK
    <2> QED BY <2>1 DEF TypeOK, IsUsage
  <1>2. WatermarkInv' /\ FlightInv' /\ CoverInv'
    BY DEF LedgerInv, WatermarkInv, FlightInv, CoverInv, Covers, WithinLimits, Settled
  <1>3. WireInv'
    <2>1. \A a \in Accts : Retained(a)' = Retained(a) /\ Counted(a)' = stored[a] /\ Counted(a) = used[a]
      BY DEF Retained, Counted
    <2>2. ASSUME ~lossy', NEW a \in Accts, NEW p \in Retained(a)
          PROVE  wire'[a][p] <= At(stored[a], p)
      <3>1. ~lossy /\ Settled
        BY <2>2
      <3>2. p \in Periods /\ wire[a][p] <= At(used[a], p)
        BY <2>1, <3>1 DEF LedgerInv, WireInv, Retained
      <3>3. At(used[a], p) <= At(durable[a], p) /\ At(durable[a], p) <= At(stored[a], p)
        BY <3>1, <3>2 DEF LedgerInv, WatermarkInv, CoverInv, Covers
      <3>4. /\ wire[a][p] \in Int /\ At(used[a], p) \in Int
            /\ At(durable[a], p) \in Int /\ At(stored[a], p) \in Int
        BY <3>2, AtNat DEF TypeOK, IsUsage
      <3> QED BY <3>2, <3>3, <3>4
    <2> QED BY <2>1, <2>2 DEF WireInv, LedgerInv
  <1> QED BY <1>1, <1>2, <1>3 DEF LedgerInv

(* A restart begins settled, with the stored counts as usage and watermark.  *)
LEMMA RestartInv ==
    ASSUME TypeOK, LedgerInv, Restart
    PROVE  TypeOK' /\ LedgerInv'
  <1> USE DEF Restart, boundVars
  <1>1. IsPeriodMap(EmptyMap) /\ \A p : At(EmptyMap, p) = 0
    BY DEF IsPeriodMap, EmptyMap, At
  <1> DEFINE none == [a \in Accts |-> EmptyMap]
  <1>2. IsUsage(none) /\ WithinLimits(none)
    BY <1>1, QuotaAssumption DEF IsUsage, WithinLimits
  <1>3. snap' = [x \in Procs |-> none]
    OBVIOUS
  <1> HIDE DEF none
  <1>4. TypeOK'
    <2>1. 0 \in Periods
      BY QuotaAssumption DEF Periods
    <2>2. /\ IsUsage(used') /\ IsUsage(durable') /\ IsUsage(stored')
          /\ DOMAIN snap' = Procs /\ \A y \in Procs : IsUsage(snap'[y])
      BY <1>2, <1>3 DEF TypeOK
    <2>3. call' \in [Conns -> [rule: Rules \cup {"none"}, bytes: Nat,
                               allOrNothing: BOOLEAN, day: Periods]]
      BY <2>1 DEF NoCall
    <2> QED BY <2>2, <2>3 DEF TypeOK
  <1>5. Covers(stored, stored)
    BY AtNat DEF Covers, TypeOK, IsUsage
  <1>6. WatermarkInv'
    BY <1>2, <1>3, <1>5 DEF LedgerInv, WatermarkInv
  <1>7. FlightInv' /\ CoverInv'
    BY <1>5 DEF FlightInv, CoverInv
  <1>8. WireInv'
    BY DEF LedgerInv, WireInv, Counted, Retained
  <1> QED BY <1>4, <1>6, <1>7, <1>8 DEF LedgerInv

(* A move of the clock never widens the set of retained periods.             *)
LEMMA ClockMoveInv ==
    ASSUME TypeOK, LedgerInv, ClockMove
    PROVE  TypeOK' /\ LedgerInv'
  <1> USE DEF ClockMove, ledgerVars, procVars
  <1>1. PICK d \in Periods : day' = d /\ maxDay' = MaxOf(maxDay, d)
    OBVIOUS
  <1>2. /\ maxDay \in Periods /\ maxDay \in Nat /\ d \in Nat
        /\ maxDay' \in Periods /\ day' <= maxDay' /\ maxDay <= maxDay'
    BY <1>1, QuotaAssumption DEF TypeOK, MaxOf, Periods
  <1>3. TypeOK'
    BY <1>1, <1>2 DEF TypeOK, IsUsage
  <1>4. WatermarkInv' /\ FlightInv' /\ CoverInv'
    BY DEF LedgerInv, WatermarkInv, FlightInv, CoverInv, Covers, WithinLimits, Settled
  <1>5. \A a \in Accts : Retained(a)' \subseteq Retained(a) /\ Counted(a)' = Counted(a)
    <2> SUFFICES ASSUME NEW a \in Accts
                 PROVE  Retained(a)' \subseteq Retained(a) /\ Counted(a)' = Counted(a)
      OBVIOUS
    <2>1. periodOf(a[2], maxDay) <= periodOf(a[2], maxDay')
      BY <1>2, PeriodMonotone
    <2>2. periodOf(a[2], maxDay) \in Periods /\ periodOf(a[2], maxDay') \in Periods
      BY <1>2, PeriodType
    <2>3. Retained(a)' = {p \in Periods : p >= periodOf(a[2], maxDay') - 2}
      BY DEF Retained, periodOf
    <2>4. Retained(a)' \subseteq Retained(a)
      BY <2>1, <2>2, <2>3, QuotaAssumption DEF Retained, Periods
    <2>5. Counted(a)' = Counted(a)
      BY DEF Counted
    <2> QED BY <2>4, <2>5
  <1>6. WireInv'
    BY <1>2, <1>5 DEF LedgerInv, WireInv
  <1> QED BY <1>3, <1>4, <1>6 DEF LedgerInv

(* The steps that touch one control variable.                                *)
LEMMA SmallStepInv ==
    ASSUME TypeOK, LedgerInv,
           \/ CooldownElapsed \/ BeginStop
           \/ \E c \in Conns : ConnExit(c)
           \/ UNCHANGED vars
    PROVE  TypeOK' /\ LedgerInv'
  <1>1. /\ UNCHANGED <<used, durable, flushPending, flushErr, flushing, fpc, snap, stored, day,
                       maxDay, wire, lossy>>
        /\ phase' = phase \/ (phase = "up" /\ phase' = "stopping")
    BY DEF CooldownElapsed, BeginStop, ConnExit, vars, ledgerVars, procVars, boundVars
  <1>2. TypeOK'
    <2>1. CASE CooldownElapsed
      BY <2>1 DEF TypeOK, CooldownElapsed, procVars, boundVars, IsUsage
    <2>2. CASE BeginStop
      BY <2>2 DEF TypeOK, BeginStop, ledgerVars, procVars, IsUsage
    <2>3. ASSUME NEW c \in Conns, ConnExit(c) PROVE TypeOK'
      BY <2>3 DEF TypeOK, ConnExit, ledgerVars, boundVars, IsUsage
    <2>4. CASE UNCHANGED vars
      BY <2>4 DEF TypeOK, vars, ledgerVars, procVars, boundVars, IsUsage
    <2> QED BY <2>1, <2>2, <2>3, <2>4
  <1>3. WatermarkInv' /\ FlightInv' /\ CoverInv'
    BY <1>1 DEF LedgerInv, WatermarkInv, FlightInv, CoverInv, Covers, WithinLimits, Settled
  <1>4. WireInv'
    BY <1>1 DEF LedgerInv, WireInv, Counted, Retained
  <1> QED BY <1>2, <1>3, <1>4 DEF LedgerInv

(* A connection's goroutine is inside runFlush only from its retry.          *)
LEMMA RetryStep ==
    ASSUME TypeOK, LedgerInv, RetryInv, [Next]_vars
    PROVE  RetryInv'
  <1>1. fpc \in [Procs -> {"off", "check", "saving"}]
    BY DEF TypeOK
  <1>2. Conns \subseteq Procs /\ Helpers \subseteq Procs /\ Conns \cap Helpers = {}
    BY QuotaAssumption DEF Procs
  <1>3. ASSUME NEW c \in Conns, NEW r, NEW n, NEW aon, Grant(c, r, n, aon), pc[c] # "retrying"
        PROVE  RetryInv'
    <2>1. pc' = [pc EXCEPT ![c] = "holding"]
      BY <1>3 DEF Grant
    <2>2. fpc' = fpc \/ \E h \in Helpers : fpc' = [fpc EXCEPT ![h] = "check"]
      BY <1>3 DEF Grant
    <2>3. \A k \in Conns : fpc'[k] = fpc[k]
      BY <1>1, <1>2, <2>2
    <2> QED BY <1>3, <2>1, <2>3 DEF RetryInv, TypeOK
  <1>4. ASSUME NEW c \in Conns, NEW r, NEW n, NEW aon, Deny(c, r, n, aon), pc[c] # "retrying"
        PROVE  RetryInv'
    BY <1>4 DEF RetryInv, Deny, TypeOK
  <1>5. ASSUME NEW c \in Conns, Reserve(c)
        PROVE  RetryInv'
    <2>1. PICK r \in Rules, n \in Requests, aon \in BOOLEAN :
              \/ ReserveGrant(c, r, n, aon) \/ ReserveDeny(c, r, n, aon)
              \/ ReserveRetry(c, r, n, aon) \/ ReserveFailBusy(c, r)
      BY <1>5 DEF Reserve
    <2>2. CASE ReserveGrant(c, r, n, aon)
      BY <1>3, <2>2 DEF ReserveGrant, CanReserve
    <2>3. CASE ReserveDeny(c, r, n, aon)
      BY <1>4, <2>3 DEF ReserveDeny, CanReserve
    <2>4. CASE ReserveRetry(c, r, n, aon)
      BY <1>1, <1>2, <2>4 DEF ReserveRetry, RetryInv, TypeOK
    <2>5. CASE ReserveFailBusy(c, r)
      BY <2>5 DEF ReserveFailBusy, RetryInv, procVars
    <2> QED BY <2>1, <2>2, <2>3, <2>4, <2>5
  <1>6. ASSUME NEW c \in Conns, ConnStep(c)
        PROVE  RetryInv'
    <2>1. CASE RetriedGrant(c)
      BY <1>3, <2>1 DEF RetriedGrant
    <2>2. CASE RetriedDeny(c)
      BY <1>4, <2>2 DEF RetriedDeny
    <2>3. CASE Finish(c) \/ ConnExit(c)
      BY <2>3 DEF Finish, ConnExit, RetryInv, TypeOK
    <2> QED BY <1>6, <2>1, <2>2, <2>3 DEF ConnStep
  <1>7. ASSUME NEW x \in Procs, FlushStep(x)
        PROVE  RetryInv'
    <2>1. CASE FlushSnapshot(x)
      BY <1>1, <1>2, <2>1 DEF FlushSnapshot, RetryInv
    <2>2. CASE FlushDrained(x)
      BY <1>1, <1>2, <2>2 DEF FlushDrained, RetryInv
    <2>3. CASE FlushSaved(x)
      BY <1>1, <1>2, <2>3 DEF FlushSaved, RetryInv
    <2>4. CASE FlushFailed(x)
      BY <1>1, <1>2, <2>4 DEF FlushFailed, RetryInv
    <2> QED BY <1>7, <2>1, <2>2, <2>3, <2>4 DEF FlushStep
  <1>8. CASE CooldownElapsed \/ BeginStop \/ SaveExact \/ Crash \/ ClockMove \/ UNCHANGED vars
    BY <1>8 DEF RetryInv, CooldownElapsed, BeginStop, SaveExact, Crash, ClockMove, vars, procVars
  <1>9. CASE Restart
    BY <1>2, <1>9 DEF RetryInv, Restart
  <1> QED
    BY <1>5, <1>6, <1>7, <1>8, <1>9 DEF Next

(* The induction step of the whole ledger.                                   *)
LEMMA StepInv ==
    ASSUME TypeOK, LedgerInv, RetryInv, [Next]_vars
    PROVE  TypeOK' /\ LedgerInv'
  <1>1. \A n \in Requests : n \in Nat
    BY QuotaAssumption
  <1>2. ASSUME NEW c \in Conns, Reserve(c)
        PROVE  TypeOK' /\ LedgerInv'
    <2>1. PICK r \in Rules, n \in Requests, aon \in BOOLEAN :
              \/ ReserveGrant(c, r, n, aon) \/ ReserveDeny(c, r, n, aon)
              \/ ReserveRetry(c, r, n, aon) \/ ReserveFailBusy(c, r)
      BY <1>2 DEF Reserve
    <2>2. CASE ReserveGrant(c, r, n, aon)
      BY <1>1, <2>2, GrantInv DEF ReserveGrant, CanReserve
    <2>3. CASE ReserveDeny(c, r, n, aon)
      BY <1>1, <2>3, DenyInv DEF ReserveDeny, CanReserve
    <2>4. CASE ReserveRetry(c, r, n, aon) \/ ReserveFailBusy(c, r)
      BY <1>1, <2>4, ReserveGatedInv
    <2> QED BY <2>1, <2>2, <2>3, <2>4
  <1>3. ASSUME NEW c \in Conns, ConnStep(c)
        PROVE  TypeOK' /\ LedgerInv'
    <2>1. CASE RetriedGrant(c) \/ RetriedDeny(c)
      <3>1. /\ call[c].rule \in Rules /\ call[c].bytes \in Nat /\ call[c].allOrNothing \in BOOLEAN
            /\ phase # "down"
        BY <1>3, <2>1 DEF TypeOK, RetriedGrant, RetriedDeny, ConnStep
      <3> QED BY <2>1, <3>1, GrantInv, DenyInv DEF RetriedGrant, RetriedDeny
    <2>2. CASE Finish(c)
      BY <1>3, <2>2, FinishInv DEF ConnStep
    <2>3. CASE ConnExit(c)
      BY <2>3, SmallStepInv
    <2> QED BY <1>3, <2>1, <2>2, <2>3 DEF ConnStep
  <1>4. ASSUME NEW x \in Procs, FlushStep(x)
        PROVE  TypeOK' /\ LedgerInv'
    <2>1. CASE FlushSnapshot(x)
      BY <2>1, FlushSnapshotInv
    <2>2. CASE FlushDrained(x)
      <3>1. x \in Conns => call[x].rule \in Rules
        BY <2>2 DEF FlushDrained, RetryInv, TypeOK
      <3> QED BY <2>2, <3>1, FlushDrainedInv
    <2>3. CASE FlushSaved(x)
      BY <1>4, <2>3, FlushSavedInv DEF FlushStep
    <2>4. CASE FlushFailed(x)
      BY <1>4, <2>4, FlushFailedInv DEF FlushStep
    <2> QED BY <1>4, <2>1, <2>2, <2>3, <2>4 DEF FlushStep
  <1>5. CASE CooldownElapsed \/ BeginStop \/ UNCHANGED vars
    BY <1>5, SmallStepInv
  <1> QED
    BY <1>2, <1>3, <1>4, <1>5, SaveExactInv, CrashInv, RestartInv, ClockMoveInv DEF Next

-----------------------------------------------------------------------------
(* The exact counts until the process first ends. *)

(* The goroutines whose reservation was charged to period p of account a.    *)
Holders(a, p) ==
    {c \in Conns : pc[c] = "holding" /\ a \in Charged(call[c].rule) /\ periodOf(a[2], call[c].day) = p}

(* The bytes they hold, each byte as a pair of its own: the sum of the       *)
(* reservations is the size of this set.                                     *)
HeldBytes(a, p) == UNION {{c} \X (1..call[c].bytes) : c \in Holders(a, p)}

(* A retained period counts what was forwarded, and no less than what is     *)
(* still reserved: a refund never finds less than it gives back.             *)
ExactInv ==
    crashes = 0 =>
        /\ phase = "up"
        /\ \A a \in Accts : \A p \in Retained(a) :
              /\ At(used[a], p) = wire[a][p]
              /\ IsFiniteSet(HeldBytes(a, p)) /\ Cardinality(HeldBytes(a, p)) <= wire[a][p]

(* The bytes of one reservation are as many as it says.                      *)
LEMMA BytesOfOne ==
    ASSUME NEW c, NEW n \in Nat
    PROVE  IsFiniteSet({c} \X (1..n)) /\ Cardinality({c} \X (1..n)) = n
  <1>1. IsFiniteSet({c}) /\ Cardinality({c}) = 1
    BY FS_Singleton
  <1>2. IsFiniteSet(1..n) /\ Cardinality(1..n) = n
    BY FS_Interval
  <1>3. IsFiniteSet({c} \X (1..n)) /\ Cardinality({c} \X (1..n)) = Cardinality({c}) * Cardinality(1..n)
    BY <1>1, <1>2, FS_Product
  <1> QED
    BY <1>1, <1>2, <1>3

(* A step that touches no reservation, count or forwarded byte of a retained *)
(* period.                                                                   *)
LEMMA ExactFrame ==
    ASSUME ExactInv, UNCHANGED wire, crashes' = 0 => crashes = 0 /\ phase' = "up",
           \A a \in Accts : Retained(a)' \subseteq Retained(a),
           \A a \in Accts : \A p \in Retained(a)' : At(used'[a], p) = At(used[a], p),
           \A c \in Conns : (pc'[c] = "holding" <=> pc[c] = "holding")
                            /\ (pc[c] = "holding" => call'[c] = call[c])
    PROVE  ExactInv'
  <1>1. ASSUME NEW a \in Accts, NEW p PROVE Holders(a, p)' = Holders(a, p)
    BY DEF Holders, Charged
  <1>2. ASSUME NEW a \in Accts, NEW p PROVE HeldBytes(a, p)' = HeldBytes(a, p)
    BY <1>1 DEF HeldBytes, Holders
  <1> QED
    BY <1>2 DEF ExactInv

(* Pruning drops no retained period.                                         *)
LEMMA DenyExact ==
    ASSUME TypeOK, LedgerInv, ExactInv, NEW c \in Conns, NEW r \in Rules, NEW n, NEW aon,
           Deny(c, r, n, aon), pc[c] # "holding"
    PROVE  ExactInv'
  <1>1. UNCHANGED <<wire, crashes, phase, maxDay>>
    BY DEF Deny, boundVars
  <1>2. \A a \in Accts : Retained(a)' = Retained(a)
    BY <1>1 DEF Retained
  <1>3. ASSUME NEW a \in Accts, NEW p \in Retained(a) PROVE At(used'[a], p) = At(used[a], p)
    <2>1. p \in Periods /\ Kept(a, p)
      BY RetainedKept DEF TypeOK, LedgerInv, WireInv, Retained
    <2> QED
      BY <2>1, DenyMaps DEF Pruned
  <1>4. \A k \in Conns : (pc'[k] = "holding" <=> pc[k] = "holding") /\ (pc[k] = "holding" => call'[k] = call[k])
    BY DEF Deny, TypeOK
  <1>5. crashes' = 0 => crashes = 0 /\ phase' = "up"
    BY <1>1 DEF ExactInv
  <1> QED
    BY <1>1, <1>2, <1>3, <1>4, <1>5, ExactFrame

(* A grant reserves the bytes it charges.                                    *)
LEMMA GrantExact ==
    ASSUME TypeOK, LedgerInv, ExactInv, NEW c \in Conns, NEW r \in Rules, NEW n \in Nat, NEW aon \in BOOLEAN,
           Grant(c, r, n, aon), pc[c] # "holding"
    PROVE  ExactInv'
  <1> DEFINE g == allowed(r, n)
             new(a, p) == a \in Charged(r) /\ p = periodOf(a[2], day)
  <1>1. /\ wire' = [a \in Accts |->
                      IF a \in Charged(r) THEN [wire[a] EXCEPT ![periodOf(a[2], day)] = @ + g] ELSE wire[a]]
        /\ pc' = [pc EXCEPT ![c] = "holding"]
        /\ call' = [call EXCEPT ![c] = [rule |-> r, bytes |-> g, allOrNothing |-> aon, day |-> day]]
        /\ UNCHANGED <<phase, maxDay, crashes>>
    BY DEF Grant, boundVars
  <1>2. g \in Nat /\ day \in Periods
    BY AllowedBound DEF TypeOK
  <1>3. \A a \in Accts : Retained(a)' = Retained(a)
    BY <1>1 DEF Retained
  <1>4. \A a \in Accts : \A p \in Periods :
            At(used'[a], p) = Pruned(r, used, a, p) + (IF new(a, p) THEN g ELSE 0)
    BY GrantMaps DEF LedgerInv, WatermarkInv
  <1> HIDE DEF g
  <1>5. ASSUME crashes = 0, NEW a \in Accts, NEW p \in Retained(a)
        PROVE  /\ At(used'[a], p) = wire'[a][p]
               /\ IsFiniteSet(HeldBytes(a, p)') /\ Cardinality(HeldBytes(a, p)') <= wire'[a][p]
    <2>1. p \in Periods /\ Kept(a, p)
      BY RetainedKept DEF TypeOK, LedgerInv, WireInv, Retained
    <2>2. /\ At(used[a], p) = wire[a][p] /\ IsFiniteSet(HeldBytes(a, p))
          /\ Cardinality(HeldBytes(a, p)) <= wire[a][p]
      BY <1>5 DEF ExactInv
    <2>3. wire[a] \in [Periods -> Int]
      BY DEF TypeOK
    <2>4. At(used'[a], p) = At(used[a], p) + (IF new(a, p) THEN g ELSE 0)
      BY <1>4, <2>1 DEF Pruned
    <2>5. wire'[a][p] = wire[a][p] + (IF new(a, p) THEN g ELSE 0)
      BY <1>1, <1>2, <2>1, <2>3
    <2>6. Cardinality(HeldBytes(a, p)) \in Nat /\ wire[a][p] \in Int
      BY <2>1, <2>2, <2>3, FS_CardinalityType
    <2>7. \A k \in Conns \ {c} : pc'[k] = pc[k] /\ call'[k] = call[k]
      BY <1>1 DEF TypeOK
    <2>8. pc'[c] = "holding" /\ call'[c].rule = r /\ call'[c].bytes = g /\ call'[c].day = day
      BY <1>1 DEF TypeOK
    <2>9. CASE new(a, p)
      <3>1. Holders(a, p)' = Holders(a, p) \cup {c} /\ c \notin Holders(a, p)
        BY <2>7, <2>8, <2>9 DEF Holders, Charged
      <3>2. HeldBytes(a, p)' = HeldBytes(a, p) \cup ({c} \X (1..g))
        BY <2>7, <2>8, <3>1 DEF HeldBytes, Holders
      <3>3. HeldBytes(a, p) \cap ({c} \X (1..g)) = {}
        BY <3>1 DEF HeldBytes
      <3>4. IsFiniteSet({c} \X (1..g)) /\ Cardinality({c} \X (1..g)) = g
        BY <1>2, BytesOfOne
      <3>5. /\ IsFiniteSet(HeldBytes(a, p)')
            /\ Cardinality(HeldBytes(a, p)') = Cardinality(HeldBytes(a, p)) + g - Cardinality({})
        BY <2>2, <3>2, <3>3, <3>4, FS_Union
      <3>6. Cardinality({}) = 0
        BY FS_EmptySet
      <3> QED
        BY <1>2, <2>2, <2>4, <2>5, <2>6, <2>9, <3>5, <3>6
    <2>10. CASE ~new(a, p)
      <3>1. Holders(a, p)' = Holders(a, p)
        BY <2>7, <2>8, <2>10 DEF Holders, Charged
      <3>2. c \notin Holders(a, p)
        BY DEF Holders
      <3>3. HeldBytes(a, p)' = HeldBytes(a, p)
        BY <2>7, <3>1, <3>2 DEF HeldBytes, Holders
      <3> QED
        BY <2>2, <2>4, <2>5, <2>6, <2>10, <3>3
    <2> QED
      BY <2>9, <2>10
  <1> QED
    BY <1>1, <1>3, <1>5 DEF ExactInv

(* finish gives back no more than its own reservation, which is counted.     *)
LEMMA FinishExact ==
    ASSUME TypeOK, LedgerInv, ExactInv, NEW c \in Conns, Finish(c)
    PROVE  ExactInv'
  <1> DEFINE r == call[c].rule
             b == call[c].bytes
             own(a, p) == a \in Charged(r) /\ p = periodOf(a[2], call[c].day)
  <1>1. PICK w \in 0..b :
            /\ used' = [a \in Accts |->
                          IF a \in Charged(r) /\ b - w > 0
                          THEN refundQuotaPeriod(used[a], periodOf(a[2], call[c].day), b - w)
                          ELSE used[a]]
            /\ wire' = [a \in Accts |->
                          IF a \in Charged(r) /\ b - w > 0
                          THEN [wire[a] EXCEPT ![periodOf(a[2], call[c].day)] = @ - (b - w)]
                          ELSE wire[a]]
    BY DEF Finish, reservedPeriod
  <1>2. /\ pc[c] = "holding" /\ pc'[c] # "holding"
        /\ \A k \in Conns \ {c} : pc'[k] = pc[k] /\ call'[k] = call[k]
        /\ UNCHANGED <<phase, maxDay, crashes>>
    BY DEF Finish, boundVars, TypeOK
  <1>3. b \in Nat /\ w \in Nat /\ w <= b /\ call[c].day \in Periods
    BY DEF TypeOK
  <1>4. \A a \in Accts : Retained(a)' = Retained(a)
    BY <1>2 DEF Retained
  <1> HIDE DEF b, r
  <1>5. ASSUME crashes = 0, NEW a \in Accts, NEW p \in Retained(a)
        PROVE  /\ At(used'[a], p) = wire'[a][p]
               /\ IsFiniteSet(HeldBytes(a, p)') /\ Cardinality(HeldBytes(a, p)') <= wire'[a][p]
    <2>1. p \in Periods
      BY DEF Retained
    <2>2. /\ At(used[a], p) = wire[a][p] /\ IsFiniteSet(HeldBytes(a, p))
          /\ Cardinality(HeldBytes(a, p)) <= wire[a][p]
      BY <1>5 DEF ExactInv
    <2>3. wire[a] \in [Periods -> Int]
      BY DEF TypeOK
    <2>4. Cardinality(HeldBytes(a, p)) \in Nat /\ wire[a][p] \in Int
      BY <2>1, <2>2, <2>3, FS_CardinalityType
    <2>5. CASE own(a, p)
      <3>1. Holders(a, p)' = Holders(a, p) \ {c} /\ c \in Holders(a, p)
        BY <1>2, <2>5 DEF Holders, Charged, r
      <3>2. HeldBytes(a, p) = HeldBytes(a, p)' \cup ({c} \X (1..b))
        BY <1>2, <3>1 DEF HeldBytes, Holders, b
      <3>3. HeldBytes(a, p)' \cap ({c} \X (1..b)) = {}
        BY <3>1 DEF HeldBytes
      <3>4. IsFiniteSet({c} \X (1..b)) /\ Cardinality({c} \X (1..b)) = b
        BY <1>3, BytesOfOne
      <3>5. IsFiniteSet(HeldBytes(a, p)')
        BY <2>2, <3>2, FS_Subset
      <3>6. Cardinality(HeldBytes(a, p)) = Cardinality(HeldBytes(a, p)') + b - Cardinality({})
        BY <3>2, <3>3, <3>4, <3>5, FS_Union
      <3>7. Cardinality({}) = 0 /\ Cardinality(HeldBytes(a, p)') \in Nat
        BY <3>5, FS_EmptySet, FS_CardinalityType
      <3>8. wire'[a][p] = wire[a][p] - (b - w)
        BY <1>1, <1>3, <2>1, <2>3, <2>4, <2>5
      <3>9. At(used'[a], p) = wire[a][p] - (b - w)
        <4>1. CASE b - w > 0
          <5>1. used'[a] = refundQuotaPeriod(used[a], p, b - w)
            BY <1>1, <2>5, <4>1
          <5>2. At(used'[a], p) = IF At(used[a], p) > b - w THEN At(used[a], p) - (b - w) ELSE 0
            BY <5>1, AtSet DEF refundQuotaPeriod
          <5>3. wire[a][p] >= b - w
            BY <1>3, <2>2, <2>4, <3>6, <3>7
          <5> QED
            BY <1>3, <2>2, <2>4, <5>2, <5>3
        <4>2. CASE ~(b - w > 0)
          <5>1. used'[a] = used[a] /\ b - w = 0
            BY <1>1, <1>3, <4>2
          <5> QED
            BY <2>2, <2>4, <5>1
        <4> QED
          BY <4>1, <4>2
      <3> QED
        BY <1>3, <2>2, <2>4, <3>5, <3>6, <3>7, <3>8, <3>9
    <2>6. CASE ~own(a, p)
      <3>1. Holders(a, p)' = Holders(a, p) /\ c \notin Holders(a, p)
        BY <1>2, <2>6 DEF Holders, Charged, r
      <3>2. HeldBytes(a, p)' = HeldBytes(a, p)
        BY <1>2, <3>1 DEF HeldBytes, Holders
      <3>3. wire'[a][p] = wire[a][p]
        BY <1>1, <2>1, <2>3, <2>6
      <3>4. At(used'[a], p) = At(used[a], p)
        <4>1. CASE a \in Charged(r) /\ b - w > 0
          <5>1. used'[a] = refundQuotaPeriod(used[a], periodOf(a[2], call[c].day), b - w)
            BY <1>1, <4>1
          <5>2. p # periodOf(a[2], call[c].day)
            BY <2>6, <4>1
          <5> QED
            BY <5>1, <5>2, AtSet DEF refundQuotaPeriod
        <4>2. CASE ~(a \in Charged(r) /\ b - w > 0)
          BY <1>1, <4>2
        <4> QED
          BY <4>1, <4>2
      <3> QED
        BY <2>2, <3>2, <3>3, <3>4
    <2> QED
      BY <2>5, <2>6
  <1> QED
    BY <1>2, <1>4, <1>5 DEF ExactInv

(* Every step keeps the counts exact until the process first ends.           *)
LEMMA ExactStep ==
    ASSUME TypeOK, LedgerInv, RetryInv, ExactInv, [Next]_vars
    PROVE  ExactInv'
  <1> DEFINE Calm == /\ UNCHANGED <<used, wire>>
                     /\ \A c \in Conns : (pc'[c] = "holding" <=> pc[c] = "holding")
                                         /\ (pc[c] = "holding" => call'[c] = call[c])
  <1>1. \A n \in Requests : n \in Nat
    BY QuotaAssumption
  <1>2. ASSUME Calm, UNCHANGED maxDay, UNCHANGED <<crashes, phase>> \/ crashes' # 0 PROVE ExactInv'
    <2>1. \A a \in Accts : Retained(a)' = Retained(a)
      BY <1>2 DEF Retained
    <2>2. crashes' = 0 => crashes = 0 /\ phase' = "up"
      BY <1>2 DEF ExactInv
    <2> QED
      BY <1>2, <2>1, <2>2, ExactFrame
  <1>3. ASSUME NEW c \in Conns, Reserve(c)
        PROVE  ExactInv'
    <2>1. PICK s \in Rules, n \in Requests, aon \in BOOLEAN :
              \/ ReserveGrant(c, s, n, aon) \/ ReserveDeny(c, s, n, aon)
              \/ ReserveRetry(c, s, n, aon) \/ ReserveFailBusy(c, s)
      BY <1>3 DEF Reserve
    <2>2. CASE ReserveGrant(c, s, n, aon)
      BY <1>1, <2>2, GrantExact DEF ReserveGrant, CanReserve
    <2>3. CASE ReserveDeny(c, s, n, aon)
      BY <2>3, DenyExact DEF ReserveDeny, CanReserve
    <2>4. CASE ReserveRetry(c, s, n, aon)
      <3>1. Calm /\ UNCHANGED <<maxDay, crashes, phase>>
        BY <2>4 DEF ReserveRetry, CanReserve, TypeOK, boundVars
      <3> QED
        BY <1>2, <3>1
    <2>5. CASE ReserveFailBusy(c, s)
      <3>1. Calm /\ UNCHANGED <<maxDay, crashes, phase>>
        BY <2>5 DEF ReserveFailBusy, procVars, boundVars
      <3> QED
        BY <1>2, <3>1
    <2> QED BY <2>1, <2>2, <2>3, <2>4, <2>5
  <1>4. ASSUME NEW c \in Conns, ConnStep(c)
        PROVE  ExactInv'
    <2>1. CASE RetriedGrant(c) \/ RetriedDeny(c)
      <3>1. /\ call[c].rule \in Rules /\ call[c].bytes \in Nat /\ call[c].allOrNothing \in BOOLEAN
            /\ pc[c] # "holding"
        BY <2>1 DEF TypeOK, RetriedGrant, RetriedDeny
      <3> QED BY <2>1, <3>1, GrantExact, DenyExact DEF RetriedGrant, RetriedDeny
    <2>2. CASE Finish(c)
      BY <2>2, FinishExact
    <2>3. CASE ConnExit(c)
      <3>1. Calm /\ UNCHANGED <<maxDay, crashes, phase>>
        BY <2>3 DEF ConnExit, ledgerVars, boundVars, TypeOK
      <3> QED
        BY <1>2, <3>1
    <2> QED BY <1>4, <2>1, <2>2, <2>3 DEF ConnStep
  <1>5. ASSUME NEW x \in Procs, FlushStep(x)
        PROVE  ExactInv'
    <2>1. x \in Conns => pc[x] = "retrying"
      BY <1>5 DEF FlushStep, FlushSnapshot, FlushDrained, FlushSaved, FlushFailed, RetryInv
    <2>2. Calm /\ UNCHANGED <<maxDay, crashes, phase>>
      <3>1. CASE FlushSnapshot(x)
        BY <3>1 DEF FlushSnapshot, boundVars
      <3>2. CASE FlushDrained(x)
        BY <2>1, <3>2 DEF FlushDrained, boundVars
      <3>3. CASE FlushSaved(x)
        BY <3>3 DEF FlushSaved, ledgerVars, boundVars
      <3>4. CASE FlushFailed(x)
        BY <2>1, <3>4 DEF FlushFailed
      <3> QED
        BY <1>5, <3>1, <3>2, <3>3, <3>4 DEF FlushStep
    <2> QED
      BY <1>2, <2>2
  <1>6. ASSUME CooldownElapsed \/ UNCHANGED vars PROVE ExactInv'
    <2>1. Calm /\ UNCHANGED <<maxDay, crashes, phase>>
      BY <1>6 DEF CooldownElapsed, vars, ledgerVars, procVars, boundVars
    <2> QED
      BY <1>2, <2>1
  <1>7. ASSUME BeginStop \/ Crash PROVE ExactInv'
    <2>1. Calm /\ UNCHANGED maxDay /\ crashes' = crashes + 1
      BY <1>7 DEF BeginStop, Crash, ledgerVars, procVars
    <2>2. crashes' # 0
      BY <2>1 DEF TypeOK
    <2> QED
      BY <1>2, <2>1, <2>2
  <1>8. ASSUME SaveExact \/ Restart PROVE ExactInv'
    <2>1. crashes' = crashes /\ phase # "up"
      BY <1>8 DEF SaveExact, Restart, boundVars
    <2> QED
      BY <2>1 DEF ExactInv
  <1>9. ASSUME ClockMove PROVE ExactInv'
    <2>1. Calm /\ UNCHANGED <<crashes, phase>>
      BY <1>9 DEF ClockMove, ledgerVars, procVars
    <2>2. PICK d \in Periods : maxDay' = MaxOf(maxDay, d)
      BY <1>9 DEF ClockMove
    <2>3. maxDay' \in Periods /\ maxDay <= maxDay'
      BY <2>2, QuotaAssumption DEF TypeOK, Periods, MaxOf
    <2>4. ASSUME NEW a \in Accts PROVE Retained(a)' \subseteq Retained(a)
      <3>1. periodOf(a[2], maxDay) <= periodOf(a[2], maxDay')
        BY <2>3, PeriodMonotone DEF TypeOK
      <3>2. periodOf(a[2], maxDay) \in Periods /\ periodOf(a[2], maxDay') \in Periods
        BY <2>3, PeriodType DEF TypeOK
      <3> QED
        BY <3>1, <3>2, QuotaAssumption DEF Retained, Periods
    <2>5. crashes' = 0 => crashes = 0 /\ phase' = "up"
      BY <2>1 DEF ExactInv
    <2> QED
      BY <2>1, <2>4, <2>5, ExactFrame
  <1> HIDE DEF Calm
  <1> QED
    BY <1>3, <1>4, <1>5, <1>6, <1>7, <1>8, <1>9 DEF Next

-----------------------------------------------------------------------------
(* The theorems. *)

(* The inductive invariant holds in every reachable state of the ledger.     *)
THEOREM LedgerInvariant == Spec => [](TypeOK /\ LedgerInv /\ RetryInv)
  <1>1. Init => TypeOK /\ LedgerInv /\ RetryInv
    BY InitInv, QuotaAssumption DEF Init, RetryInv, Procs
  <1>2. (TypeOK /\ LedgerInv /\ RetryInv) /\ [Next]_vars => (TypeOK /\ LedgerInv /\ RetryInv)'
    BY StepInv, RetryStep
  <1> QED
    BY <1>1, <1>2, PTL DEF Spec

(* Every reachable ledger is well typed: no count of quotaRuleUsage is ever  *)
(* negative or outside the calendar, in memory, in a snapshot or in the file.*)
THEOREM TypeCorrect == Spec => []TypeOK
  BY LedgerInvariant, PTL

(* runFlush is single-flight, for any number of connections and helpers.     *)
THEOREM SingleFlightHolds == Spec => []SingleFlight
  <1>1. TypeOK /\ LedgerInv /\ RetryInv => SingleFlight
    BY DEF LedgerInv, FlightInv, SingleFlight
  <1> QED
    BY <1>1, LedgerInvariant, PTL

(* A settled ledger has every counted byte in quota-state.json.              *)
THEOREM SettledMeansStoredHolds == Spec => []SettledMeansStored
  <1>1. TypeOK /\ LedgerInv /\ RetryInv => SettledMeansStored
    <2> SUFFICES ASSUME TypeOK, LedgerInv, Settled, NEW a \in Accts, NEW p \in Periods
                 PROVE  At(used[a], p) <= At(stored[a], p)
      BY DEF SettledMeansStored
    <2>1. At(used[a], p) <= At(durable[a], p) /\ At(durable[a], p) <= At(stored[a], p)
      BY DEF LedgerInv, WatermarkInv, CoverInv, Covers
    <2>2. At(used[a], p) \in Nat /\ At(durable[a], p) \in Nat /\ At(stored[a], p) \in Nat
      BY AtNat DEF TypeOK, IsUsage
    <2> QED BY <2>1, <2>2
  <1> QED
    BY <1>1, LedgerInvariant, PTL

(* The quota holds: unless the process ended with the ledger unsettled, no   *)
(* retained period of any rule ever forwards more than its limit.            *)
THEOREM QuotaNeverExceededHolds == Spec => []QuotaNeverExceeded
  <1>1. TypeOK /\ LedgerInv /\ RetryInv => QuotaNeverExceeded
    <2> SUFFICES ASSUME TypeOK, LedgerInv, ~lossy, NEW a \in Accts, Limit[a] > 0,
                        NEW p \in Retained(a)
                 PROVE  wire[a][p] <= Limit[a]
      BY DEF QuotaNeverExceeded
    <2>1. p \in Periods /\ wire[a][p] <= At(Counted(a), p)
      BY DEF LedgerInv, WireInv, Retained
    <2>2. At(Counted(a), p) <= Limit[a]
      <3>1. At(used[a], p) <= At(durable[a], p) /\ At(durable[a], p) <= Limit[a]
        BY <2>1 DEF LedgerInv, WatermarkInv, Covers, WithinLimits
      <3>2. At(stored[a], p) <= Limit[a]
        BY <2>1 DEF LedgerInv, WatermarkInv, WithinLimits
      <3>3. At(used[a], p) \in Nat /\ At(durable[a], p) \in Nat /\ Limit[a] \in Nat
        BY AtNat, QuotaAssumption DEF TypeOK, IsUsage
      <3> QED BY <3>1, <3>2, <3>3 DEF Counted
    <2>3. wire[a][p] \in Int /\ At(Counted(a), p) \in Int /\ Limit[a] \in Int
      <3>1. At(used[a], p) \in Nat /\ At(stored[a], p) \in Nat
        BY AtNat DEF TypeOK, IsUsage
      <3> QED BY <2>1, <3>1, QuotaAssumption DEF TypeOK, Counted
    <2> QED BY <2>1, <2>2, <2>3
  <1> QED
    BY <1>1, LedgerInvariant, PTL

(* Until the process first ends, the ledger counts a retained period to the  *)
(* byte: every refund goes to the periods that were charged and finds the    *)
(* bytes it gives back, for any number of goroutines and any clock.          *)
THEOREM UsageExactHolds == Spec => []UsageExact
  <1>1. Init => ExactInv
    <2> SUFFICES ASSUME Init PROVE ExactInv
      OBVIOUS
    <2>1. \A a \in Accts, p \in Periods : At(used[a], p) = 0 /\ wire[a][p] = 0
      BY DEF Init, At, EmptyMap
    <2>2. \A a, p : HeldBytes(a, p) = {}
      BY DEF Init, HeldBytes, Holders
    <2>3. IsFiniteSet({}) /\ Cardinality({}) = 0 /\ phase = "up"
      BY FS_EmptySet DEF Init
    <2>4. \A a \in Accts : Retained(a) \subseteq Periods
      BY DEF Retained
    <2> QED
      BY <2>1, <2>2, <2>3, <2>4 DEF ExactInv
  <1>2. (TypeOK /\ LedgerInv /\ RetryInv) /\ ExactInv /\ [Next]_vars => ExactInv'
    BY ExactStep
  <1>3. ExactInv => UsageExact
    BY DEF ExactInv, UsageExact
  <1> QED
    BY <1>1, <1>2, <1>3, LedgerInvariant, PTL DEF Spec

-----------------------------------------------------------------------------
(* The rate limiter: its queue, its turns and its bucket. *)

(* The stages of a call in progress. *)
Busy == {"waiting", "turn", "polling", "sleeping"}

(* The inductive invariant of the limiter. *)
LimiterInv == LimiterTypeOK /\ QueueIsLive /\ OneTurn /\ OnlyHeadPolls /\ TurnInv /\ BucketInv

(* The queue and turn part of the invariant. *)
FifoInv == QueueIsLive /\ OneTurn /\ OnlyHeadPolls /\ TurnInv

(* Dropping one entry of the queue keeps the others, in order.               *)
LEMMA WithoutSeq ==
    ASSUME NEW q \in Seq(Waiters), NEW k \in 1..Len(q)
    PROVE  /\ Without(q, k) \in Seq(Waiters)
           /\ Len(Without(q, k)) = Len(q) - 1
           /\ \A i \in 1..(Len(q) - 1) : Without(q, k)[i] = IF i < k THEN q[i] ELSE q[i + 1]
  <1>1. Len(q) - 1 \in Nat
    OBVIOUS
  <1>2. \A i \in 1..(Len(q) - 1) : (IF i < k THEN q[i] ELSE q[i + 1]) \in Waiters
    OBVIOUS
  <1> QED BY <1>1, <1>2 DEF Without

(* p holds the entries of q other than the one at index k, each once. *)
Distinct(q) == \A i, j \in 1..Len(q) : q[i] = q[j] => i = j
Remains(q, k, p) ==
    /\ \A i \in 1..Len(p) : p[i] # q[k] /\ p[i] \in Waiters
    /\ \A i, j \in 1..Len(p) : p[i] = p[j] => i = j
    /\ \A v \in Waiters : v # q[k] =>
          ((\E i \in 1..Len(q) : q[i] = v) <=> \E i \in 1..Len(p) : p[i] = v)

(* The entries that remain are the others, each still once.                  *)
LEMMA WithoutMembers ==
    ASSUME NEW q \in Seq(Waiters), NEW k \in 1..Len(q), Distinct(q)
    PROVE  Remains(q, k, Without(q, k))
  <1> DEFINE p == Without(q, k)
  <1>0. p = Without(q, k) /\ \A i, j \in 1..Len(q) : q[i] = q[j] => i = j
    BY DEF Distinct
  <1>1. /\ p \in Seq(Waiters) /\ Len(p) = Len(q) - 1 /\ Len(q) \in Nat
        /\ k \in Int /\ 1 <= k /\ k <= Len(q)
    BY WithoutSeq
  <1> HIDE DEF p
  <1>2. \A i \in 1..Len(p) : p[i] = IF i < k THEN q[i] ELSE q[i + 1]
    BY <1>0, <1>1, WithoutSeq
  <1>3. \A i \in 1..Len(p) : i \in 1..Len(q) /\ i + 1 \in 1..Len(q) /\ i \in Int
    BY <1>1
  <1>4. \A i \in 1..Len(p) : p[i] # q[k] /\ p[i] \in Waiters
    <2> SUFFICES ASSUME NEW i \in 1..Len(p) PROVE p[i] # q[k] /\ p[i] \in Waiters
      OBVIOUS
    <2>1. CASE i < k
      BY <1>0, <1>1, <1>2, <1>3, <2>1
    <2>2. CASE ~(i < k)
      <3>1. i + 1 # k
        BY <1>1, <1>3, <2>2
      <3> QED BY <1>0, <1>1, <1>2, <1>3, <2>2, <3>1
    <2> QED BY <2>1, <2>2
  <1>5. \A i, j \in 1..Len(p) : p[i] = p[j] => i = j
    <2> SUFFICES ASSUME NEW i \in 1..Len(p), NEW j \in 1..Len(p), p[i] = p[j] PROVE i = j
      OBVIOUS
    <2> DEFINE I == IF i < k THEN i ELSE i + 1
               J == IF j < k THEN j ELSE j + 1
    <2>1. p[i] = q[I] /\ p[j] = q[J] /\ I \in 1..Len(q) /\ J \in 1..Len(q)
      BY <1>2, <1>3
    <2>2. I = J
      BY <1>0, <2>1
    <2> QED BY <1>1, <1>3, <2>2
  <1>6. ASSUME NEW v \in Waiters, v # q[k], NEW i \in 1..Len(q), q[i] = v
        PROVE  \E j \in 1..Len(p) : p[j] = v
    <2>1. CASE i < k
      <3>1. i \in 1..Len(p)
        BY <1>1, <2>1
      <3> QED BY <1>2, <1>6, <2>1, <3>1
    <2>2. CASE i > k
      <3>1. i - 1 \in 1..Len(p) /\ ~(i - 1 < k) /\ (i - 1) + 1 = i
        BY <1>1, <2>2
      <3>2. p[i - 1] = q[(i - 1) + 1]
        BY <1>2, <3>1
      <3> QED BY <1>6, <3>1, <3>2
    <2>3. i # k /\ i \in Int
      BY <1>6
    <2> QED BY <1>1, <2>1, <2>2, <2>3
  <1>7. ASSUME NEW v \in Waiters, NEW j \in 1..Len(p), p[j] = v
        PROVE  \E i \in 1..Len(q) : q[i] = v
    BY <1>2, <1>3, <1>7
  <1>8. Remains(q, k, p)
    BY <1>4, <1>5, <1>6, <1>7 DEF Remains
  <1> QED BY <1>0, <1>8

(* cancel and popHeadLocked: when the waiter at index k leaves and the turn  *)
(* is handed on exactly if it was head, the queue discipline is kept.        *)
LEMMA LeaveFifo ==
    ASSUME LimiterTypeOK, FifoInv, NEW w \in Waiters, NEW k \in 1..Len(queue), queue[k] = w,
           queue' = Without(queue, k),
           closes' = (IF k = 1 THEN CloseHead(queue') ELSE closes),
           NEW end \in {"granted", "failed"}, stage' = [stage EXCEPT ![w] = end]
    PROVE  queue' \in Seq(Waiters) /\ closes' \in [Waiters -> Nat] /\ FifoInv'
  <1>1. /\ queue \in Seq(Waiters) /\ closes \in [Waiters -> Nat]
        /\ stage \in [Waiters -> Busy \cup {"start", "granted", "failed"}]
    BY DEF LimiterTypeOK, Busy
  <1>2. /\ queue' \in Seq(Waiters)
        /\ Len(queue') = Len(queue) - 1
        /\ \A i \in 1..(Len(queue) - 1) : queue'[i] = IF i < k THEN queue[i] ELSE queue[i + 1]
    BY <1>1, WithoutSeq
  <1>3. closes' \in [Waiters -> Nat]
    BY <1>1 DEF CloseHead
  <1>a. Distinct(queue)
    BY DEF FifoInv, QueueIsLive, Distinct
  <1>d. Remains(queue, k, queue')
    BY <1>1, <1>a, WithoutMembers
  <1>b. /\ \A i \in 1..Len(queue') : queue'[i] # queue[k] /\ queue'[i] \in Waiters
        /\ \A i, j \in 1..Len(queue') : queue'[i] = queue'[j] => i = j
        /\ \A v \in Waiters : v # queue[k] =>
              ((\E i \in 1..Len(queue) : queue[i] = v) <=> \E i \in 1..Len(queue') : queue'[i] = v)
    BY <1>d DEF Remains
  <1>4. \A i \in 1..Len(queue') : queue'[i] # w /\ queue'[i] \in Waiters
    BY <1>b
  <1>5. \A i, j \in 1..Len(queue') : queue'[i] = queue'[j] => i = j
    BY <1>b
  <1>6. \A v \in Waiters : v # w =>
            ((\E i \in 1..Len(queue) : queue[i] = v) <=> \E i \in 1..Len(queue') : queue'[i] = v)
    BY <1>b
  <1>c. /\ Len(queue) \in Nat /\ Len(queue') \in Nat
        /\ \A i \in 1..Len(queue') : i \in 1..Len(queue) /\ i + 1 \in 1..Len(queue) /\ i + 1 # 1 /\ i \in Int
        /\ \A i \in 1..Len(queue') : queue'[i] = IF i < k THEN queue[i] ELSE queue[i + 1]
    BY <1>1, <1>2
  <1>7. QueueIsLive'
    <2>1. \A v \in Waiters : v # w => stage'[v] = stage[v]
      BY <1>1
    <2>2. stage'[w] = end /\ end \notin Busy
      BY <1>1 DEF Busy
    <2> QED BY <1>4, <1>5, <1>6, <2>1, <2>2 DEF QueueIsLive, FifoInv, Busy
  <1>8. OneTurn'
    <2>1. CASE k = 1 /\ Len(queue') > 0
      <3>1. Head(queue') = queue'[1] /\ queue' # <<>>
        BY <1>2, <2>1
      <3>2. closes' = [v \in Waiters |-> closes[v] + (IF v = queue'[1] THEN 1 ELSE 0)]
        BY <2>1, <3>1 DEF CloseHead
      <3>3. \A i \in 1..Len(queue') : closes[queue'[i]] = 0
        <4>1. \A i \in 1..Len(queue') : queue'[i] = queue[i + 1]
          BY <1>c, <2>1
        <4> QED BY <1>c, <4>1 DEF FifoInv, OneTurn
      <3>4. \A i \in 1..Len(queue') : closes'[queue'[i]] = (IF i = 1 THEN 1 ELSE 0)
        BY <1>1, <1>2, <1>4, <1>5, <2>1, <3>2, <3>3
      <3>5. queue'[1] \in Waiters /\ closes[queue'[1]] = 0
        BY <1>2, <1>4, <2>1, <3>3
      <3>6. \A v \in Waiters : closes'[v] <= 1
        BY <1>1, <3>2, <3>5 DEF FifoInv, OneTurn
      <3> QED BY <3>4, <3>6 DEF OneTurn
    <2>2. CASE k = 1 /\ Len(queue') = 0
      <3>1. closes' = closes
        BY <1>1, <1>2, <2>2 DEF CloseHead
      <3> QED BY <1>2, <2>2, <3>1 DEF OneTurn, FifoInv
    <2>3. CASE k > 1
      <3>1. closes' = closes
        BY <2>3
      <3>2. \A i \in 1..Len(queue') : i = 1 => i < k
        BY <2>3
      <3>3. \A i \in 1..Len(queue') : closes[queue'[i]] = (IF i = 1 THEN 1 ELSE 0)
        BY <1>c, <3>2 DEF OneTurn, FifoInv
      <3> QED BY <3>1, <3>3 DEF OneTurn, FifoInv
    <2>4. Len(queue') \in Nat
      BY <1>2
    <2> QED BY <2>1, <2>2, <2>3, <2>4
  <1>9. OnlyHeadPolls'
    <2> SUFFICES ASSUME NEW v \in Waiters, stage'[v] \in {"turn", "polling", "sleeping"}
                 PROVE  queue' # <<>> /\ Head(queue') = v
      BY DEF OnlyHeadPolls
    <2>1. v # w /\ stage[v] \in {"turn", "polling", "sleeping"}
      BY <1>1
    <2>2. queue # <<>> /\ Head(queue) = v
      BY <2>1 DEF FifoInv, OnlyHeadPolls
    <2>3. queue[1] = v /\ k # 1
      BY <1>1, <2>1, <2>2
    <2>4. Len(queue') >= 1 /\ queue'[1] = v
      BY <1>1, <1>2, <2>3
    <2> QED BY <1>2, <2>4
  <1>10. TurnInv'
    <2>1. \A v \in Waiters : stage'[v] = "start" => stage[v] = "start"
      BY <1>1
    <2>2. ASSUME NEW v \in Waiters, stage[v] = "start" PROVE closes'[v] = 0
      <3>1. closes[v] = 0 /\ ~ \E i \in 1..Len(queue) : queue[i] = v
        BY <2>2 DEF FifoInv, TurnInv, QueueIsLive
      <3>2. v # w /\ ~ \E i \in 1..Len(queue') : queue'[i] = v
        BY <1>6, <3>1
      <3>3. queue' # <<>> => Head(queue') # v
        BY <1>2, <3>2
      <3> QED BY <1>1, <3>1, <3>3 DEF CloseHead
    <2> QED BY <2>1, <2>2 DEF TurnInv
  <1> QED
    BY <1>2, <1>3, <1>7, <1>8, <1>9, <1>10 DEF FifoInv

(* A new call goes to the back of the queue, and has the turn only if it is  *)
(* alone there.                                                              *)
LEMMA EnqueueFifo ==
    ASSUME LimiterTypeOK, FifoInv, NEW w \in Waiters, NEW n \in Sizes, Enqueue(w, n)
    PROVE  queue' \in Seq(Waiters) /\ closes' \in [Waiters -> Nat] /\ FifoInv'
  <1>1. /\ queue \in Seq(Waiters) /\ closes \in [Waiters -> Nat]
        /\ stage \in [Waiters -> Busy \cup {"start", "granted", "failed"}]
    BY DEF LimiterTypeOK, Busy
  <1>2. /\ queue' = Append(queue, w) /\ stage[w] = "start"
        /\ stage' = [stage EXCEPT ![w] = "waiting"]
        /\ closes' = IF Len(queue) = 0 THEN CloseHead(queue') ELSE closes
    BY DEF Enqueue
  <1>3. /\ queue' \in Seq(Waiters) /\ Len(queue') = Len(queue) + 1 /\ Len(queue) \in Nat
        /\ \A i \in 1..Len(queue) : queue'[i] = queue[i]
        /\ queue'[Len(queue) + 1] = w
        /\ queue' # <<>> /\ Head(queue') = queue'[1]
    BY <1>1, <1>2
  <1>4. closes' \in [Waiters -> Nat]
    BY <1>1, <1>2 DEF CloseHead
  <1>5. ~ \E i \in 1..Len(queue) : queue[i] = w
    BY <1>2 DEF FifoInv, QueueIsLive
  <1>6. \A i \in 1..Len(queue') : i \in 1..Len(queue) \/ i = Len(queue) + 1
    BY <1>3
  <1>7. QueueIsLive'
    <2>1. \A i, j \in 1..Len(queue') : queue'[i] = queue'[j] => i = j
      BY <1>3, <1>5, <1>6 DEF FifoInv, QueueIsLive
    <2>2. \A v \in Waiters : v # w =>
            ((\E i \in 1..Len(queue) : queue[i] = v) <=> \E i \in 1..Len(queue') : queue'[i] = v)
      BY <1>3, <1>6
    <2>3. \E i \in 1..Len(queue') : queue'[i] = w
      BY <1>3
    <2>4. stage'[w] = "waiting" /\ \A v \in Waiters : v # w => stage'[v] = stage[v]
      BY <1>1, <1>2
    <2> QED BY <2>1, <2>2, <2>3, <2>4 DEF FifoInv, QueueIsLive
  <1>8. closes[w] = 0
    BY <1>2 DEF FifoInv, TurnInv
  <1>9. OneTurn'
    <2>1. CASE Len(queue) = 0
      <3>1. closes' = [v \in Waiters |-> closes[v] + (IF v = w THEN 1 ELSE 0)]
        BY <1>2, <1>3, <2>1 DEF CloseHead
      <3>2. \A v \in Waiters : closes'[v] <= 1
        BY <1>1, <1>8, <3>1 DEF FifoInv, OneTurn
      <3>3. \A i \in 1..Len(queue') : i = 1 /\ queue'[i] = w
        BY <1>3, <2>1
      <3> QED BY <1>8, <3>1, <3>2, <3>3 DEF OneTurn
    <2>2. CASE Len(queue) # 0
      <3>1. closes' = closes
        BY <1>2, <2>2
      <3>2. \A i \in 1..Len(queue') : closes[queue'[i]] = (IF i = 1 THEN 1 ELSE 0)
        BY <1>3, <1>6, <1>8, <2>2 DEF FifoInv, OneTurn
      <3> QED BY <3>1, <3>2 DEF FifoInv, OneTurn
    <2> QED BY <2>1, <2>2
  <1>10. OnlyHeadPolls'
    <2> SUFFICES ASSUME NEW v \in Waiters, stage'[v] \in {"turn", "polling", "sleeping"}
                 PROVE  Head(queue') = v
      BY <1>3 DEF OnlyHeadPolls
    <2>1. stage[v] \in {"turn", "polling", "sleeping"}
      BY <1>1, <1>2
    <2>2. queue # <<>> /\ Head(queue) = v
      BY <2>1 DEF FifoInv, OnlyHeadPolls
    <2>3. queue[1] = v /\ 1 \in 1..Len(queue)
      BY <1>1, <2>2
    <2> QED BY <1>3, <2>3
  <1>11. TurnInv'
    <2> SUFFICES ASSUME NEW v \in Waiters, stage'[v] = "start" PROVE closes'[v] = 0
      BY DEF TurnInv
    <2>1. v # w /\ stage[v] = "start"
      BY <1>1, <1>2
    <2>2. closes[v] = 0
      BY <2>1 DEF FifoInv, TurnInv
    <2>3. Len(queue) = 0 => Head(queue') = w
      BY <1>3
    <2> QED BY <1>1, <1>2, <2>1, <2>2, <2>3 DEF CloseHead
  <1> QED BY <1>3, <1>4, <1>7, <1>9, <1>10, <1>11 DEF FifoInv

(* Steps that leave queue and turns alone keep the discipline, if who is in  *)
(* the queue stays busy and only the head goes past its turn.                *)
LEMMA QuietFifo ==
    ASSUME LimiterTypeOK, FifoInv, UNCHANGED <<queue, closes>>, NEW w \in Waiters,
           NEW to \in {"turn", "polling", "sleeping"}, stage' = [stage EXCEPT ![w] = to],
           queue # <<>>, Head(queue) = w
    PROVE  FifoInv'
  <1>1. /\ queue \in Seq(Waiters) /\ stage \in [Waiters -> Busy \cup {"start", "granted", "failed"}]
    BY DEF LimiterTypeOK, Busy
  <1>2. 1 \in 1..Len(queue) /\ queue[1] = w
    BY <1>1
  <1>3. stage[w] \in Busy /\ stage'[w] = to /\ \A v \in Waiters : v # w => stage'[v] = stage[v]
    BY <1>1, <1>2 DEF FifoInv, QueueIsLive, Busy
  <1>4. QueueIsLive'
    <2>1. \A v \in Waiters : stage'[v] \in Busy <=> stage[v] \in Busy
      BY <1>3 DEF Busy
    <2> QED BY <2>1 DEF FifoInv, QueueIsLive, Busy
  <1>5. OneTurn'
    BY DEF FifoInv, OneTurn
  <1>6. OnlyHeadPolls'
    BY <1>3 DEF FifoInv, OnlyHeadPolls
  <1>7. TurnInv'
    BY <1>3 DEF FifoInv, TurnInv
  <1> QED BY <1>4, <1>5, <1>6, <1>7 DEF FifoInv

(* A waiter whose turn channel is closed, and one past it, is the head.      *)
LEMMA HeadHasTurn ==
    ASSUME LimiterTypeOK, FifoInv, NEW w \in Waiters,
           \/ stage[w] = "waiting" /\ closes[w] > 0
           \/ stage[w] \in {"turn", "polling", "sleeping"}
    PROVE  queue # <<>> /\ Head(queue) = w
  <1>1. CASE stage[w] \in {"turn", "polling", "sleeping"}
    BY <1>1 DEF FifoInv, OnlyHeadPolls
  <1>2. CASE stage[w] = "waiting" /\ closes[w] > 0
    <2>1. queue \in Seq(Waiters) /\ closes \in [Waiters -> Nat]
      BY DEF LimiterTypeOK
    <2>2. PICK i \in 1..Len(queue) : queue[i] = w
      BY <1>2 DEF FifoInv, QueueIsLive
    <2>3. i = 1
      BY <1>2, <2>1, <2>2 DEF FifoInv, OneTurn
    <2> QED BY <2>1, <2>2, <2>3
  <1> QED BY <1>1, <1>2

(* A refill adds at most Rate tokens per unit of time since the last one.    *)
LEMMA RefillBound ==
    ASSUME LimiterTypeOK, BucketInv
    PROVE  refilled \in 0..Burst /\ granted + refilled <= Burst + now * Rate
  <1>1. /\ Rate \in Nat /\ Burst \in Nat /\ tokens \in 0..Burst /\ granted \in Nat
        /\ now \in Nat /\ last \in Nat /\ now - last \in Nat
    BY LimiterAssumption DEF LimiterTypeOK
  <1>2. (now - last) * Rate = now * Rate - last * Rate
    BY <1>1
  <1>3. now * Rate \in Nat /\ last * Rate \in Nat /\ (now - last) * Rate \in Nat
    BY <1>1
  <1> DEFINE N == now * Rate
             L == last * Rate
             D == (now - last) * Rate
  <1>4. N \in Nat /\ L \in Nat /\ D \in Nat /\ D = N - L /\ granted + tokens <= Burst + L
    BY <1>2, <1>3 DEF BucketInv
  <1>5. refilled = IF Burst <= tokens + D THEN Burst ELSE tokens + D
    BY DEF refilled, Min2
  <1> HIDE DEF N, L, D
  <1>6. refilled \in 0..Burst /\ granted + refilled <= Burst + N
    BY <1>1, <1>4, <1>5
  <1> QED BY <1>6 DEF N

(* Time and grants keep the bytes let through within the refills.            *)
LEMMA RateFollows ==
    ASSUME LimiterTypeOK, BucketInv
    PROVE  RateBound
  <1>1. granted + refilled <= Burst + now * Rate /\ refilled \in Nat
    BY RefillBound
  <1>2. granted \in Nat /\ Burst \in Nat /\ now * Rate \in Nat
    BY LimiterAssumption DEF LimiterTypeOK
  <1> DEFINE N == now * Rate
  <1>3. granted + refilled <= Burst + N /\ N \in Nat
    BY <1>1, <1>2
  <1> HIDE DEF N
  <1>4. granted <= Burst + N
    BY <1>1, <1>2, <1>3
  <1> QED BY <1>4 DEF RateBound, N

(* An unused limiter with a full bucket satisfies the invariant.             *)
LEMMA LimiterInitInv == LimiterInit => LimiterInv
  <1> SUFFICES ASSUME LimiterInit PROVE LimiterInv
    OBVIOUS
  <1> USE LimiterAssumption DEF LimiterInit
  <1>1. queue \in Seq(Waiters) /\ Len(queue) = 0
    OBVIOUS
  <1>2. LimiterTypeOK
    BY <1>1 DEF LimiterTypeOK
  <1>3. QueueIsLive /\ OneTurn /\ OnlyHeadPolls /\ TurnInv
    BY <1>1 DEF QueueIsLive, OneTurn, OnlyHeadPolls, TurnInv
  <1>4. BucketInv
    <2>1. last * Rate = 0
      OBVIOUS
    <2> QED BY <2>1 DEF BucketInv
  <1> QED BY <1>2, <1>3, <1>4 DEF LimiterInv

(* One step per critical section of wait, cancel and popHeadLocked.          *)
LEMMA LimiterStepInv == LimiterInv /\ [LimiterNext]_limiterVars => LimiterInv'
  <1> SUFFICES ASSUME LimiterInv, [LimiterNext]_limiterVars PROVE LimiterInv'
    OBVIOUS
  <1>t. LimiterTypeOK /\ FifoInv /\ BucketInv
    BY DEF LimiterInv, FifoInv
  <1>i. (LimiterTypeOK' /\ FifoInv' /\ BucketInv') => LimiterInv'
    BY DEF LimiterInv, FifoInv
  <1>p. stage \in [Waiters -> Busy \cup {"start", "granted", "failed"}]
    BY <1>t DEF LimiterTypeOK, Busy
  <1>1. ASSUME NEW w \in Waiters, NEW n \in Sizes, Enqueue(w, n) PROVE LimiterInv'
    <2>1. queue' \in Seq(Waiters) /\ closes' \in [Waiters -> Nat] /\ FifoInv'
      BY <1>t, <1>1, EnqueueFifo
    <2>2. n \in Nat
      BY LimiterAssumption
    <2>3. LimiterTypeOK'
      BY <1>t, <1>1, <2>1, <2>2 DEF LimiterTypeOK, Enqueue
    <2>4. BucketInv'
      BY <1>t, <1>1 DEF BucketInv, Enqueue
    <2> QED BY <1>i, <2>1, <2>3, <2>4
  <1>2. ASSUME NEW w \in Waiters, Cancel(w) PROVE LimiterInv'
    <2>1. PICK k \in 1..Len(queue) :
             /\ queue[k] = w
             /\ queue' = Without(queue, k)
             /\ closes' = (IF k = 1 THEN CloseHead(queue') ELSE closes)
      BY <1>2 DEF Cancel, leave
    <2>2. stage' = [stage EXCEPT ![w] = "failed"]
      BY <1>2 DEF Cancel
    <2>3. queue' \in Seq(Waiters) /\ closes' \in [Waiters -> Nat] /\ FifoInv'
      BY <1>t, <2>1, <2>2, LeaveFifo
    <2>4. LimiterTypeOK'
      BY <1>t, <1>2, <2>2, <2>3 DEF LimiterTypeOK, Cancel
    <2>5. BucketInv'
      BY <1>t, <1>2 DEF BucketInv, Cancel
    <2> QED BY <1>i, <2>3, <2>4, <2>5
  <1>3. ASSUME NEW w \in Waiters, TakeTurn(w) PROVE LimiterInv'
    <2>1. queue # <<>> /\ Head(queue) = w
      BY <1>t, <1>3, HeadHasTurn DEF TakeTurn
    <2>2. stage' = [stage EXCEPT ![w] = "turn"] /\ UNCHANGED <<queue, closes>>
      BY <1>3 DEF TakeTurn
    <2>3. FifoInv'
      BY <1>t, <2>1, <2>2, QuietFifo
    <2>4. LimiterTypeOK' /\ BucketInv'
      BY <1>t, <1>3 DEF LimiterTypeOK, BucketInv, TakeTurn
    <2> QED BY <1>i, <2>3, <2>4
  <1>4. ASSUME NEW w \in Waiters, CheckContext(w) PROVE LimiterInv'
    <2>1. queue # <<>> /\ Head(queue) = w
      BY <1>t, <1>4, HeadHasTurn DEF CheckContext
    <2>2. stage' = [stage EXCEPT ![w] = "polling"] /\ UNCHANGED <<queue, closes>>
      BY <1>4 DEF CheckContext
    <2>3. FifoInv'
      BY <1>t, <2>1, <2>2, QuietFifo
    <2>4. LimiterTypeOK' /\ BucketInv'
      BY <1>t, <1>4 DEF LimiterTypeOK, BucketInv, CheckContext
    <2> QED BY <1>i, <2>3, <2>4
  <1>5. ASSUME NEW w \in Waiters, Pay(w) PROVE LimiterInv'
    <2>1. queue # <<>> /\ Head(queue) = w
      BY <1>t, <1>5, HeadHasTurn DEF Pay
    <2>2. queue \in Seq(Waiters)
      BY <1>t DEF LimiterTypeOK
    <2>3. 1 \in 1..Len(queue) /\ queue[1] = w
      BY <2>1, <2>2
    <2>4. queue' = Tail(queue) /\ closes' = CloseHead(queue')
      BY <1>5, <2>1 DEF Pay, popHead
    <2>5. Tail(queue) = Without(queue, 1)
      <3>1. /\ Tail(queue) \in Seq(Waiters) /\ Len(Tail(queue)) = Len(queue) - 1
            /\ \A i \in 1..Len(Tail(queue)) : Tail(queue)[i] = queue[i + 1]
        BY <2>1, <2>2, HeadTailProperties
      <3>2. /\ Without(queue, 1) \in Seq(Waiters) /\ Len(Without(queue, 1)) = Len(queue) - 1
            /\ \A i \in 1..(Len(queue) - 1) : Without(queue, 1)[i] = IF i < 1 THEN queue[i] ELSE queue[i + 1]
        BY <2>2, <2>3, WithoutSeq
      <3>3. \A i \in 1..Len(Tail(queue)) : Tail(queue)[i] = Without(queue, 1)[i]
        BY <3>1, <3>2
      <3> QED BY <3>1, <3>2, <3>3, SeqEqual
    <2>6. stage' = [stage EXCEPT ![w] = "granted"]
      BY <1>5 DEF Pay
    <2>7. queue' \in Seq(Waiters) /\ closes' \in [Waiters -> Nat] /\ FifoInv'
      BY <1>t, <2>3, <2>4, <2>5, <2>6, LeaveFifo
    <2>8. refilled \in 0..Burst /\ granted + refilled <= Burst + now * Rate
      BY <1>t, RefillBound
    <2>9. /\ tokens' = refilled - bytes[w] /\ refilled >= bytes[w] /\ bytes[w] \in Nat
          /\ last' = now /\ now' = now /\ granted' = granted + bytes[w] /\ granted \in Nat
          /\ Burst \in Nat
      BY <1>t, <1>5, LimiterAssumption DEF Pay, LimiterTypeOK
    <2>10. tokens' \in 0..Burst /\ granted' \in Nat /\ granted' + tokens' = granted + refilled
      BY <2>8, <2>9
    <2>11. LimiterTypeOK'
      <3>1. stage' \in [Waiters -> {"start", "waiting", "turn", "polling", "sleeping", "granted", "failed"}]
        BY <1>t, <2>6 DEF LimiterTypeOK
      <3>2. now' \in Nat /\ last' \in 0..now'
        BY <1>t, <2>9 DEF LimiterTypeOK
      <3>3. bytes' \in [Waiters -> Nat] /\ cancelled' \subseteq Waiters
        BY <1>t, <1>5 DEF LimiterTypeOK, Pay
      <3> QED BY <2>7, <2>10, <3>1, <3>2, <3>3 DEF LimiterTypeOK
    <2>12. BucketInv'
      BY <2>8, <2>9, <2>10 DEF BucketInv
    <2> QED BY <1>i, <2>7, <2>11, <2>12
  <1>6. ASSUME NEW w \in Waiters, Short(w) PROVE LimiterInv'
    <2>1. queue # <<>> /\ Head(queue) = w
      BY <1>t, <1>6, HeadHasTurn DEF Short
    <2>2. stage' = [stage EXCEPT ![w] = "sleeping"] /\ UNCHANGED <<queue, closes>>
      BY <1>6 DEF Short
    <2>3. FifoInv'
      BY <1>t, <2>1, <2>2, QuietFifo
    <2>4. refilled \in 0..Burst /\ granted + refilled <= Burst + now * Rate
      BY <1>t, RefillBound
    <2>5. tokens' = refilled /\ last' = now /\ now' = now /\ granted' = granted
      BY <1>6 DEF Short
    <2>6. LimiterTypeOK'
      BY <1>t, <1>6, <2>4, <2>5 DEF LimiterTypeOK, Short
    <2>7. BucketInv'
      BY <2>4, <2>5 DEF BucketInv
    <2> QED BY <1>i, <2>3, <2>6, <2>7
  <1>7. ASSUME NEW w \in Waiters, TimerFires(w) PROVE LimiterInv'
    <2>1. queue # <<>> /\ Head(queue) = w
      BY <1>t, <1>7, HeadHasTurn DEF TimerFires
    <2>2. stage' = [stage EXCEPT ![w] = "turn"] /\ UNCHANGED <<queue, closes>>
      BY <1>7 DEF TimerFires
    <2>3. FifoInv'
      BY <1>t, <2>1, <2>2, QuietFifo
    <2>4. LimiterTypeOK' /\ BucketInv'
      BY <1>t, <1>7 DEF LimiterTypeOK, BucketInv, TimerFires
    <2> QED BY <1>i, <2>3, <2>4
  <1>8. ASSUME NEW w \in Waiters, ContextDone(w) PROVE LimiterInv'
    <2>1. LimiterTypeOK' /\ BucketInv'
      BY <1>t, <1>8 DEF LimiterTypeOK, BucketInv, ContextDone
    <2>2. FifoInv'
      BY <1>t, <1>8 DEF FifoInv, QueueIsLive, OneTurn, OnlyHeadPolls, TurnInv, ContextDone
    <2> QED BY <1>i, <2>1, <2>2
  <1>9. CASE Tick
    <2>1. LimiterTypeOK' /\ BucketInv'
      BY <1>t, <1>9 DEF LimiterTypeOK, BucketInv, Tick
    <2>2. FifoInv'
      BY <1>t, <1>9 DEF FifoInv, QueueIsLive, OneTurn, OnlyHeadPolls, TurnInv, Tick
    <2> QED BY <1>i, <2>1, <2>2
  <1>10. CASE UNCHANGED limiterVars
    BY <1>10 DEF limiterVars, LimiterInv, LimiterTypeOK, QueueIsLive, OneTurn, OnlyHeadPolls, TurnInv, BucketInv
  <1> QED
    BY <1>1, <1>2, <1>3, <1>4, <1>5, <1>6, <1>7, <1>8, <1>9, <1>10 DEF LimiterNext, Step

(* Every reachable state of wait, cancel and popHeadLocked keeps the queue   *)
(* and bucket invariants, for any number of callers.                         *)
THEOREM LimiterInvariant == LimiterSpec => []LimiterInv
  BY LimiterInitInv, LimiterStepInv, PTL DEF LimiterSpec

(* The bucket is never overdrawn nor over its burst.                         *)
THEOREM LimiterTypeCorrect == LimiterSpec => []LimiterTypeOK
  <1>1. LimiterInv => LimiterTypeOK
    BY DEF LimiterInv
  <1> QED BY <1>1, LimiterInvariant, PTL

(* No turn channel is closed twice (a panic), and only the head holds a      *)
(* closed one.                                                               *)
THEOREM OneTurnHolds == LimiterSpec => []OneTurn
  <1>1. LimiterInv => OneTurn
    BY DEF LimiterInv
  <1> QED BY <1>1, LimiterInvariant, PTL

(* Only the head of the queue polls the bucket.                              *)
THEOREM OnlyHeadPollsHolds == LimiterSpec => []OnlyHeadPolls
  <1>1. LimiterInv => OnlyHeadPolls
    BY DEF LimiterInv
  <1> QED BY <1>1, LimiterInvariant, PTL

(* The queue holds exactly the calls in progress, each once.                 *)
THEOREM QueueIsLiveHolds == LimiterSpec => []QueueIsLive
  <1>1. LimiterInv => QueueIsLive
    BY DEF LimiterInv
  <1> QED BY <1>1, LimiterInvariant, PTL

(* The bytes let through never exceed one burst plus Rate per unit of time.  *)
THEOREM RateBoundHolds == LimiterSpec => []RateBound
  <1>1. LimiterInv => RateBound
    BY RateFollows DEF LimiterInv
  <1> QED BY <1>1, LimiterInvariant, PTL
=============================================================================
