--------------------------- MODULE MCQuotaLedger ---------------------------
(* Instances of QuotaLedger for TLC. *)
EXTENDS QuotaLedger, TLC

(* One rule with a daily quota only. *)
DailyLimit == [a \in Accts |-> IF a[2] = "daily" THEN 3 ELSE 0]

(* One byte a day and two a month: many periods and few bytes. *)
TinyBoth == [a \in Accts |-> IF a[2] = "daily" THEN 1 ELSE 2]

(* Calendars: months of one day and of two. *)
OneDayMonths == [d \in Periods |-> d]
TwoDayMonths == [d \in Periods |-> d \div 2]
=============================================================================
