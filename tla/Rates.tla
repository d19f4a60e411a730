------------------------------- MODULE Rates -------------------------------
(***************************************************************************)
(* Rates from counters, as internal/collector/{net,diskio,process}.go and  *)
(* system.go work them out: each tick reads a table of ever-growing        *)
(* counters, reports the growth of those that were in the table read before*)
(* and keeps the new table as the next baseline.  Interfaces, disks and    *)
(* processes come, go and come back with their counters at zero, and a read*)
(* may fail.  Of a row's two counters `main` is compared before it is      *)
(* subtracted (bytes, operations, ticks) and `side` is not (packets,       *)
(* errors, sectors, I/O time).                                             *)
(***************************************************************************)
EXTENDS Integers, FiniteSets

CONSTANTS
    Devs,         \* interfaces, disks or process ids
    RateModulus,  \* 2^64: the counters are unsigned
    MaxCount,     \* bound on a counter
    RateMaxTime   \* bound on the clock

ASSUME RatesAssumption ==
    /\ IsFiniteSet(Devs) /\ "nil" \notin Devs /\ MaxCount \in Nat /\ RateMaxTime \in Nat
    /\ RateModulus \in Nat /\ RateModulus > MaxCount

VARIABLES
    table,     \* the kernel's rows: device -> [main, side], of the devices there are
    rateNow,   \* the clock
    baseline,  \* the baseline: device -> [main, side, at], or Nil
    rates,     \* the rows reported last: [dev, main, side, secs]
    lastAt     \* history: when a table was last read, or NotYet

rateVars == <<table, rateNow, baseline, rates, lastAt>>

------------------------------------------------------------------------------
NotYet == -1
NoRow == [d \in {} |-> 0]
Nil == [d \in {"nil"} |-> 0]    \* a nil map: no baseline at all

Growth(a, b) == (a - b) % RateModulus

Stamped(t) == [d \in DOMAIN t |-> [main |-> t[d].main, side |-> t[d].side, at |-> rateNow]]

\* Slip: a counter that started over is not looked for.
Reported_AfterReset(cur, p, d) == d \in DOMAIN p /\ cur[d].at - p[d].at > 0

\* A device is reported if it was there before, time has passed and its main
\* counter has not gone back.
Reported(cur, p, d) ==
    /\ d \in DOMAIN p
    /\ cur[d].at - p[d].at > 0
    /\ cur[d].main >= p[d].main

Deltas(cur, p) ==
    {[dev |-> d, main |-> Growth(cur[d].main, p[d].main), side |-> Growth(cur[d].side, p[d].side),
      secs |-> cur[d].at - p[d].at] : d \in {x \in DOMAIN cur : Reported(cur, p, x)}}

RateInit ==
    /\ table \in {NoRow, [d \in Devs |-> [main |-> 0, side |-> 0]]}
    /\ rateNow = 0 /\ baseline = Nil /\ rates = {} /\ lastAt = NotYet

------------------------------------------------------------------------------
Count(d, m, s) ==
    /\ table[d].main + m <= MaxCount /\ table[d].side + s <= MaxCount
    /\ table' = [table EXCEPT ![d] = [main |-> @.main + m, side |-> @.side + s]]

Vanish(d) == table' = [e \in DOMAIN table \ {d} |-> table[e]]

\* A device that is new, or back, counts from zero.
Appear(d) == table' = [e \in DOMAIN table \cup {d} |-> IF e = d THEN [main |-> 0, side |-> 0] ELSE table[e]]

Kernel ==
    /\ \/ \E d \in DOMAIN table : Vanish(d) \/ \E m, s \in 0..1 : m + s > 0 /\ Count(d, m, s)
       \/ \E d \in Devs \ DOMAIN table : Appear(d)
    /\ UNCHANGED <<rateNow, baseline, rates, lastAt>>

RateTimePasses ==
    /\ rateNow < RateMaxTime
    /\ rateNow' = rateNow + 1
    /\ UNCHANGED <<table, baseline, rates, lastAt>>

\* Slip: the new table is merged into the baseline.
Baseline_Merged(cur) ==
    [d \in DOMAIN cur \cup (IF baseline = Nil THEN {} ELSE DOMAIN baseline) |-> IF d \in DOMAIN cur THEN cur[d] ELSE baseline[d]]

\* The table read becomes the baseline; who is not in it is forgotten.
Baseline(cur) == cur

ReadTable ==
    LET cur == Stamped(table)
    IN  /\ rates' = IF baseline = Nil THEN {} ELSE Deltas(cur, baseline)
        /\ baseline' = Baseline(cur)
        /\ lastAt' = rateNow
        /\ UNCHANGED <<table, rateNow>>

\* The file cannot be read: nothing is reported, and a SystemCollector has no
\* baseline either; Top returns before it touches its own.
ReadFails ==
    /\ rates' = {}
    /\ baseline' = Nil \/ baseline' = baseline
    /\ UNCHANGED <<table, rateNow, lastAt>>

RateNext == Kernel \/ RateTimePasses \/ ReadTable \/ ReadFails

RateSpec == RateInit /\ [][RateNext]_rateVars

------------------------------------------------------------------------------
RateRows == [dev : Devs, main : 0..(RateModulus - 1), side : 0..(RateModulus - 1), secs : 1..RateMaxTime]

RateTypeOK ==
    /\ DOMAIN table \subseteq Devs /\ rateNow \in 0..RateMaxTime
    /\ rates \subseteq RateRows
    /\ baseline = Nil \/ DOMAIN baseline \subseteq Devs
    /\ lastAt \in {NotYet} \cup 0..RateMaxTime

\* The growth reported for a main counter is no more than the counter holds,
\* whatever was reset, unplugged or reused since the baseline.
MainRateIsReal ==
    []RateTypeOK /\ [][\A r \in rates' \ rates : r.main <= table[r.dev].main]_rateVars

\* Every rate is over the time since the last table was read, and only for a
\* device that was in that table: nobody keeps an older baseline.
RatesSpanOneTick ==
    [][rates' # rates => \A r \in rates' : r.secs = rateNow - lastAt]_rateVars

==============================================================================
