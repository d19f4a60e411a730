------------------------------ MODULE History ------------------------------
(***************************************************************************)
(* GET /api/history: the value of a metric in each snapshot of the window  *)
(* (internal/api/metric_lookup.go), bucket-averaged into a chart of about  *)
(* the asked number of points (internal/api/handler_stats.go).  Devices    *)
(* come and go, so a snapshot may have no value for a selector.            *)
(***************************************************************************)
EXTENDS Integers, Sequences, FiniteSetsExt, Functions

CONSTANTS
    Devices,   \* disks, interfaces or thermal zones, depending on the metric, in the order they are listed
    Primary,   \* the thermal zone flagged as the CPU's
    Values,    \* numbers a metric may have
    Gaps,      \* seconds from one snapshot to the one saved next: negative if that one was held up
    MaxPoints, \* bound: points asked for
    MaxLen     \* bound: snapshots in the window

ASSUME HistoryAssumption ==
    /\ Devices \in Seq(STRING) /\ Primary \in Range(Devices)
    /\ Values \subseteq Nat /\ Gaps \subseteq Int \ {0}
    /\ MaxPoints \in Nat /\ MaxLen \in Nat

VARIABLES
    window   \* what GetAll returns: snapshots, in the order they were saved

------------------------------------------------------------------------------
NoValue == -1    \* metricValue's ok = false

\* The families of metricValue's switch: net.* and disk_io.* rates, disk_io's
\* latency, temp.celsius, and disk.*, whose default mount "/" is Primary here.
Metrics == {"rate", "latency", "temp", "disk"}
Selectors == {""} \cup Range(Devices)

SumOf(numbers) ==
    LET upto[i \in 0..Len(numbers)] == IF i = 0 THEN 0 ELSE upto[i - 1] + numbers[i]
    IN  upto[Len(numbers)]

\* What the loops over the rows of a snapshot add up to.
AddedUp(reading) ==
    SumOf([i \in DOMAIN Devices |-> IF Devices[i] \in DOMAIN reading THEN reading[Devices[i]] ELSE 0])

\* The row listed first.
First(reading) ==
    LET rows == {i \in DOMAIN Devices : Devices[i] \in DOMAIN reading}
    IN  reading[Devices[CHOOSE i \in rows : \A j \in rows : i <= j]]

\* metricValue on reading, a function from the devices present to their value.
Lookup(reading, metric, selector) ==
    LET present == DOMAIN reading
        named == IF selector = "" THEN Primary ELSE selector
    IN  IF selector # "" \/ metric = "disk" THEN IF named \in present THEN reading[named] ELSE NoValue
        ELSE IF present = {} THEN NoValue
        ELSE CASE metric = "latency" -> Max({0} \cup {reading[d] : d \in present})
               [] metric = "temp" -> IF Primary \in present THEN reading[Primary] ELSE First(reading)
               [] metric = "rate" -> AddedUp(reading)

Samples(metric, selector) ==
    LET value(i) == Lookup(window[i].reading, metric, selector)
        upto[i \in 0..Len(window)] ==
            IF i = 0 THEN <<>>
            ELSE IF value(i) = NoValue THEN upto[i - 1]
            ELSE Append(upto[i - 1], [t |-> window[i].time, v |-> value(i)])
    IN  upto[Len(window)]

Asked(points) == IF points <= 0 THEN 60 ELSE points

BucketSize_RoundUp(n, points) == IF n = 0 THEN 1 ELSE (n + points - 1) \div points     \* Slip

BucketSize(n, points) == IF n \div points < 1 THEN 1 ELSE n \div points

\* The end of the bucket that starts after i samples.
Ends(i, size, n) == IF i + size > n THEN n ELSE i + size

\* One point: its time, rounded down, and its average as a total and a count.
Point(bucket) ==
    [time |-> SumOf([i \in DOMAIN bucket |-> bucket[i].t]) \div Len(bucket),
     total |-> SumOf([i \in DOMAIN bucket |-> bucket[i].v]),
     n |-> Len(bucket)]

Chart(samples, points) ==
    LET n == Len(samples)
        size == BucketSize(n, Asked(points))
        count == (n + size - 1) \div size
    IN  [k \in 1..count |-> Point(SubSeq(samples, (k - 1) * size + 1, Ends((k - 1) * size, size, n)))]

HistInit == window = <<>>

\* Save appends a snapshot, which need not be the newest: MultiStore saves each in a
\* goroutine of its own.  The window's own limit is MetricStore's business.
Snapshot ==
    /\ Len(window) < MaxLen
    /\ \E devs \in SUBSET Range(Devices), gap \in Gaps : \E reading \in [devs -> Values] :
         LET time == gap + IF window = <<>> THEN 0 ELSE window[Len(window)].time
         IN  /\ time \in Nat \ {window[i].time : i \in DOMAIN window}
             /\ window' = Append(window, [time |-> time, reading |-> reading])

HistSpec == HistInit /\ [][Snapshot]_window

------------------------------------------------------------------------------
Asks == {Samples(m, s) : m \in Metrics, s \in Selectors}

InOrder(samples) == \A i, j \in DOMAIN samples : i < j => samples[i].t < samples[j].t

\* A chart of at most p samples shows each of them, and a longer one has at least
\* p points and fewer than twice as many; averaging loses and repeats nothing, so
\* that the points weighted by their sizes add up to the samples; and if those were
\* saved in the order they were taken, the times of the points increase strictly,
\* although they are averages rounded down.
ChartKeepsTotal ==
    \A samples \in Asks, points \in 0..MaxPoints :
       LET p == Asked(points)
           chart == Chart(samples, points)
           got == Len(chart)
       IN  /\ IF Len(samples) <= p THEN got = Len(samples) ELSE got >= p /\ got < 2 * p
           /\ SumOf([k \in 1..got |-> chart[k].total]) = SumOf([i \in DOMAIN samples |-> samples[i].v])
           /\ SumOf([k \in 1..got |-> chart[k].n]) = Len(samples)
           /\ InOrder(samples) => \A k \in 1..(got - 1) : chart[k].time < chart[k + 1].time

==============================================================================
