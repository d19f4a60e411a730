------------------------------ MODULE CPUUsage ------------------------------
(***************************************************************************)
(* CPU usage from /proc/stat, as internal/collector/cpu.go and system.go   *)
(* work it out: each tick reads the aggregate line and one line per core   *)
(* that is online, and takes the unsigned differences from the lines read  *)
(* before, the cores matched by their place in the file.  Time is counted  *)
(* in three classes: idle, iowait and the rest (busy, which stands for     *)
(* user, system and steal).  A percentage is kept as the two numbers it is *)
(* the quotient of; float64 has no width of its own here.                  *)
(***************************************************************************)
EXTENDS Integers, Sequences

CONSTANTS
    NCores,       \* cores the machine may have online
    TickModulus,  \* 2^64: the counters are unsigned
    MaxJiffies    \* bound on the clock ticks ever counted

ASSUME CPUAssumption ==
    /\ NCores \in Nat \ {0} /\ MaxJiffies \in Nat
    /\ TickModulus \in Nat /\ TickModulus > 3 * MaxJiffies

VARIABLES
    counted,  \* the kernel's counters: core -> class -> ticks
    online,   \* the cores that have a line
    prevCPU,  \* the aggregate line read before, or NoFigure (havePrevCPU is false)
    prevCores,\* the core lines read before
    cpu,      \* the aggregate reported last: a Share, or NoFigure for domain.CPU{}
    perCore,  \* the cores reported last: a sequence of Shares
    ticks,    \* ticks counted so far
    grown,    \* history: what each core really spent since the last reading
    takenBack,\* history: some iowait was taken back since
    replugged \* history: some core came or went since

cpuVars == <<counted, online, prevCPU, prevCores, cpu, perCore, ticks, grown, takenBack, replugged>>

------------------------------------------------------------------------------
Cores == 1..NCores
Classes == {"busy", "idle", "iowait"}
Zero == [c \in Classes |-> 0]
NoFigure == [c \in {} |-> 0]

Total(s) == s.busy + s.idle + s.iowait

\* The aggregate line: the kernel sums every core, offline ones too.
Aggregate(lines) ==
    [k \in Classes |-> LET upto[c \in 0..NCores] == IF c = 0 THEN 0 ELSE upto[c - 1] + lines[c][k] IN upto[NCores]]

\* The lines of the online cores, in core-number order.
CoreLines(lines, cs) ==
    LET upto[c \in 0..NCores] ==
            IF c = 0 THEN <<>> ELSE IF c \in cs THEN Append(upto[c - 1], lines[c]) ELSE upto[c - 1]
    IN  upto[NCores]

\* cpuDeltaPct: every difference is unsigned, no growth is no figure, and UsagePct
\* is what the total leaves of the idle and iowait differences.
Share(p, c) ==
    LET d(k) == (c[k] - p[k]) % TickModulus
        total == (Total(c) - Total(p)) % TickModulus
    IN  IF total = 0 THEN NoFigure
        ELSE [usage |-> total - (d("idle") + d("iowait")), busy |-> d("busy"), idle |-> d("idle"), iowait |-> d("iowait"), total |-> total]

\* perCoreDeltaPct: as many as both readings have, by position.
PerCore(p, c) == [i \in 1..(IF Len(p) < Len(c) THEN Len(p) ELSE Len(c)) |-> Share(p[i], c[i])]

CPUInit ==
    /\ counted = [c \in Cores |-> Zero] /\ online = Cores
    /\ prevCPU = NoFigure /\ prevCores = <<>> /\ cpu = NoFigure /\ perCore = <<>>
    /\ ticks = 0 /\ grown = [c \in Cores |-> Zero] /\ takenBack = FALSE /\ replugged = FALSE

------------------------------------------------------------------------------
Spend(c, k) ==
    /\ c \in online /\ ticks < MaxJiffies
    /\ counted' = [counted EXCEPT ![c][k] = @ + 1]
    /\ grown' = [grown EXCEPT ![c][k] = @ + 1]
    /\ ticks' = ticks + 1
    /\ UNCHANGED <<online, takenBack, replugged>>

\* proc(5): iowait may decrease.
TakeBack(c) ==
    /\ counted[c].iowait > 0
    /\ counted' = [counted EXCEPT ![c].iowait = @ - 1]
    /\ takenBack' = TRUE
    /\ UNCHANGED <<online, ticks, grown, replugged>>

\* A core goes offline or comes back.
Plug(c) ==
    /\ online' = IF c \in online THEN online \ {c} ELSE online \cup {c}
    /\ online' # {}
    /\ replugged' = TRUE
    /\ UNCHANGED <<counted, ticks, grown, takenBack>>

KernelMoves ==
    /\ \E c \in Cores : TakeBack(c) \/ Plug(c) \/ \E k \in Classes : Spend(c, k)
    /\ UNCHANGED <<prevCPU, prevCores, cpu, perCore>>

ReadCPU ==
    LET agg == Aggregate(counted)
        lines == CoreLines(counted, online)
    IN  /\ cpu' = IF prevCPU = NoFigure THEN NoFigure ELSE Share(prevCPU, agg)
        /\ perCore' = IF prevCPU = NoFigure THEN <<>> ELSE PerCore(prevCores, lines)
        /\ prevCPU' = agg /\ prevCores' = lines
        /\ grown' = [c \in Cores |-> Zero] /\ takenBack' = FALSE /\ replugged' = FALSE
        /\ UNCHANGED <<counted, online, ticks>>

\* Slip: the empty sample of a failed reading becomes the baseline.
ReadCPUFails_KeepsEmpty ==
    /\ cpu' = NoFigure /\ perCore' = <<>>
    /\ prevCPU' = Zero /\ prevCores' = <<>>
    /\ UNCHANGED <<counted, online, ticks, grown, takenBack, replugged>>

\* /proc/stat cannot be read: nothing is reported, and the baseline stays.
ReadCPUFails ==
    /\ cpu' = NoFigure /\ perCore' = <<>>
    /\ UNCHANGED <<counted, online, prevCPU, prevCores, ticks, grown, takenBack, replugged>>

CPUNext == KernelMoves \/ ReadCPU \/ ReadCPUFails

CPUSpec == CPUInit /\ [][CPUNext]_cpuVars

------------------------------------------------------------------------------
Figure ==
    [usage : Int, busy : 0..(TickModulus - 1), idle : 0..(TickModulus - 1), iowait : 0..(TickModulus - 1),
     total : 1..(TickModulus - 1)]

CPUTypeOK ==
    /\ counted \in [Cores -> [Classes -> 0..MaxJiffies]] /\ grown \in [Cores -> [Classes -> 0..MaxJiffies]]
    /\ online \subseteq Cores /\ online # {} /\ ticks \in 0..MaxJiffies
    /\ cpu \in Figure \cup {NoFigure} /\ \A i \in DOMAIN perCore : perCore[i] \in Figure \cup {NoFigure}
    /\ Len(perCore) <= NCores

\* cpu.go:57-75: while the kernel takes no iowait back, the usage of the machine
\* and every share of it are of what was spent since the last reading that
\* succeeded, however many failed in between and whichever cores came, went or
\* spent it; and so is each core's, while every core stays.  When iowait is taken
\* back, idle, user and system are still right, but the difference of iowait goes
\* round zero and takes the headline UsagePct with it (cpu.go:65, 68).
FigureOf(g) ==
    IF Total(g) = 0 THEN NoFigure
    ELSE [usage |-> g.busy, busy |-> g.busy, idle |-> g.idle, iowait |-> g.iowait, total |-> Total(g)]
FiguresAreTheGrowth ==
    /\ []CPUTypeOK
    /\ [][prevCPU # NoFigure /\ grown' # grown /\ ticks' = ticks =>
           LET g == Aggregate(grown)
           IN  /\ cpu' # NoFigure => cpu'.busy = g.busy /\ cpu'.idle = g.idle
               /\ ~takenBack => cpu' = FigureOf(g)
               /\ ~takenBack /\ ~replugged /\ Len(prevCores) = NCores =>
                     perCore' = [c \in Cores |-> FigureOf(grown[c])]]_cpuVars

==============================================================================
