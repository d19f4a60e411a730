---------------------------- MODULE ConnWatcher ----------------------------
(***************************************************************************)
(* The connection watcher of internal/security/connections.go.  Every five *)
(* seconds poll() reads the kernel's tcp and tcp6 tables, one file after   *)
(* the other, works out the watched ports, logs each remote IP that is     *)
(* connected to one now and was not at the previous poll, and remembers    *)
(* the connected ones.  Services and connections come and go at any time,  *)
(* between the two reads too.                                              *)
(***************************************************************************)
EXTENDS Naturals, FiniteSets

CONSTANTS
    Conns,      \* TCP connections the kernel may have: [id, ip, port, file]
    Services,   \* listening sockets it may have: [port, loopback, file]
    Explicit,   \* ports named in CONN_WATCH_PORTS
    AutoPorts   \* CONN_WATCH_AUTO

Files == {"tcp", "tcp6"}

ASSUME ConnAssumption ==
    /\ IsFiniteSet(Conns)
    /\ \A c \in Conns : c.file \in Files
    /\ \A s \in Services : s.file \in Files /\ s.loopback \in BOOLEAN
    /\ AutoPorts \in BOOLEAN

VARIABLES
    open,        \* connections in state ESTABLISHED
    listening,   \* services in state LISTEN
    connPc,      \* the file poll() reads next, or "wait"
    seen,        \* ESTABLISHED entries read so far by this poll
    heard,       \* LISTEN entries read so far by this poll
    prevActive,  \* w.prevActive: the <<ip, port>> pairs of the previous poll
    logged,      \* how many events the last finished poll logged for each pair
    steady,      \* history: connections open ever since this poll began
    serving,     \* history: services listening ever since this poll began
    gap          \* history: pairs that were unconnected or unwatched at some
                 \* moment since they were last logged

connVars == <<open, listening, connPc, seen, heard, prevActive, logged, steady, serving, gap>>

------------------------------------------------------------------------------
PairOf(c) == <<c.ip, c.port>>
Pairs == {PairOf(c) : c \in Conns}

\* Slip: explicit ports are dropped when the others are discovered.
Watched_AutoOnly(services) ==
    IF AutoPorts THEN {s.port : s \in {x \in services : ~x.loopback}} ELSE Explicit

\* Explicit ports, and what listens on more than loopback.
Watched(services) ==
    Explicit \cup (IF AutoPorts THEN {s.port : s \in {x \in services : ~x.loopback}} ELSE {})

WatchedOpen(conns, services) == {c \in conns : c.port \in Watched(services)}

\* Slip: a connection counts only if it is not known yet.
Active_OnlyNew(conns, services) ==
    {k \in Pairs : k \notin prevActive /\ \E c \in WatchedOpen(conns, services) : PairOf(c) = k}

Active(conns, services) == {PairOf(c) : c \in WatchedOpen(conns, services)}

\* One event per entry whose pair the previous poll did not have.
NewEvents(conns, services) ==
    [k \in Pairs |-> IF k \in prevActive THEN 0
                    ELSE Cardinality({c \in WatchedOpen(conns, services) : PairOf(c) = k})]

ConnInit ==
    /\ open = {} /\ listening = {}
    /\ connPc = "wait" /\ seen = {} /\ heard = {}
    /\ prevActive = {}
    /\ logged = [k \in Pairs |-> 0]
    /\ steady = {} /\ serving = {}
    /\ gap = Pairs

------------------------------------------------------------------------------
\* Pairs the world shows no watched connection of.
Quiet(conns, services) == {k \in Pairs : \A c \in WatchedOpen(conns, services) : PairOf(c) # k}

World(conns, services) ==
    /\ open' = conns /\ listening' = services
    /\ gap' = gap \cup Quiet(conns, services)
    /\ steady' = steady \cap conns /\ serving' = serving \cap services
    /\ UNCHANGED <<connPc, seen, heard, prevActive, logged>>

Connect(c)    == c \notin open /\ World(open \cup {c}, listening)
Disconnect(c) == c \in open /\ World(open \ {c}, listening)
Listen(s)     == s \notin listening /\ World(open, listening \cup {s})
StopListen(s) == s \in listening /\ World(open, listening \ {s})

ReadTcp ==
    /\ connPc = "wait"
    /\ seen' = {c \in open : c.file = "tcp"}
    /\ heard' = {s \in listening : s.file = "tcp"}
    /\ steady' = open /\ serving' = listening
    /\ connPc' = "tcp6"
    /\ UNCHANGED <<open, listening, prevActive, logged, gap>>

\* Slip: the watched ports are worked out before the second table is read.
Heard_FirstTable == heard

\* The services of both tables, once the second is read.
Heard == heard \cup {s \in listening : s.file = "tcp6"}

\* The second table, and the rest of poll() on what both reads found.
ReadTcp6 ==
    /\ connPc = "tcp6"
    /\ LET conns == seen \cup {c \in open : c.file = "tcp6"}
           services == Heard
       IN  /\ logged' = NewEvents(conns, services)
           /\ prevActive' = Active(conns, services)
           /\ gap' = (gap \ {k \in Pairs : NewEvents(conns, services)[k] > 0})
                     \cup Quiet(open, listening)
    /\ connPc' = "wait" /\ seen' = {} /\ heard' = {} /\ steady' = {} /\ serving' = {}
    /\ UNCHANGED <<open, listening>>

\* The process restarts: a new watcher remembers nobody.
RestartWatch ==
    /\ connPc' = "wait" /\ seen' = {} /\ heard' = {} /\ prevActive' = {}
    /\ steady' = {} /\ serving' = {}
    /\ logged' = [k \in Pairs |-> 0]
    /\ gap' = Pairs
    /\ UNCHANGED <<open, listening>>

ConnNext ==
    \/ \E c \in Conns : Connect(c) \/ Disconnect(c)
    \/ \E s \in Services : Listen(s) \/ StopListen(s)
    \/ ReadTcp \/ ReadTcp6
    \/ RestartWatch

ConnSpec == ConnInit /\ [][ConnNext]_connVars

------------------------------------------------------------------------------
ConnTypeOK ==
    /\ open \subseteq Conns /\ seen \subseteq Conns /\ steady \subseteq Conns
    /\ listening \subseteq Services /\ heard \subseteq Services /\ serving \subseteq Services
    /\ connPc \in {"wait", "tcp6"}
    /\ prevActive \subseteq Pairs /\ gap \subseteq Pairs
    /\ logged \in [Pairs -> 0..Cardinality(Conns)]

\* A poll cannot miss that this port is watched: it is named explicitly, or
\* discovered by a service on more than loopback that listens from the poll's
\* first read to its last.
SurelyWatched(port) ==
    port \in Explicit \/ (AutoPorts /\ \E s \in serving : s.port = port /\ ~s.loopback)

\* A connection to such a port that is open from before the first table is read
\* until the poll ends, in whichever table it and the service are, has been
\* logged once that poll is over, by it or by an earlier one: reading two tables
\* apart loses nobody (connections.go:78-107).
SteadyIsNoticed ==
    [][ReadTcp6 =>
          \A c \in steady : SurelyWatched(c.port) =>
             PairOf(c) \in prevActive' /\ (PairOf(c) \in prevActive \/ logged'[PairOf(c)] > 0)]_connVars

\* A remote address is connected to a port, and a service listens on it, through
\* one of the two tables only.
OneTable ==
    /\ \A c, d \in Conns : PairOf(c) = PairOf(d) => c.file = d.file
    /\ \A r, s \in Services : r.port = s.port => r.file = s.file

\* The connections to watched ports that the poll now ending may have come upon.
MayFind(k) == {c \in seen \cup open : PairOf(c) = k}

\* No repeats: a pair is logged only if it was unconnected or unwatched at some
\* moment since it was last logged, whatever polls happened in between (a gap
\* no poll fell into is not noticed, and not asked for here), and then with no
\* more events than the poll found connections of it.  (What goes over from one
\* table to the other between the two reads is in neither.)
LoggedAgainOnlyAfterGap ==
    /\ []ConnTypeOK
    /\ [][\A k \in Pairs : (connPc = "tcp6" /\ connPc' = "wait" /\ logged'[k] > 0) =>
             /\ OneTable => k \in gap
             /\ logged'[k] <= Cardinality(MayFind(k))]_connVars

\* README.md:301-303: "Connection events fire once per remote IP the first time
\* it's seen on a watched port": so a poll tells of an address and port once.
OncePerAddress == [][\A k \in Pairs : logged'[k] <= 1]_connVars

====
