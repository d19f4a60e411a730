---------------------------- MODULE LoginLimiter ----------------------------
(***************************************************************************)
(* The login handler as the limiter sees it (internal/auth/session.go:     *)
(* 119-143): blocked(), then a bcrypt comparison that takes its time, then *)
(* fail() or reset().  Several requests for one ip+username pair run at    *)
(* once, so between a request's check and its count others may count,      *)
(* reset, or restart the window.  The table lives in memory: a restart     *)
(* empties it.                                                             *)
(*                                                                         *)
(* hist is a history variable: how many failed attempts of at most each    *)
(* age there are, since the pair's last success or the last restart.       *)
(***************************************************************************)
EXTENDS LimiterOps

CONSTANTS
    Keys,     \* ip|username pairs
    Procs     \* requests in flight

ASSUME ProcsAssumption == IsFiniteSet(Procs)

VARIABLES
    entries,  \* loginLimiter.entries
    req,      \* per request: the key whose password it is checking
    hist

limVars == <<entries, req, hist>>

Ages == 0..LoginWindow
Idle == "idle"

------------------------------------------------------------------------------
LimInit ==
    /\ entries = [k \in {} |-> Idle]
    /\ req = [p \in Procs |-> Idle]
    /\ hist = [k \in Keys |-> [a \in Ages |-> 0]]

\* Slip: a refused attempt restarts the block.
Refused_Restarts(p, k) ==
    /\ req[p] = Idle /\ Blocked(entries, k)
    /\ entries' = [entries EXCEPT ![k].age = 0]
    /\ UNCHANGED <<req, hist>>

\* 429: the handler returns at once and changes nothing.
Refused(p, k) == req[p] = Idle /\ Blocked(entries, k) /\ UNCHANGED limVars

Admitted(p, k) ==
    /\ req[p] = Idle
    /\ ~Blocked(entries, k)
    /\ entries' = AfterCheck(entries, k)
    /\ req' = [req EXCEPT ![p] = k]
    /\ UNCHANGED hist

\* Authenticate said no.
Fails(p) ==
    /\ req[p] # Idle
    /\ entries' = AfterFail(entries, req[p])
    /\ hist' = [hist EXCEPT ![req[p]] = [a \in Ages |-> @[a] + 1]]
    /\ req' = [req EXCEPT ![p] = Idle]

\* Authenticate said yes.
Succeeds(p) ==
    /\ req[p] # Idle
    /\ entries' = AfterReset(entries, req[p])
    /\ hist' = [hist EXCEPT ![req[p]] = [a \in Ages |-> 0]]
    /\ req' = [req EXCEPT ![p] = Idle]

TimePasses ==
    /\ entries' = Aged(entries)
    /\ hist' = [k \in Keys |-> [a \in Ages |-> IF a = 0 THEN 0 ELSE hist[k][a - 1]]]
    /\ UNCHANGED req

RestartLimiter == entries' = [k \in {} |-> Idle] /\ req' = [p \in Procs |-> Idle]
           /\ hist' = [k \in Keys |-> [a \in Ages |-> 0]]

LimNext ==
    \/ \E p \in Procs : \/ \E k \in Keys : Refused(p, k) \/ Admitted(p, k)
                        \/ Fails(p)
                        \/ Succeeds(p)
    \/ TimePasses
    \/ RestartLimiter

\* Only time is fair: nobody has to answer for a block to end.
LimSpec == LimInit /\ [][LimNext]_limVars /\ WF_limVars(TimePasses)

------------------------------------------------------------------------------
Overshoot == Cardinality(Procs) - 1

LimTypeOK ==
    /\ EntriesOK(entries, Keys)
    /\ req \in [Procs -> Keys \cup {Idle}]
    /\ hist \in [Keys -> [Ages -> Nat]]

\* The check and the count are apart, so a pair collects more failures than
\* MaxFails, but never more than the requests that were already in flight.
FailsBounded == \A k \in DOMAIN entries : entries[k].fails <= MaxFails + Overshoot

\* Whatever the interleaving, a pair gets through at most two windows' worth
\* of wrong passwords in any stretch of one window: a sweep, an expired entry
\* or a restarted window never gives an attempt back.
AttemptsPerWindow ==
    /\ LimTypeOK /\ FailsBounded
    /\ \A k \in Keys : hist[k][LoginWindow - 1] <= 2 * (MaxFails + Overshoot)

\* Nobody is locked out without MaxFails failures of that very pair within the
\* window and since its last success.
NoFalseBlock ==
    \A k \in Keys : Blocked(entries, k) => hist[k][LoginWindow - 1] >= MaxFails

SucceedsNow(k) == \E p \in Procs : req[p] = k /\ req'[p] = Idle /\ k \notin DOMAIN entries'

AllGone == entries' = [k \in {} |-> Idle] /\ \A p \in Procs : req'[p] = Idle

\* A block ends when a window has passed since the first failure of its count
\* (first, session.go:235: the failure that began the block may be much younger),
\* when a request that passed the check before the block brings the right password,
\* or at a restart; never because other pairs are swept or another attempt restarts
\* the window.
BlockEndsOnlyByRight ==
    [][\A k \in Keys : (Blocked(entries, k) /\ ~Blocked(entries', k)) =>
          \/ k \in DOMAIN entries' /\ entries'[k].age = LoginWindow
          \/ SucceedsNow(k)
          \/ AllGone]_limVars

\* README.md:154-155: "After 5 failed attempts from the same IP for the same
\* username, logins are blocked for 15 minutes": a block that only time ends has
\* lasted a window.  The failure that began it is that old, and whatever failed
\* since was in flight when it did.
BlockLastsAWindow ==
    [][\A k \in Keys : (Blocked(entries, k) /\ ~Blocked(entries', k)) =>
          SucceedsNow(k) \/ AllGone \/ hist'[k][LoginWindow - 1] <= Overshoot]_limVars

\* Trying again while blocked does not prolong the block: it always ends.
BlockEnds == \A k \in Keys : Blocked(entries, k) ~> ~Blocked(entries, k)

==============================================================================
