----------------------------- MODULE LimiterOps -----------------------------
(***************************************************************************)
(* The methods of loginLimiter (internal/auth/session.go:217-269) as       *)
(* functions of its table.  Each holds the mutex from start to end, so     *)
(* each is one atomic step of the modules that use it.  An entry keeps the *)
(* time since its first failure, counted up to LoginWindow + 1: the code   *)
(* compares that age with the window and nothing else, so older is all the *)
(* same.                                                                   *)
(***************************************************************************)
EXTENDS Naturals, FiniteSets, Functions

CONSTANTS
    MaxFails,   \* maxLoginFails
    LoginWindow,  \* loginWindow, in ticks
    SweepAt     \* entries beyond which fail() sweeps the table

ASSUME LimiterAssumption ==
    MaxFails \in Nat \ {0} /\ LoginWindow \in Nat \ {0} /\ SweepAt \in Nat

Entry == [fails: Nat \ {0}, age: 0..(LoginWindow + 1)]

Full(entries, k) == k \in DOMAIN entries /\ entries[k].fails >= MaxFails

EntriesOK(entries, keys) == DOMAIN entries \subseteq keys /\ entries \in [DOMAIN entries -> Entry]

\* blocked() answers with the time left, if any.
Blocked(entries, k) == Full(entries, k) /\ entries[k].age < LoginWindow

Without(entries, keys) == Restrict(entries, DOMAIN entries \ keys)

\* blocked() drops a full entry whose window is over.
AfterCheck_ForgetsAll(entries, k) == Without(entries, {k})    \* Slip: any unblocked entry goes

AfterCheck(entries, k) ==
    IF Full(entries, k) /\ ~Blocked(entries, k) THEN Without(entries, {k}) ELSE entries

Expired_All(entries) == DOMAIN entries    \* Slip: the sweep forgets live entries

Expired(entries) == {k \in DOMAIN entries : entries[k].age > LoginWindow}

Swept(entries) ==
    IF Cardinality(DOMAIN entries) > SweepAt THEN Without(entries, Expired(entries)) ELSE entries

\* Slip: a new window starts with the old count.
CountFail_KeepsCount(entries, k) ==
    IF k \in DOMAIN entries
    THEN [fails |-> entries[k].fails + 1,
          age   |-> IF entries[k].age <= LoginWindow THEN entries[k].age ELSE 0]
    ELSE [fails |-> 1, age |-> 0]

CountFail(entries, k) ==
    IF k \in DOMAIN entries /\ entries[k].age <= LoginWindow
    THEN [entries[k] EXCEPT !.fails = @ + 1]
    ELSE [fails |-> 1, age |-> 0]

AfterFail(entries, k) ==
    LET kept == Swept(entries)
    IN  [j \in DOMAIN kept \cup {k} |-> IF j = k THEN CountFail(kept, k) ELSE kept[j]]

AfterReset(entries, k) == Without(entries, {k})

Aged(entries) ==
    [k \in DOMAIN entries |-> [entries[k] EXCEPT !.age = IF @ > LoginWindow THEN @ ELSE @ + 1]]

==============================================================================
