---------------------------- MODULE MetricWindow ----------------------------
(***************************************************************************)
(* What the in-memory window of internal/storage promises its users, with  *)
(* nothing said of slices and arrays: Save appends a snapshot to the last  *)
(* ones and drops the oldest of too many, GetAll hands out a copy, and the *)
(* saves of MultiStore run in goroutines of their own, in any order.       *)
(* MetricStore implements it; CollectionLoop is built on it.               *)
(***************************************************************************)
EXTENDS Naturals, Sequences

CONSTANTS
    Window,    \* m.max, 300 in the code
    Readers,   \* HTTP requests holding what GetAll gave them
    MaxTicks   \* bound: snapshots collected

VARIABLES
    tick,    \* snapshots collected; the k-th is the number k
    saving,  \* snapshots whose Save has not run yet
    window,  \* the snapshots kept, oldest first
    view     \* reader -> what GetAll gave it

windowVars == <<tick, saving, window, view>>

------------------------------------------------------------------------------
Kept_Newest(s) == IF Len(s) > Window THEN SubSeq(s, 1, Window) ELSE s    \* Slip

Kept(s) == IF Len(s) > Window THEN Tail(s) ELSE s

WindowInit ==
    /\ tick = 0 /\ saving = {}
    /\ window = <<>>
    /\ view = [r \in Readers |-> <<>>]

Collect ==
    /\ tick < MaxTicks
    /\ tick' = tick + 1
    /\ saving' = saving \cup {tick + 1}
    /\ UNCHANGED <<window, view>>

Save(p) ==
    /\ p \in saving
    /\ window' = Kept(Append(window, p))
    /\ saving' = saving \ {p}
    /\ UNCHANGED <<tick, view>>

GetAll(r) ==
    /\ view[r] = <<>>
    /\ window # <<>>
    /\ view' = [view EXCEPT ![r] = window]
    /\ UNCHANGED <<tick, saving, window>>

Release(r) ==
    /\ view[r] # <<>>
    /\ view' = [view EXCEPT ![r] = <<>>]
    /\ UNCHANGED <<tick, saving, window>>

WindowNext ==
    \/ Collect
    \/ \E p \in saving : Save(p)
    \/ \E r \in Readers : GetAll(r) \/ Release(r)

WindowSpec == WindowInit /\ [][WindowNext]_windowVars

==============================================================================
