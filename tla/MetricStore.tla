---------------------------- MODULE MetricStore ----------------------------
(***************************************************************************)
(* The in-memory window of internal/storage/memory.go as MultiStore        *)
(* (multi.go) feeds it and the handlers read it.  The collector hands each *)
(* snapshot to a goroutine of its own (go s.Save), so saves may run in any *)
(* order; GetAll returns the slice m.data itself, which a handler goes on  *)
(* reading after it has given the lock back.  Slices are modelled as Go    *)
(* has them: a window onto a backing array that others may share.          *)
(***************************************************************************)
EXTENDS Naturals, Sequences, SequencesExt, FiniteSets

CONSTANTS
    Window,    \* m.max, 300 in the code
    Readers,   \* HTTP requests holding a slice
    MaxTicks   \* bound: snapshots collected

ASSUME WindowAssumption == Window \in Nat \ {0} /\ MaxTicks \in Nat /\ IsFiniteSet(Readers)

VARIABLES
    tick,    \* snapshots collected; the k-th is the number k
    saving,  \* snapshots whose Save has not run yet
    cells,   \* array id -> its cells, one for each unit of capacity
    data,    \* m.data: [arr, lo, len]
    view     \* reader -> the slice GetAll gave it

metricVars == <<tick, saving, cells, data, view>>

------------------------------------------------------------------------------
\* One array for m.data, one for each reader, and one more to grow into.
ArrayIds == 1..(Cardinality(Readers) + 2)

NilSlice == [arr |-> 1, lo |-> 0, len |-> 0]

Contents(s) == SubSeq(cells[s.arr], s.lo + 1, s.lo + s.len)

Free(id) == id # data.arr /\ \A r \in Readers : view[r].arr # id \/ view[r].len = 0

\* m.data[1:] when the window is full.
Trimmed(s) == IF s.len >= Window THEN [s EXCEPT !.lo = @ + 1, !.len = @ - 1] ELSE s

HasRoom(s) == s.lo + s.len < Len(cells[s.arr])

\* append in place: the cell after the slice's last.
AppendInPlace(s, p) ==
    /\ cells' = [cells EXCEPT ![s.arr][s.lo + s.len + 1] = p]
    /\ data' = [s EXCEPT !.len = @ + 1]

\* append into a new array, of any capacity the runtime may pick.
AppendGrown(s, p) ==
    \E id \in ArrayIds, spare \in 0..(s.len + 1) :
        /\ Free(id)
        /\ \A j \in ArrayIds : j < id => ~Free(j)
        /\ cells' = [cells EXCEPT ![id] = Contents(s) \o <<p>> \o [k \in 1..spare |-> 0]]
        /\ data' = [arr |-> id, lo |-> 0, len |-> s.len + 1]

MetricInit ==
    /\ tick = 0 /\ saving = {}
    /\ cells = [id \in ArrayIds |-> <<>>]
    /\ data = NilSlice
    /\ view = [r \in Readers |-> NilSlice]

------------------------------------------------------------------------------
\* app.go's loop: Collect, then MultiStore.Save, which only spawns.
Collect ==
    /\ tick < MaxTicks
    /\ tick' = tick + 1
    /\ saving' = saving \cup {tick + 1}
    /\ UNCHANGED <<cells, data, view>>

\* Slip: a full window is shifted down inside its array instead of moved along it.
Save_ShiftDown(p) ==
    /\ p \in saving
    /\ IF data.len >= Window
       THEN /\ cells' = [cells EXCEPT ![data.arr] =
                   [k \in DOMAIN @ |-> IF k = data.lo + data.len THEN p
                                       ELSE IF k \in (data.lo + 1)..(data.lo + data.len) THEN @[k + 1] ELSE @[k]]]
            /\ UNCHANGED data
       ELSE IF HasRoom(data) THEN AppendInPlace(data, p) ELSE AppendGrown(data, p)
    /\ saving' = saving \ {p}
    /\ UNCHANGED <<tick, view>>

\* MemoryStore.Save under the lock.
Save(p) ==
    /\ p \in saving
    /\ LET s == Trimmed(data)
       IN  IF HasRoom(s) THEN AppendInPlace(s, p) ELSE AppendGrown(s, p)
    /\ saving' = saving \ {p}
    /\ UNCHANGED <<tick, view>>

GetAll(r) ==
    /\ view[r] = NilSlice
    /\ data.len > 0
    /\ view' = [view EXCEPT ![r] = data]
    /\ UNCHANGED <<tick, saving, cells, data>>

\* The handler has encoded its answer.
Release(r) ==
    /\ view[r].len > 0
    /\ view' = [view EXCEPT ![r] = NilSlice]
    /\ UNCHANGED <<tick, saving, cells, data>>

MetricNext ==
    \/ Collect
    \/ \E p \in saving : Save(p)
    \/ \E r \in Readers : GetAll(r) \/ Release(r)

MetricSpec == MetricInit /\ [][MetricNext]_metricVars

------------------------------------------------------------------------------
Slices == [arr : ArrayIds, lo : Nat, len : 0..Window]

SliceOK(s) == s \in Slices /\ s.lo + s.len <= Len(cells[s.arr])

MetricTypeOK ==
    /\ tick \in 0..MaxTicks /\ saving \subseteq 1..tick
    /\ SliceOK(data)
    /\ DOMAIN view = Readers /\ \A r \in Readers : SliceOK(view[r])
    /\ DOMAIN cells = ArrayIds /\ \A id \in ArrayIds : cells[id] \in Seq(0..MaxTicks)

\* To its users the store is a window of whole snapshots: however often append
\* has moved on to another array, and though a handler reads without the lock a
\* slice that shares its array with the store and with other requests, the
\* window holds the last Window snapshots saved, in the order of the saves, and
\* what a handler reads does not change while it reads it.
Abstract == INSTANCE MetricWindow WITH
    window <- Contents(data), view <- [r \in Readers |-> Contents(view[r])]

ImplementsWindow == []MetricTypeOK /\ Abstract!WindowSpec

==============================================================================
