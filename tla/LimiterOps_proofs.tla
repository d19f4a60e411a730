------------------------- MODULE LimiterOps_proofs -------------------------
(***************************************************************************)
(* What the methods of loginLimiter do to its table: that they keep it     *)
(* well typed, and which entries each may drop, write or leave alone.      *)
(***************************************************************************)
EXTENDS LimiterOps, TLAPS

------------------------------------------------------------------------------
(* The limiter's methods keep its table well typed. *)

\* Dropping entries keeps the rest well typed.
LEMMA WithoutOK ==
  ASSUME NEW E, NEW K, NEW D, EntriesOK(E, K)
  PROVE  EntriesOK(Without(E, D), K)
BY DEF EntriesOK, Without, Restrict

\* blocked() drops one entry at most.
LEMMA AfterCheckOK ==
  ASSUME NEW E, NEW K, NEW k, EntriesOK(E, K)
  PROVE  EntriesOK(AfterCheck(E, k), K)
BY WithoutOK DEF AfterCheck

\* reset() drops one entry.
LEMMA AfterResetOK ==
  ASSUME NEW E, NEW K, NEW k, EntriesOK(E, K)
  PROVE  EntriesOK(AfterReset(E, k), K)
BY WithoutOK DEF AfterReset

\* The entry fail() writes counts at least one failure.
LEMMA CountFailOK ==
  ASSUME NEW E, NEW K, NEW k \in K, EntriesOK(E, K)
  PROVE  CountFail(E, k) \in Entry
<1>1. CASE k \in DOMAIN E /\ E[k].age <= LoginWindow
  <2>1. E[k] \in Entry
    BY <1>1 DEF EntriesOK
  <2>. QED  BY <1>1, <2>1 DEF CountFail, Entry
<1>2. CASE ~(k \in DOMAIN E /\ E[k].age <= LoginWindow)
  BY <1>2, LimiterAssumption DEF CountFail, Entry
<1>. QED  BY <1>1, <1>2

\* fail() sweeps, then writes one entry.
LEMMA AfterFailOK ==
  ASSUME NEW E, NEW K, NEW k \in K, EntriesOK(E, K)
  PROVE  EntriesOK(AfterFail(E, k), K)
<1>. DEFINE kept == Swept(E)
<1>1. EntriesOK(kept, K)
  BY WithoutOK DEF Swept
<1>2. CountFail(kept, k) \in Entry
  BY <1>1, CountFailOK
<1>. QED  BY <1>1, <1>2 DEF EntriesOK, AfterFail

\* Ages stop counting just past the window.
LEMMA AgedOK ==
  ASSUME NEW E, NEW K, EntriesOK(E, K)
  PROVE  EntriesOK(Aged(E), K)
<1>1. ASSUME NEW k \in DOMAIN E
      PROVE  [E[k] EXCEPT !.age = IF @ > LoginWindow THEN @ ELSE @ + 1] \in Entry
  <2>1. E[k] \in Entry
    BY DEF EntriesOK
  <2>. QED  BY <2>1, LimiterAssumption DEF Entry
<1>. QED  BY <1>1 DEF EntriesOK, Aged

------------------------------------------------------------------------------
(* What becomes of each entry. *)

\* session.go:232-244: blocked() drops the pair asked about, and only if it is
\* full and its window over; then the pair is not full any more.
LEMMA CheckDropsOver ==
  ASSUME NEW E, NEW K, NEW k, EntriesOK(E, K), ~Blocked(E, k)
  PROVE  /\ \A j \in DOMAIN AfterCheck(E, k) : j \in DOMAIN E /\ AfterCheck(E, k)[j] = E[j]
         /\ \A j \in DOMAIN E \ DOMAIN AfterCheck(E, k) : j = k /\ E[j].age >= LoginWindow
         /\ k \in DOMAIN AfterCheck(E, k) => AfterCheck(E, k)[k].fails < MaxFails
<1>1. \A j \in DOMAIN E : E[j] \in Entry
  BY DEF EntriesOK
<1>2. CASE Full(E, k)
  BY <1>1, <1>2, LimiterAssumption DEF AfterCheck, Without, Restrict, Full, Blocked, Entry
<1>3. CASE ~Full(E, k)
  BY <1>1, <1>3, LimiterAssumption DEF AfterCheck, Full, Entry
<1>. QED  BY <1>2, <1>3

\* The sweep drops nothing that still blocks or counts.
LEMMA SweepDropsExpired ==
  ASSUME NEW E
  PROVE  /\ \A j \in DOMAIN Swept(E) : j \in DOMAIN E /\ Swept(E)[j] = E[j]
         /\ \A j \in DOMAIN E \ DOMAIN Swept(E) : E[j].age > LoginWindow
BY DEF Swept, Without, Restrict, Expired

\* session.go:246-262: fail() adds one to the pair's entry if its window is not
\* over, and starts a new one else; other entries stay unless they have expired.
LEMMA FailCountsOne ==
  ASSUME NEW E, NEW K, NEW k \in K, EntriesOK(E, K)
  PROVE  /\ k \in DOMAIN AfterFail(E, k)
         /\ \A j \in DOMAIN AfterFail(E, k) \ {k} : j \in DOMAIN E /\ AfterFail(E, k)[j] = E[j]
         /\ \A j \in DOMAIN E \ DOMAIN AfterFail(E, k) : E[j].age > LoginWindow
         /\ k \in DOMAIN E /\ E[k].age <= LoginWindow =>
               AfterFail(E, k)[k] = [fails |-> E[k].fails + 1, age |-> E[k].age]
         /\ ~(k \in DOMAIN E /\ E[k].age <= LoginWindow) => AfterFail(E, k)[k] = [fails |-> 1, age |-> 0]
<1>. DEFINE kept == Swept(E)
<1>1. \A j \in DOMAIN E : E[j] \in Entry
  BY DEF EntriesOK
<1>2. /\ \A j \in DOMAIN kept : j \in DOMAIN E /\ kept[j] = E[j]
      /\ \A j \in DOMAIN E \ DOMAIN kept : E[j].age > LoginWindow
  BY SweepDropsExpired
<1>. HIDE DEF kept
<1>3. AfterFail(E, k) = [j \in DOMAIN kept \cup {k} |-> IF j = k THEN CountFail(kept, k) ELSE kept[j]]
  BY DEF AfterFail, kept
<1>4. CASE k \in DOMAIN E /\ E[k].age <= LoginWindow
  <2>1. k \in DOMAIN kept /\ kept[k] = E[k]
    BY <1>1, <1>2, <1>4, LimiterAssumption DEF Entry
  <2>2. CountFail(kept, k) = [fails |-> E[k].fails + 1, age |-> E[k].age]
    BY <1>1, <1>4, <2>1 DEF CountFail, Entry
  <2>. QED  BY <1>2, <1>3, <1>4, <2>2
<1>5. CASE ~(k \in DOMAIN E /\ E[k].age <= LoginWindow)
  <2>1. CountFail(kept, k) = [fails |-> 1, age |-> 0]
    BY <1>2, <1>5 DEF CountFail
  <2>. QED  BY <1>2, <1>3, <1>5, <2>1
<1>. QED  BY <1>4, <1>5

\* reset() drops the pair's entry and no other.
LEMMA ResetDropsOne ==
  ASSUME NEW E, NEW k
  PROVE  /\ DOMAIN AfterReset(E, k) = DOMAIN E \ {k}
         /\ \A j \in DOMAIN AfterReset(E, k) : AfterReset(E, k)[j] = E[j]
BY DEF AfterReset, Without, Restrict

\* A tick makes every entry a tick older, up to just past the window.
LEMMA AgedByOne ==
  ASSUME NEW E, NEW K, EntriesOK(E, K)
  PROVE  /\ DOMAIN Aged(E) = DOMAIN E
         /\ \A k \in DOMAIN E :
               /\ Aged(E)[k].fails = E[k].fails
               /\ Aged(E)[k].age = IF E[k].age > LoginWindow THEN E[k].age ELSE E[k].age + 1
<1>1. \A k \in DOMAIN E : E[k] \in Entry
  BY DEF EntriesOK
<1>. QED  BY <1>1 DEF Aged, Entry

==============================================================================
