--------------------------- MODULE MemGuardProofs ---------------------------
(* Proofs that no goroutine of the memory guard sleeps through the condition it waits
   for, and that the process's peak is bounded, for any number of derivations and reads,
   any budget and any sizes.  The first needs no sum; the second rests on lemmas about
   the sum of what the reads hold, proved here by a smallest counterexample. *)
EXTENDS MemGuard, FiniteSetTheorems, WellFoundedInduction, TLAPS

\* The types the argument needs; that "used" is never negative follows from the sum of
\* what the reads hold (CounterIsNatural).
Typed ==
  /\ used \in Int
  /\ waiting \in Int
  /\ at \in [Parties -> At]
  /\ need \in [Readers -> Nat]
  /\ ctx \in [Readers -> Ctx]
  /\ holding \subseteq Readers

GuardInv == Typed /\ NoLostWakeup

(* A Broadcast leaves nobody asleep. *)
LEMMA WokenSleepless ==
  ASSUME NEW f \in [Parties -> At]
  PROVE  /\ Woken(f) \in [Parties -> At]
         /\ \A p \in Parties : Woken(f)[p] # "asleep"
  BY DEF Woken, At

(* Nothing sleeps when the guard is new. *)
LEMMA GuardInit == Init => GuardInv
<1> SUFFICES ASSUME Init PROVE GuardInv
  OBVIOUS
<1>1. Typed
  BY DEF Init, Typed, At, Ctx
<1>2. NoLostWakeup
  BY DEF Init, NoLostWakeup, Parties
<1>3. QED BY <1>1, <1>2 DEF GuardInv

(* One turn of the derivation's loop keeps the invariant: it either sleeps on a
   condition that holds, or takes the turn, which holds every sleeper's condition. *)
LEMMA TryTurnKeeps ==
  ASSUME GuardInv, NEW d \in Derivers, NEW w \in Int, w = waiting \/ w = waiting + 1,
         TryTurn(d, w), UNCHANGED <<used, need, ctx, holding>>
  PROVE  GuardInv'
<1> USE DEF GuardInv, Typed, NoLostWakeup, At, Ctx, Parties, MustDerivationWait, MustReadWait
<1>1. CASE MustDerivationWait
  BY <1>1, PartiesAssumption, BudgetAssumption DEF TryTurn
<1>2. CASE ~MustDerivationWait
  BY <1>2, PartiesAssumption, BudgetAssumption DEF TryTurn
<1>3. QED BY <1>1, <1>2

(* One turn of Reserve's loop keeps the invariant: bytes taken only make the
   conditions of the sleepers hold the more. *)
LEMMA TryReserveKeeps ==
  ASSUME GuardInv, NEW r \in Readers, NEW n \in Nat, NEW c \in Ctx,
         TryReserve(r, n, c), UNCHANGED <<deriving, waiting>>
  PROVE  GuardInv'
<1> USE DEF GuardInv, Typed, NoLostWakeup, At, Ctx, Parties, MustDerivationWait, MustReadWait
<1>1. CASE MustReadWait(n) /\ c = "live"
  BY <1>1, PartiesAssumption, BudgetAssumption DEF TryReserve
<1>2. CASE MustReadWait(n) /\ c # "live"
  BY <1>2, PartiesAssumption, BudgetAssumption DEF TryReserve, Forget
<1>3. CASE ~MustReadWait(n)
  <2>1. used + n \in Int /\ used' = used + n /\ at' = [at EXCEPT ![r] = "in"]
    BY <1>3 DEF TryReserve
  <2>2. Typed'
    <3>1. holding' \subseteq Readers
      BY <1>3 DEF TryReserve
    <3>2. /\ need' \in [Readers -> Nat] /\ ctx' \in [Readers -> Ctx]
          /\ at' \in [Parties -> At]
      BY <1>3, <2>1 DEF TryReserve
    <3>3. QED BY <2>1, <3>1, <3>2
  <2>3. (\A d \in Derivers : at[d] = "asleep" => MustDerivationWait)'
    BY <1>3, <2>1, PartiesAssumption
  <2>4. ASSUME NEW s \in Readers, at'[s] = "asleep" PROVE MustReadWait(need[s])'
    <3>1. s # r /\ at[s] = "asleep" /\ need'[s] = need[s] /\ need[s] \in Nat
      BY <1>3, <2>1, <2>4 DEF TryReserve
    <3>2. deriving \/ waiting > 0 \/ used + need[s] > Budget
      BY <3>1
    <3>3. used' + need'[s] >= used + need[s]
      BY <2>1, <3>1
    <3>4. QED BY <3>1, <3>2, <3>3, <2>1, BudgetAssumption
  <2>5. QED BY <2>2, <2>3, <2>4
<1>4. QED BY <1>1, <1>2, <1>3

LEMMA GuardStep == GuardInv /\ [Next]_vars => GuardInv'
<1> SUFFICES ASSUME GuardInv, [Next]_vars PROVE GuardInv'
  OBVIOUS
<1>1. ASSUME NEW d \in Derivers, Lock(d) PROVE GuardInv'
  BY <1>1, TryTurnKeeps DEF Lock, GuardInv, Typed
<1>2. ASSUME NEW d \in Derivers, LockAgain(d) PROVE GuardInv'
  BY <1>2, TryTurnKeeps DEF LockAgain, GuardInv, Typed
<1>3. ASSUME NEW d \in Derivers, Unlock(d) PROVE GuardInv'
  <2>1. [at EXCEPT ![d] = "out"] \in [Parties -> At]
    BY DEF GuardInv, Typed, At, Parties
  <2>2. QED
    BY <1>3, <2>1, WokenSleepless DEF Unlock, GuardInv, Typed, NoLostWakeup, Parties
<1>4. ASSUME NEW r \in Readers, NEW n \in Sizes, NEW c \in {"live", "cancelled"},
             Reserve(r, n, c)
      PROVE  GuardInv'
  <2>1. Asked(n) \in Nat
    BY SizesAssumption DEF Asked
  <2>2. QED
    BY <1>4, <2>1, TryReserveKeeps DEF Reserve, Ctx
<1>5. ASSUME NEW r \in Readers, ReserveAgain(r) PROVE GuardInv'
  BY <1>5, TryReserveKeeps DEF ReserveAgain, GuardInv, Typed
<1>6. ASSUME NEW r \in Readers, Cancel(r) PROVE GuardInv'
  BY <1>6 DEF Cancel, GuardInv, Typed, NoLostWakeup, Ctx, MustDerivationWait, MustReadWait
<1>7. ASSUME NEW r \in Readers, Announce(r) PROVE GuardInv'
  BY <1>7, WokenSleepless DEF Announce, GuardInv, Typed, NoLostWakeup, Ctx, Parties
<1>8. ASSUME NEW r \in Readers, Release(r) PROVE GuardInv'
  <2>1. CASE r \notin holding
    BY <1>8, <2>1, PartiesAssumption DEF Release, Forget, GuardInv, Typed, NoLostWakeup,
       MustDerivationWait, MustReadWait, At, Ctx, Parties
  <2>2. CASE r \in holding
    <3>1. /\ holding' = holding \ {r} /\ at' = Woken(at)
          /\ used' = used - need[r] /\ UNCHANGED <<need, ctx, waiting>>
      BY <1>8, <2>2 DEF Release
    <3>2. at \in [Parties -> At] /\ need[r] \in Nat /\ used \in Int
      BY DEF GuardInv, Typed
    <3>3. holding' \subseteq Readers
      BY <3>1 DEF GuardInv, Typed
    <3>4. Typed'
      BY <3>1, <3>2, <3>3, WokenSleepless DEF GuardInv, Typed
    <3>5. NoLostWakeup'
      BY <3>1, <3>2, WokenSleepless DEF NoLostWakeup, Parties
    <3>6. QED BY <3>4, <3>5 DEF GuardInv
  <2>3. QED BY <2>1, <2>2
<1>9. CASE UNCHANGED vars
  BY <1>9 DEF vars, GuardInv, Typed, NoLostWakeup, MustDerivationWait, MustReadWait
<1>10. QED
  BY <1>1, <1>2, <1>3, <1>4, <1>5, <1>6, <1>7, <1>8, <1>9 DEF Next

(* No goroutine of the guard (Lock, Unlock, Reserve, its context and its release)
   ever sleeps on the condition variable while the condition it waits for holds. *)
THEOREM NoWakeupIsLost == Spec => []NoLostWakeup
<1>1. GuardInv => NoLostWakeup
  BY DEF GuardInv
<1>2. QED BY GuardInit, GuardStep, <1>1, PTL DEF Spec

(***************************************************************************)
(* Sums over a finite set.                                                 *)
(***************************************************************************)
\* What the numbers f gives to the members of S sum to.
SumOf(f, S) == MapThenSumSet(LAMBDA r : f[r], S)

\* g gives every subset of S its sum, whichever member is taken out first.
Sums(f, S, g) ==
  /\ g \in [SUBSET S -> Int]
  /\ g[{}] = 0
  /\ \A s \in SUBSET S : \A x \in s : g[s] = f[x] + g[s \ {x}]

(* A non-empty family of subsets of a finite set has a member none of the others lies
   within. *)
LEMMA SmallestSubset ==
  ASSUME NEW S, IsFiniteSet(S), NEW F \in SUBSET SUBSET S, F # {}
  PROVE  \E s \in F : \A t \in F : t \subseteq s => t = s
<1>1. IsWellFoundedOn(StrictSubsetOrdering(S), SUBSET S)
  BY FS_StrictSubsetOrderingWellFounded, FS_FiniteSubsetsOfFinite, Zenon
<1>2. PICK s \in F : \A t \in F : ~ (<<t, s>> \in StrictSubsetOrdering(S))
  BY <1>1, WFMin, Zenon
<1>3. ASSUME NEW t \in F, t \subseteq s, t # s PROVE FALSE
  BY <1>2, <1>3 DEF StrictSubsetOrdering
<1>4. QED BY <1>3

(* Every finite set has such a function: a smallest subset without one is not empty,
   and one member less has one, which the member's number extends. *)
LEMMA SumsExist ==
  ASSUME NEW S, IsFiniteSet(S), NEW f, \A x \in S : f[x] \in Int
  PROVE  \E g : Sums(f, S, g)
<1> DEFINE F == {s \in SUBSET S : ~ \E g : Sums(f, s, g)}
<1>1. SUFFICES ASSUME S \in F PROVE FALSE
  OBVIOUS
<1>2. PICK s \in F : \A t \in F : t \subseteq s => t = s
  <2>1. F \in SUBSET SUBSET S /\ F # {}
    BY <1>1
  <2> HIDE DEF F
  <2>2. QED BY <2>1, SmallestSubset, SMT
<1>3. s # {}
  <2>1. Sums(f, {}, [t \in SUBSET {} |-> 0])
    BY DEF Sums
  <2>2. QED BY <2>1
<1>4. PICK u \in s : TRUE
  BY <1>3
<1>5. s \ {u} \notin F
  BY <1>2, <1>4
<1>6. PICK g : Sums(f, s \ {u}, g)
  BY <1>2, <1>5
<1> DEFINE h == [t \in SUBSET s |-> IF u \in t THEN f[u] + g[t \ {u}] ELSE g[t]]
<1>7. h \in [SUBSET s -> Int]
  <2>1. ASSUME NEW t \in SUBSET s PROVE h[t] \in Int
    BY <1>2, <1>4, <1>6 DEF Sums
  <2>2. QED BY <2>1
<1>8. h[{}] = 0
  BY <1>6 DEF Sums
<1>9. ASSUME NEW t \in SUBSET s, NEW x \in t PROVE h[t] = f[x] + h[t \ {x}]
  <2>1. CASE x = u
    <3>1. h[t] = f[u] + g[t \ {u}] /\ h[t \ {u}] = g[t \ {u}]
      BY <2>1
    <3>2. QED BY <2>1, <3>1
  <2>2. CASE x # u /\ u \in t
    <3>1. h[t] = f[u] + g[t \ {u}] /\ h[t \ {x}] = f[u] + g[(t \ {x}) \ {u}]
      BY <2>2
    <3>2. g[t \ {u}] = f[x] + g[(t \ {u}) \ {x}]
      BY <2>2, <1>6 DEF Sums
    <3>3. (t \ {u}) \ {x} = (t \ {x}) \ {u}
      OBVIOUS
    <3>4. f[u] \in Int /\ f[x] \in Int /\ g[(t \ {x}) \ {u}] \in Int
      BY <1>2, <1>4, <1>6, <2>2 DEF Sums
    <3> HIDE DEF h
    <3>5. \A a, b, c \in Int : a + (b + c) = b + (a + c)
      OBVIOUS
    <3>6. h[t] = f[u] + (f[x] + g[(t \ {x}) \ {u}])
      BY <3>1, <3>2, <3>3, Zenon
    <3>7. h[t] = f[x] + (f[u] + g[(t \ {x}) \ {u}])
      BY <3>4, <3>5, <3>6, Zenon
    <3>8. QED BY <3>1, <3>7, Zenon
  <2>3. CASE x # u /\ u \notin t
    BY <2>3, <1>6 DEF Sums
  <2>4. QED BY <2>1, <2>2, <2>3
<1>10. Sums(f, s, h)
  BY <1>7, <1>8, <1>9 DEF Sums
<1>11. QED BY <1>2, <1>10

(* There is only one such function, and the fold over S returns its value at S. *)
LEMMA SumIs ==
  ASSUME NEW S, IsFiniteSet(S), NEW f, NEW g, Sums(f, S, g)
  PROVE  SumOf(f, S) = g[S]
<1> DEFINE Pick(s) == CHOOSE x \in s : TRUE
           Solves(k) == k = [s \in SUBSET S |->
                               IF s = {} THEN 0 ELSE f[Pick(s)] + k[s \ {Pick(s)}]]
<1>1. SumOf(f, S) = (CHOOSE k : Solves(k))[S]
  BY DEF SumOf, MapThenSumSet, MapThenFoldSet
<1>2. Solves(g)
  <2>1. ASSUME NEW s \in SUBSET S
        PROVE  g[s] = IF s = {} THEN 0 ELSE f[Pick(s)] + g[s \ {Pick(s)}]
    BY DEF Sums
  <2>2. QED BY <2>1 DEF Sums
<1>3. ASSUME NEW k, Solves(k) PROVE k = g
  <2> DEFINE F == {s \in SUBSET S : k[s] # g[s]}
  <2>1. SUFFICES ASSUME F # {} PROVE FALSE
    BY <1>3, <1>2
  <2>2. PICK s \in F : \A t \in F : t \subseteq s => t = s
    <3>1. F \in SUBSET SUBSET S
      OBVIOUS
    <3> HIDE DEF F
    <3>2. QED BY <2>1, <3>1, SmallestSubset, SMT
  <2>3. s # {}
    BY <1>2, <1>3, <2>2
  <2>4. Pick(s) \in s
    BY <2>3
  <2>5. s \ {Pick(s)} \notin F
    BY <2>2, <2>4
  <2>6. k[s] = g[s]
    BY <1>2, <1>3, <2>2, <2>3, <2>5
  <2>7. QED BY <2>2, <2>6
<1>4. (CHOOSE k : Solves(k)) = g
  BY <1>2, <1>3
<1>5. QED BY <1>1, <1>4

(* Taking a member out of a finite set takes its number out of the sum. *)
LEMMA SumWithout ==
  ASSUME NEW S, IsFiniteSet(S), NEW f, \A x \in S : f[x] \in Int
  PROVE  /\ SumOf(f, S) \in Int
         /\ \A x \in S : SumOf(f, S) = f[x] + SumOf(f, S \ {x})
<1>1. PICK g : Sums(f, S, g)
  BY SumsExist
<1>2. SumOf(f, S) = g[S]
  BY <1>1, SumIs
<1>3. SumOf(f, S) \in Int
  BY <1>1, <1>2 DEF Sums
<1>4. ASSUME NEW x \in S PROVE SumOf(f, S) = f[x] + SumOf(f, S \ {x})
  <2> DEFINE R == S \ {x}
             h == [s \in SUBSET R |-> g[s]]
  <2>1. IsFiniteSet(R)
    BY FS_RemoveElement
  <2>2. Sums(f, R, h)
    BY <1>1 DEF Sums
  <2>3. SumOf(f, R) = h[R] /\ h[R] = g[R]
    BY <2>1, <2>2, SumIs
  <2>4. g[S] = f[x] + g[R]
    BY <1>1 DEF Sums
  <2>5. QED BY <1>2, <2>3, <2>4
<1>5. QED BY <1>3, <1>4

(* The sum over no members is zero. *)
LEMMA SumOfNone ==
  ASSUME NEW f
  PROVE  SumOf(f, {}) = 0
<1>1. IsFiniteSet({})
  BY FS_EmptySet
<1>2. PICK g : Sums(f, {}, g)
  BY <1>1, SumsExist
<1>3. QED BY <1>1, <1>2, SumIs DEF Sums

(* The sum reads nothing but the numbers of the set's members. *)
LEMMA SumAgrees ==
  ASSUME NEW S, IsFiniteSet(S), NEW f, NEW e,
         \A x \in S : f[x] \in Int /\ e[x] = f[x]
  PROVE  SumOf(e, S) = SumOf(f, S)
<1>1. PICK g : Sums(f, S, g)
  BY SumsExist
<1>2. Sums(e, S, g)
  BY <1>1 DEF Sums
<1>3. QED BY <1>1, <1>2, SumIs

(* Natural numbers have a natural sum, and none of them is above it. *)
LEMMA SumOfNaturals ==
  ASSUME NEW S, IsFiniteSet(S), NEW f, \A x \in S : f[x] \in Nat
  PROVE  /\ SumOf(f, S) \in Nat
         /\ \A x \in S : f[x] =< SumOf(f, S)
<1> DEFINE F == {s \in SUBSET S : SumOf(f, s) \notin Nat}
<1>1. F = {}
  <2>1. SUFFICES ASSUME F # {} PROVE FALSE
    OBVIOUS
  <2>2. F \in SUBSET SUBSET S
    OBVIOUS
  <2> HIDE DEF F
  <2>3. PICK s \in F : \A t \in F : t \subseteq s => t = s
    BY <2>1, <2>2, SmallestSubset, SMT
  <2> USE DEF F
  <2>4. IsFiniteSet(s)
    BY <2>3, FS_Subset
  <2>5. s # {}
    BY <2>3, SumOfNone
  <2>6. PICK u \in s : TRUE
    BY <2>5
  <2>7. SumOf(f, s \ {u}) \in Nat
    BY <2>3, <2>6
  <2>8. SumOf(f, s) = f[u] + SumOf(f, s \ {u}) /\ f[u] \in Nat
    <3>1. \A x \in s : f[x] \in Int /\ f[x] \in Nat
      BY <2>3
    <3>2. QED BY <2>4, <3>1, SumWithout
  <2>9. QED BY <2>3, <2>7, <2>8
<1>2. ASSUME NEW x \in S PROVE f[x] =< SumOf(f, S)
  <2>1. \A y \in S : f[y] \in Int
    OBVIOUS
  <2>2. SumOf(f, S) = f[x] + SumOf(f, S \ {x})
    BY <2>1, SumWithout
  <2>3. SumOf(f, S \ {x}) \in Nat
    BY <1>1
  <2>4. QED BY <2>2, <2>3
<1>3. QED BY <1>1, <1>2

(***************************************************************************)
(* The peak.                                                               *)
(***************************************************************************)
(* What makes the peak hold: the budget's counter is what the reads that still hold
   their bytes asked for, a read holds bytes only from its Reserve to its release, and
   the turn is held by one derivation, beside no byte of the budget. *)
Books ==
  /\ IsFiniteSet(holding)
  /\ used = SumOf(need, holding)
  /\ used =< Budget
  /\ \A r \in holding : at[r] = "in"

OneTurn ==
  /\ \A d, e \in Derivers : at[d] = "in" /\ at[e] = "in" => d = e
  /\ \A d \in Derivers : at[d] = "in" => deriving
  /\ deriving => used = 0

PeakInv == GuardInv /\ Books /\ OneTurn

(* The counter is a natural number, and no read holds more than it says. *)
LEMMA CounterIsNatural ==
  ASSUME GuardInv, Books
  PROVE  used \in Nat /\ \A r \in holding : need[r] =< used
<1>1. \A r \in holding : need[r] \in Nat
  BY DEF GuardInv, Typed
<1>2. QED BY <1>1, SumOfNaturals DEF Books

LEMMA PeakInit == Init => PeakInv
<1> SUFFICES ASSUME Init PROVE PeakInv
  OBVIOUS
<1>1. Books
  BY SumOfNone, FS_EmptySet, BudgetAssumption DEF Init, Books
<1>2. OneTurn
  BY DEF Init, OneTurn, Parties
<1>3. QED BY <1>1, <1>2, GuardInit DEF PeakInv

(* A step that moves nobody into or out of the turn or the budget, and changes what is
   asked only for goroutines that hold no bytes, keeps the books. *)
LEMMA BooksAside ==
  ASSUME PeakInv, UNCHANGED <<used, deriving, holding>>,
         \A r \in holding : need'[r] = need[r] /\ at'[r] = "in",
         \A d \in Derivers : at'[d] = "in" => at[d] = "in"
  PROVE  Books' /\ OneTurn'
<1>1. \A r \in holding : need[r] \in Int /\ need'[r] = need[r]
  BY DEF PeakInv, GuardInv, Typed
<1>2. SumOf(need', holding) = SumOf(need, holding)
  BY <1>1, SumAgrees DEF PeakInv, Books
<1>3. SumOf(need, holding)' = SumOf(need', holding')
  BY DEF SumOf, MapThenSumSet, MapThenFoldSet
<1>4. Books'
  BY <1>2, <1>3 DEF PeakInv, Books
<1>5. OneTurn'
  BY DEF PeakInv, OneTurn
<1>6. QED BY <1>4, <1>5

(* One turn of the derivation's loop: the turn is taken only where no byte of the
   budget is held and no other derivation has it. *)
LEMMA TryTurnKeepsPeak ==
  ASSUME PeakInv, NEW d \in Derivers, at[d] \in {"out", "ready"}, NEW w, TryTurn(d, w),
         UNCHANGED <<used, need, ctx, holding>>
  PROVE  Books' /\ OneTurn'
<1>1. at \in [Parties -> At] /\ d \in Parties /\ holding \subseteq Readers
  BY DEF PeakInv, GuardInv, Typed, Parties
<1>2. \A r \in holding : r \in Parties /\ r # d /\ at[r] = "in"
  BY <1>1, PartiesAssumption DEF PeakInv, Books, Parties
<1>3. CASE MustDerivationWait
  <2>1. at' = [at EXCEPT ![d] = "asleep"] /\ UNCHANGED deriving
    BY <1>3 DEF TryTurn
  <2>2. QED BY <1>1, <1>2, <2>1, BooksAside DEF Parties
<1>4. CASE ~MustDerivationWait
  <2>1. at' = [at EXCEPT ![d] = "in"] /\ deriving' = TRUE /\ ~deriving /\ ~(used > 0)
    BY <1>4 DEF TryTurn, MustDerivationWait
  <2>2. used = 0
    BY <2>1, CounterIsNatural DEF PeakInv
  <2>3. Books'
    <3>1. SumOf(need, holding)' = SumOf(need, holding)
      BY DEF SumOf, MapThenSumSet, MapThenFoldSet
    <3>2. QED BY <1>1, <1>2, <2>1, <3>1 DEF PeakInv, Books
  <2>4. OneTurn'
    BY <1>1, <2>1, <2>2 DEF PeakInv, OneTurn, Parties
  <2>5. QED BY <2>3, <2>4
<1>5. QED BY <1>3, <1>4

(* One turn of Reserve's loop: the bytes taken join the counter and fit the budget. *)
LEMMA TryReserveKeepsPeak ==
  ASSUME PeakInv, NEW r \in Readers, at[r] \in {"out", "ready"}, NEW n \in Nat, NEW c,
         TryReserve(r, n, c), UNCHANGED <<deriving, waiting>>
  PROVE  Books' /\ OneTurn'
<1>1. /\ at \in [Parties -> At] /\ r \in Parties /\ holding \subseteq Readers
      /\ need \in [Readers -> Nat] /\ r \notin Derivers
  BY PartiesAssumption DEF PeakInv, GuardInv, Typed, Parties
<1>2. r \notin holding /\ \A s \in holding : s \in Parties /\ s # r /\ at[s] = "in"
  BY <1>1 DEF PeakInv, Books, Parties
<1>3. CASE MustReadWait(n)
  <2>1. /\ \E b \in {"asleep", "out"} : at' = [at EXCEPT ![r] = b]
        /\ \E b : need' = [need EXCEPT ![r] = b]
        /\ UNCHANGED <<used, holding>>
    BY <1>3 DEF TryReserve, Forget
  <2>2. \A s \in holding : need'[s] = need[s] /\ at'[s] = "in"
    BY <1>1, <1>2, <2>1
  <2>3. \A d \in Derivers : at'[d] = "in" => at[d] = "in"
    BY <1>1, <2>1
  <2>4. QED BY <2>1, <2>2, <2>3, BooksAside
<1>4. CASE ~MustReadWait(n)
  <2>1. /\ at' = [at EXCEPT ![r] = "in"] /\ need' = [need EXCEPT ![r] = n]
        /\ used' = used + n /\ holding' = holding \cup {r}
        /\ ~deriving /\ ~(used + n > Budget)
    BY <1>4 DEF TryReserve, MustReadWait
  <2>2. IsFiniteSet(holding) /\ IsFiniteSet(holding')
    BY <2>1, FS_AddElement DEF PeakInv, Books
  <2>3. SumOf(need', holding) = SumOf(need, holding)
    <3>1. \A s \in holding : need[s] \in Int /\ need'[s] = need[s]
      BY <1>1, <1>2, <2>1
    <3>2. QED BY <2>2, <3>1, SumAgrees
  <2>4. SumOf(need', holding') = n + SumOf(need', holding)
    <3>1. \A s \in holding' : need'[s] \in Int
      BY <1>1, <2>1
    <3>2. r \in holding' /\ need'[r] = n /\ holding' \ {r} = holding
      BY <1>1, <1>2, <2>1
    <3>3. \A s \in holding' : SumOf(need', holding') = need'[s] + SumOf(need', holding' \ {s})
      BY <2>2, <3>1, SumWithout
    <3>4. QED BY <3>2, <3>3
  <2>5. SumOf(need, holding)' = SumOf(need', holding')
    BY DEF SumOf, MapThenSumSet, MapThenFoldSet
  <2>6. used \in Nat /\ used = SumOf(need, holding)
    BY CounterIsNatural DEF PeakInv, Books
  <2>7. used' = SumOf(need', holding') /\ used' =< Budget
    <3>1. SumOf(need', holding') = n + used
      BY <2>3, <2>4, <2>6
    <3>2. QED BY <2>1, <2>6, <3>1, BudgetAssumption
  <2>8. Books'
    BY <1>1, <1>2, <2>1, <2>2, <2>5, <2>7 DEF Books
  <2>9. OneTurn'
    BY <1>1, <2>1 DEF PeakInv, OneTurn, Parties
  <2>10. QED BY <2>8, <2>9
<1>5. QED BY <1>3, <1>4

(* The release gives back exactly what its read asked for. *)
LEMMA ReleaseKeepsPeak ==
  ASSUME PeakInv, NEW r \in Readers, Release(r)
  PROVE  Books' /\ OneTurn'
<1>1. /\ at \in [Parties -> At] /\ r \in Parties /\ holding \subseteq Readers
      /\ need \in [Readers -> Nat] /\ r \notin Derivers
  BY PartiesAssumption DEF PeakInv, GuardInv, Typed, Parties
<1>2. \A s \in holding : s \in Parties /\ at[s] = "in"
  BY <1>1 DEF PeakInv, Books, Parties
<1>3. CASE r \notin holding
  <2>1. /\ at' = [at EXCEPT ![r] = "out"] /\ need' = [need EXCEPT ![r] = 0]
        /\ UNCHANGED <<used, holding, deriving>>
    BY <1>3 DEF Release, Forget
  <2>2. QED BY <1>1, <1>2, <1>3, <2>1, BooksAside
<1>4. CASE r \in holding
  <2>1. /\ used' = used - need[r] /\ holding' = holding \ {r} /\ at' = Woken(at)
        /\ need' = need /\ deriving' = deriving
    BY <1>4 DEF Release
  <2>2. IsFiniteSet(holding) /\ IsFiniteSet(holding')
    BY <2>1, FS_RemoveElement DEF PeakInv, Books
  <2>3. SumOf(need, holding) = need[r] + SumOf(need, holding')
    <3>1. \A s \in holding : need[s] \in Int
      BY <1>1
    <3>2. \A s \in holding : SumOf(need, holding) = need[s] + SumOf(need, holding \ {s})
      BY <2>2, <3>1, SumWithout
    <3>3. QED BY <1>4, <2>1, <3>2
  <2>4. SumOf(need, holding)' = SumOf(need, holding')
    BY <2>1 DEF SumOf, MapThenSumSet, MapThenFoldSet
  <2>5. SumOf(need, holding') \in Nat
    <3>1. \A s \in holding' : need[s] \in Nat
      BY <1>1, <2>1
    <3>2. QED BY <2>2, <3>1, SumOfNaturals
  <2>6. used \in Nat /\ used = SumOf(need, holding) /\ need[r] \in Nat /\ used =< Budget
    BY <1>1, CounterIsNatural DEF PeakInv, Books
  <2>7. used' = SumOf(need, holding') /\ used' =< used
    BY <2>1, <2>3, <2>5, <2>6
  <2>8. Books'
    <3>1. used' =< Budget
      BY <2>5, <2>6, <2>7, BudgetAssumption
    <3>2. \A s \in holding' : at'[s] = "in"
      BY <1>2, <2>1 DEF Woken
    <3>3. QED BY <2>2, <2>4, <2>7, <3>1, <3>2 DEF Books
  <2>9. OneTurn'
    <3>1. deriving' => used' = 0
      BY <2>1, <2>5, <2>6, <2>7 DEF PeakInv, OneTurn
    <3>2. \A d \in Derivers : at'[d] = "in" => at[d] = "in"
      BY <2>1 DEF Woken, Parties
    <3>3. QED BY <2>1, <3>1, <3>2 DEF PeakInv, OneTurn
  <2>10. QED BY <2>8, <2>9
<1>5. QED BY <1>3, <1>4

LEMMA PeakStep == PeakInv /\ [Next]_vars => PeakInv'
<1> SUFFICES ASSUME PeakInv, [Next]_vars PROVE PeakInv'
  OBVIOUS
<1> DEFINE Kept == Books' /\ OneTurn'
<1>1. /\ at \in [Parties -> At] /\ holding \subseteq Readers /\ need \in [Readers -> Nat]
      /\ waiting \in Int /\ \A s \in holding : s \in Parties /\ at[s] = "in"
  BY DEF PeakInv, Books, GuardInv, Typed, Parties
<1>2. ASSUME NEW d \in Derivers, Lock(d) \/ LockAgain(d) PROVE Kept
  <2>1. at[d] \in {"out", "ready"} /\ UNCHANGED <<used, need, ctx, holding>>
    BY <1>2 DEF Lock, LockAgain
  <2>2. TryTurn(d, waiting + 1) \/ TryTurn(d, waiting)
    BY <1>2 DEF Lock, LockAgain
  <2>3. QED BY <2>1, <2>2, TryTurnKeepsPeak
<1>3. ASSUME NEW d \in Derivers, Unlock(d) PROVE Kept
  <2>1. /\ at[d] = "in" /\ deriving' = FALSE /\ at' = Woken([at EXCEPT ![d] = "out"])
        /\ UNCHANGED <<used, need, holding>>
    BY <1>3 DEF Unlock
  <2>2. \A e \in Derivers : at'[e] # "in"
    BY <1>1, <2>1 DEF Woken, Parties, PeakInv, OneTurn
  <2>3. OneTurn'
    BY <2>1, <2>2 DEF OneTurn
  <2>4. \A s \in holding : at'[s] = "in"
    BY <1>1, <2>1, PartiesAssumption DEF Woken
  <2>5. SumOf(need, holding)' = SumOf(need, holding)
    BY <2>1 DEF SumOf, MapThenSumSet, MapThenFoldSet
  <2>6. Books'
    BY <2>1, <2>4, <2>5 DEF PeakInv, Books
  <2>7. QED BY <2>3, <2>6
<1>4. ASSUME NEW r \in Readers, NEW n \in Sizes, NEW c \in {"live", "cancelled"},
             Reserve(r, n, c)
      PROVE  Kept
  <2>1. Asked(n) \in Nat
    BY SizesAssumption DEF Asked
  <2>2. QED BY <1>4, <2>1, TryReserveKeepsPeak DEF Reserve
<1>5. ASSUME NEW r \in Readers, ReserveAgain(r) PROVE Kept
  BY <1>1, <1>5, TryReserveKeepsPeak DEF ReserveAgain
<1>6. ASSUME NEW r \in Readers, Cancel(r) \/ Announce(r) PROVE Kept
  <2>1. UNCHANGED <<used, deriving, need, holding>> /\ at' \in {at, Woken(at)}
    BY <1>6 DEF Cancel, Announce
  <2>2. /\ \A s \in holding : need'[s] = need[s] /\ at'[s] = "in"
        /\ \A d \in Derivers : at'[d] = "in" => at[d] = "in"
    BY <1>1, <2>1 DEF Woken, Parties
  <2>3. QED BY <2>1, <2>2, BooksAside
<1>7. ASSUME NEW r \in Readers, Release(r) PROVE Kept
  BY <1>7, ReleaseKeepsPeak
<1>8. ASSUME UNCHANGED vars PROVE Kept
  <2>1. at' = at /\ need' = need /\ UNCHANGED <<used, deriving, holding>>
    BY <1>8 DEF vars
  <2>2. /\ \A s \in holding : need'[s] = need[s] /\ at'[s] = "in"
        /\ \A d \in Derivers : at'[d] = "in" => at[d] = "in"
    BY <1>1, <2>1
  <2>3. QED BY <2>1, <2>2, BooksAside
<1>9. Kept
  <2> HIDE DEF Kept
  <2>1. CASE \E d \in Derivers : Lock(d) \/ LockAgain(d) \/ Unlock(d)
    BY <1>2, <1>3, <2>1
  <2>2. ASSUME NEW r \in Readers,
               \/ \E n \in Sizes, c \in {"live", "cancelled"} : Reserve(r, n, c)
               \/ ReserveAgain(r) \/ Cancel(r) \/ Announce(r) \/ Release(r)
        PROVE  Kept
    BY <1>4, <1>5, <1>6, <1>7, <2>2
  <2>3. QED BY <1>8, <2>1, <2>2 DEF Next
<1>10. QED BY <1>9, GuardStep DEF PeakInv

(* The books and the turn are the bound on the peak. *)
LEMMA PeakFromInv == PeakInv => PeakIsBounded
<1> SUFFICES ASSUME PeakInv PROVE PeakIsBounded
  OBVIOUS
<1>1. ASSUME NEW d \in Derivers, at[d] = "in", NEW r \in holding PROVE need[r] = 0
  <2>1. used = 0 /\ need[r] \in Nat
    BY <1>1 DEF PeakInv, OneTurn, GuardInv, Typed
  <2>2. need[r] =< used
    BY CounterIsNatural DEF PeakInv
  <2>3. QED BY <2>1, <2>2
<1>2. SumOf(need, holding) =< Budget
  BY DEF PeakInv, Books
<1>3. MapThenSumSet(LAMBDA r : need[r], holding) =< Budget
  BY <1>2 DEF SumOf
<1>4. QED BY <1>1, <1>3 DEF PeakIsBounded, PeakInv, OneTurn

(* The process's peak is the larger of one derivation and the budget, however many
   derivations and reads there are: one derivation at most has the turn, no read holds
   bytes beside it, and what the reads hold together stays within the budget (Lock,
   Unlock, Reserve and its release). *)
THEOREM PeakIsTheLarger == Spec => []PeakIsBounded
<1>1. QED BY PeakInit, PeakStep, PeakFromInv, PTL DEF Spec
=============================================================================
