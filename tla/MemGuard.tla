------------------------------ MODULE MemGuard ------------------------------
(***************************************************************************)
(* The process-wide memory guard of an encrypted archive's reader          *)
(* (internal/memguard): a mutex, a condition variable and three fields.    *)
(* Key derivations run one at a time and never beside a unit read that     *)
(* holds budget; unit reads share one budget and stand behind a waiting    *)
(* derivation.                                                             *)
(*                                                                         *)
(* Every section between mu.Lock and mu.Unlock is one action.  A goroutine *)
(* that waits on the condition variable sleeps until a Broadcast makes it  *)
(* ready, and then evaluates its loop's condition again in a step of its   *)
(* own: a missing Broadcast is a goroutine that sleeps for ever, which the *)
(* model can express.                                                      *)
(***************************************************************************)
EXTENDS Integers, FiniteSetsExt

CONSTANTS Derivers,   \* goroutines that take a derivation turn
          Readers,    \* goroutines that read a unit whole
          Budget,     \* the unit reads' shared budget
          Sizes       \* the sizes, in bytes, a read may ask for

ASSUME BudgetAssumption == Budget \in Nat
ASSUME SizesAssumption == Sizes \subseteq Int
ASSUME PartiesAssumption == Derivers \cap Readers = {}

Parties == Derivers \cup Readers

VARIABLES used,       \* bytes of the budget the unit reads hold
          deriving,   \* a derivation holds the turn
          waiting,    \* derivations inside Lock: new reads wait behind them
          at,         \* where each goroutine is
          need,       \* the bytes a read asked for, negative ones as none
          ctx,        \* the context of a read's request
          holding     \* reads whose release has not run yet

vars == <<used, deriving, waiting, at, need, ctx, holding>>

At == {"out", "asleep", "ready", "in"}
Ctx == {"live", "cancelled", "announced"}

Init ==
  /\ used = 0
  /\ deriving = FALSE
  /\ waiting = 0
  /\ at = [p \in Parties |-> "out"]
  /\ need = [r \in Readers |-> 0]
  /\ ctx = [r \in Readers |-> "live"]
  /\ holding = {}

\* cond.Broadcast: every goroutine asleep on the condition is made ready.
Woken(f) == [p \in Parties |-> IF f[p] = "asleep" THEN "ready" ELSE f[p]]

(***************************************************************************)
(* Derivations: Lock and Unlock.                                           *)
(***************************************************************************)
\* Mutant: the turn is taken beside reads that hold budget.
MustDerivationWaitMutant == deriving
MustDerivationWait == deriving \/ used > 0

\* The loop of Lock, once: sleep, or take the turn.
TryTurn(d, w) ==
  IF MustDerivationWait
    THEN /\ at' = [at EXCEPT ![d] = "asleep"]
         /\ waiting' = w
         /\ UNCHANGED deriving
    ELSE /\ at' = [at EXCEPT ![d] = "in"]
         /\ waiting' = w - 1
         /\ deriving' = TRUE

Lock(d) ==
  /\ at[d] = "out"
  /\ TryTurn(d, waiting + 1)
  /\ UNCHANGED <<used, need, ctx, holding>>

LockAgain(d) ==
  /\ at[d] = "ready"
  /\ TryTurn(d, waiting)
  /\ UNCHANGED <<used, need, ctx, holding>>

\* Mutant: the turn ends without a Broadcast.
UnlockMutant(d) ==
  /\ at[d] = "in"
  /\ deriving' = FALSE
  /\ at' = [at EXCEPT ![d] = "out"]
  /\ UNCHANGED <<used, waiting, need, ctx, holding>>

Unlock(d) ==
  /\ at[d] = "in"
  /\ deriving' = FALSE
  /\ at' = Woken([at EXCEPT ![d] = "out"])
  /\ UNCHANGED <<used, waiting, need, ctx, holding>>

(***************************************************************************)
(* Unit reads: Reserve, its context, and the release it returns.           *)
(***************************************************************************)
\* Mutant: a new read does not stand behind a waiting derivation.
MustReadWaitMutant(n) == deriving \/ used + n > Budget
MustReadWait(n) == deriving \/ waiting > 0 \/ used + n > Budget

Asked(n) == IF n < 0 THEN 0 ELSE n

\* The call is over: its size and its context mean nothing any more.
Forget(r) ==
  /\ need' = [need EXCEPT ![r] = 0]
  /\ ctx' = [ctx EXCEPT ![r] = "live"]

\* The loop of Reserve, once: give up a cancelled wait, sleep, or take the bytes.
TryReserve(r, n, c) ==
  \/ /\ MustReadWait(n) /\ c = "live"
     /\ at' = [at EXCEPT ![r] = "asleep"]
     /\ need' = [need EXCEPT ![r] = n]
     /\ ctx' = [ctx EXCEPT ![r] = c]
     /\ UNCHANGED <<used, holding>>
  \/ /\ MustReadWait(n) /\ c # "live"
     /\ at' = [at EXCEPT ![r] = "out"]
     /\ Forget(r)
     /\ UNCHANGED <<used, holding>>
  \/ /\ ~MustReadWait(n)
     /\ at' = [at EXCEPT ![r] = "in"]
     /\ need' = [need EXCEPT ![r] = n]
     /\ ctx' = [ctx EXCEPT ![r] = "live"]
     /\ used' = used + n
     /\ holding' = holding \cup {r}

\* A read the budget could never hold is refused at once, before the context is
\* looked at; the context of a call may already be cancelled.
Reserve(r, n, c) ==
  /\ at[r] = "out"
  /\ Asked(n) =< Budget
  /\ TryReserve(r, Asked(n), c)
  /\ UNCHANGED <<deriving, waiting>>

ReserveAgain(r) ==
  /\ at[r] = "ready"
  /\ TryReserve(r, need[r], ctx[r])
  /\ UNCHANGED <<deriving, waiting>>

\* The request of a waiting read is cancelled; AfterFunc's goroutine broadcasts
\* later, in a step of its own, unless Reserve has returned by then.
Cancel(r) ==
  /\ at[r] \in {"asleep", "ready"}
  /\ ctx[r] = "live"
  /\ ctx' = [ctx EXCEPT ![r] = "cancelled"]
  /\ UNCHANGED <<used, deriving, waiting, at, need, holding>>

\* Mutant: a cancelled context wakes nobody.
AnnounceMutant(r) ==
  /\ at[r] \in {"asleep", "ready"}
  /\ ctx[r] = "cancelled"
  /\ ctx' = [ctx EXCEPT ![r] = "announced"]
  /\ UNCHANGED <<used, deriving, waiting, at, need, holding>>

Announce(r) ==
  /\ at[r] \in {"asleep", "ready"}
  /\ ctx[r] = "cancelled"
  /\ ctx' = [ctx EXCEPT ![r] = "announced"]
  /\ at' = Woken(at)
  /\ UNCHANGED <<used, deriving, waiting, need, holding>>

\* The caller's release.  A second call of it (an early one and a deferred one) does
\* nothing: here every caller makes both, the second whenever it likes.
Release(r) ==
  /\ at[r] = "in"
  /\ IF r \notin holding
       THEN /\ at' = [at EXCEPT ![r] = "out"]
            /\ Forget(r)
            /\ UNCHANGED <<used, holding>>
       ELSE /\ used' = used - need[r]
            /\ holding' = holding \ {r}
            /\ at' = Woken(at)
            /\ UNCHANGED <<need, ctx>>
  /\ UNCHANGED <<deriving, waiting>>

Next ==
  \/ \E d \in Derivers : Lock(d) \/ LockAgain(d) \/ Unlock(d)
  \/ \E r \in Readers :
       \/ \E n \in Sizes, c \in {"live", "cancelled"} : Reserve(r, n, c)
       \/ ReserveAgain(r) \/ Cancel(r) \/ Announce(r) \/ Release(r)

Spec == Init /\ [][Next]_vars

\* Woken goroutines run and announcements are made.  Nobody is obliged to ask, to
\* cancel, or to give a turn or bytes back.
Fairness ==
  /\ \A d \in Derivers : WF_vars(LockAgain(d))
  /\ \A r \in Readers : WF_vars(ReserveAgain(r)) /\ WF_vars(Announce(r))

FairSpec == Spec /\ Fairness

(***************************************************************************)
(* Properties.                                                             *)
(***************************************************************************)
\* The process's peak is the larger of one derivation and the budget, never their
\* sum: at most one derivation has the turn, no read holds bytes beside it, and the
\* reads' own sizes together stay within the budget.
PeakIsBounded ==
  /\ \A d, e \in Derivers : at[d] = "in" /\ at[e] = "in" => d = e
  /\ (\E d \in Derivers : at[d] = "in") => \A r \in holding : need[r] = 0
  /\ MapThenSumSet(LAMBDA r : need[r], holding) =< Budget

\* Nobody sleeps on the condition variable once the condition it waits for holds:
\* every change that could let a sleeper pass broadcasts.
NoLostWakeup ==
  /\ \A d \in Derivers : at[d] = "asleep" => MustDerivationWait
  /\ \A r \in Readers : at[r] = "asleep" => MustReadWait(need[r])

\* Derivations are not starved by a stream of reads: where everyone gives back what it
\* holds, some derivation gets the turn once one waits.
DerivationGetsTurn ==
  ([]<>~deriving /\ \A r \in Readers : []<>(r \notin holding)) => (waiting > 0 ~> deriving)

\* A read whose request is cancelled leaves Reserve, also when those it waits for
\* never give anything back.
CancelledReadLeaves ==
  \A r \in Readers :
    (ctx[r] # "live") ~> at[r] \in {"in", "out"}
=============================================================================
