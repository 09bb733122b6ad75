------------------------------ MODULE KeyPromise ------------------------------
(***************************************************************************)
(* What an encrypted archive's key file promises the people who hold its   *)
(* secrets, whatever computers, copies and locks are between: the secrets  *)
(* that open the archive change by one whole step of the program at a      *)
(* time, a change keeps one secret that opened it and adds one that never  *)
(* did, and a secret that was replaced never opens it again.  Only trouble *)
(* from outside the program changes them otherwise.                        *)
(***************************************************************************)
EXTENDS Integers, FiniteSets

CONSTANT Secrets    \* passwords and recovery keys

VARIABLES
  force,     \* the secrets that open the archive
  ever,      \* those that ever did
  handed,    \* its key was given out: something may be sealed under it
  troubles   \* times its files were damaged or changed from outside

vars == <<force, ever, handed, troubles>>

Init ==
  /\ ever \in SUBSET Secrets
  /\ force \in SUBSET ever
  /\ handed \in BOOLEAN
  /\ troubles = 0

\* Some secrets kept, and so many that never opened the archive before.
Add(kept, n) ==
  /\ ever \subseteq ever'
  /\ Cardinality(ever' \ ever) = n
  /\ force' = kept \cup (ever' \ ever)

\* A new archive, which may be withdrawn for as long as nobody was given its key.
Create ==
  /\ ~handed /\ force = {}
  /\ Add({}, 2)
  /\ UNCHANGED <<handed, troubles>>

Withdraw ==
  /\ ~handed /\ force # {}
  /\ force' = {} /\ ever' = {}
  /\ UNCHANGED <<handed, troubles>>

HandOver ==
  /\ ~handed
  /\ force # {} \/ troubles > 0
  /\ handed' = TRUE
  /\ UNCHANGED <<force, ever, troubles>>

\* A new password or recovery key, which also settles a fork.
Change ==
  /\ \E kept \in force : Add({kept}, 1)
  /\ UNCHANGED <<handed, troubles>>

\* A key file put back when no copy of it opens any more.
PutBack ==
  /\ handed /\ force = {}
  /\ Add({}, 2)
  /\ UNCHANGED <<handed, troubles>>

Disturb ==
  /\ troubles' = troubles + 1
  /\ force' \subseteq Secrets
  /\ ever' = IF handed THEN ever \cup force' ELSE force'
  /\ UNCHANGED handed

Next == Create \/ Withdraw \/ HandOver \/ Change \/ PutBack \/ Disturb

Spec == Init /\ [][Next]_vars
=============================================================================
