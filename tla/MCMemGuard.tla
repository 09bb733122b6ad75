----------------------------- MODULE MCMemGuard -----------------------------
(* Model values and sizes for MemGuard: two derivations compete for the turn,
   three reads of which two small ones fit together and a large one does not. *)
EXTENDS MemGuard

\* A negative size counts as none, one asks for more than the budget.
MCSizes == {-1, 1, 2, 4}
=============================================================================
