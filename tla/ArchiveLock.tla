----------------------------- MODULE ArchiveLock -----------------------------
(***************************************************************************)
(* The lock of an archive folder (internal/lockfile): an exclusive lock of *)
(* the operating system on a file whose content names its holder by a      *)
(* random number (nonce).  The system's lock belongs to the file that was  *)
(* opened, not to the path: a lock file that is removed or replaced, as a  *)
(* sync client or a person may, lets a second process take a lock of its   *)
(* own, and the first finds out by reading its nonce back from the path.   *)
(* A probe (Held) takes the lock for an instant, so an acquirer tries for  *)
(* a while before it calls the lock held.                                  *)
(*                                                                         *)
(* A holder's nonce is the holder, for as long as its acquisition lasts; a *)
(* nonce of an acquisition that is over is Stale.  A probe lasts less than *)
(* the pause between two tries.                                            *)
(***************************************************************************)
EXTENDS Integers, FiniteSets

CONSTANTS
  Procs,        \* the processes that take the lock
  Tries,        \* how often an acquirer tries before it is refused
  MaxProbes,    \* bound: probes
  MaxUpsets,    \* bound: times the lock file is touched from outside
  Upsets        \* what may happen to it: "removed", "replaced", "overwritten"

\* acquireGrace is fifty times the pause between two tries, and few programs probe.
ASSUME GraceAssumption == Tries \in Nat /\ MaxProbes \in Nat /\ Tries > MaxProbes
ASSUME UpsetsAssumption == MaxUpsets \in Nat

VARIABLES
  path,    \* the file at the lock's path, 0 for none
  says,    \* each file's nonce
  owner,   \* who has the system's lock on each file
  lock,    \* each process: where it is, the file it opened, its tries and whom they met
  probes,  \* probes so far
  upsets   \* times the lock file was touched from outside

lockVars == <<path, says, owner, lock, probes, upsets>>

Files  == 1..(MaxUpsets + 1)
Stale  == "stale"
Nobody == "nobody"
Prober == "prober"

ASSUME ProcsAssumption == Procs \cap {Stale, Nobody, Prober} = {}

Place(at, on, met) == [at |-> at, on |-> on, tries |-> 0, met |-> met]
Out == Place("out", 0, {})

LockTypeOK ==
  /\ path \in Files \cup {0}
  /\ says \in [Files -> Procs \cup {Stale}]
  /\ owner \in [Files -> Procs \cup {Nobody, Prober}]
  /\ lock \in [Procs -> [at : {"out", "wait", "refused", "stamp", "in"}, on : Files \cup {0},
                         tries : 0..Tries, met : SUBSET {"probe", "rival"}]]
  /\ probes \in 0..MaxProbes
  /\ upsets \in 0..MaxUpsets

LockInit ==
  /\ path = 0
  /\ says = [f \in Files |-> Stale]
  /\ owner = [f \in Files |-> Nobody]
  /\ lock = [p \in Procs |-> Out]
  /\ probes = 0
  /\ upsets = 0

\* A file that is not at the path, and that no process has locked or opened.
Fresh == CHOOSE f \in Files : f # path /\ owner[f] = Nobody /\ \A p \in Procs : lock[p].on # f

\* Mutant: opening the lock file empties it.
OpenLockMutant(p) ==
  /\ lock[p].at = "out"
  /\ LET f == IF path = 0 THEN Fresh ELSE path
     IN /\ path' = f
        /\ says' = [says EXCEPT ![f] = Stale]
        /\ lock' = [lock EXCEPT ![p] = Place("wait", f, {})]
  /\ UNCHANGED <<owner, probes, upsets>>

\* The lock file opened, created when it is not there.
OpenLock(p) ==
  /\ lock[p].at = "out"
  /\ LET f == IF path = 0 THEN Fresh ELSE path
     IN /\ path' = f
        /\ says' = IF path = 0 THEN [says EXCEPT ![f] = Stale] ELSE says
        /\ lock' = [lock EXCEPT ![p] = Place("wait", f, {})]
  /\ UNCHANGED <<owner, probes, upsets>>

TryLock(p) ==
  /\ lock[p].at = "wait"
  /\ owner[lock[p].on] = Nobody
  /\ owner' = [owner EXCEPT ![lock[p].on] = p]
  /\ lock' = [lock EXCEPT ![p] = Place("stamp", lock[p].on, {})]
  /\ UNCHANGED <<path, says, probes, upsets>>

\* Whom a try meets that finds the file locked: a probe that goes on, or another run.
Meets(p) == {IF owner[lock[p].on] = Prober THEN "probe" ELSE "rival"}

\* A try that fails, to be tried again.  A probe is met once: it ends before the next try.
TryAgain(p) ==
  /\ lock[p].at = "wait"
  /\ owner[lock[p].on] # Nobody
  /\ "probe" \notin lock[p].met
  /\ lock[p].tries + 1 < Tries
  /\ lock' = [lock EXCEPT ![p].tries = @ + 1, ![p].met = @ \cup Meets(p)]
  /\ UNCHANGED <<path, says, owner, probes, upsets>>

\* Mutant: the first try that fails is the last.
RefusedMutant(p) ==
  /\ lock[p].at = "wait"
  /\ owner[lock[p].on] # Nobody
  /\ lock' = [lock EXCEPT ![p] = Place("refused", 0, Meets(p))]
  /\ UNCHANGED <<path, says, owner, probes, upsets>>

\* ErrHeld, after the last try.
Refused(p) ==
  /\ lock[p].at = "wait"
  /\ owner[lock[p].on] # Nobody
  /\ "probe" \notin lock[p].met
  /\ lock[p].tries + 1 = Tries
  /\ lock' = [lock EXCEPT ![p] = Place("refused", 0, lock[p].met \cup Meets(p))]
  /\ UNCHANGED <<path, says, owner, probes, upsets>>

\* The holder's nonce written into the file that was locked.
Stamp(p) ==
  /\ lock[p].at = "stamp"
  /\ says' = [says EXCEPT ![lock[p].on] = p]
  /\ lock' = [lock EXCEPT ![p].at = "in"]
  /\ UNCHANGED <<path, owner, probes, upsets>>

\* Mutant: the file at the path is not read again.
StillHeldMutant(p) == lock[p].at = "in"

StillHeld(p) == lock[p].at = "in" /\ path # 0 /\ says[path] = p

\* Release, and what the system does when a process ends.  The file stays.
LetGo(p) ==
  /\ owner' = [f \in Files |-> IF owner[f] = p THEN Nobody ELSE owner[f]]
  /\ says' = [f \in Files |-> IF says[f] = p THEN Stale ELSE says[f]]
  /\ lock' = [lock EXCEPT ![p] = Out]
  /\ UNCHANGED <<path, probes, upsets>>

\* Held, by anybody: it finds the lock free and takes it for an instant.
Probe ==
  /\ probes < MaxProbes
  /\ path # 0
  /\ owner[path] = Nobody
  /\ owner' = [owner EXCEPT ![path] = Prober]
  /\ probes' = probes + 1
  /\ UNCHANGED <<path, says, lock, upsets>>

ProbeEnds ==
  /\ \E f \in Files : owner[f] = Prober
  /\ owner' = [f \in Files |-> IF owner[f] = Prober THEN Nobody ELSE owner[f]]
  /\ lock' = [p \in Procs |-> [lock[p] EXCEPT !.met = @ \ {"probe"}]]
  /\ UNCHANGED <<path, says, probes, upsets>>

\* The lock file touched from outside: removed; replaced by another file, which may
\* carry a copy of its content; or its bytes overwritten where it is.
Upset ==
  /\ upsets < MaxUpsets
  /\ path # 0
  /\ upsets' = upsets + 1
  /\ \/ /\ "removed" \in Upsets
        /\ path' = 0
        /\ UNCHANGED says
     \/ /\ "replaced" \in Upsets
        /\ path' = Fresh
        /\ \E n \in {Stale, says[path]} : says' = [says EXCEPT ![Fresh] = n]
     \/ /\ "overwritten" \in Upsets
        /\ says' = [says EXCEPT ![path] = Stale]
        /\ UNCHANGED path
  /\ UNCHANGED <<owner, lock, probes>>

LockStep(p) == OpenLock(p) \/ TryLock(p) \/ TryAgain(p) \/ Refused(p) \/ Stamp(p)

(***************************************************************************)
(* Properties.                                                             *)
(***************************************************************************)
\* A process that is refused has met another run that held the lock: probes alone,
\* however they fall, never cost a scheduled backup its turn.
RefusedByRivalOnly == \A p \in Procs : lock[p].at = "refused" => "rival" \in lock[p].met

\* Left alone, the lock file is one file, and the run that took it goes on proving it
\* until it lets go: no acquirer, refused or waiting, and no probe disturbs a holder.
HolderIsLeftAlone ==
  \A p \in Procs : upsets = 0 /\ lock[p].at = "in" => StillHeld(p) /\ owner[path] = p
=============================================================================
