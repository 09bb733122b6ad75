-------------------------- MODULE ArchiveDeleteProofs --------------------------
(***************************************************************************)
(* Proofs that an archive half deleted is marked, that backups keep out of *)
(* it, that a delete removes what the person was shown, forgets no key of  *)
(* a vault that is there and is complete only when nothing recorded is     *)
(* left, and that no archive is begun among the person's own files: for    *)
(* any number of computers, deletes, backups and files of mail.            *)
(***************************************************************************)
EXTENDS ArchiveDelete, WellFoundedInduction, SequenceTheorems, TLAPS

(* The steps a delete takes under the lock, and those of them at which it may
   remove names. *)
Locked   == {"mark", "logMarked", "remove", "late", "anchor", "unmark", "release"}
Removing == {"logMarked", "remove", "late", "anchor"}

Shape ==
  /\ dpc = [c \in Computers |-> dpc[c]]
  /\ DOMAIN bpc = Computers /\ DOMAIN job = Computers
  /\ \A c \in Computers : {"plan", "run", "todo"} \subseteq DOMAIN job[c]
  /\ runs \in Nat

(* What the plan made again under the lock found still holds under it. *)
Rechecked(c) ==
  /\ job[c].plan.rerun = "noAnchor" => "anchor" \notin files
  /\ job[c].plan.rerun = "none" => rev = job[c].plan.rev
  /\ "anchor" \in files => "anchor" \in job[c].plan.names

DeleteInv(c) ==
  /\ dpc[c] \in Locked => lock = <<"delete", c>> /\ Rechecked(c)
  /\ dpc[c] = "lock" => job[c].plan.rerun # "gone"
  /\ dpc[c] \in Locked \cup {"lock"} => job[c].run # 0
  /\ dpc[c] \in Removing => marker # NoMarker \/ "anchor" \notin files
  /\ dpc[c] \in {"logMarked", "remove"} => "anchor" \notin job[c].todo
  /\ dpc[c] = "unmark" => "anchor" \notin files

BackupInv(c) ==
  bpc[c] = "writing" => lock = <<"backup", c>> /\ marker = NoMarker

Inv ==
  /\ Shape /\ HalfIsMarked
  /\ \A c \in Computers : DeleteInv(c) /\ BackupInv(c)

LEMMA InitInv == Init => Inv
BY DEF Init, Inv, Shape, HalfIsMarked, DeleteInv, BackupInv, Locked, Removing, NoJob

(* What the recheck compares with: a plan of the whole archive names what is
   in the folder now; one without an anchor found none. *)
LEMMA PlansAre ==
  ASSUME NEW c \in Computers, NEW q \in Plans(c)
  PROVE  /\ q.rerun \in {"none", "noAnchor", "gone"}
         /\ q.rerun = "none" => q.rev = rev /\ q.names = files \ {"mine"}
         /\ q.rerun = "noAnchor" => "anchor" \notin files
<1> DEFINE u == Unfinished(c)
<1>1. CASE HoldsArchive(c)
  <2>1. q = OrdinaryPlan(c)
    BY <1>1 DEF Plans
  <2>2. q.rerun = "none" /\ q.rev = rev /\ q.names = files \ {"mine"}
    BY <2>1 DEF OrdinaryPlan, NoPlan
  <2> QED
    BY <2>2
<1>2. CASE ~HoldsArchive(c) /\ There
  <2>1. "anchor" \notin files
    BY <1>2 DEF HoldsArchive
  <2>2. q = MarkerPlan \/ q = UnfinishedPlan(c, u)
    BY <1>2 DEF Plans
  <2>3. q.rerun = "noAnchor"
    BY <2>2 DEF MarkerPlan, UnfinishedPlan, NoAnchorPlan, NoPlan
  <2> QED
    BY <2>1, <2>3
<1>3. CASE ~HoldsArchive(c) /\ ~There
  <2>1. q = GonePlan(u)
    BY <1>3 DEF Plans
  <2>2. q.rerun = "gone"
    BY <2>1 DEF GonePlan, NoPlan
  <2> QED
    BY <2>2
<1> QED
  BY <1>1, <1>2, <1>3

(* A step that leaves the delete and the lock alone and brings no anchor. *)
LEMMA BesideStep ==
  ASSUME Inv, UNCHANGED <<dpc, job, bpc, lock, marker, rev, half, runs>>,
         "anchor" \in files' <=> "anchor" \in files
  PROVE  Inv'
BY DEF Inv, Shape, HalfIsMarked, DeleteInv, BackupInv, Rechecked

LEMMA EndIs ==
  ASSUME NEW c \in Computers, NEW o, End(c, o)
  PROVE  Unlock(c) /\ dpc' = [dpc EXCEPT ![c] = "idle"] /\ job' = [job EXCEPT ![c] = NoJob]
BY DEF End

(* A run that ends, however, frees no lock but its own. *)
LEMMA EndStep ==
  ASSUME Inv, NEW c \in Computers, Unlock(c),
         dpc' = [dpc EXCEPT ![c] = "idle"], job' = [job EXCEPT ![c] = NoJob],
         UNCHANGED <<files, bpc, marker, rev, half, runs>>
  PROVE  Inv'
<1>1. Shape' /\ HalfIsMarked'
  BY DEF Inv, Shape, HalfIsMarked, NoJob
<1>2. lock' = lock \/ lock = <<"delete", c>>
  BY DEF Unlock, Locking
<1>3. ASSUME NEW d \in Computers PROVE DeleteInv(d)'
  <2>1. CASE d = c
    BY <2>1 DEF Inv, Shape, DeleteInv, Locked, Removing
  <2>2. CASE d # c
    <3>1. dpc'[d] = dpc[d] /\ job'[d] = job[d]
      BY <2>2 DEF Inv, Shape
    <3> QED
      BY <3>1, <2>2, <1>2 DEF Inv, DeleteInv, Rechecked
  <2> QED
    BY <2>1, <2>2
<1>4. ASSUME NEW d \in Computers PROVE BackupInv(d)'
  BY <1>2 DEF Inv, BackupInv
<1> QED
  BY <1>1, <1>3, <1>4 DEF Inv

(* A run's own step: nothing changes for the others but under its lock. *)
LEMMA OwnStep ==
  ASSUME Inv, NEW c \in Computers, NEW pc,
         dpc' = [dpc EXCEPT ![c] = pc],
         \A d \in Computers : d # c => job'[d] = job[d],
         DOMAIN job' = Computers, {"plan", "run", "todo"} \subseteq DOMAIN job'[c],
         UNCHANGED <<bpc, rev>>, runs' \in Nat,
         \/ UNCHANGED <<files, marker>>
         \/ lock = <<"delete", c>>,
         lock' = lock \/ lock = <<>> \/ lock = <<"delete", c>>,
         HalfIsMarked', DeleteInv(c)'
  PROVE  Inv'
<1>1. Shape'
  BY DEF Inv, Shape
<1>2. ASSUME NEW d \in Computers, d # c PROVE DeleteInv(d)'
  <2>1. dpc'[d] = dpc[d] /\ job'[d] = job[d]
    BY <1>2 DEF Inv, Shape
  <2>2. dpc[d] \in Locked => lock = <<"delete", d>>
    BY <1>2 DEF Inv, DeleteInv
  <2>3. dpc[d] \in Locked => UNCHANGED <<files, marker>> /\ lock' = lock
    BY <2>2, <1>2
  <2> QED
    BY <2>1, <2>3 DEF Inv, DeleteInv, Rechecked, Locked, Removing
<1>3. ASSUME NEW d \in Computers PROVE BackupInv(d)'
  BY DEF Inv, BackupInv
<1> QED
  BY <1>1, <1>2, <1>3 DEF Inv

(***************************************************************************)
(* The steps of a delete.                                                  *)
(***************************************************************************)
LEMMA ShowPlanStep == ASSUME Inv, NEW c \in Computers, ShowPlan(c) PROVE Inv'
<1>1. /\ dpc' = [dpc EXCEPT ![c] = "planned"]
      /\ UNCHANGED <<files, marker, rev, half, bpc, runs, lock>>
  BY DEF ShowPlan, To, place, backupV, historyV, bounds
<1>2. PICK p \in Plans(c) : job' = [job EXCEPT ![c] = [NoJob EXCEPT !.plan = p]]
  BY DEF ShowPlan
<1>3. /\ DOMAIN job' = Computers /\ {"plan", "run", "todo"} \subseteq DOMAIN job'[c]
      /\ \A d \in Computers : d # c => job'[d] = job[d]
  BY <1>2 DEF Inv, Shape, NoJob
<1>4. HalfIsMarked' /\ DeleteInv(c)' /\ runs' \in Nat
  BY <1>1 DEF Inv, Shape, HalfIsMarked, DeleteInv, Locked, Removing
<1> QED
  BY <1>1, <1>3, <1>4, OwnStep

LEMMA LogStartedStep == ASSUME Inv, NEW c \in Computers, LogStarted(c) PROVE Inv'
<1> DEFINE pc == IF job[c].plan.rerun = "gone" THEN "look" ELSE "lock"
<1>1. /\ dpc' = [dpc EXCEPT ![c] = pc]
      /\ runs' = runs + 1 /\ job' = [job EXCEPT ![c].run = runs']
      /\ UNCHANGED <<files, marker, rev, half, bpc, lock>>
  BY DEF LogStarted, To, place, backupV, historyV
<1>2. runs \in Nat /\ runs' \in Nat /\ runs' # 0
  BY <1>1 DEF Inv, Shape
<1>3. /\ DOMAIN job' = Computers /\ {"plan", "run", "todo"} \subseteq DOMAIN job'[c]
      /\ \A d \in Computers : d # c => job'[d] = job[d]
      /\ job'[c].run = runs' /\ job'[c].plan = job[c].plan
  BY <1>1 DEF Inv, Shape
<1>4. dpc'[c] = pc
  BY <1>1 DEF Inv, Shape
<1>5. HalfIsMarked' /\ DeleteInv(c)'
  BY <1>1, <1>2, <1>3, <1>4 DEF Inv, HalfIsMarked, DeleteInv, Locked, Removing
<1> QED
  BY <1>1, <1>2, <1>3, <1>5, OwnStep

LEMMA LockStep == ASSUME Inv, NEW c \in Computers, LockAndRecheck(c) PROVE Inv'
<1>1. UNCHANGED <<files, marker, rev, half, bpc, runs>> /\ dpc[c] = "lock"
  BY DEF LockAndRecheck, place, backupV, historyV, bounds
<1>2. CASE lock = Free /\ \E q \in Plans(c) : SamePlan(job[c].plan, q)
  <2>1. /\ lock' = <<"delete", c>> /\ job' = job /\ dpc' = [dpc EXCEPT ![c] = "mark"]
    BY <1>2 DEF LockAndRecheck, To
  <2>2. PICK q \in Plans(c) : SamePlan(job[c].plan, q)
    BY <1>2
  <2>3. Rechecked(c)
    <3>1. /\ q.rerun = job[c].plan.rerun /\ q.names = job[c].plan.names
          /\ q.rev = job[c].plan.rev
      BY <2>2 DEF SamePlan
    <3>2. job[c].plan.rerun # "gone"
      BY <1>1 DEF Inv, DeleteInv
    <3> QED
      BY <3>1, <3>2, PlansAre DEF Rechecked
  <2>4. dpc'[c] = "mark"
    BY <2>1 DEF Inv, Shape
  <2>5. DeleteInv(c)' /\ HalfIsMarked'
    BY <1>1, <2>1, <2>3, <2>4 DEF Inv, DeleteInv, HalfIsMarked, Rechecked, Locked, Removing
  <2>6. /\ DOMAIN job' = Computers /\ {"plan", "run", "todo"} \subseteq DOMAIN job'[c]
        /\ runs' \in Nat /\ lock = <<>>
    BY <1>1, <1>2, <2>1 DEF Inv, Shape, Free
  <2> QED
    BY <1>1, <2>1, <2>5, <2>6, OwnStep
<1>3. CASE ~(lock = Free /\ \E q \in Plans(c) : SamePlan(job[c].plan, q))
  <2>1. End(c, "refused")
    BY <1>3 DEF LockAndRecheck
  <2> QED
    BY <1>1, <2>1, EndIs, EndStep
<1> QED
  BY <1>2, <1>3

(* A step that moves the run on and touches neither folder nor lock, outside
   what the lock guards. *)
LEMMA OnStep ==
  ASSUME Inv, NEW c \in Computers, NEW pc, pc \notin Locked \cup {"lock"},
         dpc' = [dpc EXCEPT ![c] = pc],
         \A d \in Computers : d # c => job'[d] = job[d],
         DOMAIN job' = Computers, {"plan", "run", "todo"} \subseteq DOMAIN job'[c],
         UNCHANGED <<files, marker, rev, half, bpc, runs>>,
         lock' = lock \/ lock = <<"delete", c>>
  PROVE  Inv'
<1>1. dpc'[c] = pc
  BY DEF Inv, Shape
<1>2. DeleteInv(c)' /\ HalfIsMarked' /\ runs' \in Nat
  BY <1>1 DEF Inv, Shape, DeleteInv, HalfIsMarked, Locked, Removing
<1> QED
  BY <1>2, OwnStep

LEMMA LookGoneStep == ASSUME Inv, NEW c \in Computers, LookGone(c) PROVE Inv'
<1>1. UNCHANGED <<files, marker, rev, half, bpc, runs>>
  BY DEF LookGone, place, backupV, historyV, bounds
<1>2. CASE There
  <2>1. End(c, "refused")
    BY <1>2 DEF LookGone
  <2> QED
    BY <1>1, <2>1, EndIs, EndStep
<1>3. CASE ~There
  <2>1. lock' = lock /\ job' = job /\ dpc' = [dpc EXCEPT ![c] = "key"]
    BY <1>3 DEF LookGone, To
  <2>2. DOMAIN job' = Computers /\ {"plan", "run", "todo"} \subseteq DOMAIN job'[c]
    BY <2>1 DEF Inv, Shape
  <2> QED
    BY <1>1, <2>1, <2>2, OnStep DEF Locked
<1> QED
  BY <1>2, <1>3

(* What a step under the lock has to keep for its own run. *)
LEMMA UnderLock ==
  ASSUME Inv, NEW c \in Computers, dpc[c] \in Locked, NEW pc, pc \in Locked,
         dpc' = [dpc EXCEPT ![c] = pc],
         \A d \in Computers : d # c => job'[d] = job[d],
         DOMAIN job' = Computers, {"plan", "run", "todo"} \subseteq DOMAIN job'[c],
         job'[c].plan = job[c].plan, job'[c].run = job[c].run,
         UNCHANGED <<bpc, rev, runs, lock>>,
         files' \subseteq files, HalfIsMarked',
         pc \in Removing => marker' # NoMarker \/ "anchor" \notin files',
         pc \in {"logMarked", "remove"} => "anchor" \notin job'[c].todo,
         pc = "unmark" => "anchor" \notin files'
  PROVE  Inv'
<1>1. dpc'[c] = pc
  BY DEF Inv, Shape
<1>2. lock = <<"delete", c>> /\ Rechecked(c) /\ job[c].run # 0
  BY DEF Inv, DeleteInv
<1>3. DeleteInv(c)'
  BY <1>1, <1>2 DEF DeleteInv, Rechecked, Locked
<1>4. runs' \in Nat
  BY DEF Inv, Shape
<1> QED
  BY <1>2, <1>3, <1>4, OwnStep

LEMMA MarkStep == ASSUME Inv, NEW c \in Computers, MarkFolder(c) PROVE Inv'
<1> DEFINE pc == IF marker' = First(c) \/ marker' # marker THEN "logMarked" ELSE "remove"
<1>1. /\ dpc[c] = "mark" /\ dpc' = [dpc EXCEPT ![c] = pc]
      /\ UNCHANGED <<files, rev, half, bpc, runs, lock>>
  BY DEF MarkFolder, To, backupV, historyV, bounds
<1>2. PICK ticked \in SUBSET {"copy"} :
        job' = [job EXCEPT ![c].todo = job[c].plan.names \cap (Mail \cup ticked),
                           ![c].there = marker' # NoMarker]
  BY DEF MarkFolder, Begin
<1>3. /\ DOMAIN job' = Computers /\ {"plan", "run", "todo"} \subseteq DOMAIN job'[c]
      /\ \A d \in Computers : d # c => job'[d] = job[d]
      /\ job'[c].plan = job[c].plan /\ job'[c].run = job[c].run
      /\ job'[c].todo = job[c].plan.names \cap (Mail \cup ticked)
  BY <1>2 DEF Inv, Shape
<1>4. "anchor" \notin job'[c].todo
  BY <1>3, MailAssumption
<1>5. Rechecked(c) /\ job[c].run # 0
  BY <1>1 DEF Inv, DeleteInv, Locked
<1>6. marker' # NoMarker \/ "anchor" \notin files'
  <2>1. First(c) # 0
    BY <1>5 DEF First
  <2>2. \/ marker # NoMarker /\ marker' = marker
        \/ job[c].plan.rerun = "noAnchor"
        \/ marker' = First(c) \/ marker' = Blank
    BY DEF MarkFolder
  <2> QED
    BY <1>1, <1>5, <2>1, <2>2 DEF Rechecked, NoMarker, Blank
<1>7. half => marker' = marker
  BY DEF MarkFolder, Inv, HalfIsMarked
<1>8. HalfIsMarked'
  BY <1>1, <1>7 DEF Inv, HalfIsMarked
<1> QED
  BY <1>1, <1>3, <1>4, <1>6, <1>8, UnderLock DEF Locked

LEMMA LogMarkedStep == ASSUME Inv, NEW c \in Computers, LogMarked(c) PROVE Inv'
<1>1. /\ dpc[c] = "logMarked" /\ dpc' = [dpc EXCEPT ![c] = "remove"]
      /\ UNCHANGED <<files, marker, rev, half, bpc, runs, lock, job>>
  BY DEF LogMarked, To, place, backupV, historyV, bounds
<1>2. /\ DOMAIN job = Computers /\ {"plan", "run", "todo"} \subseteq DOMAIN job[c]
      /\ "anchor" \notin job[c].todo /\ HalfIsMarked
      /\ marker # NoMarker \/ "anchor" \notin files
  BY <1>1 DEF Inv, Shape, DeleteInv, Removing
<1>3. HalfIsMarked'
  BY <1>1, <1>2 DEF HalfIsMarked
<1> QED
  BY <1>1, <1>2, <1>3, UnderLock DEF Locked

LEMMA RemoveNameStep ==
  ASSUME Inv, NEW c \in Computers, NEW n \in Names, RemoveName(c, n)
  PROVE  Inv'
<1>1. /\ dpc[c] = "remove" /\ dpc' = dpc /\ n \in job[c].todo
      /\ UNCHANGED <<marker, rev, bpc, runs, lock>>
  BY DEF RemoveName, backupV, bounds
<1>2. files' = files \ {n} \/ files' = files
  BY DEF RemoveName
<1>3. /\ "anchor" \notin job[c].todo
      /\ marker # NoMarker \/ "anchor" \notin files
  BY <1>1 DEF Inv, DeleteInv, Removing
<1>4. "anchor" \in files' <=> "anchor" \in files
  BY <1>1, <1>2, <1>3
<1>5. /\ DOMAIN job' = Computers /\ {"plan", "run", "todo"} \subseteq DOMAIN job'[c]
      /\ \A d \in Computers : d # c => job'[d] = job[d]
      /\ job'[c].plan = job[c].plan /\ job'[c].run = job[c].run
      /\ job'[c].todo = job[c].todo \ {n}
  <2>1. DOMAIN job = Computers /\ {"plan", "run", "todo"} \subseteq DOMAIN job[c]
    BY DEF Inv, Shape
  <2>2. CASE job' = [job EXCEPT ![c].todo = job[c].todo \ {n}]
    BY <2>1, <2>2
  <2>3. CASE job' = [job EXCEPT ![c].todo = job[c].todo \ {n},
                                ![c].left = job[c].left \/ n \in Mail]
    BY <2>1, <2>3
  <2> QED
    BY <2>2, <2>3 DEF RemoveName
<1>6. half' => half \/ "anchor" \in files
  BY Zenon DEF RemoveName
<1>7. HalfIsMarked'
  BY <1>1, <1>3, <1>4, <1>6 DEF Inv, HalfIsMarked
<1>8. dpc' = [dpc EXCEPT ![c] = "remove"] /\ files' \subseteq files
  BY <1>1, <1>2 DEF Inv, Shape
<1>9. "anchor" \notin job'[c].todo /\ (marker' # NoMarker \/ "anchor" \notin files')
  BY <1>1, <1>3, <1>4, <1>5
<1> QED
  BY <1>1, <1>5, <1>7, <1>8, <1>9, UnderLock DEF Locked

LEMMA BeginLastStep == ASSUME Inv, NEW c \in Computers, BeginLast(c) PROVE Inv'
<1> DEFINE pc == IF job[c].left THEN "release" ELSE "late"
<1>1. /\ dpc[c] = "remove" /\ dpc' = [dpc EXCEPT ![c] = pc]
      /\ UNCHANGED <<files, marker, rev, half, bpc, runs, lock, job>>
  BY DEF BeginLast, To, place, backupV, historyV, bounds
<1>2. pc \in {"release", "late"}
  OBVIOUS
<1>3. /\ DOMAIN job = Computers /\ {"plan", "run", "todo"} \subseteq DOMAIN job[c]
      /\ HalfIsMarked /\ (marker # NoMarker \/ "anchor" \notin files)
  BY <1>1 DEF Inv, Shape, DeleteInv, Removing
<1>4. HalfIsMarked'
  BY <1>1, <1>3 DEF HalfIsMarked
<1> HIDE DEF pc
<1> QED
  BY <1>1, <1>2, <1>3, <1>4, UnderLock DEF Locked

(* The anchor goes when the plan names it; a plan that does not found none. *)
LEMMA RemoveLastStep == ASSUME Inv, NEW c \in Computers, RemoveLast(c) PROVE Inv'
<1>1. /\ dpc[c] \in {"late", "anchor"}
      /\ UNCHANGED <<marker, rev, bpc, runs, lock>>
  BY DEF RemoveLast, backupV, bounds
<1>2. /\ DOMAIN job = Computers /\ {"plan", "run", "todo"} \subseteq DOMAIN job[c]
      /\ HalfIsMarked /\ (marker # NoMarker \/ "anchor" \notin files)
      /\ "anchor" \in files => "anchor" \in job[c].plan.names
  BY <1>1 DEF Inv, Shape, DeleteInv, Removing, Locked, Rechecked
<1>3. half' => "anchor" \in files' /\ (half \/ files' # files)
  BY Zenon DEF RemoveLast
<1>4. files' \subseteq files
  BY DEF RemoveLast
<1>5. HalfIsMarked'
  BY <1>1, <1>2, <1>3, <1>4 DEF HalfIsMarked
<1>6. CASE /\ files' = files \ ({LastName(c)} \cap job[c].plan.names)
           /\ To(c, NextLast(c)) /\ job' = job
  <2>1. CASE dpc[c] = "late"
    <3>1. dpc' = [dpc EXCEPT ![c] = "anchor"]
      BY <1>6, <2>1 DEF To, NextLast
    <3> QED
      BY <1>1, <1>2, <1>4, <1>5, <1>6, <3>1, UnderLock DEF Locked
  <2>2. CASE dpc[c] = "anchor"
    <3>1. dpc' = [dpc EXCEPT ![c] = "unmark"]
      BY <1>6, <2>2 DEF To, NextLast
    <3>2. "anchor" \notin files'
      BY <1>2, <1>6, <2>2 DEF LastName
    <3> QED
      BY <1>1, <1>2, <1>4, <1>5, <1>6, <3>1, <3>2, UnderLock DEF Locked, Removing
  <2> QED
    BY <1>1, <2>1, <2>2
<1>7. CASE /\ job' = [job EXCEPT ![c].left = TRUE]
           /\ To(c, "release") /\ files' = files
  <2>1. /\ DOMAIN job' = Computers /\ {"plan", "run", "todo"} \subseteq DOMAIN job'[c]
        /\ \A d \in Computers : d # c => job'[d] = job[d]
        /\ job'[c].plan = job[c].plan /\ job'[c].run = job[c].run
    BY <1>2, <1>7
  <2>2. dpc' = [dpc EXCEPT ![c] = "release"]
    BY <1>7 DEF To
  <2> QED
    BY <1>1, <1>4, <1>5, <2>1, <2>2, UnderLock DEF Locked, Removing
<1> QED
  BY <1>6, <1>7 DEF RemoveLast

LEMMA RemoveMarkerStep == ASSUME Inv, NEW c \in Computers, RemoveMarker(c) PROVE Inv'
<1>1. /\ dpc[c] = "unmark" /\ dpc' = [dpc EXCEPT ![c] = "release"]
      /\ UNCHANGED <<files, rev, half, bpc, runs, lock>>
  BY DEF RemoveMarker, To, backupV, historyV, bounds
<1>2. /\ DOMAIN job = Computers /\ {"plan", "run", "todo"} \subseteq DOMAIN job[c]
      /\ HalfIsMarked /\ "anchor" \notin files
  BY <1>1 DEF Inv, Shape, DeleteInv
<1>3. /\ DOMAIN job' = Computers /\ {"plan", "run", "todo"} \subseteq DOMAIN job'[c]
      /\ \A d \in Computers : d # c => job'[d] = job[d]
      /\ job'[c].plan = job[c].plan /\ job'[c].run = job[c].run
  <2>1. CASE job' = [job EXCEPT ![c].markerGone = job[c].there]
    BY <2>1, <1>2
  <2>2. CASE job' = [job EXCEPT ![c].left = TRUE]
    BY <2>2, <1>2
  <2> QED
    BY <2>1, <2>2 DEF RemoveMarker
<1>4. HalfIsMarked'
  BY <1>1, <1>2 DEF HalfIsMarked
<1> QED
  BY <1>1, <1>2, <1>3, <1>4, UnderLock DEF Locked, Removing

(***************************************************************************)
(* Steps 7 to 9 hold no lock and change nothing the invariant speaks of.   *)
(***************************************************************************)
LEMMA ReleaseStep == ASSUME Inv, NEW c \in Computers, Release(c) PROVE Inv'
<1>1. /\ dpc[c] = "release" /\ UNCHANGED <<files, marker, rev, half, bpc, runs>>
  BY DEF Release, place, backupV, bounds
<1>2. CASE End(c, "partial")
  BY <1>1, <1>2, EndIs, EndStep
<1>3. CASE Unlock(c) /\ To(c, "tidy") /\ job' = job
  <2>1. lock' = lock \/ lock = <<"delete", c>>
    BY <1>3 DEF Unlock, Locking
  <2>2. /\ DOMAIN job' = Computers /\ {"plan", "run", "todo"} \subseteq DOMAIN job'[c]
        /\ dpc' = [dpc EXCEPT ![c] = "tidy"]
    BY <1>3 DEF Inv, Shape, To
  <2> QED
    BY <1>1, <1>3, <2>1, <2>2, OnStep DEF Locked
<1> QED
  BY <1>2, <1>3 DEF Release

LEMMA TidyStep == ASSUME Inv, NEW c \in Computers, TidyFolder(c) PROVE Inv'
<1>1. /\ dpc' = [dpc EXCEPT ![c] = "logFolder"]
      /\ UNCHANGED <<files, marker, rev, half, bpc, runs, lock>>
      /\ job' = [job EXCEPT ![c].folderGone = ~There']
  BY DEF TidyFolder, To, backupV, historyV, bounds
<1>2. /\ DOMAIN job' = Computers /\ {"plan", "run", "todo"} \subseteq DOMAIN job'[c]
      /\ \A d \in Computers : d # c => job'[d] = job[d]
  BY <1>1 DEF Inv, Shape
<1> QED
  BY <1>1, <1>2, OnStep DEF Locked

LEMMA LogFolderStep == ASSUME Inv, NEW c \in Computers, LogFolder(c) PROVE Inv'
<1> DEFINE pc == IF NoProof(c) THEN "partial" ELSE "key"
<1>1. /\ dpc' = [dpc EXCEPT ![c] = pc] /\ job' = job
      /\ UNCHANGED <<files, marker, rev, half, bpc, runs, lock>>
  BY DEF LogFolder, To, place, backupV, historyV, bounds
<1>2. DOMAIN job' = Computers /\ {"plan", "run", "todo"} \subseteq DOMAIN job'[c]
  BY <1>1 DEF Inv, Shape
<1>3. pc \notin Locked \cup {"lock"}
  BY DEF Locked
<1> HIDE DEF pc
<1> QED
  BY <1>1, <1>2, <1>3, OnStep

LEMMA KeyStep ==
  ASSUME Inv, NEW c \in Computers, ForgetKey(c) \/ SkipKey(c) \/ LogForgotten(c)
  PROVE  Inv'
<1>1. PICK pc \in {"logForgotten", "finish"} : dpc' = [dpc EXCEPT ![c] = pc]
  BY DEF ForgetKey, SkipKey, LogForgotten, To
<1>2. job' = job /\ UNCHANGED <<files, marker, rev, half, bpc, runs, lock>>
  BY DEF ForgetKey, SkipKey, LogForgotten, place, backupV, historyV, bounds
<1>3. DOMAIN job' = Computers /\ {"plan", "run", "todo"} \subseteq DOMAIN job'[c]
  BY <1>2 DEF Inv, Shape
<1>4. pc \notin Locked \cup {"lock"}
  BY DEF Locked
<1> QED
  BY <1>1, <1>2, <1>3, <1>4, OnStep

LEMMA EndsStep ==
  ASSUME Inv, NEW c \in Computers, StopNoAnchor(c) \/ Finish(c) \/ StopDelete(c)
  PROVE  Inv'
<1>1. UNCHANGED <<files, marker, rev, half, bpc, runs>>
  BY DEF StopNoAnchor, Finish, StopDelete, place, backupV, historyV, bounds
<1>2. /\ Unlock(c)
      /\ dpc' = [dpc EXCEPT ![c] = "idle"] /\ job' = [job EXCEPT ![c] = NoJob]
  BY EndIs DEF StopNoAnchor, Finish, StopDelete
<1> QED
  BY <1>1, <1>2, EndStep

LEMMA DeleteStepKeeps == ASSUME Inv, NEW c \in Computers, DeleteStep(c) PROVE Inv'
<1>1. ASSUME NEW n \in Names, RemoveName(c, n) PROVE Inv'
  BY <1>1, RemoveNameStep
<1> QED
  BY <1>1, LogStartedStep, LockStep, LookGoneStep, MarkStep, LogMarkedStep, BeginLastStep,
     RemoveLastStep, RemoveMarkerStep, ReleaseStep, TidyStep, LogFolderStep, KeyStep, EndsStep
     DEF DeleteStep

(***************************************************************************)
(* The backup and what lies outside.                                       *)
(***************************************************************************)
(* A backup's step: it holds the lock, or neither takes it nor writes. *)
LEMMA BackupStepKeeps ==
  ASSUME Inv, NEW c \in Computers, NEW pc, bpc' = [bpc EXCEPT ![c] = pc],
         UNCHANGED <<dpc, job, marker, half, runs>>,
         \/ /\ lock' = lock
            /\ pc = "writing" => bpc[c] = "writing"
         \/ lock = <<>> /\ lock' = <<"backup", c>> /\ (pc = "writing" => marker = NoMarker)
         \/ lock = <<"backup", c>> /\ lock' = <<>> /\ pc # "writing",
         \/ UNCHANGED <<files, rev>>
         \/ UNCHANGED rev /\ ("anchor" \in files' <=> "anchor" \in files)
         \/ bpc[c] = "writing"
  PROVE  Inv'
<1>1. Shape'
  BY DEF Inv, Shape
<1>2. bpc[c] = "writing" => lock = <<"backup", c>> /\ marker = NoMarker /\ ~half
  BY DEF Inv, BackupInv, HalfIsMarked
<1>3. HalfIsMarked'
  BY <1>2 DEF Inv, HalfIsMarked
<1>4. ASSUME NEW d \in Computers PROVE DeleteInv(d)'
  <2>1. dpc[d] \in Locked => lock = <<"delete", d>>
    BY DEF Inv, DeleteInv
  <2>2. dpc[d] \in Locked =>
          lock' = lock /\ UNCHANGED rev /\ ("anchor" \in files' <=> "anchor" \in files)
    BY <2>1, <1>2
  <2> QED
    BY <2>2 DEF Inv, DeleteInv, Rechecked, Locked, Removing
<1>5. ASSUME NEW d \in Computers PROVE BackupInv(d)'
  <2>1. CASE d = c
    BY <2>1, <1>1 DEF Inv, Shape, BackupInv
  <2>2. CASE d # c
    <3>1. bpc'[d] = bpc[d]
      BY <2>2 DEF Inv, Shape
    <3> QED
      BY <3>1, <2>2 DEF Inv, BackupInv
  <2> QED
    BY <2>1, <2>2
<1> QED
  BY <1>1, <1>3, <1>4, <1>5 DEF Inv

LEMMA ChecksStep ==
  ASSUME Inv, NEW c \in Computers, NEW a \in BOOLEAN, BackupChecks(c, a)
  PROVE  Inv'
<1>1. /\ bpc' = [bpc EXCEPT ![c] = "checked"]
      /\ UNCHANGED <<dpc, job, marker, half, runs, lock, files, rev>>
  BY DEF BackupChecks, place, deleteV, historyV
<1> QED
  BY <1>1, BackupStepKeeps

LEMMA BackupLocksStep == ASSUME Inv, NEW c \in Computers, BackupLocks(c) PROVE Inv'
<1>1. UNCHANGED <<dpc, job, marker, half, runs, files, rev>> /\ bpc[c] = "checked"
  BY DEF BackupLocks, deleteV, historyV
<1>2. CASE /\ There' /\ lock = Free /\ ~RefusesDelete(c)'
           /\ lock' = <<"backup", c>> /\ bpc' = [bpc EXCEPT ![c] = "writing"]
  <2>1. marker = NoMarker /\ lock = <<>>
    BY <1>1, <1>2 DEF RefusesDelete, Free
  <2> QED
    BY <1>1, <1>2, <2>1, BackupStepKeeps
<1>3. CASE BackupEnds(c)
  <2>1. bpc' = [bpc EXCEPT ![c] = "idle"]
    BY <1>3 DEF BackupEnds
  <2>2. lock' = lock \/ (lock = <<"backup", c>> /\ lock' = <<>>)
    BY <1>3 DEF BackupEnds, Free
  <2> QED
    BY <1>1, <2>1, <2>2, BackupStepKeeps
<1> QED
  BY <1>2, <1>3 DEF BackupLocks

LEMMA WritingStep ==
  ASSUME Inv, NEW c \in Computers, BackupSaves(c) \/ KillBackup(c)
  PROVE  Inv'
<1>1. /\ bpc[c] = "writing" /\ BackupEnds(c)
      /\ UNCHANGED <<dpc, job, marker, half, runs>>
  BY DEF BackupSaves, KillBackup, deleteV, historyV, bounds
<1>2. bpc' = [bpc EXCEPT ![c] = "idle"]
  BY <1>1 DEF BackupEnds
<1>3. lock' = lock \/ (lock = <<"backup", c>> /\ lock' = <<>>)
  BY <1>1 DEF BackupEnds, Free
<1> QED
  BY <1>1, <1>2, <1>3, BackupStepKeeps

LEMMA OutsideStep ==
  ASSUME Inv, PutMine \/ TakeOut \/ LoseAnchor \/ Unplug \/ PlugIn
  PROVE  Inv'
<1>1. CASE PutMine \/ TakeOut \/ Unplug \/ PlugIn
  <2>1. UNCHANGED <<dpc, job, bpc, lock, marker, rev, half, runs>>
    BY <1>1 DEF PutMine, TakeOut, Unplug, PlugIn, deleteV, backupV, historyV, bounds
  <2>2. "anchor" \in files' <=> "anchor" \in files
    BY <1>1 DEF PutMine, TakeOut, Unplug, PlugIn, Others
  <2> QED
    BY <2>1, <2>2, BesideStep
<1>2. CASE LoseAnchor
  <2>1. /\ UNCHANGED <<dpc, job, bpc, lock, marker, rev, half, runs>>
        /\ lock = <<>> /\ marker = NoMarker
    BY <1>2 DEF LoseAnchor, deleteV, backupV, historyV, bounds, Free
  <2>2. \A d \in Computers : dpc[d] \notin Locked
    BY <2>1 DEF Inv, DeleteInv
  <2>3. Shape' /\ HalfIsMarked'
    BY <2>1 DEF Inv, Shape, HalfIsMarked
  <2>4. ASSUME NEW d \in Computers PROVE DeleteInv(d)' /\ BackupInv(d)'
    BY <2>1, <2>2 DEF Inv, DeleteInv, BackupInv, Locked, Removing
  <2> QED
    BY <2>3, <2>4 DEF Inv
<1> QED
  BY <1>1, <1>2

LEMMA InvStep == Inv /\ [Next]_vars => Inv'
<1> SUFFICES ASSUME Inv, [Next]_vars PROVE Inv'
  OBVIOUS
<1>1. ASSUME NEW c \in Computers, ShowPlan(c) \/ DeleteStep(c) \/ StopDelete(c) PROVE Inv'
  BY <1>1, ShowPlanStep, DeleteStepKeeps, EndsStep
<1>2. ASSUME NEW c \in Computers, NEW a \in BOOLEAN, BackupChecks(c, a) PROVE Inv'
  BY <1>2, ChecksStep
<1>3. ASSUME NEW c \in Computers, BackupStep(c) \/ KillBackup(c) PROVE Inv'
  BY <1>3, BackupLocksStep, WritingStep DEF BackupStep
<1>4. CASE PutMine \/ TakeOut \/ LoseAnchor \/ Unplug \/ PlugIn
  BY <1>4, OutsideStep
<1>5. CASE UNCHANGED vars
  BY <1>5, BesideStep DEF vars, place, deleteV, backupV, historyV, bounds
<1> QED
  BY <1>1, <1>2, <1>3, <1>4, <1>5 DEF Next

LEMMA Invariant == Spec => []Inv
BY InitInv, InvStep, PTL DEF Spec

(***************************************************************************)
(* Types.                                                                  *)
(***************************************************************************)
Lines == [run : Nat, first : Nat, ident : Nat, removed : BOOLEAN, marked : BOOLEAN,
          forgotten : BOOLEAN, rec : Nat, arch : Nat]

PlanRecords == [rerun : {"none", "noAnchor", "gone"}, ident : Nat, names : SUBSET Names,
                rev : Nat, rec : Nat, noteGone : BOOLEAN, first : Nat, forgotten : BOOLEAN,
                arch : Nat]

Jobs == [plan : PlanRecords, run : Nat, todo : SUBSET Names, left : BOOLEAN,
         there : BOOLEAN, markerGone : BOOLEAN, folderGone : BOOLEAN]

Types ==
  /\ kind \in {"plain", "encrypted"} /\ folder \in Nat /\ shown \in BOOLEAN
  /\ files \subseteq Names /\ marker \in Int /\ arch \in Nat /\ rev \in Nat
  /\ keys \in [Computers -> Nat]
  /\ log \in [Computers -> Seq(Lines)] /\ job \in [Computers -> Jobs]
  /\ dpc = [c \in Computers |-> dpc[c]] /\ bpc = [c \in Computers |-> bpc[c]]
  /\ attended = [c \in Computers |-> attended[c]] /\ saw = [c \in Computers |-> saw[c]]
  /\ runs \in Nat /\ folders \in Nat

LEMMA InitTypes == Init => Types
<1> SUFFICES ASSUME Init PROVE Types
  OBVIOUS
<1>1. NoJob \in Jobs
  BY DEF NoJob, NoPlan, Jobs, PlanRecords
<1>2. log \in [Computers -> Seq(Lines)]
  BY DEF Init
<1>3. files \subseteq Names
  BY DEF Init, Names
<1>4. kind \in {"plain", "encrypted"} /\ keys \in [Computers -> Nat]
  BY KindsAssumption DEF Init
<1>5. /\ folder \in Nat /\ shown \in BOOLEAN /\ marker \in Int /\ arch \in Nat /\ rev \in Nat
      /\ runs \in Nat /\ folders \in Nat
  BY DEF Init, NoMarker
<1>6. job \in [Computers -> Jobs]
  BY <1>1 DEF Init
<1>7. /\ dpc = [c \in Computers |-> dpc[c]] /\ bpc = [c \in Computers |-> bpc[c]]
      /\ attended = [c \in Computers |-> attended[c]] /\ saw = [c \in Computers |-> saw[c]]
  BY DEF Init
<1> QED
  BY <1>2, <1>3, <1>4, <1>5, <1>6, <1>7 DEF Types

(* What is not the step of a delete leaves its plan, its place and the log alone. *)
LEMMA Whose ==
  ASSUME [Next]_vars, Types, NEW d \in Computers
  PROVE  \/ ShowPlan(d) \/ DeleteStep(d) \/ StopDelete(d)
         \/ UNCHANGED <<dpc[d], job[d], log[d]>>
<1>1. ASSUME NEW c \in Computers, c # d, ShowPlan(c) PROVE UNCHANGED <<dpc[d], job[d], log[d]>>
  BY <1>1 DEF ShowPlan, To, Types
<1>2. ASSUME NEW c \in Computers, c # d, StopDelete(c) PROVE UNCHANGED <<dpc[d], job[d], log[d]>>
  BY <1>2 DEF StopDelete, Types
<1>3. ASSUME NEW c \in Computers, c # d, DeleteStep(c) PROVE UNCHANGED <<dpc[d], job[d], log[d]>>
  <2>1. ASSUME NEW o, End(c, o) PROVE UNCHANGED <<dpc[d], job[d], log[d]>>
    BY <1>3, <2>1 DEF End, Types
  <2>2. CASE LogStarted(c) \/ LookGone(c) \/ LockAndRecheck(c)
    BY <1>3, <2>1, <2>2 DEF LogStarted, LookGone, LockAndRecheck, To, Types
  <2>3. CASE MarkFolder(c)
    BY <1>3, <2>3 DEF MarkFolder, Begin, To, Types
  <2>4. CASE LogMarked(c)
    BY <1>3, <2>4 DEF LogMarked, Note, To, Types
  <2>5. CASE \E n \in Names : RemoveName(c, n)
    BY <1>3, <2>5 DEF RemoveName, Types
  <2>6. CASE BeginLast(c) \/ RemoveLast(c) \/ RemoveMarker(c)
    BY <1>3, <2>6 DEF BeginLast, RemoveLast, RemoveMarker, To, Types
  <2>7. CASE Release(c) \/ TidyFolder(c)
    BY <1>3, <2>1, <2>7 DEF Release, TidyFolder, To, Types
  <2>8. CASE LogFolder(c)
    BY <1>3, <2>8 DEF LogFolder, MayNote, Note, To, Types
  <2>9. CASE LogForgotten(c)
    BY <1>3, <2>9 DEF LogForgotten, MayNote, Note, To, Types
  <2>10. CASE StopNoAnchor(c) \/ Finish(c) \/ ForgetKey(c) \/ SkipKey(c)
    BY <1>3, <2>1, <2>10 DEF StopNoAnchor, Finish, ForgetKey, SkipKey, To, Types
  <2> QED
    BY <1>3, <2>2, <2>3, <2>4, <2>5, <2>6, <2>7, <2>8, <2>9, <2>10 DEF DeleteStep
<1>4. ASSUME NEW c \in Computers, BackupStep(c) \/ KillBackup(c)
      PROVE  UNCHANGED <<dpc, job, log>>
  BY <1>4 DEF BackupStep, BackupLocks, BackupSaves, KillBackup, deleteV
<1>5. ASSUME NEW c \in Computers, NEW a \in BOOLEAN, BackupChecks(c, a)
      PROVE  UNCHANGED <<dpc, job, log>>
  BY <1>5 DEF BackupChecks, deleteV
<1>6. CASE PutMine \/ TakeOut \/ LoseAnchor \/ Unplug \/ PlugIn \/ UNCHANGED vars
  BY <1>6 DEF PutMine, TakeOut, LoseAnchor, Unplug, PlugIn, vars, deleteV
<1> QED
  BY <1>1, <1>2, <1>3, <1>4, <1>5, <1>6 DEF Next

(***************************************************************************)
(* What a plan is made of.                                                 *)
(***************************************************************************)
(* A set of numbers that is not empty has a least one. *)
LEMMA LeastNumber ==
  ASSUME NEW T \in SUBSET Nat, T # {}
  PROVE  \E n \in T : \A m \in T : n <= m
<1>1. PICK n \in T : \A m \in T : ~(<<m, n>> \in OpToRel(<, Nat))
  <2> DEFINE Less == OpToRel(<, Nat)
  <2>1. IsWellFoundedOn(Less, Nat)
    BY NatLessThanWellFounded, Zenon
  <2> HIDE DEF Less
  <2>2. \E n \in T : \A m \in T : ~(<<m, n>> \in Less)
    BY <2>1, WFMin, Zenon
  <2> QED
    BY <2>2, Zenon DEF Less
<1>2. \A m \in T : ~(m < n)
  BY <1>1, Zenon DEF OpToRel
<1> QED
  BY <1>2

LEMMA LastOfSome ==
  ASSUME NEW N \in Nat, NEW T \in SUBSET (1..N), T # {}
  PROVE  Max(T) \in T
<1> DEFINE U == {N - n : n \in T}
<1>1. U \in SUBSET Nat /\ U # {}
  <2>1. \A n \in T : N - n \in Nat
    OBVIOUS
  <2> QED
    BY <2>1
<1>2. PICK m \in U : \A k \in U : m <= k
  BY <1>1, LeastNumber
<1>3. PICK n \in T : m = N - n
  BY <1>2
<1>4. \A k \in T : n >= k
  BY <1>2, <1>3
<1> QED
  BY <1>4 DEF Max

LEMMA MarkerNumber ==
  ASSUME Types
  PROVE  /\ marker \in Nat => Max({0, marker}) = marker
         /\ marker \notin Nat => Max({0, marker}) = 0
<1> DEFINE T == {0, marker}
<1>1. ASSUME marker \in Nat PROVE Max(T) = marker
  <2>1. marker \in T /\ \A k \in T : marker >= k
    BY <1>1
  <2>2. \A n \in T : (\A k \in T : n >= k) => n = marker
    BY <1>1
  <2> QED
    BY <2>1, <2>2 DEF Max
<1>2. ASSUME marker \notin Nat PROVE Max(T) = 0
  <2>0. marker \in Int /\ marker < 0
    BY <1>2 DEF Types
  <2>1. 0 \in T /\ \A k \in T : 0 >= k
    BY <2>0
  <2>2. \A n \in T : (\A k \in T : n >= k) => n = 0
    BY <2>0
  <2> QED
    BY <2>1, <2>2 DEF Max
<1> QED
  BY <1>1, <1>2

LEMMA UnfinishedIs ==
  ASSUME Types, NEW c \in Computers, Unfinished(c) # None
  PROVE  \E i \in DOMAIN log[c] : Unfinished(c) = log[c][i] /\ OfFolder(log[c][i])
<1> DEFINE mine == {i \in DOMAIN log[c] : OfFolder(log[c][i])}
<1>1. log[c] \in Seq(Lines)
  BY DEF Types
<1>2. mine # {}
  BY DEF Unfinished
<1>3. Len(log[c]) \in Nat /\ mine \in SUBSET (1..Len(log[c]))
  BY <1>1
<1>4. Max(mine) \in mine
  BY <1>2, <1>3, LastOfSome
<1>5. Unfinished(c) = log[c][Max(mine)]
  BY <1>2 DEF Unfinished
<1> QED
  BY <1>4, <1>5

LEMMA PlansTyped ==
  ASSUME Types, NEW c \in Computers, NEW p \in Plans(c)
  PROVE  p \in PlanRecords
<1> DEFINE u == Unfinished(c)
<1>1. u = None \/ u \in Lines
  BY UnfinishedIs DEF Types
<1>2. NoPlan \in PlanRecords
  BY DEF NoPlan, PlanRecords
<1>3. Max({0, marker}) \in Nat
  BY MarkerNumber
<1>4. NoAnchorPlan \in PlanRecords
  BY <1>2 DEF NoAnchorPlan, NoPlan, PlanRecords, Types, Names, Recorded
<1>5. MarkerPlan \in PlanRecords
  BY <1>3, <1>4 DEF MarkerPlan, PlanRecords, Types
<1>6. u # None => UnfinishedPlan(c, u) \in PlanRecords
  BY <1>1, <1>4 DEF UnfinishedPlan, PlanRecords, Lines
<1>7. u # None => GonePlan(u) \in PlanRecords
  BY <1>1, <1>2 DEF GonePlan, PlanRecords, Lines, NoPlan
<1>8. OrdinaryPlan(c) \in PlanRecords
  <2> DEFINE first == IF u = None THEN Max({0, marker}) ELSE IF Disagrees(c, u) THEN 0 ELSE u.first
  <2>1. first \in Nat
    BY <1>1, <1>3 DEF Lines
  <2>2. OrdinaryPlan(c) = [NoPlan EXCEPT !.ident = folder, !.names = files \ {"mine"}, !.rev = rev,
                             !.rec = keys[c], !.first = first, !.arch = arch]
    BY DEF OrdinaryPlan
  <2> HIDE DEF first
  <2>3. OrdinaryPlan(c) =
          [rerun |-> "none", ident |-> folder, names |-> files \ {"mine"}, rev |-> rev,
           rec |-> keys[c], noteGone |-> FALSE, first |-> first, forgotten |-> FALSE,
           arch |-> arch]
    BY <2>2 DEF NoPlan
  <2>4. folder \in Nat /\ files \subseteq Names /\ rev \in Nat /\ keys[c] \in Nat /\ arch \in Nat
    BY DEF Types
  <2> QED
    BY <2>1, <2>3, <2>4 DEF PlanRecords
<1> QED
  BY <1>5, <1>6, <1>7, <1>8 DEF Plans

LEMMA SameLength ==
  ASSUME NEW S, NEW s \in Seq(S), NEW f \in [DOMAIN s -> S]
  PROVE  f \in Seq(S) /\ DOMAIN f = DOMAIN s
<1>1. DOMAIN s = 1..Len(s) /\ Len(s) \in Nat
  OBVIOUS
<1>2. f \in [1..Len(s) -> S]
  BY <1>1
<1>3. Seq(S) = UNION {[1..n -> S] : n \in Nat}
  BY SeqDef
<1>4. f \in Seq(S)
  BY <1>1, <1>2, <1>3, Zenon
<1> QED
  BY <1>2, <1>4

(* A run that ends. *)
LEMMA EndTypes ==
  ASSUME Types, NEW c \in Computers, NEW o \in {"refused", "partial", "ended"}, End(c, o)
  PROVE  /\ log' \in [Computers -> Seq(Lines)] /\ job' \in [Computers -> Jobs]
         /\ dpc' = [d \in Computers |-> dpc'[d]]
         /\ dpc'[c] = "idle" /\ job'[c] = NoJob
         /\ DOMAIN log'[c] \subseteq DOMAIN log[c]
         /\ \A i \in DOMAIN log'[c] : log'[c][i] = log[c][i]
         /\ o = "partial" => log' = log
<1>1. NoJob \in Jobs
  BY DEF NoJob, NoPlan, Jobs, PlanRecords
<1>2. log[c] \in Seq(Lines)
  BY DEF Types
<1>3. /\ Front(log[c]) \in Seq(Lines) /\ DOMAIN Front(log[c]) \subseteq DOMAIN log[c]
      /\ \A i \in DOMAIN Front(log[c]) : Front(log[c])[i] = log[c][i]
  <2>1. CASE log[c] = <<>>
    BY <1>2, <2>1 DEF Front
  <2>2. CASE log[c] # <<>>
    BY <1>2, <2>2 DEF Front
  <2> QED
    BY <2>1, <2>2
<1>4. CASE o = "refused"
  <2>1. log' = [log EXCEPT ![c] = Front(log[c])]
    BY <1>4 DEF End
  <2> QED
    BY <1>1, <1>3, <1>4, <2>1 DEF End, Types
<1>5. CASE o = "partial"
  <2>1. log' = [log EXCEPT ![c] = log[c]]
    BY <1>5 DEF End
  <2>2. log' = log
    BY <2>1 DEF Types
  <2> QED
    BY <1>1, <1>5, <2>2 DEF End, Types
<1>6. CASE o = "ended"
  <2>1. log' = [log EXCEPT ![c] = <<>>]
    BY <1>6 DEF End
  <2>2. <<>> \in Seq(Lines) /\ DOMAIN <<>> = {}
    OBVIOUS
  <2> QED
    BY <1>1, <1>6, <2>1, <2>2 DEF End, Types
<1> QED
  BY <1>4, <1>5, <1>6

(* A line written with what an edit changes of it. *)
LEMMA NoteTypes ==
  ASSUME Types, NEW c \in Computers, NEW h \in [DOMAIN log[c] -> Lines],
         log' = [log EXCEPT ![c] = h]
  PROVE  /\ log' \in [Computers -> Seq(Lines)] /\ DOMAIN log'[c] = DOMAIN log[c]
         /\ log'[c] = h
<1>1. log[c] \in Seq(Lines)
  BY DEF Types
<1>2. h \in Seq(Lines) /\ DOMAIN h = DOMAIN log[c]
  BY <1>1, SameLength
<1> QED
  BY <1>2 DEF Types

LEMMA LogMarkedLines ==
  ASSUME Types, NEW c \in Computers, LogMarked(c)
  PROVE  /\ log' \in [Computers -> Seq(Lines)] /\ DOMAIN log'[c] = DOMAIN log[c]
         /\ \A i \in DOMAIN log[c] :
              \/ log'[c][i] = log[c][i]
              \/ /\ log[c][i].run = job[c].run
                 /\ log'[c][i] = [log[c][i] EXCEPT !.marked = TRUE]
<1> DEFINE h == [i \in DOMAIN log[c] |-> IF log[c][i].run = job[c].run
                                         THEN [log[c][i] EXCEPT !.marked = TRUE] ELSE log[c][i]]
<1>1. log' = [log EXCEPT ![c] = h]
  BY DEF LogMarked, Note
<1>2. h \in [DOMAIN log[c] -> Lines]
  <2>1. \A i \in DOMAIN log[c] : log[c][i] \in Lines
    BY DEF Types
  <2> QED
    BY <2>1 DEF Lines
<1>3. /\ log' \in [Computers -> Seq(Lines)] /\ DOMAIN log'[c] = DOMAIN log[c] /\ log'[c] = h
  BY <1>1, <1>2, NoteTypes
<1> QED
  BY <1>3

LEMMA LogFolderLines ==
  ASSUME Types, NEW c \in Computers, LogFolder(c)
  PROVE  /\ log' \in [Computers -> Seq(Lines)] /\ DOMAIN log'[c] = DOMAIN log[c]
         /\ \A i \in DOMAIN log[c] :
              \/ log'[c][i] = log[c][i]
              \/ /\ log[c][i].run = job[c].run
                 /\ log'[c][i] = [log[c][i] EXCEPT !.removed = job[c].folderGone]
<1> DEFINE h == [i \in DOMAIN log[c] |-> IF log[c][i].run = job[c].run
                        THEN [log[c][i] EXCEPT !.removed = job[c].folderGone] ELSE log[c][i]]
<1>1. log' = log \/ log' = [log EXCEPT ![c] = h]
  BY DEF LogFolder, MayNote, Note
<1>2. h \in [DOMAIN log[c] -> Lines]
  <2>1. \A i \in DOMAIN log[c] : log[c][i] \in Lines
    BY DEF Types
  <2>2. job[c].folderGone \in BOOLEAN
    BY DEF Types, Jobs
  <2> QED
    BY <2>1, <2>2 DEF Lines
<1>3. CASE log' = [log EXCEPT ![c] = h]
  <2>1. /\ log' \in [Computers -> Seq(Lines)] /\ DOMAIN log'[c] = DOMAIN log[c] /\ log'[c] = h
    BY <1>2, <1>3, NoteTypes
  <2> QED
    BY <2>1
<1>4. CASE log' = log
  BY <1>4 DEF Types
<1> QED
  BY <1>1, <1>3, <1>4

LEMMA LogForgottenLines ==
  ASSUME Types, NEW c \in Computers, LogForgotten(c)
  PROVE  /\ log' \in [Computers -> Seq(Lines)] /\ DOMAIN log'[c] = DOMAIN log[c]
         /\ \A i \in DOMAIN log[c] :
              \/ log'[c][i] = log[c][i]
              \/ /\ log[c][i].run = job[c].run
                 /\ log'[c][i] = [log[c][i] EXCEPT !.forgotten = TRUE,
                        !.removed = log[c][i].removed \/ (~job[c].folderGone /\ ~There')]
<1> DEFINE g == ~job[c].folderGone /\ ~There'
           h == [i \in DOMAIN log[c] |-> IF log[c][i].run = job[c].run
                   THEN [log[c][i] EXCEPT !.forgotten = TRUE, !.removed = log[c][i].removed \/ g]
                   ELSE log[c][i]]
<1>1. log' = log \/ log' = [log EXCEPT ![c] = h]
  BY DEF LogForgotten, MayNote, Note
<1>2. h \in [DOMAIN log[c] -> Lines]
  <2>1. \A i \in DOMAIN log[c] : log[c][i] \in Lines
    BY DEF Types
  <2>2. g \in BOOLEAN
    OBVIOUS
  <2> HIDE DEF g
  <2> QED
    BY <2>1, <2>2 DEF Lines
<1>3. CASE log' = [log EXCEPT ![c] = h]
  <2>1. /\ log' \in [Computers -> Seq(Lines)] /\ DOMAIN log'[c] = DOMAIN log[c] /\ log'[c] = h
    BY <1>2, <1>3, NoteTypes
  <2> QED
    BY <2>1
<1>4. CASE log' = log
  BY <1>4 DEF Types
<1> QED
  BY <1>1, <1>3, <1>4

LEMMA LogStartedLines ==
  ASSUME Types, NEW c \in Computers, LogStarted(c)
  PROVE  /\ log' \in [Computers -> Seq(Lines)]
         /\ DOMAIN log[c] \subseteq DOMAIN log'[c]
         /\ \A i \in DOMAIN log'[c] :
              \/ i \in DOMAIN log[c] /\ log'[c][i] = log[c][i]
              \/ log'[c][i] = StartedLine(c, job[c].plan, runs')
         /\ runs' = runs + 1 /\ job'[c] = [job[c] EXCEPT !.run = runs']
         /\ job' \in [Computers -> Jobs]
<1>1. /\ runs' = runs + 1 /\ runs' \in Nat
      /\ job' = [job EXCEPT ![c].run = runs']
      /\ log' = [log EXCEPT ![c] = Append(log[c], StartedLine(c, job[c].plan, runs'))]
  BY DEF LogStarted, Types
<1>2. job[c] \in Jobs /\ job[c].plan \in PlanRecords /\ log[c] \in Seq(Lines)
  BY DEF Types, Jobs
<1>3. StartedLine(c, job[c].plan, runs') \in Lines
  <2>1. (job[c].plan.rerun = "gone" /\ (log[c] = <<>> \/ Last(log[c]).removed)) \in BOOLEAN
    OBVIOUS
  <2> QED
    BY <1>1, <1>2, <2>1 DEF StartedLine, Lines, PlanRecords
<1>4. log' \in [Computers -> Seq(Lines)]
  BY <1>1, <1>2, <1>3 DEF Types
<1>5. /\ DOMAIN log[c] \subseteq DOMAIN log'[c]
      /\ \A i \in DOMAIN log'[c] :
              \/ i \in DOMAIN log[c] /\ log'[c][i] = log[c][i]
              \/ log'[c][i] = StartedLine(c, job[c].plan, runs')
  <2> DEFINE e == StartedLine(c, job[c].plan, runs')
  <2>1. log'[c] = Append(log[c], e) /\ e \in Lines
    BY <1>1, <1>3 DEF Types
  <2> HIDE DEF e
  <2>2. DOMAIN log'[c] = 1..(Len(log[c]) + 1) /\ DOMAIN log[c] = 1..Len(log[c])
    BY <1>2, <2>1
  <2>3. \A i \in DOMAIN log[c] : log'[c][i] = log[c][i]
    BY <1>2, <2>1
  <2>4. log'[c][Len(log[c]) + 1] = e
    BY <1>2, <2>1
  <2> QED
    BY <1>2, <2>2, <2>3, <2>4 DEF e
<1>6. job'[c] = [job[c] EXCEPT !.run = runs'] /\ job' \in [Computers -> Jobs]
  BY <1>1, <1>2 DEF Types, Jobs
<1> QED
  BY <1>1, <1>4, <1>5, <1>6

(***************************************************************************)
(* What each step of a delete does to its own part of the state.           *)
(***************************************************************************)
DeleteTypes ==
  /\ log \in [Computers -> Seq(Lines)] /\ job \in [Computers -> Jobs]
  /\ dpc = [d \in Computers |-> dpc[d]]

LEMMA ShowPlanIs ==
  ASSUME Types, NEW c \in Computers, ShowPlan(c)
  PROVE  /\ dpc[c] = "idle" /\ dpc'[c] = "planned" /\ log' = log /\ DeleteTypes'
         /\ \E p \in Plans(c) : p \in PlanRecords /\ job'[c] = [NoJob EXCEPT !.plan = p]
         /\ UNCHANGED <<place, lock, keys, backupV, historyV, bounds>>
<1>1. PICK p \in Plans(c) : job' = [job EXCEPT ![c] = [NoJob EXCEPT !.plan = p]]
  BY DEF ShowPlan
<1>2. p \in PlanRecords
  BY PlansTyped
<1>3. [NoJob EXCEPT !.plan = p] \in Jobs
  BY <1>2 DEF NoJob, Jobs
<1>4. job' \in [Computers -> Jobs] /\ job'[c] = [NoJob EXCEPT !.plan = p]
  BY <1>1, <1>3 DEF Types
<1>5. /\ dpc[c] = "idle" /\ dpc' = [dpc EXCEPT ![c] = "planned"]
      /\ UNCHANGED <<place, lock, log, keys, backupV, historyV, bounds>>
  BY DEF ShowPlan, To
<1>6. dpc'[c] = "planned" /\ DeleteTypes'
  BY <1>4, <1>5 DEF Types, DeleteTypes
<1> QED
  BY <1>2, <1>4, <1>5, <1>6

LEMMA LogStartedIs ==
  ASSUME Types, NEW c \in Computers, LogStarted(c)
  PROVE  /\ dpc[c] = "planned" /\ DeleteTypes'
         /\ dpc'[c] = IF job[c].plan.rerun = "gone" THEN "look" ELSE "lock"
         /\ job'[c] = [job[c] EXCEPT !.run = runs']
         /\ runs' = runs + 1
         /\ UNCHANGED <<place, lock, keys, backupV, historyV, backups, folders>>
<1>1. /\ dpc[c] = "planned"
      /\ dpc' = [dpc EXCEPT ![c] = IF job[c].plan.rerun = "gone" THEN "look" ELSE "lock"]
      /\ UNCHANGED <<place, lock, keys, backupV, historyV, backups, folders>>
  BY DEF LogStarted, To
<1> QED
  BY <1>1, LogStartedLines DEF Types, DeleteTypes

(* A run that stops or ends. *)
Ended(c) ==
  /\ dpc'[c] = "idle" /\ job'[c] = NoJob
  /\ DOMAIN log'[c] \subseteq DOMAIN log[c]
  /\ \A i \in DOMAIN log'[c] : log'[c][i] = log[c][i]

LEMMA EndedIs ==
  ASSUME Types, NEW c \in Computers, NEW o \in {"refused", "partial", "ended"}, End(c, o)
  PROVE  Ended(c) /\ DeleteTypes'
BY EndTypes DEF Ended, DeleteTypes

LEMMA StopDeleteIs ==
  ASSUME Types, NEW c \in Computers, StopDelete(c)
  PROVE  /\ Ended(c) /\ DeleteTypes' /\ log' = log
         /\ UNCHANGED <<place, keys, backupV, historyV, bounds>>
<1>1. NoJob \in Jobs
  BY DEF NoJob, NoPlan, Jobs, PlanRecords
<1>2. /\ dpc' = [dpc EXCEPT ![c] = "idle"] /\ job' = [job EXCEPT ![c] = NoJob]
      /\ UNCHANGED <<place, log, keys, backupV, historyV, bounds>>
  BY DEF StopDelete
<1> QED
  BY <1>1, <1>2 DEF Types, DeleteTypes, Ended

(* The lock taken, with a plan that is the one shown, or the run refused. *)
LEMMA LockAndRecheckIs ==
  ASSUME Types, NEW c \in Computers, LockAndRecheck(c)
  PROVE  /\ dpc[c] = "lock" /\ DeleteTypes'
         /\ UNCHANGED <<place, keys, backupV, historyV, bounds>>
         /\ \/ /\ dpc'[c] = "mark" /\ lock = Free /\ lock' = <<"delete", c>>
               /\ UNCHANGED <<log, job>>
               /\ \E q \in Plans(c) : SamePlan(job[c].plan, q)
            \/ Ended(c)
<1>1. dpc[c] = "lock" /\ UNCHANGED <<place, keys, backupV, historyV, bounds>>
  BY DEF LockAndRecheck
<1>2. CASE lock = Free /\ \E q \in Plans(c) : SamePlan(job[c].plan, q)
  <2>1. /\ dpc' = [dpc EXCEPT ![c] = "mark"] /\ lock' = <<"delete", c>>
        /\ UNCHANGED <<log, job>>
    BY <1>2 DEF LockAndRecheck, To
  <2>2. dpc'[c] = "mark" /\ DeleteTypes'
    BY <2>1 DEF Types, DeleteTypes
  <2> QED
    BY <1>1, <1>2, <2>1, <2>2
<1>3. CASE ~(lock = Free /\ \E q \in Plans(c) : SamePlan(job[c].plan, q))
  <2>1. End(c, "refused")
    BY <1>3 DEF LockAndRecheck
  <2> QED
    BY <1>1, <2>1, EndedIs
<1> QED
  BY <1>2, <1>3

LEMMA LookGoneIs ==
  ASSUME Types, NEW c \in Computers, LookGone(c)
  PROVE  /\ dpc[c] = "look" /\ DeleteTypes'
         /\ UNCHANGED <<place, keys, backupV, historyV, bounds>>
         /\ \/ dpc'[c] = "key" /\ UNCHANGED <<lock, log, job>>
            \/ Ended(c)
<1>1. dpc[c] = "look" /\ UNCHANGED <<place, keys, backupV, historyV, bounds>>
  BY DEF LookGone
<1>2. CASE ~There
  <2>1. dpc' = [dpc EXCEPT ![c] = "key"] /\ UNCHANGED <<lock, log, job>>
    BY <1>2 DEF LookGone, To
  <2>2. dpc'[c] = "key" /\ DeleteTypes'
    BY <2>1 DEF Types, DeleteTypes
  <2> QED
    BY <1>1, <2>1, <2>2
<1>3. CASE There
  <2>1. End(c, "refused")
    BY <1>3 DEF LookGone
  <2> QED
    BY <1>1, <2>1, EndedIs
<1> QED
  BY <1>2, <1>3

LEMMA MarkFolderIs ==
  ASSUME Types, NEW c \in Computers, MarkFolder(c)
  PROVE  /\ dpc[c] = "mark" /\ DeleteTypes' /\ log' = log
         /\ \/ marker' = marker /\ (marker # NoMarker \/ job[c].plan.rerun = "noAnchor")
            \/ /\ marker = NoMarker /\ job[c].plan.rerun # "noAnchor"
               /\ marker' \in {First(c), Blank}
         /\ dpc'[c] = IF marker' = First(c) \/ marker' # marker THEN "logMarked" ELSE "remove"
         /\ \E ticked \in SUBSET {"copy"} :
              job'[c] = [job[c] EXCEPT !.todo = job[c].plan.names \cap (Mail \cup ticked),
                                       !.there = marker' # NoMarker]
         /\ UNCHANGED <<kind, folder, shown, files, arch, rev, lock, keys, backupV, historyV,
                        bounds>>
<1> DEFINE pc == IF marker' = First(c) \/ marker' # marker THEN "logMarked" ELSE "remove"
<1>1. /\ dpc[c] = "mark" /\ dpc' = [dpc EXCEPT ![c] = pc]
      /\ UNCHANGED <<kind, folder, shown, files, arch, rev, lock, log, keys, backupV, historyV,
                     bounds>>
  BY DEF MarkFolder, To
<1>2. PICK ticked \in SUBSET {"copy"} :
         job' = [job EXCEPT ![c].todo = job[c].plan.names \cap (Mail \cup ticked),
                            ![c].there = marker' # NoMarker]
  BY DEF MarkFolder, Begin
<1> DEFINE t == job[c].plan.names \cap (Mail \cup ticked)
           n == marker' # NoMarker
           j == [job[c] EXCEPT !.todo = t, !.there = n]
<1>3. t \in SUBSET Names /\ n \in BOOLEAN /\ job[c] \in Jobs
  BY DEF Types, Jobs, PlanRecords
<1>4. job' = [job EXCEPT ![c].todo = t, ![c].there = n]
  BY <1>2
<1> HIDE DEF t, n
<1>5. j \in Jobs
  BY <1>3 DEF Jobs
<1>6. job' = [job EXCEPT ![c] = j]
  BY <1>4, <1>3 DEF Types, Jobs
<1>7. job'[c] = j /\ job' \in [Computers -> Jobs]
  BY <1>5, <1>6 DEF Types
<1>8. dpc'[c] = pc /\ dpc' = [d \in Computers |-> dpc'[d]]
  BY <1>1 DEF Types
<1>9. DeleteTypes'
  BY <1>1, <1>7, <1>8 DEF Types, DeleteTypes
<1>10. \/ marker' = marker /\ (marker # NoMarker \/ job[c].plan.rerun = "noAnchor")
       \/ /\ marker = NoMarker /\ job[c].plan.rerun # "noAnchor"
          /\ marker' \in {First(c), Blank}
  BY DEF MarkFolder
<1> QED
  BY <1>1, <1>7, <1>8, <1>9, <1>10 DEF t, n

LEMMA LogMarkedIs ==
  ASSUME Types, NEW c \in Computers, LogMarked(c)
  PROVE  /\ dpc[c] = "logMarked" /\ dpc'[c] = "remove" /\ DeleteTypes' /\ job' = job
         /\ UNCHANGED <<place, lock, keys, backupV, historyV, bounds>>
<1>1. /\ dpc[c] = "logMarked" /\ dpc' = [dpc EXCEPT ![c] = "remove"]
      /\ UNCHANGED <<place, lock, keys, job, backupV, historyV, bounds>>
  BY DEF LogMarked, To
<1> QED
  BY <1>1, LogMarkedLines DEF Types, DeleteTypes

LEMMA RemoveNameIs ==
  ASSUME Types, NEW c \in Computers, NEW n \in Names, RemoveName(c, n)
  PROVE  /\ dpc[c] = "remove" /\ dpc'[c] = "remove" /\ n \in job[c].todo
         /\ DeleteTypes' /\ log' = log
         /\ \/ /\ files' = files \ {n}
               /\ job'[c] = [job[c] EXCEPT !.todo = job[c].todo \ {n}]
            \/ /\ files' = files
               /\ job'[c] = [job[c] EXCEPT !.todo = job[c].todo \ {n},
                                           !.left = job[c].left \/ n \in Mail]
         /\ UNCHANGED <<kind, folder, shown, marker, arch, rev, lock, keys, backupV, kept,
                        bounds>>
<1>1. /\ dpc[c] = "remove" /\ dpc' = dpc /\ n \in job[c].todo
      /\ UNCHANGED <<kind, folder, shown, marker, arch, rev, lock, log, keys, backupV, kept,
                     bounds>>
  BY DEF RemoveName
<1> DEFINE t == job[c].todo \ {n}
           m == job[c].left \/ n \in Mail
<1>2. job[c] \in Jobs /\ t \in SUBSET Names /\ m \in BOOLEAN
  BY DEF Types, Jobs
<1>3. CASE files' = files \ {n} /\ job' = [job EXCEPT ![c].todo = t]
  <2>1. [job[c] EXCEPT !.todo = t] \in Jobs
    BY <1>2 DEF Jobs
  <2>2. job' = [job EXCEPT ![c] = [job[c] EXCEPT !.todo = t]]
    BY <1>2, <1>3 DEF Types, Jobs
  <2>3. job'[c] = [job[c] EXCEPT !.todo = t] /\ job' \in [Computers -> Jobs]
    BY <2>1, <2>2 DEF Types
  <2> QED
    BY <1>1, <1>3, <2>3 DEF Types, DeleteTypes
<1>4. CASE files' = files /\ job' = [job EXCEPT ![c].todo = t, ![c].left = m]
  <2> HIDE DEF m, t
  <2>1. [job[c] EXCEPT !.todo = t, !.left = m] \in Jobs
    BY <1>2 DEF Jobs
  <2>2. job' = [job EXCEPT ![c] = [job[c] EXCEPT !.todo = t, !.left = m]]
    BY <1>2, <1>4 DEF Types, Jobs
  <2>3. /\ job'[c] = [job[c] EXCEPT !.todo = t, !.left = m]
        /\ job' \in [Computers -> Jobs]
    BY <2>1, <2>2 DEF Types
  <2> QED
    BY <1>1, <1>4, <2>3 DEF Types, DeleteTypes, m, t
<1>5. \/ files' = files \ {n} /\ job' = [job EXCEPT ![c].todo = t]
      \/ files' = files /\ job' = [job EXCEPT ![c].todo = t, ![c].left = m]
  BY DEF RemoveName
<1> QED
  BY <1>3, <1>4, <1>5

LEMMA BeginLastIs ==
  ASSUME Types, NEW c \in Computers, BeginLast(c)
  PROVE  /\ dpc[c] = "remove" /\ job[c].todo = {} /\ DeleteTypes' /\ UNCHANGED <<log, job>>
         /\ dpc'[c] = IF job[c].left THEN "release" ELSE "late"
         /\ UNCHANGED <<place, lock, keys, backupV, historyV, bounds>>
<1>1. /\ dpc[c] = "remove" /\ job[c].todo = {} /\ UNCHANGED <<log, job>>
      /\ dpc' = [dpc EXCEPT ![c] = IF job[c].left THEN "release" ELSE "late"]
      /\ UNCHANGED <<place, lock, keys, backupV, historyV, bounds>>
  BY DEF BeginLast, To
<1> QED
  BY <1>1 DEF Types, DeleteTypes

LEMMA RemoveLastIs ==
  ASSUME Types, NEW c \in Computers, RemoveLast(c)
  PROVE  /\ DeleteTypes' /\ log' = log
         /\ \/ /\ dpc[c] = "late" /\ dpc'[c] = "anchor" /\ job' = job
               /\ files' = files \ ({"late"} \cap job[c].plan.names)
            \/ /\ dpc[c] = "anchor" /\ dpc'[c] = "unmark" /\ job' = job
               /\ files' = files \ ({"anchor"} \cap job[c].plan.names)
            \/ /\ dpc[c] \in {"late", "anchor"} /\ dpc'[c] = "release" /\ files' = files
               /\ job'[c] = [job[c] EXCEPT !.left = TRUE]
         /\ UNCHANGED <<kind, folder, shown, marker, arch, rev, lock, keys, backupV, kept,
                        bounds>>
<1>1. /\ dpc[c] \in {"late", "anchor"} /\ log' = log
      /\ UNCHANGED <<kind, folder, shown, marker, arch, rev, lock, keys, backupV, kept,
                     bounds>>
  BY DEF RemoveLast
<1>2. CASE /\ files' = files \ ({LastName(c)} \cap job[c].plan.names)
           /\ dpc' = [dpc EXCEPT ![c] = NextLast(c)] /\ job' = job
  <2>1. DeleteTypes' /\ dpc'[c] = NextLast(c)
    BY <1>1, <1>2 DEF Types, DeleteTypes
  <2>2. CASE dpc[c] = "late"
    BY <1>1, <1>2, <2>1, <2>2 DEF NextLast, LastName
  <2>3. CASE dpc[c] = "anchor"
    BY <1>1, <1>2, <2>1, <2>3 DEF NextLast, LastName
  <2> QED
    BY <1>1, <2>2, <2>3
<1>3. CASE /\ files' = files
           /\ dpc' = [dpc EXCEPT ![c] = "release"] /\ job' = [job EXCEPT ![c].left = TRUE]
  <2>0. job[c] \in Jobs
    BY DEF Types
  <2>1. job[c] \in Jobs /\ [job[c] EXCEPT !.left = TRUE] \in Jobs
    BY <2>0 DEF Jobs
  <2>2. job' = [job EXCEPT ![c] = [job[c] EXCEPT !.left = TRUE]]
    BY <2>1, <1>3 DEF Types, Jobs
  <2>3. job'[c] = [job[c] EXCEPT !.left = TRUE] /\ job' \in [Computers -> Jobs]
    BY <2>1, <2>2 DEF Types
  <2> QED
    BY <1>1, <1>3, <2>3 DEF Types, DeleteTypes
<1> QED
  BY <1>2, <1>3 DEF RemoveLast, To

LEMMA RemoveMarkerIs ==
  ASSUME Types, NEW c \in Computers, RemoveMarker(c)
  PROVE  /\ dpc[c] = "unmark" /\ dpc'[c] = "release" /\ DeleteTypes' /\ log' = log
         /\ \/ /\ marker' = IF job[c].there THEN NoMarker ELSE marker
               /\ job'[c] = [job[c] EXCEPT !.markerGone = job[c].there]
            \/ marker' = marker /\ job'[c] = [job[c] EXCEPT !.left = TRUE]
         /\ UNCHANGED <<kind, folder, shown, files, arch, rev, lock, keys, backupV, historyV,
                        bounds>>
<1>1. /\ dpc[c] = "unmark" /\ log' = log /\ dpc' = [dpc EXCEPT ![c] = "release"]
      /\ UNCHANGED <<kind, folder, shown, files, arch, rev, lock, keys, backupV, historyV,
                     bounds>>
  BY DEF RemoveMarker, To
<1>2. job[c] \in Jobs
  BY DEF Types
<1>3. CASE /\ marker' = IF job[c].there THEN NoMarker ELSE marker
           /\ job' = [job EXCEPT ![c].markerGone = job[c].there]
  <2>1. [job[c] EXCEPT !.markerGone = job[c].there] \in Jobs
    BY <1>2 DEF Jobs
  <2>2. job' = [job EXCEPT ![c] = [job[c] EXCEPT !.markerGone = job[c].there]]
    BY <1>2, <1>3 DEF Types, Jobs
  <2>3. /\ job'[c] = [job[c] EXCEPT !.markerGone = job[c].there]
        /\ job' \in [Computers -> Jobs]
    BY <2>1, <2>2 DEF Types
  <2> QED
    BY <1>1, <1>3, <2>3 DEF Types, DeleteTypes
<1>4. CASE marker' = marker /\ job' = [job EXCEPT ![c].left = TRUE]
  <2>1. [job[c] EXCEPT !.left = TRUE] \in Jobs
    BY <1>2 DEF Jobs
  <2>2. job' = [job EXCEPT ![c] = [job[c] EXCEPT !.left = TRUE]]
    BY <1>2, <1>4 DEF Types, Jobs
  <2>3. job'[c] = [job[c] EXCEPT !.left = TRUE] /\ job' \in [Computers -> Jobs]
    BY <2>1, <2>2 DEF Types
  <2> QED
    BY <1>1, <1>4, <2>3 DEF Types, DeleteTypes
<1> QED
  BY <1>3, <1>4 DEF RemoveMarker

LEMMA ReleaseIs ==
  ASSUME Types, NEW c \in Computers, Release(c)
  PROVE  /\ dpc[c] = "release" /\ DeleteTypes'
         /\ \/ job[c].left /\ Ended(c) /\ kept' = kept
            \/ /\ ~job[c].left /\ dpc'[c] = "tidy" /\ kept' = (files \cap Others # {})
               /\ UNCHANGED <<log, job>>
         /\ UNCHANGED <<place, keys, backupV, half, bounds>>
<1>1. dpc[c] = "release" /\ UNCHANGED <<place, keys, backupV, half, bounds>>
  BY DEF Release
<1>2. CASE job[c].left
  <2>1. End(c, "partial") /\ kept' = kept
    BY <1>2 DEF Release
  <2> QED
    BY <1>1, <1>2, <2>1, EndedIs
<1>3. CASE ~job[c].left
  <2>1. /\ dpc' = [dpc EXCEPT ![c] = "tidy"] /\ kept' = (files \cap Others # {})
        /\ UNCHANGED <<log, job>>
    BY <1>3 DEF Release, To
  <2>2. DeleteTypes' /\ dpc'[c] = "tidy"
    BY <2>1 DEF Types, DeleteTypes
  <2> QED
    BY <1>1, <1>3, <2>1, <2>2
<1> QED
  BY <1>2, <1>3

LEMMA TidyFolderIs ==
  ASSUME Types, NEW c \in Computers, TidyFolder(c)
  PROVE  /\ dpc[c] = "tidy" /\ dpc'[c] = "logFolder" /\ DeleteTypes' /\ log' = log
         /\ job'[c] = [job[c] EXCEPT !.folderGone = ~There']
         /\ UNCHANGED <<kind, shown, files, marker, arch, rev, lock, keys, backupV, historyV,
                        bounds>>
<1>1. /\ dpc[c] = "tidy" /\ dpc' = [dpc EXCEPT ![c] = "logFolder"] /\ log' = log
      /\ UNCHANGED <<kind, shown, files, marker, arch, rev, lock, keys, backupV, historyV,
                     bounds>>
  BY DEF TidyFolder, To
<1> DEFINE g == ~There'
<1>2. job' = [job EXCEPT ![c].folderGone = g]
  BY DEF TidyFolder
<1>3. g \in BOOLEAN /\ job[c] \in Jobs
  BY DEF Types
<1> HIDE DEF g
<1>4. [job[c] EXCEPT !.folderGone = g] \in Jobs
  BY <1>3 DEF Jobs
<1>5. job' = [job EXCEPT ![c] = [job[c] EXCEPT !.folderGone = g]]
  BY <1>2, <1>3 DEF Types, Jobs
<1>6. job'[c] = [job[c] EXCEPT !.folderGone = g] /\ job' \in [Computers -> Jobs]
  BY <1>4, <1>5 DEF Types
<1>7. DeleteTypes' /\ dpc'[c] = "logFolder"
  BY <1>1, <1>6 DEF Types, DeleteTypes
<1> QED
  BY <1>1, <1>6, <1>7 DEF g

LEMMA LogFolderIs ==
  ASSUME Types, NEW c \in Computers, LogFolder(c)
  PROVE  /\ dpc[c] = "logFolder" /\ DeleteTypes' /\ job' = job
         /\ dpc'[c] = IF NoProof(c) THEN "partial" ELSE "key"
         /\ UNCHANGED <<place, lock, keys, backupV, historyV, bounds>>
<1>1. /\ dpc[c] = "logFolder" /\ job' = job
      /\ dpc' = [dpc EXCEPT ![c] = IF NoProof(c) THEN "partial" ELSE "key"]
      /\ UNCHANGED <<place, lock, keys, backupV, historyV, bounds>>
  BY DEF LogFolder, To
<1> QED
  BY <1>1, LogFolderLines DEF Types, DeleteTypes

LEMMA KeyIs ==
  ASSUME Types, NEW c \in Computers, ForgetKey(c) \/ SkipKey(c)
  PROVE  /\ dpc[c] = "key" /\ DeleteTypes' /\ UNCHANGED <<log, job>>
         /\ dpc'[c] \in {"logForgotten", "finish"}
         /\ keys' = keys \/ keys' = [keys EXCEPT ![c] = 0]
         /\ UNCHANGED <<place, lock, backupV, historyV, bounds>>
<1>1. /\ dpc[c] = "key" /\ UNCHANGED <<log, job>>
      /\ \E pc \in {"logForgotten", "finish"} : dpc' = [dpc EXCEPT ![c] = pc]
      /\ keys' = keys \/ keys' = [keys EXCEPT ![c] = 0]
      /\ UNCHANGED <<place, lock, backupV, historyV, bounds>>
  BY DEF ForgetKey, SkipKey, To
<1> QED
  BY <1>1 DEF Types, DeleteTypes

LEMMA LogForgottenIs ==
  ASSUME Types, NEW c \in Computers, LogForgotten(c)
  PROVE  /\ dpc[c] = "logForgotten" /\ dpc'[c] = "finish" /\ DeleteTypes' /\ job' = job
         /\ UNCHANGED <<kind, shown, files, marker, arch, rev, lock, keys, backupV, historyV,
                        bounds>>
<1>1. /\ dpc[c] = "logForgotten" /\ dpc' = [dpc EXCEPT ![c] = "finish"] /\ job' = job
      /\ UNCHANGED <<kind, shown, files, marker, arch, rev, lock, keys, backupV, historyV,
                     bounds>>
  BY DEF LogForgotten, To
<1> QED
  BY <1>1, LogForgottenLines DEF Types, DeleteTypes

LEMMA LastIs ==
  ASSUME Types, NEW c \in Computers, StopNoAnchor(c) \/ Finish(c)
  PROVE  /\ Ended(c) /\ DeleteTypes'
         /\ UNCHANGED <<place, keys, backupV, historyV, bounds>>
<1>1. End(c, "partial") \/ End(c, "ended")
  BY DEF StopNoAnchor, Finish
<1>2. UNCHANGED <<place, keys, backupV, historyV, bounds>>
  BY DEF StopNoAnchor, Finish
<1> QED
  BY <1>1, <1>2, EndedIs

(***************************************************************************)
(* What a step of a delete does to the folder.                             *)
(***************************************************************************)
LEMMA FirstIs ==
  ASSUME Types, NEW c \in Computers
  PROVE  First(c) \in Nat /\ (job[c].run # 0 => First(c) # 0)
<1>1. job[c].run \in Nat /\ job[c].plan.first \in Nat
  BY DEF Types, Jobs, PlanRecords
<1> QED
  BY <1>1 DEF First

(* Only a plan for a folder that is gone is made where none is there. *)
LEMMA PlannedThere ==
  ASSUME NEW c \in Computers, NEW q \in Plans(c), q.rerun # "gone"
  PROVE  There
<1>1. CASE ~There
  <2>1. ~HoldsArchive(c)
    BY <1>1 DEF HoldsArchive
  <2>2. q = GonePlan(Unfinished(c))
    BY <1>1, <2>1 DEF Plans
  <2>3. q.rerun = "gone"
    BY <2>2 DEF GonePlan, NoPlan
  <2> QED
    BY <2>3
<1> QED
  BY <1>1

Takes(c)   == /\ dpc[c] \in {"remove", "late", "anchor"} /\ marker' = marker
              /\ files' \subseteq files
              /\ files \ files' \subseteq IF dpc[c] = "remove" THEN job[c].todo ELSE {dpc[c]}
Marks(c)   == /\ dpc[c] = "mark" /\ job[c].plan.rerun # "noAnchor"
              /\ marker = NoMarker /\ marker' # NoMarker /\ files' = files
Unmarks(c) == dpc[c] = "unmark" /\ marker' = NoMarker /\ files' = files

DeleteMove(c) ==
  /\ DeleteTypes'
  /\ UNCHANGED <<kind, shown, arch, rev, backupV, backups, folders>>
  /\ runs' \in {runs, runs + 1} /\ marker' \in {marker, First(c), NoMarker, Blank}
  /\ \/ UNCHANGED <<files, marker>>
     \/ Takes(c) \/ Marks(c) \/ Unmarks(c)
  /\ \/ folder' = folder
     \/ folder' = 0 /\ files = {} /\ lock = Free /\ lock' = Free
  /\ \/ lock' = lock
     \/ Locking(c) /\ lock' = Free
     \/ dpc[c] = "lock" /\ lock = Free /\ lock' = <<"delete", c>> /\ There /\ folder' = folder
  /\ keys' = keys \/ keys' = [keys EXCEPT ![c] = 0]
  /\ kept' = kept \/ Release(c)

LEMMA TidiedIs ==
  ASSUME NEW c, folder' \in TidiedFolder(c)
  PROVE  folder' = folder \/ (folder' = 0 /\ files = {} /\ marker = NoMarker /\ lock = Free)
BY DEF TidiedFolder, CanGo

LEMMA UnlockIs ==
  ASSUME NEW c, Unlock(c)
  PROVE  lock' = lock \/ (Locking(c) /\ lock' = Free)
BY DEF Unlock

LEMMA DeleteMoves ==
  ASSUME Types, Inv, NEW c \in Computers, ShowPlan(c) \/ DeleteStep(c) \/ StopDelete(c)
  PROVE  DeleteMove(c)
<1>1. CASE ShowPlan(c)
  BY <1>1, ShowPlanIs DEF DeleteMove, place, historyV, bounds
<1>2. CASE StopDelete(c)
  <2>1. Unlock(c)
    BY <1>2 DEF StopDelete
  <2> QED
    BY <1>2, <2>1, StopDeleteIs, UnlockIs DEF DeleteMove, place, historyV, bounds
<1>3. CASE LogStarted(c)
  BY <1>3, LogStartedIs DEF DeleteMove, place, historyV, bounds
<1>4. CASE LockAndRecheck(c)
  <2>1. /\ dpc[c] = "lock" /\ DeleteTypes'
        /\ UNCHANGED <<place, keys, backupV, historyV, bounds>>
    BY <1>4, LockAndRecheckIs
  <2>2. CASE lock = Free /\ \E q \in Plans(c) : SamePlan(job[c].plan, q)
    <3>1. PICK q \in Plans(c) : SamePlan(job[c].plan, q)
      BY <2>2
    <3>2. q.rerun # "gone"
      BY <2>1, <3>1 DEF SamePlan, Inv, DeleteInv
    <3>3. There
      BY <3>2, PlannedThere
    <3>4. lock' = <<"delete", c>>
      BY <1>4, <2>2 DEF LockAndRecheck
    <3> QED
      BY <2>1, <2>2, <3>3, <3>4 DEF DeleteMove, place, historyV, bounds
  <2>3. CASE ~(lock = Free /\ \E q \in Plans(c) : SamePlan(job[c].plan, q))
    <3>1. Unlock(c)
      BY <1>4, <2>3 DEF LockAndRecheck, End
    <3> QED
      BY <2>1, <3>1, UnlockIs DEF DeleteMove, place, historyV, bounds
  <2> QED
    BY <2>2, <2>3
<1>5. CASE LookGone(c)
  <2>1. lock' = lock \/ Unlock(c)
    BY <1>5 DEF LookGone, End
  <2> QED
    BY <1>5, <2>1, LookGoneIs, UnlockIs DEF DeleteMove, place, historyV, bounds
<1>6. CASE MarkFolder(c)
  <2>1. First(c) # NoMarker
    BY <1>6, FirstIs DEF MarkFolder, Inv, DeleteInv, Locked, NoMarker
  <2>2. UNCHANGED marker \/ Marks(c)
    BY <1>6, <2>1, MarkFolderIs DEF Marks, NoMarker, Blank
  <2> QED
    BY <1>6, <2>2, MarkFolderIs DEF DeleteMove, historyV, bounds
<1>7. CASE LogMarked(c)
  BY <1>7, LogMarkedIs DEF DeleteMove, place, historyV, bounds
<1>8. ASSUME NEW n \in Names, RemoveName(c, n) PROVE DeleteMove(c)
  <2>1. Takes(c)
    BY <1>8, RemoveNameIs DEF Takes
  <2> QED
    BY <1>8, <2>1, RemoveNameIs DEF DeleteMove, bounds
<1>9. CASE BeginLast(c)
  BY <1>9, BeginLastIs DEF DeleteMove, place, historyV, bounds
<1>10. CASE RemoveLast(c)
  <2>1. Takes(c)
    BY <1>10, RemoveLastIs DEF Takes
  <2> QED
    BY <1>10, <2>1, RemoveLastIs DEF DeleteMove, bounds
<1>11. CASE RemoveMarker(c)
  <2>1. UNCHANGED marker \/ Unmarks(c)
    BY <1>11, RemoveMarkerIs DEF Unmarks
  <2> QED
    BY <1>11, <2>1, RemoveMarkerIs DEF DeleteMove, historyV, bounds
<1>12. CASE Release(c)
  <2>1. Unlock(c)
    BY <1>12 DEF Release, End
  <2> QED
    BY <1>12, <2>1, ReleaseIs, UnlockIs DEF DeleteMove, place, bounds
<1>13. CASE TidyFolder(c)
  <2>1. folder' \in TidiedFolder(c)
    BY <1>13 DEF TidyFolder
  <2> QED
    BY <1>13, <2>1, TidyFolderIs, TidiedIs DEF DeleteMove, historyV, bounds
<1>14. CASE LogFolder(c)
  BY <1>14, LogFolderIs DEF DeleteMove, place, historyV, bounds
<1>15. CASE ForgetKey(c) \/ SkipKey(c)
  BY <1>15, KeyIs DEF DeleteMove, place, historyV, bounds
<1>16. CASE LogForgotten(c)
  <2>1. folder' = folder \/ folder' \in TidiedFolder(c)
    BY <1>16 DEF LogForgotten
  <2> QED
    BY <1>16, <2>1, LogForgottenIs, TidiedIs DEF DeleteMove, historyV, bounds
<1>17. CASE StopNoAnchor(c) \/ Finish(c)
  <2>1. Unlock(c)
    BY <1>17 DEF StopNoAnchor, Finish, End
  <2> QED
    BY <1>17, <2>1, LastIs, UnlockIs DEF DeleteMove, place, historyV, bounds
<1> QED
  BY <1>1, <1>2, <1>3, <1>4, <1>5, <1>6, <1>7, <1>8, <1>9, <1>10, <1>11, <1>12, <1>13, <1>14,
     <1>15, <1>16, <1>17 DEF DeleteStep

(***************************************************************************)
(* What any other step does to it.                                         *)
(***************************************************************************)
BackupTypes ==
  /\ bpc = [c \in Computers |-> bpc[c]]
  /\ attended = [c \in Computers |-> attended[c]] /\ saw = [c \in Computers |-> saw[c]]


Saves(c) ==
  /\ bpc[c] = "writing" /\ bpc'[c] = "idle" /\ files' = files \cup Recorded
  /\ arch' = IF files \cap {"anchor", "late"} # {} THEN arch ELSE arch + 1
  /\ kept' = (kept /\ ~attended[c])

OtherMove ==
  /\ BackupTypes'
  /\ UNCHANGED <<kind, marker, keys, deleteV, log, runs>>
  /\ arch' \in Nat /\ rev' \in Nat /\ shown' \in BOOLEAN
  /\ \/ files' \ Others = files \ Others /\ files' \subseteq Names /\ arch' = arch
     \/ \E c \in Computers : Saves(c)
     \/ LoseAnchor /\ arch' = arch
  /\ files' # files => There \/ \E c \in Computers : bpc[c] = "writing"
  /\ \/ UNCHANGED <<folder, folders>>
     \/ folder' = folders + 1 /\ folders' = folders + 1
  /\ shown' = shown \/ shown' \/ (Unplug /\ lock' = lock)
  /\ \/ lock' = lock
     \/ \E c \in Computers : lock = <<"backup", c>> /\ lock' = Free
     \/ \E c \in Computers : lock = Free /\ lock' = <<"backup", c>> /\ There'
  /\ kept' => kept /\ files \cap Others \subseteq files'

LEMMA BackupEndsIs ==
  ASSUME Types, NEW c \in Computers, BackupEnds(c)
  PROVE  /\ BackupTypes' /\ bpc'[c] = "idle"
         /\ lock' = lock \/ (lock = <<"backup", c>> /\ lock' = Free)
BY DEF Types, BackupEnds, BackupTypes

LEMMA OtherMoves ==
  ASSUME Types, [Next]_vars,
         ~ \E c \in Computers : ShowPlan(c) \/ DeleteStep(c) \/ StopDelete(c)
  PROVE  OtherMove
<1>1. ASSUME NEW c \in Computers, NEW a \in BOOLEAN, BackupChecks(c, a) PROVE OtherMove
  BY <1>1 DEF BackupChecks, OtherMove, BackupTypes, Types, place, historyV
<1>2. ASSUME NEW c \in Computers, BackupLocks(c) PROVE OtherMove
  <2>1. /\ UNCHANGED <<kind, shown, files, marker, arch, rev, log, keys, deleteV, historyV, runs>>
        /\ folders' = IF MakesFolder(c) THEN folders + 1 ELSE folders
        /\ folder' = IF MakesFolder(c) THEN folders' ELSE folder
    BY <1>2 DEF BackupLocks
  <2>2. BackupTypes' /\ \/ lock' = lock
                        \/ lock = <<"backup", c>> /\ lock' = Free
                        \/ lock = Free /\ lock' = <<"backup", c>> /\ There'
    <3>1. CASE There' /\ lock = Free /\ ~RefusesDelete(c)' /\ GuardPasses(c) /\ KeyOpens(c)
      BY <1>2, <3>1 DEF BackupLocks, BackupTypes, Types
    <3>2. CASE ~(There' /\ lock = Free /\ ~RefusesDelete(c)' /\ GuardPasses(c) /\ KeyOpens(c))
      <4>1. BackupEnds(c)
        BY <1>2, <3>2 DEF BackupLocks
      <4> QED
        BY <4>1, BackupEndsIs
    <3> QED
      BY <3>1, <3>2
  <2>3. \/ UNCHANGED <<folder, folders>>
        \/ folder' = folders + 1 /\ folders' = folders + 1
    BY <2>1
  <2> QED
    BY <2>1, <2>2, <2>3 DEF OtherMove, Types, historyV
<1>3. ASSUME NEW c \in Computers, BackupSaves(c) PROVE OtherMove
  <2>1. /\ bpc[c] = "writing" /\ files' = files \cup Recorded /\ rev' = rev + 1
        /\ arch' = IF files \cap {"anchor", "late"} # {} THEN arch ELSE arch + 1
        /\ kept' = (kept /\ ~attended[c]) /\ BackupEnds(c)
        /\ UNCHANGED <<kind, folder, shown, marker, log, keys, deleteV, half, bounds>>
    BY <1>3 DEF BackupSaves
  <2>2. Saves(c)
    BY <2>1, BackupEndsIs DEF Saves
  <2>3. rev' \in Nat /\ arch' \in Nat
    BY <2>1 DEF Types
  <2>4. BackupTypes' /\ (lock' = lock \/ (lock = <<"backup", c>> /\ lock' = Free))
    BY <2>1, BackupEndsIs
  <2>5. files \cap Others \subseteq files'
    BY <2>1
  <2>6. UNCHANGED <<runs, folders>>
    BY <2>1 DEF bounds
  <2> QED
    BY <2>1, <2>2, <2>3, <2>4, <2>5, <2>6 DEF OtherMove, Types
<1>4. ASSUME NEW c \in Computers, KillBackup(c) PROVE OtherMove
  <2>1. /\ bpc[c] = "writing" /\ BackupEnds(c)
        /\ files' \in {files, files \cup {"copy"}}
        /\ UNCHANGED <<kind, folder, shown, marker, arch, rev, log, keys, deleteV, historyV,
                       runs, folders>>
    BY <1>4 DEF KillBackup
  <2>2. files' \ Others = files \ Others /\ files' \subseteq Names /\ files \subseteq files'
    BY <2>1 DEF Types, Others, Names
  <2> QED
    BY <2>1, <2>2, BackupEndsIs DEF OtherMove, Types, historyV
<1>5. CASE PutMine
  <2>1. /\ There /\ files' = files \cup {"mine"}
        /\ UNCHANGED <<kind, folder, shown, marker, arch, rev, lock, log, keys, deleteV,
                       backupV, historyV, bounds>>
    BY <1>5 DEF PutMine
  <2>2. files' \ Others = files \ Others /\ files' \subseteq Names /\ files \subseteq files'
    BY <2>1 DEF Types, Others, Names
  <2> QED
    BY <2>1, <2>2 DEF OtherMove, Types, backupV, BackupTypes, historyV, bounds
<1>6. CASE TakeOut
  <2>1. /\ There /\ files' = files \ Others /\ kept' = FALSE
        /\ UNCHANGED <<kind, folder, shown, marker, arch, rev, lock, log, keys, deleteV,
                       backupV, bounds>>
    BY <1>6 DEF TakeOut
  <2>2. files' \ Others = files \ Others /\ files' \subseteq Names
    BY <2>1 DEF Types, Others, Names
  <2> QED
    BY <2>1, <2>2 DEF OtherMove, Types, backupV, BackupTypes, bounds
<1>7. CASE LoseAnchor
  <2>1. /\ There /\ files' = files \ {"anchor"}
        /\ UNCHANGED <<kind, folder, shown, marker, arch, rev, lock, log, keys, deleteV,
                       backupV, historyV, bounds>>
    BY <1>7 DEF LoseAnchor
  <2>2. files \cap Others \subseteq files'
    BY <2>1 DEF Others
  <2> QED
    BY <1>7, <2>1, <2>2 DEF OtherMove, Types, backupV, BackupTypes, historyV, bounds
<1>8. CASE Unplug
  <2>1. /\ shown' = FALSE
        /\ UNCHANGED <<kind, folder, files, marker, arch, rev, lock, log, keys, deleteV,
                       backupV, historyV, bounds>>
    BY <1>8 DEF Unplug
  <2> QED
    BY <1>8, <2>1 DEF OtherMove, Types, backupV, BackupTypes, historyV, bounds
<1>9. CASE PlugIn
  <2>1. /\ shown' = TRUE
        /\ \/ UNCHANGED <<folder, folders>>
           \/ folder' = folders + 1 /\ folders' = folders + 1
        /\ UNCHANGED <<kind, files, marker, arch, rev, lock, log, keys, deleteV, backupV,
                       historyV, runs>>
    BY <1>9 DEF PlugIn
  <2> QED
    BY <2>1 DEF OtherMove, Types, backupV, BackupTypes, historyV
<1>10. CASE UNCHANGED vars
  BY <1>10 DEF OtherMove, vars, place, bounds, Types, backupV, BackupTypes, historyV
<1> QED
  BY <1>1, <1>2, <1>3, <1>4, <1>5, <1>6, <1>7, <1>8, <1>9, <1>10 DEF Next, BackupStep

LEMMA AnyMove ==
  ASSUME Types, Inv, [Next]_vars
  PROVE  OtherMove \/ \E c \in Computers : DeleteMove(c)
BY DeleteMoves, OtherMoves

LEMMA TypesStep == ASSUME Types, Inv, [Next]_vars PROVE Types'
<1>1. ASSUME NEW c \in Computers, DeleteMove(c) PROVE Types'
  <2>1. files' \subseteq files
    BY <1>1 DEF DeleteMove, Takes, Marks, Unmarks
  <2>2. marker' \in Int /\ runs' \in Nat
    BY <1>1, FirstIs DEF DeleteMove, Types, NoMarker, Blank
  <2>3. keys' \in [Computers -> Nat] /\ folder' \in Nat
    BY <1>1 DEF DeleteMove, Types
  <2> QED
    BY <1>1, <2>1, <2>2, <2>3 DEF DeleteMove, DeleteTypes, Types, backupV
<1>2. CASE OtherMove
  <2>1. files' \subseteq Names
    BY <1>2 DEF OtherMove, Types, Saves, LoseAnchor, Names
  <2>2. folder' \in Nat /\ folders' \in Nat
    BY <1>2 DEF OtherMove, Types
  <2> QED
    BY <1>2, <2>1, <2>2 DEF OtherMove, BackupTypes, Types, deleteV
<1> QED
  BY <1>1, <1>2, AnyMove

Own(d) == ShowPlan(d) \/ DeleteStep(d) \/ StopDelete(d)

LEMMA BesideMove ==
  ASSUME Types, Inv, [Next]_vars, NEW d \in Computers, ~Own(d)
  PROVE  /\ UNCHANGED <<dpc[d], job[d], log[d]>>
         /\ OtherMove \/ \E c \in Computers \ {d} : DeleteMove(c)
<1>1. UNCHANGED <<dpc[d], job[d], log[d]>>
  BY Whose DEF Own
<1>2. CASE \E c \in Computers : ShowPlan(c) \/ DeleteStep(c) \/ StopDelete(c)
  <2>1. PICK c \in Computers : ShowPlan(c) \/ DeleteStep(c) \/ StopDelete(c)
    BY <1>2
  <2>2. c # d /\ DeleteMove(c)
    BY <2>1, DeleteMoves DEF Own
  <2> QED
    BY <1>1, <2>2
<1>3. CASE ~ \E c \in Computers : ShowPlan(c) \/ DeleteStep(c) \/ StopDelete(c)
  BY <1>1, <1>3, OtherMoves
<1> QED
  BY <1>2, <1>3

(* What a plan says of the folder it was made for. *)
LEMMA PlanIs ==
  ASSUME Types, NEW c \in Computers, NEW q \in Plans(c)
  PROVE  /\ q \in PlanRecords
         /\ q.rerun = "none" =>
              /\ There /\ ~Mixed /\ q = OrdinaryPlan(c)
              /\ ("anchor" \in files \/ keys[c] # 0)
              /\ q.names = files \ {"mine"} /\ q.ident = folder /\ q.arch = arch
              /\ ~q.noteGone
         /\ q.rerun = "noAnchor" =>
              /\ There /\ "anchor" \notin files /\ q.names = files \cap {"late"}
              /\ q.ident = folder
              /\ \/ q = MarkerPlan /\ marker # NoMarker
                 \/ Unfinished(c) # None /\ q = UnfinishedPlan(c, Unfinished(c))
         /\ q.rerun = "gone" =>
              /\ Unfinished(c) # None /\ q = GonePlan(Unfinished(c))
              /\ Unfinished(c).removed \/ folder = 0
<1> DEFINE u == Unfinished(c)
<1>0. q \in PlanRecords
  BY PlansTyped
<1>1. CASE HoldsArchive(c)
  <2>1. q = OrdinaryPlan(c) /\ ~Mixed
    BY <1>1 DEF Plans
  <2>2. /\ q.rerun = "none" /\ q.names = files \ {"mine"} /\ q.ident = folder /\ q.arch = arch
        /\ ~q.noteGone
    BY <2>1 DEF OrdinaryPlan, NoPlan
  <2> QED
    BY <1>0, <1>1, <2>1, <2>2 DEF HoldsArchive
<1>2. CASE ~HoldsArchive(c) /\ There
  <2>1. "anchor" \notin files
    BY <1>2 DEF HoldsArchive
  <2>2. \/ q = MarkerPlan /\ marker # NoMarker
        \/ u # None /\ q = UnfinishedPlan(c, u)
    BY <1>2 DEF Plans
  <2>3. q.rerun = "noAnchor" /\ q.names = files \cap {"late"} /\ q.ident = folder
    BY <2>2 DEF MarkerPlan, UnfinishedPlan, NoAnchorPlan, NoPlan
  <2> QED
    BY <1>0, <1>2, <2>1, <2>2, <2>3
<1>3. CASE ~HoldsArchive(c) /\ ~There
  <2>1. q = GonePlan(u) /\ u # None /\ (u.removed \/ folder = 0)
    BY <1>3 DEF Plans
  <2>2. q.rerun = "gone"
    BY <2>1 DEF GonePlan, NoPlan
  <2> QED
    BY <1>0, <2>1, <2>2
<1> QED
  BY <1>1, <1>2, <1>3

(***************************************************************************)
(* The folder.                                                             *)
(***************************************************************************)
PlaceInv ==
  /\ \A c \in Computers : keys[c] # 0 => kind = "encrypted"
  /\ folder = 0 => files = {} /\ lock = Free
  /\ lock # Free => There
  /\ kind = "encrypted" \/ marker # NoMarker => "anchor" \in files \/ files \cap Mail = {}

(* A delete: what its plan named, and how far its removals have come. *)
PlanInv(c) ==
  /\ dpc[c] \in Locked \cup {"lock"} => job[c].plan.rerun # "gone"
  /\ dpc[c] = "look" => job[c].plan.rerun = "gone"
  /\ dpc[c] \in {"planned", "lock", "look", "mark"} =>
       ~job[c].left /\ ~job[c].markerGone /\ ~job[c].folderGone /\ job[c].todo = {}
  /\ dpc[c] \in Locked =>
       /\ job[c].todo \subseteq job[c].plan.names
       /\ files \cap {"late", "anchor"} \subseteq job[c].plan.names
       /\ job[c].plan.rerun = "none" => files \cap Mail \subseteq job[c].plan.names
  /\ dpc[c] = "mark" /\ job[c].plan.rerun = "none" => "anchor" \in files \/ files \cap Mail = {}
  /\ dpc[c] \in {"logMarked", "remove"} /\ job[c].plan.rerun = "none" /\ ~job[c].left =>
       files \cap Mail \subseteq job[c].todo
  /\ dpc[c] \in {"late", "anchor", "unmark"} =>
       ~job[c].left /\ (job[c].plan.rerun = "none" => files \cap Mail = {})
  /\ dpc[c] \in {"anchor", "unmark"} => "late" \notin files
  /\ dpc[c] = "unmark" => "anchor" \notin files
  /\ dpc[c] \in {"logMarked", "remove", "late", "anchor", "unmark"} =>
       ~job[c].markerGone /\ (job[c].there <=> marker # NoMarker)
  /\ dpc[c] = "release" /\ ~job[c].left =>
       /\ files \cap {"late", "anchor"} = {}
       /\ job[c].plan.rerun = "none" \/ job[c].markerGone => files \cap Mail = {}

LEMMA PlaceStep ==
  ASSUME Types, Inv, PlaceInv, \A c \in Computers : PlanInv(c), [Next]_vars
  PROVE  PlaceInv'
<1>1. ASSUME NEW c \in Computers, DeleteMove(c) PROVE PlaceInv'
  <2>1. files' \subseteq files
    BY <1>1 DEF DeleteMove, Takes, Marks, Unmarks
  <2>2. (\A d \in Computers : keys[d] # 0 => kind = "encrypted")'
    BY <1>1 DEF DeleteMove, PlaceInv, Types
  <2>3. (folder = 0 => files = {} /\ lock = Free)' /\ (lock # Free => There)'
    <3>1. lock' # Free => lock # Free \/ There
      BY <1>1 DEF DeleteMove
    <3> QED
      BY <1>1, <2>1, <3>1 DEF DeleteMove, PlaceInv, There, Free
  <2>4. ASSUME kind = "encrypted" \/ marker' # NoMarker
        PROVE  "anchor" \in files' \/ files' \cap Mail = {}
    <3>1. CASE UNCHANGED <<files, marker>>
      BY <2>4, <3>1 DEF PlaceInv
    <3>2. CASE Takes(c)
      <4>1. CASE "anchor" \in files /\ "anchor" \notin files'
        <5>1. dpc[c] = "anchor"
          BY <3>2, <4>1 DEF Takes, Inv, DeleteInv
        <5>2. job[c].plan.rerun # "noAnchor"
          BY <4>1, <5>1 DEF Inv, DeleteInv, Rechecked, Locked
        <5>3. job[c].plan.rerun = "none"
          BY <5>1, <5>2 DEF Types, Jobs, PlanRecords, PlanInv, Locked
        <5>4. files \cap Mail = {}
          BY <5>1, <5>3 DEF PlanInv
        <5> QED
          BY <5>4, <2>1
      <4>2. CASE ~("anchor" \in files /\ "anchor" \notin files')
        BY <2>1, <2>4, <3>2, <4>2 DEF PlaceInv, Takes
      <4> QED
        BY <4>1, <4>2
    <3>3. CASE Marks(c)
      <4>1. job[c].plan.rerun = "none"
        BY <3>3 DEF Marks, Types, Jobs, PlanRecords, PlanInv, Locked
      <4> QED
        BY <3>3, <4>1 DEF Marks, PlanInv
    <3>4. CASE Unmarks(c)
      BY <2>4, <3>4 DEF Unmarks, PlaceInv
    <3> QED
      BY <1>1, <3>1, <3>2, <3>3, <3>4 DEF DeleteMove
  <2>5. kind' = kind
    BY <1>1 DEF DeleteMove
  <2> QED
    BY <2>2, <2>3, <2>4, <2>5 DEF PlaceInv
<1>2. CASE OtherMove
  <2>1. (\A d \in Computers : keys[d] # 0 => kind = "encrypted")'
    BY <1>2 DEF OtherMove, PlaceInv
  <2>2. (folder = 0 => files = {} /\ lock = Free)'
    <3>1. ASSUME folder' = 0 PROVE files' = {} /\ lock' = Free
      <4>1. folder = 0
        BY <1>2, <3>1 DEF OtherMove, Types
      <4>2. files = {} /\ lock = Free /\ ~There
        BY <4>1 DEF PlaceInv, There
      <4>3. \A c \in Computers : bpc[c] # "writing"
        BY <4>2 DEF Inv, BackupInv, Free
      <4>4. ~There'
        BY <3>1 DEF There
      <4> QED
        BY <1>2, <4>2, <4>3, <4>4 DEF OtherMove
    <3> QED
      BY <3>1
  <2>3. (lock # Free => There)'
    <3>1. ASSUME lock' = lock, lock # Free PROVE There'
      <4>1. There /\ ~Unplug
        BY <3>1 DEF PlaceInv, Unplug
      <4>2. folder' # 0
        BY <1>2, <4>1 DEF OtherMove, There, Types
      <4> QED
        BY <1>2, <4>1, <4>2 DEF OtherMove, There
    <3> QED
      BY <1>2, <3>1 DEF OtherMove
  <2>4. ASSUME kind = "encrypted" \/ marker # NoMarker
        PROVE  "anchor" \in files' \/ files' \cap Mail = {}
    <3>1. CASE files' \ Others = files \ Others
      <4>1. \A n \in Mail \cup {"anchor"} : n \in files' <=> n \in files
        BY <3>1, MailAssumption DEF Others
      <4> QED
        BY <2>4, <4>1 DEF PlaceInv
    <3>2. ASSUME NEW c \in Computers, Saves(c) PROVE "anchor" \in files'
      BY <3>2 DEF Saves, Recorded
    <3>3. ~LoseAnchor
      BY <2>4 DEF LoseAnchor
    <3> QED
      BY <1>2, <3>1, <3>2, <3>3 DEF OtherMove
  <2>5. kind' = kind /\ marker' = marker
    BY <1>2 DEF OtherMove
  <2> QED
    BY <2>1, <2>2, <2>3, <2>4, <2>5 DEF PlaceInv
<1> QED
  BY <1>1, <1>2, AnyMove

(* While a delete holds the lock, only it removes or marks anything recorded. *)
LEMMA LockedStill ==
  ASSUME Types, Inv, [Next]_vars, NEW d \in Computers, ~Own(d), dpc[d] \in Locked
  PROVE  /\ marker' = marker /\ arch' = arch
         /\ \A n \in Recorded : n \in files' <=> n \in files
<1>1. lock = <<"delete", d>>
  BY DEF Inv, DeleteInv
<1>2. ASSUME NEW c \in Computers \ {d}, DeleteMove(c)
      PROVE  UNCHANGED <<marker, arch, files>>
  <2>1. dpc[c] \notin Locked
    BY <1>1, <1>2 DEF Inv, DeleteInv
  <2> QED
    BY <1>2, <2>1 DEF DeleteMove, Takes, Marks, Unmarks, Locked
<1>3. CASE OtherMove
  <2>1. \A c \in Computers : ~Saves(c)
    BY <1>1 DEF Inv, BackupInv, Saves
  <2>2. ~LoseAnchor
    BY <1>1 DEF LoseAnchor, Free
  <2>3. marker' = marker /\ arch' = arch /\ files' \ Others = files \ Others
    BY <1>3, <2>1, <2>2 DEF OtherMove
  <2>4. Recorded \cap Others = {}
    BY MailAssumption DEF Recorded, Others
  <2> QED
    BY <2>3, <2>4
<1> QED
  BY <1>2, <1>3, BesideMove

LEMMA NamesApart ==
  /\ Mail \cap {"late", "anchor", "copy", "mine"} = {} /\ "late" \in Recorded
  /\ "anchor" \in Recorded /\ Mail \subseteq Recorded
BY MailAssumption DEF Recorded

LEMMA PlanShow ==
  ASSUME Types, NEW d \in Computers, ShowPlan(d)
  PROVE  PlanInv(d)'
<1>1. /\ dpc'[d] = "planned"
      /\ \E p \in Plans(d) : p \in PlanRecords /\ job'[d] = [NoJob EXCEPT !.plan = p]
  BY ShowPlanIs
<1>2. ~job'[d].left /\ ~job'[d].markerGone /\ ~job'[d].folderGone /\ job'[d].todo = {}
  BY <1>1 DEF NoJob
<1> QED
  BY <1>1, <1>2 DEF PlanInv, Locked

LEMMA PlanStarted ==
  ASSUME Types, NEW d \in Computers, PlanInv(d), LogStarted(d)
  PROVE  PlanInv(d)'
<1>1. /\ dpc[d] = "planned"
      /\ dpc'[d] = IF job[d].plan.rerun = "gone" THEN "look" ELSE "lock"
      /\ job'[d] = [job[d] EXCEPT !.run = runs'] /\ job[d] \in Jobs
  BY LogStartedIs DEF Types
<1>2. /\ job'[d].plan = job[d].plan /\ job'[d].left = job[d].left
      /\ job'[d].markerGone = job[d].markerGone /\ job'[d].folderGone = job[d].folderGone
      /\ job'[d].todo = job[d].todo
  BY <1>1 DEF Jobs
<1> QED
  BY <1>1, <1>2 DEF PlanInv, Locked

LEMMA PlanEnds ==
  ASSUME NEW d, Ended(d)
  PROVE  PlanInv(d)'
BY DEF Ended, PlanInv, Locked

LEMMA PlanLocks ==
  ASSUME Types, PlaceInv, NEW d \in Computers, PlanInv(d), LockAndRecheck(d)
  PROVE  PlanInv(d)'
<1>1. /\ dpc[d] = "lock" /\ UNCHANGED <<files, marker>>
      /\ \/ /\ dpc'[d] = "mark" /\ job' = job
            /\ \E q \in Plans(d) : SamePlan(job[d].plan, q)
         \/ Ended(d)
  BY LockAndRecheckIs DEF place
<1>2. ASSUME dpc'[d] = "mark", job' = job, NEW q \in Plans(d), SamePlan(job[d].plan, q)
      PROVE  PlanInv(d)'
  <2>1. job[d].plan.rerun = q.rerun /\ job[d].plan.names = q.names
    BY <1>2 DEF SamePlan
  <2>2. /\ q.rerun = "none" => q.names = files \ {"mine"} /\ ("anchor" \in files \/ keys[d] # 0)
        /\ q.rerun = "noAnchor" => "anchor" \notin files /\ q.names = files \cap {"late"}
    BY PlanIs
  <2>3. q.rerun \in {"none", "noAnchor"} /\ job[d].plan.rerun # "gone"
    BY <1>1, <2>1 DEF PlanInv, Types, Jobs, PlanRecords
  <2>4. q.rerun = "none" => "anchor" \in files \/ files \cap Mail = {}
    BY <2>2 DEF PlaceInv
  <2>5. ~job[d].left /\ ~job[d].markerGone /\ ~job[d].folderGone /\ job[d].todo = {}
    BY <1>1 DEF PlanInv
  <2>6. /\ files \cap {"late", "anchor"} \subseteq job[d].plan.names
        /\ job[d].plan.rerun = "none" => files \cap Mail \subseteq job[d].plan.names
    BY <2>1, <2>2, <2>3, NamesApart
  <2> QED
    BY <1>1, <1>2, <2>1, <2>3, <2>4, <2>5, <2>6 DEF PlanInv, Locked
<1> QED
  BY <1>1, <1>2, PlanEnds

LEMMA PlanMarks ==
  ASSUME Types, Inv, NEW d \in Computers, PlanInv(d), MarkFolder(d)
  PROVE  PlanInv(d)'
<1>1. dpc[d] = "mark" /\ dpc'[d] \in {"logMarked", "remove"} /\ files' = files
  BY MarkFolderIs
<1>2. PICK ticked \in SUBSET {"copy"} :
         job'[d] = [job[d] EXCEPT !.todo = job[d].plan.names \cap (Mail \cup ticked),
                                  !.there = marker' # NoMarker]
  BY MarkFolderIs
<1>3. /\ job'[d].plan = job[d].plan /\ job'[d].left = job[d].left
      /\ job'[d].markerGone = job[d].markerGone
      /\ job'[d].todo = job[d].plan.names \cap (Mail \cup ticked)
      /\ job'[d].there = (marker' # NoMarker)
  BY <1>2 DEF Types, Jobs
<1>4. /\ job[d].plan.rerun # "gone" /\ ~job[d].left /\ ~job[d].markerGone
      /\ files \cap {"late", "anchor"} \subseteq job[d].plan.names
      /\ job[d].plan.rerun = "none" => files \cap Mail \subseteq job[d].plan.names
  BY <1>1 DEF PlanInv, Locked
<1> QED
  BY <1>1, <1>3, <1>4 DEF PlanInv, Locked

LEMMA PlanLogsMarked ==
  ASSUME Types, NEW d \in Computers, PlanInv(d), LogMarked(d)
  PROVE  PlanInv(d)'
<1>1. /\ dpc[d] = "logMarked" /\ dpc'[d] = "remove" /\ job' = job
      /\ UNCHANGED <<files, marker>>
  BY LogMarkedIs DEF place
<1> QED
  BY <1>1 DEF PlanInv, Locked

LEMMA PlanRemoves ==
  ASSUME Types, Inv, NEW d \in Computers, PlanInv(d), NEW n \in Names, RemoveName(d, n)
  PROVE  PlanInv(d)'
<1>1. /\ dpc[d] = "remove" /\ dpc'[d] = "remove" /\ n \in job[d].todo /\ marker' = marker
      /\ \/ /\ files' = files \ {n}
            /\ job'[d] = [job[d] EXCEPT !.todo = job[d].todo \ {n}]
         \/ /\ files' = files
            /\ job'[d] = [job[d] EXCEPT !.todo = job[d].todo \ {n},
                                        !.left = job[d].left \/ n \in Mail]
  BY RemoveNameIs
<1>2. /\ job'[d].plan = job[d].plan /\ job'[d].markerGone = job[d].markerGone
      /\ job'[d].todo = job[d].todo \ {n} /\ job'[d].there = job[d].there
      /\ \/ files' = files \ {n} /\ job'[d].left = job[d].left
         \/ files' = files /\ job'[d].left = (job[d].left \/ n \in Mail)
  <2>1. job[d] \in Jobs
    BY DEF Types
  <2>2. CASE /\ files' = files \ {n}
             /\ job'[d] = [job[d] EXCEPT !.todo = job[d].todo \ {n}]
    BY <2>1, <2>2 DEF Jobs
  <2>3. CASE /\ files' = files
             /\ job'[d] = [job[d] EXCEPT !.todo = job[d].todo \ {n},
                                         !.left = job[d].left \/ n \in Mail]
    BY <2>1, <2>3 DEF Jobs
  <2> QED
    BY <1>1, <2>2, <2>3
<1>3. /\ job[d].plan.rerun # "gone" /\ ~job[d].markerGone
      /\ files \cap {"late", "anchor"} \subseteq job[d].plan.names
      /\ job[d].plan.rerun = "none" => files \cap Mail \subseteq job[d].plan.names
      /\ job[d].todo \subseteq job[d].plan.names
      /\ job[d].plan.rerun = "none" /\ ~job[d].left => files \cap Mail \subseteq job[d].todo
      /\ job[d].there <=> marker # NoMarker
  BY <1>1 DEF PlanInv, Locked
<1>4. job[d].plan.rerun = "none" /\ ~job'[d].left => files' \cap Mail \subseteq job'[d].todo
  BY <1>2, <1>3
<1>5. /\ files' \cap {"late", "anchor"} \subseteq job[d].plan.names
      /\ job[d].plan.rerun = "none" => files' \cap Mail \subseteq job[d].plan.names
  BY <1>2, <1>3
<1> QED
  BY <1>1, <1>2, <1>3, <1>4, <1>5 DEF PlanInv, Locked

LEMMA PlanBeginsLast ==
  ASSUME Types, NEW d \in Computers, PlanInv(d), BeginLast(d)
  PROVE  PlanInv(d)'
<1>1. /\ dpc[d] = "remove" /\ job[d].todo = {} /\ job' = job /\ UNCHANGED <<files, marker>>
      /\ dpc'[d] = IF job[d].left THEN "release" ELSE "late"
  BY BeginLastIs DEF place
<1> QED
  BY <1>1 DEF PlanInv, Locked

LEMMA PlanRemovesLast ==
  ASSUME Types, Inv, NEW d \in Computers, PlanInv(d), RemoveLast(d)
  PROVE  PlanInv(d)'
<1>1. /\ marker' = marker
      /\ \/ /\ dpc[d] = "late" /\ dpc'[d] = "anchor" /\ job' = job
            /\ files' = files \ ({"late"} \cap job[d].plan.names)
         \/ /\ dpc[d] = "anchor" /\ dpc'[d] = "unmark" /\ job' = job
            /\ files' = files \ ({"anchor"} \cap job[d].plan.names)
         \/ /\ dpc[d] \in {"late", "anchor"} /\ dpc'[d] = "release" /\ files' = files
            /\ job'[d] = [job[d] EXCEPT !.left = TRUE]
  BY RemoveLastIs
<1>2. /\ job[d].plan.rerun # "gone" /\ ~job[d].markerGone /\ ~job[d].left
      /\ files \cap {"late", "anchor"} \subseteq job[d].plan.names
      /\ job[d].plan.rerun = "none" => files \cap Mail \subseteq job[d].plan.names
      /\ job[d].todo \subseteq job[d].plan.names
      /\ job[d].plan.rerun = "none" => files \cap Mail = {}
      /\ job[d].there <=> marker # NoMarker
      /\ dpc[d] = "anchor" => "late" \notin files
  BY <1>1 DEF PlanInv, Locked
<1>3. CASE /\ dpc[d] = "late" /\ dpc'[d] = "anchor" /\ job' = job
           /\ files' = files \ ({"late"} \cap job[d].plan.names)
  BY <1>1, <1>2, <1>3 DEF PlanInv, Locked
<1>4. CASE /\ dpc[d] = "anchor" /\ dpc'[d] = "unmark" /\ job' = job
           /\ files' = files \ ({"anchor"} \cap job[d].plan.names)
  BY <1>1, <1>2, <1>4 DEF PlanInv, Locked
<1>5. CASE /\ dpc'[d] = "release" /\ files' = files
           /\ job'[d] = [job[d] EXCEPT !.left = TRUE]
  <2>1. job'[d].plan = job[d].plan /\ job'[d].left /\ job'[d].todo = job[d].todo
    BY <1>5 DEF Types, Jobs
  <2> QED
    BY <1>2, <1>5, <2>1 DEF PlanInv, Locked
<1> QED
  BY <1>1, <1>3, <1>4, <1>5

LEMMA PlanUnmarks ==
  ASSUME Types, Inv, NEW d \in Computers, PlanInv(d), PlaceInv, RemoveMarker(d)
  PROVE  PlanInv(d)'
<1>1. /\ dpc[d] = "unmark" /\ dpc'[d] = "release" /\ files' = files
      /\ \/ job'[d] = [job[d] EXCEPT !.markerGone = job[d].there]
         \/ job'[d] = [job[d] EXCEPT !.left = TRUE]
  BY RemoveMarkerIs
<1>2. /\ job'[d].plan = job[d].plan /\ job'[d].todo = job[d].todo
      /\ \/ job'[d].left = job[d].left /\ job'[d].markerGone = job[d].there
         \/ job'[d].left
  BY <1>1 DEF Types, Jobs
<1>3. /\ job[d].plan.rerun # "gone"
      /\ files \cap {"late", "anchor"} = {}
      /\ job[d].plan.rerun = "none" => files \cap Mail = {}
      /\ job[d].todo \subseteq job[d].plan.names
      /\ job[d].there <=> marker # NoMarker
  BY <1>1 DEF PlanInv, Locked
<1>4. job[d].there => files \cap Mail = {}
  BY <1>3 DEF PlaceInv
<1> QED
  BY <1>1, <1>2, <1>3, <1>4 DEF PlanInv, Locked

LEMMA PlanAfter ==
  ASSUME Types, Inv, NEW d \in Computers, PlanInv(d),
         \/ LookGone(d) \/ Release(d) \/ TidyFolder(d) \/ LogFolder(d) \/ StopNoAnchor(d)
         \/ ForgetKey(d) \/ SkipKey(d) \/ LogForgotten(d) \/ Finish(d) \/ StopDelete(d)
  PROVE  PlanInv(d)'
<1>1. CASE LookGone(d)
  BY <1>1, LookGoneIs, PlanEnds DEF PlanInv, Locked
<1>2. CASE Release(d)
  BY <1>2, ReleaseIs, PlanEnds DEF PlanInv, Locked
<1>3. CASE TidyFolder(d)
  BY <1>3, TidyFolderIs DEF PlanInv, Locked
<1>4. CASE LogFolder(d)
  BY <1>4, LogFolderIs DEF PlanInv, Locked
<1>5. CASE StopNoAnchor(d) \/ Finish(d) \/ StopDelete(d)
  BY <1>5, LastIs, StopDeleteIs, PlanEnds
<1>6. CASE ForgetKey(d) \/ SkipKey(d)
  BY <1>6, KeyIs DEF PlanInv, Locked
<1>7. CASE LogForgotten(d)
  BY <1>7, LogForgottenIs DEF PlanInv, Locked
<1> QED
  BY <1>1, <1>2, <1>3, <1>4, <1>5, <1>6, <1>7

LEMMA PlanStep ==
  ASSUME Types, Inv, PlaceInv, NEW d \in Computers, PlanInv(d), [Next]_vars
  PROVE  PlanInv(d)'
<1>1. CASE ~Own(d)
  <2>1. UNCHANGED <<dpc[d], job[d]>>
    BY <1>1, BesideMove
  <2>2. CASE dpc[d] \in Locked
    <3>1. marker' = marker /\ \A n \in Recorded : n \in files' <=> n \in files
      BY <1>1, <2>2, LockedStill
    <3>2. /\ files' \cap Mail = files \cap Mail
          /\ files' \cap {"late", "anchor"} = files \cap {"late", "anchor"}
          /\ "late" \in files' <=> "late" \in files
          /\ "anchor" \in files' <=> "anchor" \in files
      BY <3>1, NamesApart
    <3> QED
      BY <2>1, <3>1, <3>2 DEF PlanInv
  <2>3. CASE dpc[d] \notin Locked
    BY <2>1, <2>3 DEF PlanInv, Locked
  <2> QED
    BY <2>2, <2>3
<1>2. CASE DeleteStep(d)
  <2>1. ASSUME NEW n \in Names, RemoveName(d, n) PROVE PlanInv(d)'
    BY <2>1, PlanRemoves
  <2> QED
    BY <1>2, <2>1, PlanStarted, PlanLocks, PlanMarks, PlanLogsMarked, PlanBeginsLast,
       PlanRemovesLast, PlanUnmarks, PlanAfter DEF DeleteStep
<1>3. CASE ShowPlan(d) \/ StopDelete(d)
  BY <1>3, PlanShow, PlanAfter
<1> QED
  BY <1>1, <1>2, <1>3 DEF Own

(***************************************************************************)
(* A backup that writes, and the folder kept for files not the archive's.  *)
(***************************************************************************)
WritingInv(c) == bpc[c] = "writing" =>
  /\ kind = "encrypted" => "anchor" \in files
  /\ attended[c] \/ (~kept /\ (files \cap {"late", "anchor"} # {} \/ ~saw[c]))

KeptInv == kept =>
  /\ files \cap {"late", "anchor"} = {} /\ files \cap Others # {}
  /\ \A c \in Computers : dpc[c] \in Locked => job[c].plan.names \cap Others = {}

(* A backup begins to write only where its guards let it. *)
LEMMA WritingFrom ==
  ASSUME Types, [Next]_vars, NEW d \in Computers, bpc'[d] = "writing"
  PROVE  \/ bpc[d] = "writing" /\ UNCHANGED <<attended[d], saw[d]>>
         \/ /\ lock = Free /\ GuardPasses(d) /\ KeyOpens(d)
            /\ UNCHANGED <<kind, files, kept, attended, saw>>
<1> DEFINE Goal == \/ bpc[d] = "writing" /\ UNCHANGED <<attended[d], saw[d]>>
                   \/ /\ lock = Free /\ GuardPasses(d) /\ KeyOpens(d)
                      /\ UNCHANGED <<kind, files, kept, attended, saw>>
<1> SUFFICES Goal
  OBVIOUS
<1>0. CASE UNCHANGED backupV
  BY <1>0 DEF backupV
<1>1. ASSUME NEW c \in Computers, NEW a \in BOOLEAN, BackupChecks(c, a) PROVE Goal
  <2>1. /\ bpc' = [bpc EXCEPT ![c] = "checked"] /\ attended' = [attended EXCEPT ![c] = a]
        /\ \E s : saw' = [saw EXCEPT ![c] = s]
    BY <1>1 DEF BackupChecks
  <2> QED
    BY <2>1 DEF Types
<1>2. ASSUME NEW c \in Computers, BackupEnds(c) PROVE Goal
  <2>1. /\ bpc' = [bpc EXCEPT ![c] = "idle"] /\ attended' = [attended EXCEPT ![c] = FALSE]
        /\ saw' = [saw EXCEPT ![c] = FALSE]
    BY <1>2 DEF BackupEnds
  <2> QED
    BY <2>1 DEF Types
<1>3. ASSUME NEW c \in Computers, BackupLocks(c) PROVE Goal
  <2>1. CASE There' /\ lock = Free /\ ~RefusesDelete(c)' /\ GuardPasses(c) /\ KeyOpens(c)
    <3>1. bpc' = [bpc EXCEPT ![c] = "writing"] /\ UNCHANGED <<kind, files, kept, attended, saw>>
      BY <1>3, <2>1 DEF BackupLocks, historyV
    <3> QED
      BY <2>1, <3>1 DEF Types
  <2>2. CASE ~(There' /\ lock = Free /\ ~RefusesDelete(c)' /\ GuardPasses(c) /\ KeyOpens(c))
    BY <1>2, <1>3, <2>2 DEF BackupLocks
  <2> QED
    BY <2>1, <2>2
<1>4. ASSUME NEW c \in Computers, BackupSaves(c) \/ KillBackup(c) PROVE Goal
  BY <1>2, <1>4 DEF BackupSaves, KillBackup
<1>5. CASE PutMine \/ TakeOut \/ LoseAnchor \/ Unplug \/ PlugIn \/ UNCHANGED vars
  BY <1>0, <1>5 DEF PutMine, TakeOut, LoseAnchor, Unplug, PlugIn, vars
<1>6. ASSUME NEW c \in Computers, ShowPlan(c) PROVE Goal
  BY <1>0, <1>6, ShowPlanIs
<1>7. ASSUME NEW c \in Computers, StopDelete(c) PROVE Goal
  BY <1>0, <1>7, StopDeleteIs
<1>8. ASSUME NEW c \in Computers, DeleteStep(c) PROVE Goal
  <2>1. UNCHANGED backupV
    BY <1>8 DEF DeleteStep, LogStarted, LockAndRecheck, LookGone, MarkFolder, LogMarked,
       RemoveName, BeginLast, RemoveLast, RemoveMarker, Release, TidyFolder, LogFolder,
       StopNoAnchor, ForgetKey, SkipKey, LogForgotten, Finish
  <2> QED
    BY <1>0, <2>1
<1> QED
  BY <1>1, <1>3, <1>4, <1>5, <1>6, <1>7, <1>8 DEF Next, BackupStep

LEMMA WritingKept ==
  ASSUME Types, Inv, PlaceInv, NEW d \in Computers, WritingInv(d), KeptInv, [Next]_vars
  PROVE  WritingInv(d)'
<1> SUFFICES ASSUME bpc'[d] = "writing" PROVE WritingInv(d)'
  BY DEF WritingInv
<1>1. CASE bpc[d] = "writing" /\ UNCHANGED <<attended[d], saw[d]>>
  <2>1. lock = <<"backup", d>>
    BY <1>1 DEF Inv, BackupInv
  <2>2. ASSUME NEW c \in Computers, DeleteMove(c)
        PROVE  UNCHANGED <<kind, files, kept>>
    <3>1. dpc[c] \notin Locked
      BY <2>1 DEF Inv, DeleteInv
    <3> QED
      BY <2>2, <3>1 DEF DeleteMove, Takes, Marks, Unmarks, Locked, Release
  <2>3. CASE OtherMove
    <3>1. \A c \in Computers : ~Saves(c)
      BY <2>1 DEF Inv, BackupInv, Saves
    <3>2. ~LoseAnchor
      BY <2>1 DEF LoseAnchor, Free
    <3>3. kind' = kind /\ files' \ Others = files \ Others /\ (kept' => kept)
      BY <2>3, <3>1, <3>2 DEF OtherMove
    <3>4. \A n \in {"late", "anchor"} : n \in files' <=> n \in files
      BY <3>3 DEF Others
    <3> QED
      BY <1>1, <3>3, <3>4 DEF WritingInv
  <2> QED
    BY <1>1, <2>2, <2>3, AnyMove DEF WritingInv
<1>2. CASE /\ lock = Free /\ GuardPasses(d) /\ KeyOpens(d)
           /\ UNCHANGED <<kind, files, kept, attended, saw>>
  <2>1. kind = "encrypted" => "anchor" \in files
    BY <1>2 DEF KeyOpens
  <2>2. \/ attended[d]
        \/ files \cap {"late", "anchor"} # {}
        \/ files = {} /\ ~saw[d]
    BY <1>2, <2>1 DEF GuardPasses, ArchiveHere, PlaceInv
  <2> QED
    BY <1>2, <2>1, <2>2 DEF WritingInv, KeptInv
<1> QED
  BY <1>1, <1>2, WritingFrom

(* A delete's plan is the one shown until its run ends. *)
LEMMA PlanStays ==
  ASSUME Types, NEW d \in Computers, DeleteStep(d)
  PROVE  Ended(d) \/ (job'[d].plan = job[d].plan /\ (LogStarted(d) \/ job'[d].run = job[d].run))
<1>0. job[d] \in Jobs
  BY DEF Types
<1>1. CASE LogStarted(d)
  <2>1. job'[d] = [job[d] EXCEPT !.run = runs']
    BY <1>1, LogStartedIs
  <2> QED
    BY <1>0, <1>1, <2>1 DEF Jobs
<1>2. CASE LockAndRecheck(d) \/ LookGone(d)
  BY <1>2, LockAndRecheckIs, LookGoneIs
<1>3. CASE MarkFolder(d)
  <2>1. PICK ticked \in SUBSET {"copy"} :
          job'[d] = [job[d] EXCEPT !.todo = job[d].plan.names \cap (Mail \cup ticked),
                                   !.there = marker' # NoMarker]
    BY <1>3, MarkFolderIs
  <2> QED
    BY <1>0, <2>1 DEF Jobs
<1>4. ASSUME NEW n \in Names, RemoveName(d, n)
      PROVE  job'[d].plan = job[d].plan /\ job'[d].run = job[d].run
  <2>1. \/ job'[d] = [job[d] EXCEPT !.todo = job[d].todo \ {n}]
        \/ job'[d] = [job[d] EXCEPT !.todo = job[d].todo \ {n},
                                    !.left = job[d].left \/ n \in Mail]
    BY <1>4, RemoveNameIs
  <2> QED
    BY <1>0, <2>1 DEF Jobs
<1>5. CASE LogMarked(d) \/ BeginLast(d) \/ RemoveLast(d)
  <2>1. job' = job \/ job'[d] = [job[d] EXCEPT !.left = TRUE]
    BY <1>5, LogMarkedIs, BeginLastIs, RemoveLastIs
  <2> QED
    BY <1>0, <2>1 DEF Jobs
<1>6. CASE RemoveMarker(d)
  <2>1. \/ job'[d] = [job[d] EXCEPT !.markerGone = job[d].there]
        \/ job'[d] = [job[d] EXCEPT !.left = TRUE]
    BY <1>6, RemoveMarkerIs
  <2> QED
    BY <1>0, <2>1 DEF Jobs
<1>7. CASE Release(d) \/ LogFolder(d) \/ StopNoAnchor(d) \/ Finish(d)
  BY <1>7, ReleaseIs, LogFolderIs, LastIs
<1>8. CASE TidyFolder(d)
  <2>1. job'[d] = [job[d] EXCEPT !.folderGone = ~There']
    BY <1>8, TidyFolderIs
  <2> QED
    BY <1>0, <2>1 DEF Jobs
<1>9. CASE ForgetKey(d) \/ SkipKey(d) \/ LogForgotten(d)
  BY <1>9, KeyIs, LogForgottenIs
<1> QED
  BY <1>1, <1>2, <1>3, <1>4, <1>5, <1>6, <1>7, <1>8, <1>9 DEF DeleteStep

LEMMA LockedFrom ==
  ASSUME Types, Inv, [Next]_vars, NEW d \in Computers, dpc'[d] \in Locked
  PROVE  \/ dpc[d] \in Locked /\ job'[d].plan = job[d].plan
         \/ /\ dpc[d] = "lock" /\ lock = Free /\ UNCHANGED <<job, files>>
            /\ \E q \in Plans(d) : SamePlan(job[d].plan, q)
<1>1. CASE ~Own(d)
  BY <1>1, BesideMove
<1>2. CASE ShowPlan(d) \/ StopDelete(d)
  BY <1>2, ShowPlanIs, StopDeleteIs DEF Ended, Locked
<1>3. CASE LockAndRecheck(d)
  BY <1>3, LockAndRecheckIs DEF Ended, Locked, place
<1>4. CASE DeleteStep(d) /\ ~LockAndRecheck(d)
  <2>1. ~Ended(d)
    BY DEF Ended, Locked
  <2>2. job'[d].plan = job[d].plan
    BY <1>4, <2>1, PlanStays
  <2>3. \A n \in Names : RemoveName(d, n) => dpc[d] \in Locked
    BY DEF RemoveName, Locked
  <2>4. dpc[d] \in Locked
    <3>1. ~LogStarted(d) /\ ~LookGone(d)
      BY <2>1, LogStartedIs, LookGoneIs DEF Locked
    <3>2. MarkFolder(d) \/ LogMarked(d) \/ BeginLast(d) \/ RemoveLast(d) => dpc[d] \in Locked
      BY MarkFolderIs, LogMarkedIs, BeginLastIs, RemoveLastIs DEF Locked
    <3>3. RemoveMarker(d) \/ Release(d) => dpc[d] \in Locked
      BY RemoveMarkerIs, ReleaseIs DEF Locked
    <3>4. /\ ~TidyFolder(d) /\ ~LogFolder(d) /\ ~ForgetKey(d) /\ ~SkipKey(d)
          /\ ~LogForgotten(d) /\ ~StopNoAnchor(d) /\ ~Finish(d)
      BY <2>1, TidyFolderIs, LogFolderIs, KeyIs, LogForgottenIs, LastIs DEF Locked
    <3> QED
      BY <1>4, <2>3, <3>1, <3>2, <3>3, <3>4 DEF DeleteStep
  <2> QED
    BY <2>2, <2>4
<1> QED
  BY <1>1, <1>2, <1>3, <1>4 DEF Own

LEMMA KeptStep ==
  ASSUME Types, Inv, PlaceInv, \A c \in Computers : PlanInv(c) /\ WritingInv(c), KeptInv,
         [Next]_vars
  PROVE  KeptInv'
<1> SUFFICES ASSUME kept' PROVE KeptInv'
  BY DEF KeptInv
<1>1. ASSUME NEW c \in Computers, Release(c), ~kept PROVE KeptInv'
  <2>1. /\ dpc[c] = "release" /\ ~job[c].left /\ dpc'[c] = "tidy" /\ files' = files
        /\ files \cap Others # {}
    BY <1>1, ReleaseIs DEF place
  <2>2. files \cap {"late", "anchor"} = {}
    BY <2>1 DEF PlanInv
  <2>3. lock = <<"delete", c>>
    BY <2>1 DEF Inv, DeleteInv, Locked
  <2>4. ASSUME NEW d \in Computers PROVE dpc'[d] \notin Locked
    <3>1. CASE d = c
      BY <3>1, <2>1 DEF Locked
    <3>2. CASE d # c
      <4>1. dpc[d] \notin Locked /\ lock # Free
        BY <2>3, <3>2 DEF Inv, DeleteInv, Free
      <4> QED
        BY <4>1, LockedFrom
    <3> QED
      BY <3>1, <3>2
  <2> QED
    BY <2>1, <2>2, <2>4 DEF KeptInv
<1>2. CASE kept
  <2>0. files \cap {"late", "anchor"} = {} /\ files \cap Others # {}
    BY <1>2 DEF KeptInv
  <2>1. ASSUME NEW c \in Computers, DeleteMove(c)
        PROVE  files' \cap {"late", "anchor"} = {} /\ files' \cap Others # {}
    <3>1. files' \subseteq files
      BY <2>1 DEF DeleteMove, Takes, Marks, Unmarks
    <3>2. CASE Takes(c)
      <4>1. job[c].todo \subseteq job[c].plan.names /\ job[c].plan.names \cap Others = {}
        BY <1>2, <3>2 DEF Takes, PlanInv, KeptInv, Locked
      <4>2. (files \ files') \cap Others = {}
        BY <3>2, <4>1 DEF Takes, Others
      <4> QED
        BY <2>0, <3>1, <4>2
    <3>3. CASE ~Takes(c)
      BY <2>0, <2>1, <3>3 DEF DeleteMove, Marks, Unmarks
    <3> QED
      BY <3>2, <3>3
  <2>2. ASSUME OtherMove
        PROVE  files' \cap {"late", "anchor"} = {} /\ files' \cap Others # {}
    <3>1. \A c \in Computers : ~Saves(c)
      BY <1>2 DEF Saves, WritingInv
    <3>2. files \cap Others \subseteq files'
      BY <2>2 DEF OtherMove
    <3>3. files' \ Others = files \ Others \/ files' \subseteq files
      BY <2>2, <3>1 DEF OtherMove, LoseAnchor
    <3>4. files' \cap {"late", "anchor"} = {}
      BY <2>0, <3>3 DEF Others
    <3>5. files' \cap Others # {}
      BY <2>0, <3>2, Zenon
    <3> QED
      BY <3>4, <3>5
  <2>3. files' \cap {"late", "anchor"} = {} /\ files' \cap Others # {}
    BY <2>1, <2>2, AnyMove, Zenon
  <2>4. ASSUME NEW d \in Computers, dpc'[d] \in Locked PROVE job'[d].plan.names \cap Others = {}
    <3>1. CASE dpc[d] \in Locked /\ job'[d].plan = job[d].plan
      BY <1>2, <3>1 DEF KeptInv
    <3>2. ASSUME dpc[d] = "lock", job' = job, NEW q \in Plans(d), SamePlan(job[d].plan, q)
          PROVE  job'[d].plan.names \cap Others = {}
      <4>1. job[d].plan.rerun = q.rerun /\ job[d].plan.names = q.names
        BY <3>2 DEF SamePlan
      <4>2. q.rerun # "gone"
        BY <3>2, <4>1 DEF Inv, DeleteInv
      <4>3. q.rerun # "none"
        <5>1. ASSUME q.rerun = "none" PROVE FALSE
          <6>1. ~Mixed /\ ("anchor" \in files \/ keys[d] # 0)
            BY <5>1, PlanIs
          <6>2. kind = "encrypted"
            BY <6>1, <2>0 DEF PlaceInv
          <6> QED
            BY <6>1, <6>2, <2>0 DEF Mixed
        <5> QED
          BY <5>1
      <4>4. q.rerun = "noAnchor"
        BY <4>2, <4>3, PlanIs DEF PlanRecords
      <4>5. q.names = files \cap {"late"}
        BY <4>4, PlanIs
      <4> QED
        BY <3>2, <4>1, <4>5 DEF Others
    <3> QED
      BY <2>4, <3>1, <3>2, LockedFrom
  <2> QED
    BY <2>3, <2>4 DEF KeptInv
<1>3. CASE ~kept
  <2>1. \E c \in Computers : Release(c)
    BY <1>3, AnyMove DEF DeleteMove, OtherMove
  <2> QED
    BY <1>1, <1>3, <2>1
<1> QED
  BY <1>2, <1>3

(***************************************************************************)
(* The lines of the log.                                                   *)
(***************************************************************************)
SameLine(e, f) == e.run = f.run /\ e.first = f.first /\ e.ident = f.ident /\ e.arch = f.arch

LineFrom(d, i) ==
  \/ /\ i \in DOMAIN log[d] /\ SameLine(log'[d][i], log[d][i])
     /\ log'[d][i].marked => log[d][i].marked \/ LogMarked(d)
     /\ log'[d][i].removed =>
          \/ log[d][i].removed
          \/ /\ log[d][i].run = job[d].run
             /\ \/ LogFolder(d) /\ job[d].folderGone
                \/ LogForgotten(d) /\ ~There'
  \/ LogStarted(d) /\ log'[d][i] = StartedLine(d, job[d].plan, runs')

LEMMA LinesFrom ==
  ASSUME Types, NEW d \in Computers, Own(d), NEW i \in DOMAIN log'[d]
  PROVE  LineFrom(d, i)
<1>0. \A j \in DOMAIN log[d] : log[d][j] \in Lines
  BY DEF Types
<1>1. ASSUME log' = log \/ Ended(d) PROVE LineFrom(d, i)
  BY <1>1 DEF LineFrom, SameLine, Ended
<1>2. CASE LogStarted(d)
  BY <1>2, LogStartedLines DEF LineFrom, SameLine
<1>3. CASE LogMarked(d)
  <2>1. /\ i \in DOMAIN log[d]
        /\ \/ log'[d][i] = log[d][i]
           \/ log'[d][i] = [log[d][i] EXCEPT !.marked = TRUE]
    BY <1>3, LogMarkedLines
  <2>2. SameLine(log'[d][i], log[d][i]) /\ log'[d][i].removed = log[d][i].removed
    BY <1>0, <2>1 DEF Lines, SameLine
  <2> QED
    BY <1>3, <2>1, <2>2 DEF LineFrom
<1>4. CASE LogFolder(d)
  <2>1. /\ i \in DOMAIN log[d]
        /\ \/ log'[d][i] = log[d][i]
           \/ /\ log[d][i].run = job[d].run
              /\ log'[d][i] = [log[d][i] EXCEPT !.removed = job[d].folderGone]
    BY <1>4, LogFolderLines
  <2>2. /\ SameLine(log'[d][i], log[d][i]) /\ log'[d][i].marked = log[d][i].marked
        /\ \/ log'[d][i].removed = log[d][i].removed
           \/ log[d][i].run = job[d].run /\ log'[d][i].removed = job[d].folderGone
    BY <1>0, <2>1 DEF Lines, SameLine
  <2> QED
    BY <1>4, <2>1, <2>2 DEF LineFrom
<1>5. CASE LogForgotten(d)
  <2> DEFINE g == ~job[d].folderGone /\ ~There'
  <2>1. /\ i \in DOMAIN log[d]
        /\ \/ log'[d][i] = log[d][i]
           \/ /\ log[d][i].run = job[d].run
              /\ log'[d][i] = [log[d][i] EXCEPT !.forgotten = TRUE,
                                                !.removed = log[d][i].removed \/ g]
    BY <1>5, LogForgottenLines
  <2>2. g => ~There'
    OBVIOUS
  <2> HIDE DEF g
  <2>3. /\ SameLine(log'[d][i], log[d][i]) /\ log'[d][i].marked = log[d][i].marked
        /\ \/ log'[d][i].removed = log[d][i].removed
           \/ log[d][i].run = job[d].run /\ log'[d][i].removed = (log[d][i].removed \/ g)
    BY <1>0, <2>1 DEF Lines, SameLine
  <2> QED
    BY <1>5, <2>1, <2>2, <2>3 DEF LineFrom
<1>6. CASE DeleteStep(d) /\ ~LogStarted(d) /\ ~LogMarked(d) /\ ~LogFolder(d) /\ ~LogForgotten(d)
  <2>1. ASSUME NEW n \in Names, RemoveName(d, n) PROVE log' = log
    BY <2>1, RemoveNameIs
  <2>2. log' = log \/ Ended(d)
    BY <1>6, <2>1, LockAndRecheckIs, LookGoneIs, MarkFolderIs, BeginLastIs, RemoveLastIs,
       RemoveMarkerIs, ReleaseIs, TidyFolderIs, KeyIs, LastIs DEF DeleteStep
  <2> QED
    BY <1>1, <2>2
<1>7. CASE ShowPlan(d) \/ StopDelete(d)
  BY <1>1, <1>7, ShowPlanIs, StopDeleteIs
<1> QED
  BY <1>2, <1>3, <1>4, <1>5, <1>6, <1>7 DEF Own

(***************************************************************************)
(* An encrypted archive whose vault is there.                              *)
(***************************************************************************)
After == {"tidy", "logFolder", "partial", "key", "logForgotten", "finish", "look"}

VaultInv == kind = "encrypted" /\ "anchor" \in files =>
  \A c \in Computers :
    /\ dpc[c] \notin After /\ job[c].plan.rerun # "gone"
    /\ \A i \in DOMAIN log[c] : ~log[c][i].removed

LEMMA NoVaultBack ==
  ASSUME Types, Inv, \A c \in Computers : WritingInv(c), [Next]_vars,
         kind' = "encrypted", "anchor" \in files'
  PROVE  kind = "encrypted" /\ "anchor" \in files
<1>1. ASSUME NEW c \in Computers, DeleteMove(c) PROVE kind = "encrypted" /\ "anchor" \in files
  BY <1>1 DEF DeleteMove, Takes, Marks, Unmarks
<1>2. CASE OtherMove
  <2>1. kind = "encrypted"
    BY <1>2 DEF OtherMove
  <2>2. ASSUME NEW c \in Computers, Saves(c) PROVE "anchor" \in files
    BY <2>1, <2>2 DEF Saves, WritingInv
  <2>3. "anchor" \notin Others
    BY DEF Others
  <2> QED
    BY <1>2, <2>1, <2>2, <2>3 DEF OtherMove, LoseAnchor
<1> QED
  BY <1>1, <1>2, AnyMove

(* Where the next steps of a delete lie. *)
LEMMA AfterFrom ==
  ASSUME Types, NEW d \in Computers, DeleteStep(d)
  PROVE  /\ dpc'[d] \in After =>
              \/ dpc[d] \in After
              \/ LogStarted(d) /\ job[d].plan.rerun = "gone"
              \/ Release(d) /\ ~job[d].left
         /\ LogFolder(d) \/ LogForgotten(d) => dpc[d] \in After
         /\ dpc[d] # "idle" /\ (dpc[d] = "planned" <=> LogStarted(d))
<1>1. \A n \in Names : RemoveName(d, n) => dpc[d] = "remove" /\ dpc'[d] = "remove"
  BY RemoveNameIs
<1>2. dpc[d] # "idle" /\ (dpc[d] = "planned" <=> LogStarted(d))
  BY DEF DeleteStep, LogStarted, LockAndRecheck, LookGone, MarkFolder, LogMarked, RemoveName,
     BeginLast, RemoveLast, RemoveMarker, Release, TidyFolder, LogFolder, StopNoAnchor,
     ForgetKey, SkipKey, LogForgotten, Finish
<1>3. LogFolder(d) \/ LogForgotten(d) => dpc[d] \in After
  BY DEF LogFolder, LogForgotten, After
<1>4. ASSUME dpc'[d] \in After
      PROVE  \/ dpc[d] \in After
             \/ LogStarted(d) /\ job[d].plan.rerun = "gone"
             \/ Release(d) /\ ~job[d].left
  <2>1. ~Ended(d)
    BY <1>4 DEF Ended, After
  <2>2. ~LogStarted(d) \/ job[d].plan.rerun = "gone"
    BY <1>4, LogStartedIs DEF After
  <2>3. /\ ~LockAndRecheck(d) /\ ~MarkFolder(d) /\ ~LogMarked(d) /\ ~BeginLast(d)
        /\ ~RemoveLast(d) /\ ~RemoveMarker(d) /\ ~\E n \in Names : RemoveName(d, n)
    BY <1>1, <1>4, <2>1, LockAndRecheckIs, MarkFolderIs, LogMarkedIs, BeginLastIs,
       RemoveLastIs, RemoveMarkerIs DEF After
  <2>4. ~Release(d) \/ ~job[d].left
    BY <2>1, ReleaseIs
  <2> QED
    BY <2>2, <2>3, <2>4 DEF DeleteStep, LookGone, TidyFolder, LogFolder, StopNoAnchor,
       ForgetKey, SkipKey, LogForgotten, Finish, After
<1> QED
  BY <1>2, <1>3, <1>4

LEMMA VaultStep ==
  ASSUME Types, Inv, PlaceInv, VaultInv,
         \A c \in Computers : PlanInv(c) /\ WritingInv(c), [Next]_vars
  PROVE  VaultInv'
<1> SUFFICES ASSUME kind' = "encrypted", "anchor" \in files', NEW d \in Computers
             PROVE  /\ dpc'[d] \notin After /\ job'[d].plan.rerun # "gone"
                    /\ \A i \in DOMAIN log'[d] : ~log'[d][i].removed
  BY DEF VaultInv
<1>1. /\ dpc[d] \notin After /\ job[d].plan.rerun # "gone"
      /\ \A i \in DOMAIN log[d] : ~log[d][i].removed
  BY NoVaultBack DEF VaultInv
<1>2. CASE ~Own(d)
  BY <1>1, <1>2, BesideMove
<1>3. ASSUME Ended(d) PROVE dpc'[d] \notin After /\ job'[d].plan.rerun # "gone"
  BY <1>3 DEF Ended, After, NoJob, NoPlan
<1>4. CASE ShowPlan(d)
  <2>1. PICK p \in Plans(d) : job'[d] = [NoJob EXCEPT !.plan = p]
    BY <1>4, ShowPlanIs
  <2>2. /\ job'[d].plan = p /\ dpc'[d] \notin After /\ log' = log
    BY <1>4, <2>1, ShowPlanIs DEF NoJob, After
  <2>3. p.rerun # "gone"
    <3>1. ASSUME p.rerun = "gone" PROVE FALSE
      <4>1. Unfinished(d) # None /\ (Unfinished(d).removed \/ folder = 0)
        BY <3>1, PlanIs
      <4>2. ~Unfinished(d).removed
        BY <1>1, <4>1, UnfinishedIs
      <4>3. "anchor" \in files
        BY NoVaultBack
      <4> QED
        BY <4>1, <4>2, <4>3 DEF PlaceInv
    <3> QED
      BY <3>1
  <2> QED
    BY <1>1, <2>2, <2>3
<1>5. CASE StopDelete(d)
  BY <1>1, <1>3, <1>5, StopDeleteIs
<1>6. CASE DeleteStep(d)
  <2>1. dpc'[d] \notin After
    <3>1. ASSUME Release(d), ~job[d].left PROVE FALSE
      <4>1. "anchor" \notin files
        BY <3>1 DEF Release, PlanInv
      <4> QED
        BY <4>1, NoVaultBack
    <3> QED
      BY <1>1, <1>6, <3>1, AfterFrom
  <2>2. job'[d].plan.rerun # "gone"
    BY <1>1, <1>3, <1>6, PlanStays
  <2>3. ASSUME NEW i \in DOMAIN log'[d] PROVE ~log'[d][i].removed
    <3>1. LineFrom(d, i)
      BY <1>6, LinesFrom DEF Own
    <3>2. ~LogFolder(d) /\ ~LogForgotten(d)
      BY <1>1, <1>6, AfterFrom
    <3>3. ~StartedLine(d, job[d].plan, runs').removed
      BY <1>1 DEF StartedLine
    <3> QED
      BY <1>1, <3>1, <3>2, <3>3 DEF LineFrom
  <2> QED
    BY <2>1, <2>2, <2>3
<1> QED
  BY <1>2, <1>4, <1>5, <1>6 DEF Own

(***************************************************************************)
(* Numbers: of runs, folders and archives.                                 *)
(***************************************************************************)
CountInv == marker <= runs /\ folder <= folders /\ folders # 0

CountsOf(c) ==
  /\ job[c].run <= runs /\ job[c].plan.first <= runs /\ job[c].plan.arch <= arch
  /\ job[c].plan.ident <= folders
  /\ dpc[c] # "idle" \/ job[c].plan.rerun = "gone" => job[c].plan.ident # 0
  /\ dpc[c] \notin {"idle", "planned"} => job[c].run # 0
  /\ \A i \in DOMAIN log[c] : LET e == log[c][i] IN
       /\ e.run \in 1..runs /\ e.first \in 1..runs /\ e.arch <= arch /\ e.ident \in 1..folders
       /\ e.run = job[c].run => e.ident = job[c].plan.ident /\ e.arch = job[c].plan.arch

LEMMA Grows ==
  ASSUME Types, Inv, [Next]_vars
  PROVE  runs <= runs' /\ arch <= arch' /\ folders <= folders'
<1>1. ASSUME NEW c \in Computers, DeleteMove(c)
      PROVE  runs <= runs' /\ arch <= arch' /\ folders <= folders'
  BY <1>1 DEF DeleteMove, Types
<1>2. CASE OtherMove
  <2>1. arch <= arch'
    <3>1. ASSUME NEW c \in Computers, Saves(c) PROVE arch <= arch'
      BY <3>1 DEF Saves, Types
    <3> QED
      BY <1>2, <3>1 DEF OtherMove, Types
  <2> QED
    BY <1>2, <2>1 DEF OtherMove, Types
<1> QED
  BY <1>1, <1>2, AnyMove

LEMMA CountStep ==
  ASSUME Types, Inv, CountInv, \A c \in Computers : CountsOf(c), [Next]_vars
  PROVE  CountInv'
<1>1. ASSUME NEW c \in Computers, DeleteMove(c) PROVE CountInv'
  <2>1. First(c) <= runs
    BY DEF First, CountsOf
  <2>2. marker' <= runs'
    BY <1>1, <2>1, FirstIs DEF DeleteMove, Types, CountInv, NoMarker, Blank
  <2> QED
    BY <1>1, <2>2 DEF DeleteMove, Types, CountInv
<1>2. CASE OtherMove
  BY <1>2 DEF OtherMove, Types, CountInv
<1> QED
  BY <1>1, <1>2, AnyMove

LEMMA PlanNumbers ==
  ASSUME Types, CountInv, NEW d \in Computers, CountsOf(d), NEW q \in Plans(d)
  PROVE  q.first <= runs /\ q.arch <= arch /\ q.ident \in 1..folders
<1> DEFINE u == Unfinished(d)
<1>0. runs \in Nat /\ arch \in Nat /\ folders \in Nat
  BY DEF Types
<1>1. u # None => /\ u \in Lines /\ u.first \in 1..runs /\ u.arch <= arch /\ u.ident \in 1..folders
  <2>1. ASSUME NEW i \in DOMAIN log[d]
        PROVE  /\ log[d][i] \in Lines /\ log[d][i].first \in 1..runs /\ log[d][i].arch <= arch
               /\ log[d][i].ident \in 1..folders
    BY DEF CountsOf, Types
  <2> QED
    BY <2>1, UnfinishedIs
<1>2. Max({0, marker}) \in Nat /\ Max({0, marker}) <= runs
  BY <1>0, MarkerNumber DEF CountInv
<1>3. There => folder \in 1..folders
  BY DEF There, Types, CountInv
<1>4. CASE q.rerun = "none"
  <2>1. There /\ q = OrdinaryPlan(d) /\ q.ident = folder /\ q.arch = arch
    BY <1>4, PlanIs
  <2>2. q.first = IF u = None THEN Max({0, marker}) ELSE IF Disagrees(d, u) THEN 0 ELSE u.first
    BY <2>1 DEF OrdinaryPlan, NoPlan
  <2> QED
    BY <1>0, <1>1, <1>2, <1>3, <2>1, <2>2
<1>5. CASE q.rerun = "noAnchor"
  <2>1. /\ There /\ q.ident = folder
        /\ q = MarkerPlan \/ (u # None /\ q = UnfinishedPlan(d, u))
    BY <1>5, PlanIs
  <2>2. \/ q.first = Max({0, marker}) /\ q.arch = arch
        \/ u # None /\ q.first = u.first /\ q.arch = u.arch
    BY <2>1 DEF MarkerPlan, UnfinishedPlan, NoAnchorPlan, NoPlan
  <2> QED
    BY <1>0, <1>1, <1>2, <1>3, <2>1, <2>2
<1>6. CASE q.rerun = "gone"
  <2>1. u # None /\ q = GonePlan(u)
    BY <1>6, PlanIs
  <2>2. q.first = u.first /\ q.arch = u.arch /\ q.ident = u.ident
    BY <2>1 DEF GonePlan, NoPlan
  <2> QED
    BY <1>0, <1>1, <2>1, <2>2
<1> QED
  BY <1>4, <1>5, <1>6, PlanIs DEF PlanRecords

LEMMA CountsStep ==
  ASSUME Types, Inv, CountInv, NEW d \in Computers, CountsOf(d), [Next]_vars
  PROVE  CountsOf(d)'
<1>0. /\ runs <= runs' /\ arch <= arch' /\ folders <= folders'
      /\ {runs, arch, folders, runs', arch', folders'} \subseteq Nat
      /\ job[d].run \in Nat /\ job[d].plan \in PlanRecords
      /\ \A i \in DOMAIN log[d] : log[d][i] \in Lines
  <2>1. runs <= runs' /\ arch <= arch' /\ folders <= folders'
    BY Grows
  <2>2. {runs, arch, folders} \subseteq Nat
    BY DEF Types
  <2>3. Types'
    BY TypesStep
  <2>4. {runs', arch', folders'} \subseteq Nat
    BY <2>3 DEF Types
  <2>5. job[d] \in Jobs /\ \A i \in DOMAIN log[d] : log[d][i] \in Lines
    BY DEF Types
  <2>6. job[d].run \in Nat /\ job[d].plan \in PlanRecords
    BY <2>5 DEF Jobs
  <2> QED
    BY <2>1, <2>2, <2>4, <2>5, <2>6
<1>1. ASSUME NEW i \in DOMAIN log'[d], i \in DOMAIN log[d], SameLine(log'[d][i], log[d][i])
      PROVE  /\ log'[d][i].run \in 1..runs' /\ log'[d][i].first \in 1..runs'
             /\ log'[d][i].arch <= arch' /\ log'[d][i].ident \in 1..folders'
  <2>1. /\ log[d][i].run \in 1..runs /\ log[d][i].first \in 1..runs
        /\ log[d][i].arch <= arch /\ log[d][i].ident \in 1..folders
    BY <1>1 DEF CountsOf
  <2>2. log[d][i].arch \in Nat
    BY <1>0, <1>1 DEF Lines
  <2> QED
    BY <1>0, <1>1, <2>1, <2>2 DEF SameLine
<1>2. CASE ~Own(d)
  <2>1. UNCHANGED <<dpc[d], job[d], log[d]>>
    BY <1>2, BesideMove
  <2>2. /\ job[d].run <= runs' /\ job[d].plan.first <= runs' /\ job[d].plan.arch <= arch'
        /\ job[d].plan.ident <= folders'
    BY <1>0 DEF CountsOf, PlanRecords
  <2>3. \A i \in DOMAIN log'[d] : i \in DOMAIN log[d] /\ SameLine(log'[d][i], log[d][i])
    BY <2>1 DEF SameLine
  <2> QED
    BY <1>1, <2>1, <2>2, <2>3 DEF CountsOf
<1>3. ASSUME Ended(d) PROVE CountsOf(d)'
  <2>1. /\ job'[d].run = 0 /\ job'[d].plan.first = 0 /\ job'[d].plan.arch = 0
        /\ job'[d].plan.ident = 0 /\ job'[d].plan.rerun = "none" /\ dpc'[d] = "idle"
    BY <1>3 DEF Ended, NoJob, NoPlan
  <2>2. \A i \in DOMAIN log'[d] : i \in DOMAIN log[d] /\ SameLine(log'[d][i], log[d][i])
    BY <1>3 DEF Ended, SameLine
  <2>3. \A i \in DOMAIN log'[d] : log'[d][i].run # job'[d].run
    BY <1>0, <1>1, <2>1, <2>2
  <2> QED
    BY <1>0, <1>1, <2>1, <2>2, <2>3 DEF CountsOf
<1>4. CASE ShowPlan(d)
  <2>1. PICK p \in Plans(d) : job'[d] = [NoJob EXCEPT !.plan = p]
    BY <1>4, ShowPlanIs
  <2>2. p.first <= runs /\ p.arch <= arch /\ p.ident \in 1..folders /\ p \in PlanRecords
    BY PlanNumbers, PlanIs
  <2>3. job'[d].plan = p /\ job'[d].run = 0 /\ dpc'[d] = "planned" /\ log' = log
    BY <1>4, <2>1, ShowPlanIs DEF NoJob
  <2>4. p.first <= runs' /\ p.arch <= arch' /\ p.ident <= folders' /\ p.ident # 0
    BY <1>0, <2>2 DEF PlanRecords
  <2>5. \A i \in DOMAIN log'[d] : i \in DOMAIN log[d] /\ SameLine(log'[d][i], log[d][i])
    BY <2>3 DEF SameLine
  <2>6. \A i \in DOMAIN log'[d] : log'[d][i].run # job'[d].run
    BY <1>0, <1>1, <2>3, <2>5
  <2> QED
    BY <1>0, <1>1, <2>3, <2>4, <2>5, <2>6 DEF CountsOf
<1>5. CASE LogStarted(d)
  <2> DEFINE p == job[d].plan
             e == StartedLine(d, p, runs')
  <2>1. /\ runs' = runs + 1 /\ job'[d].run = runs' /\ job'[d].plan = p
        /\ UNCHANGED <<arch, folders>> /\ dpc[d] = "planned"
    <3>1. /\ runs' = runs + 1 /\ job'[d] = [job[d] EXCEPT !.run = runs']
          /\ UNCHANGED <<arch, folders>> /\ dpc[d] = "planned"
      BY <1>5, LogStartedIs DEF place
    <3>2. job[d] \in Jobs
      BY DEF Types
    <3> QED
      BY <3>1, <3>2 DEF Jobs
  <2>2. /\ p.first <= runs' /\ p.arch <= arch' /\ p.ident <= folders' /\ p.ident # 0
        /\ p.first \in Nat /\ p.ident \in Nat
    BY <1>0, <2>1 DEF CountsOf, PlanRecords
  <2>3. /\ e.run = runs' /\ e.first \in 1..runs' /\ e.arch = p.arch /\ e.ident = p.ident
    BY <1>0, <2>1, <2>2 DEF StartedLine
  <2>4. ASSUME NEW i \in DOMAIN log'[d]
        PROVE  \/ /\ i \in DOMAIN log[d] /\ SameLine(log'[d][i], log[d][i])
                  /\ log'[d][i].run # runs'
               \/ log'[d][i] = e
    <3>1. \/ i \in DOMAIN log[d] /\ SameLine(log'[d][i], log[d][i])
          \/ log'[d][i] = e
      BY <1>5, LogStartedLines DEF SameLine
    <3>2. i \in DOMAIN log[d] => log[d][i].run # runs'
      BY <1>0, <2>1 DEF CountsOf
    <3> QED
      BY <3>1, <3>2 DEF SameLine
  <2> HIDE DEF e, p
  <2>5. ASSUME NEW i \in DOMAIN log'[d]
        PROVE  /\ log'[d][i].run \in 1..runs' /\ log'[d][i].first \in 1..runs'
               /\ log'[d][i].arch <= arch' /\ log'[d][i].ident \in 1..folders'
               /\ log'[d][i].run = runs' => log'[d][i].ident = p.ident /\ log'[d][i].arch = p.arch
    <3>1. CASE log'[d][i] = e
      BY <1>0, <2>1, <2>2, <2>3, <3>1
    <3>2. CASE /\ i \in DOMAIN log[d] /\ SameLine(log'[d][i], log[d][i])
               /\ log'[d][i].run # runs'
      BY <1>1, <3>2
    <3> QED
      BY <2>4, <3>1, <3>2
  <2>6. job'[d].run # 0 /\ job'[d].run <= runs'
    BY <1>0, <2>1
  <2> QED
    BY <2>1, <2>2, <2>5, <2>6 DEF CountsOf
<1>6. CASE DeleteStep(d) /\ ~LogStarted(d) /\ ~Ended(d)
  <2>1. job'[d].plan = job[d].plan /\ job'[d].run = job[d].run
    BY <1>6, PlanStays
  <2>2. dpc[d] \notin {"idle", "planned"}
    BY <1>6, AfterFrom
  <2>3. \A i \in DOMAIN log'[d] : i \in DOMAIN log[d] /\ SameLine(log'[d][i], log[d][i])
    BY <1>6, LinesFrom DEF Own, LineFrom
  <2>4. /\ job[d].run <= runs' /\ job[d].plan.first <= runs' /\ job[d].plan.arch <= arch'
        /\ job[d].plan.ident <= folders' /\ job[d].plan.ident # 0 /\ job[d].run # 0
    BY <1>0, <2>2 DEF CountsOf, PlanRecords
  <2>5. \A i \in DOMAIN log'[d] : log'[d][i].run = job[d].run =>
          log'[d][i].ident = job[d].plan.ident /\ log'[d][i].arch = job[d].plan.arch
    BY <2>3 DEF CountsOf, SameLine
  <2> QED
    BY <1>1, <2>1, <2>3, <2>4, <2>5 DEF CountsOf
<1>7. CASE StopDelete(d)
  BY <1>3, <1>7, StopDeleteIs
<1> QED
  BY <1>2, <1>3, <1>4, <1>5, <1>6, <1>7 DEF Own

(***************************************************************************)
(* What stays as it is, whatever the step.                                 *)
(***************************************************************************)
(* Of this archive nothing recorded is left, if it is still the one. *)
DoneIf(a) == arch = a => files \cap Recorded = {}

Sound(a) == marker # NoMarker \/ DoneIf(a)

Settled(id, a) == folder # id \/ DoneIf(a)

(* The same of the next state, for what is known of this one. *)
DoneNext(a) == arch' = a => files' \cap Recorded = {}

SoundNext(a) == marker' # NoMarker \/ DoneNext(a)

SettledNext(id, a) == folder' # id \/ DoneNext(a)

LEMMA DoneStays ==
  ASSUME Types, Inv, [Next]_vars, NEW a \in Nat, a <= arch, DoneIf(a)
  PROVE  DoneNext(a)
<1>1. ASSUME NEW c \in Computers, DeleteMove(c) PROVE DoneNext(a)
  BY <1>1 DEF DeleteMove, Takes, Marks, Unmarks, DoneIf, DoneNext
<1>2. CASE OtherMove
  <2>1. CASE files' \ Others = files \ Others /\ arch' = arch
    <3>1. Recorded \cap Others = {}
      BY MailAssumption DEF Recorded, Others
    <3> QED
      BY <2>1, <3>1 DEF DoneIf, DoneNext
  <2>2. ASSUME NEW c \in Computers, Saves(c) PROVE DoneNext(a)
    <3>1. CASE files \cap {"anchor", "late"} # {}
      <4>1. arch # a
        BY <3>1 DEF DoneIf, Recorded
      <4> QED
        BY <2>2, <3>1, <4>1 DEF Saves, DoneNext
    <3>2. CASE files \cap {"anchor", "late"} = {}
      BY <2>2, <3>2 DEF Saves, DoneNext, Types
    <3> QED
      BY <3>1, <3>2
  <2>3. CASE LoseAnchor /\ arch' = arch
    BY <2>3 DEF LoseAnchor, DoneIf, DoneNext
  <2> QED
    BY <1>2, <2>1, <2>2, <2>3 DEF OtherMove
<1> QED
  BY <1>1, <1>2, AnyMove

LEMMA SoundStays ==
  ASSUME Types, Inv, PlaceInv, \A c \in Computers : PlanInv(c), [Next]_vars,
         NEW a \in Nat, a <= arch, Sound(a)
  PROVE  SoundNext(a)
<1>1. CASE DoneIf(a)
  BY <1>1, DoneStays DEF SoundNext
<1>2. CASE marker # NoMarker
  <2>1. ASSUME NEW c \in Computers, DeleteMove(c), marker' = NoMarker
        PROVE  files' \cap Recorded = {}
    <3>1. Unmarks(c)
      BY <1>2, <2>1 DEF DeleteMove, Takes, Marks
    <3>2. "late" \notin files /\ "anchor" \notin files
      BY <3>1 DEF Unmarks, PlanInv
    <3>3. files \cap Mail = {}
      BY <1>2, <3>2 DEF PlaceInv
    <3> QED
      BY <3>1, <3>2, <3>3 DEF Unmarks, Recorded
  <2>2. OtherMove => marker' = marker
    BY DEF OtherMove
  <2> QED
    BY <1>2, <2>1, <2>2, AnyMove DEF SoundNext, DoneNext
<1> QED
  BY <1>1, <1>2 DEF Sound

LEMMA SettledStays ==
  ASSUME Types, Inv, [Next]_vars, NEW a \in Nat, a <= arch, NEW id \in Nat, id # 0,
         id <= folders, Settled(id, a)
  PROVE  SettledNext(id, a)
<1>1. CASE DoneIf(a)
  BY <1>1, DoneStays DEF SettledNext
<1>2. CASE folder # id
  <2>1. ASSUME NEW c \in Computers, DeleteMove(c) PROVE folder' # id
    BY <1>2, <2>1 DEF DeleteMove
  <2>2. OtherMove => folder' # id
    BY <1>2 DEF OtherMove, Types
  <2> QED
    BY <2>1, <2>2, AnyMove DEF SettledNext
<1> QED
  BY <1>1, <1>2 DEF Settled

(***************************************************************************)
(* What a `marked` line says.                                              *)
(***************************************************************************)
MarkedNow(c) == dpc[c] = "logMarked" => marker # NoMarker

MarkedInv(c) ==
  \A i \in DOMAIN log[c] : log[c][i].marked =>
    /\ \A j \in DOMAIN log[c] : log[c][j].first = log[c][i].first => Sound(log[c][j].arch)
    /\ job[c].plan.first = log[c][i].first => Sound(job[c].plan.arch)

NoteInv(c) == job[c].plan.noteGone => DoneIf(job[c].plan.arch)

LEMMA MarkedNowStep ==
  ASSUME Types, Inv, NEW d \in Computers, MarkedNow(d), [Next]_vars
  PROVE  MarkedNow(d)'
<1> SUFFICES ASSUME dpc'[d] = "logMarked" PROVE marker' # NoMarker
  BY DEF MarkedNow
<1>1. CASE ~Own(d)
  <2>1. dpc[d] = "logMarked"
    BY <1>1, BesideMove
  <2> QED
    BY <1>1, <2>1, LockedStill DEF MarkedNow, Locked
<1>2. CASE MarkFolder(d)
  <2>1. First(d) # NoMarker
    BY <1>2, FirstIs DEF MarkFolder, Inv, DeleteInv, Locked, NoMarker
  <2> QED
    BY <1>2, <2>1, MarkFolderIs DEF NoMarker, Blank
<1>3. CASE DeleteStep(d) /\ ~MarkFolder(d)
  <2>1. ASSUME NEW n \in Names PROVE ~RemoveName(d, n)
    BY RemoveNameIs
  <2>2. ~Ended(d)
    BY DEF Ended
  <2>3. ~LogStarted(d) /\ ~LockAndRecheck(d) /\ ~LookGone(d) /\ ~LogMarked(d)
    BY <2>2, LogStartedIs, LockAndRecheckIs, LookGoneIs, LogMarkedIs
  <2>4. ~BeginLast(d) /\ ~RemoveLast(d) /\ ~RemoveMarker(d) /\ ~Release(d)
    BY <2>2, BeginLastIs, RemoveLastIs, RemoveMarkerIs, ReleaseIs
  <2>5. /\ ~TidyFolder(d) /\ ~LogFolder(d) /\ ~ForgetKey(d) /\ ~SkipKey(d)
        /\ ~LogForgotten(d) /\ ~StopNoAnchor(d) /\ ~Finish(d)
    BY <2>2, TidyFolderIs, LogFolderIs, KeyIs, LogForgottenIs, LastIs
  <2> QED
    BY <1>3, <2>1, <2>3, <2>4, <2>5 DEF DeleteStep
<1>4. CASE ShowPlan(d) \/ StopDelete(d)
  BY <1>4, ShowPlanIs, StopDeleteIs DEF Ended
<1> QED
  BY <1>1, <1>2, <1>3, <1>4 DEF Own

(* What the plan of a finished delete rests on. *)
LEMMA PlanSound ==
  ASSUME Types, NEW d \in Computers, CountsOf(d), MarkedInv(d), NEW q \in Plans(d)
  PROVE  /\ \A i \in DOMAIN log[d] :
              log[d][i].marked /\ q.first = log[d][i].first => Sound(q.arch)
         /\ q.noteGone => DoneIf(q.arch)
<1> DEFINE u == Unfinished(d)
<1>1. ASSUME NEW i \in DOMAIN log[d], log[d][i].marked, u # None, u.first = log[d][i].first
      PROVE  Sound(u.arch)
  <2>1. PICK k \in DOMAIN log[d] : u = log[d][k]
    BY <1>1, UnfinishedIs
  <2> QED
    BY <1>1, <2>1 DEF MarkedInv
<1>2. \A i \in DOMAIN log[d] : log[d][i].first # 0
  BY DEF CountsOf
<1>3. Max({0, marker}) # 0 => marker # NoMarker
  BY MarkerNumber DEF NoMarker
<1>4. CASE q.rerun = "none"
  <2>1. q = OrdinaryPlan(d) /\ ~q.noteGone
    BY <1>4, PlanIs
  <2>2. q.first = IF u = None THEN Max({0, marker}) ELSE IF Disagrees(d, u) THEN 0 ELSE u.first
    BY <2>1 DEF OrdinaryPlan, NoPlan
  <2>3. ASSUME NEW i \in DOMAIN log[d], log[d][i].marked, q.first = log[d][i].first
        PROVE  marker # NoMarker
    <3>1. CASE u = None
      BY <1>2, <1>3, <2>2, <2>3, <3>1
    <3>2. CASE u # None
      <4>1. ~Disagrees(d, u) /\ q.first = u.first
        BY <1>2, <2>2, <2>3, <3>2
      <4>2. Marked(d, u)
        BY <2>3, <4>1 DEF Marked
      <4> QED
        BY <4>1, <4>2 DEF Disagrees
    <3> QED
      BY <3>1, <3>2
  <2> QED
    BY <2>1, <2>3 DEF Sound
<1>5. CASE q.rerun = "noAnchor"
  <2>1. CASE q = MarkerPlan /\ marker # NoMarker
    <3>1. ~q.noteGone
      BY <2>1 DEF MarkerPlan, NoAnchorPlan, NoPlan
    <3> QED
      BY <2>1, <3>1 DEF Sound
  <2>2. CASE u # None /\ q = UnfinishedPlan(d, u)
    <3>1. /\ q.first = u.first /\ q.arch = u.arch
          /\ q.noteGone = (Marked(d, u) /\ marker = NoMarker)
      BY <2>2 DEF UnfinishedPlan, NoAnchorPlan, NoPlan
    <3>2. Marked(d, u) => Sound(u.arch)
      BY <1>1, <2>2 DEF Marked
    <3> QED
      BY <1>1, <2>2, <3>1, <3>2 DEF Sound
  <2> QED
    BY <1>5, <2>1, <2>2, PlanIs
<1>6. CASE q.rerun = "gone"
  <2>1. u # None /\ q = GonePlan(u)
    BY <1>6, PlanIs
  <2>2. q.first = u.first /\ q.arch = u.arch /\ ~q.noteGone
    BY <2>1 DEF GonePlan, NoPlan
  <2> QED
    BY <1>1, <2>1, <2>2
<1> QED
  BY <1>4, <1>5, <1>6, PlanIs DEF PlanRecords

LEMMA MarkedStep ==
  ASSUME Types, Inv, PlaceInv, \A c \in Computers : PlanInv(c), [Next]_vars,
         NEW d \in Computers, CountsOf(d), MarkedNow(d), MarkedInv(d)
  PROVE  MarkedInv(d)'
<1> DEFINE p == job[d].plan
<1>0. /\ p \in PlanRecords /\ \A i \in DOMAIN log[d] : log[d][i] \in Lines
      /\ \A i \in DOMAIN log[d] : log[d][i].first \in 1..runs /\ log[d][i].first # 0
  BY DEF Types, Jobs, CountsOf
<1>1. ASSUME NEW i \in DOMAIN log[d], log[d][i].marked
      PROVE  /\ \A j \in DOMAIN log[d] :
                  log[d][j].first = log[d][i].first => SoundNext(log[d][j].arch)
             /\ p.first = log[d][i].first => SoundNext(p.arch)
  <2>1. ASSUME NEW j \in DOMAIN log[d], log[d][j].first = log[d][i].first
        PROVE  SoundNext(log[d][j].arch)
    <3>1. Sound(log[d][j].arch) /\ log[d][j].arch \in Nat /\ log[d][j].arch <= arch
      BY <1>0, <1>1, <2>1 DEF MarkedInv, CountsOf, Lines
    <3> QED
      BY <3>1, SoundStays
  <2>2. ASSUME p.first = log[d][i].first PROVE SoundNext(p.arch)
    <3>1. Sound(p.arch) /\ p.arch \in Nat /\ p.arch <= arch
      BY <1>0, <1>1, <2>2 DEF MarkedInv, CountsOf, PlanRecords
    <3> QED
      BY <3>1, SoundStays
  <2> QED
    BY <2>1, <2>2
<1>2. SUFFICES ASSUME NEW i \in DOMAIN log'[d], log'[d][i].marked
               PROVE  /\ \A j \in DOMAIN log'[d] :
                           log'[d][j].first = log'[d][i].first => SoundNext(log'[d][j].arch)
                      /\ job'[d].plan.first = log'[d][i].first => SoundNext(job'[d].plan.arch)
  BY DEF MarkedInv, Sound, DoneIf, SoundNext, DoneNext
<1>3. ASSUME log'[d] = log[d], job'[d].plan = p
      PROVE  /\ \A j \in DOMAIN log'[d] :
                  log'[d][j].first = log'[d][i].first => SoundNext(log'[d][j].arch)
             /\ job'[d].plan.first = log'[d][i].first => SoundNext(job'[d].plan.arch)
  BY <1>1, <1>2, <1>3
<1>4. CASE ~Own(d)
  BY <1>3, <1>4, BesideMove
<1>5. CASE Ended(d)
  <2>1. /\ DOMAIN log'[d] \subseteq DOMAIN log[d] /\ job'[d].plan.first = 0
        /\ \A j \in DOMAIN log'[d] : log'[d][j] = log[d][j]
    BY <1>5 DEF Ended, NoJob, NoPlan
  <2> QED
    BY <1>0, <1>1, <1>2, <2>1
<1>6. CASE ShowPlan(d)
  <2>1. PICK q \in Plans(d) : job'[d] = [NoJob EXCEPT !.plan = q]
    BY <1>6, ShowPlanIs
  <2>2. job'[d].plan = q /\ log' = log /\ UNCHANGED <<files, marker, arch>>
    BY <1>6, <2>1, ShowPlanIs DEF NoJob, place
  <2>3. q.first = log[d][i].first => Sound(q.arch)
    BY <1>2, <2>2, PlanSound
  <2> QED
    BY <1>1, <1>2, <2>2, <2>3 DEF Sound, SoundNext, DoneIf, DoneNext
<1>7. CASE LogStarted(d)
  <2> DEFINE e == StartedLine(d, p, runs')
  <2>1. /\ runs' = runs + 1 /\ job'[d].plan = p /\ runs \in Nat
        /\ \A j \in DOMAIN log'[d] : \/ j \in DOMAIN log[d] /\ log'[d][j] = log[d][j]
                                     \/ log'[d][j] = e
    <3>1. /\ job[d] \in Jobs /\ runs \in Nat /\ runs' = runs + 1
          /\ job'[d] = [job[d] EXCEPT !.run = runs']
      BY <1>7, LogStartedLines DEF Types
    <3>2. job'[d].plan = p
      BY <3>1 DEF Jobs
    <3> QED
      BY <1>7, <3>1, <3>2, LogStartedLines
  <2>2. /\ ~e.marked /\ e.arch = p.arch /\ e.first = IF p.first = 0 THEN runs' ELSE p.first
    BY DEF StartedLine
  <2> HIDE DEF e
  <2>3. i \in DOMAIN log[d] /\ log'[d][i] = log[d][i]
    BY <1>2, <2>1, <2>2
  <2>4. log[d][i].first # runs' /\ log[d][i].first # 0
    BY <1>0, <2>1, <2>3
  <2>5. e.first = log[d][i].first => SoundNext(e.arch)
    BY <1>1, <1>2, <2>2, <2>3, <2>4
  <2> QED
    BY <1>1, <1>2, <2>1, <2>3, <2>5
<1>8. CASE LogMarked(d)
  <2>1. marker' # NoMarker
    BY <1>8, LogMarkedIs DEF MarkedNow, place
  <2> QED
    BY <2>1 DEF SoundNext
<1>9. CASE DeleteStep(d) /\ ~LogStarted(d) /\ ~LogMarked(d) /\ ~Ended(d)
  <2>1. job'[d].plan = p
    BY <1>9, PlanStays
  <2>2. /\ \A j \in DOMAIN log'[d] : j \in DOMAIN log[d] /\ SameLine(log'[d][j], log[d][j])
        /\ log[d][i].marked
    BY <1>2, <1>9, LinesFrom DEF Own, LineFrom
  <2> QED
    BY <1>1, <1>2, <2>1, <2>2 DEF SameLine
<1>10. CASE StopDelete(d)
  BY <1>5, <1>10, StopDeleteIs
<1> QED
  BY <1>4, <1>5, <1>6, <1>7, <1>8, <1>9, <1>10 DEF Own

LEMMA NoteStep ==
  ASSUME Types, Inv, [Next]_vars, NEW d \in Computers, CountsOf(d), MarkedInv(d), NoteInv(d)
  PROVE  NoteInv(d)'
<1> SUFFICES ASSUME job'[d].plan.noteGone PROVE DoneNext(job'[d].plan.arch)
  BY DEF NoteInv, DoneIf, DoneNext
<1>1. CASE job'[d].plan = job[d].plan
  <2>1. DoneIf(job[d].plan.arch)
    BY <1>1 DEF NoteInv
  <2>2. job[d].plan.arch \in Nat /\ job[d].plan.arch <= arch
    BY DEF CountsOf, Types, Jobs, PlanRecords
  <2> QED
    BY <1>1, <2>1, <2>2, DoneStays
<1>2. ~Ended(d)
  BY DEF Ended, NoJob, NoPlan
<1>3. CASE ShowPlan(d)
  <2>1. PICK q \in Plans(d) : job'[d] = [NoJob EXCEPT !.plan = q]
    BY <1>3, ShowPlanIs
  <2>2. job'[d].plan = q /\ UNCHANGED <<files, arch>>
    BY <1>3, <2>1, ShowPlanIs DEF NoJob, place
  <2> QED
    BY <2>2, PlanSound DEF DoneIf, DoneNext
<1>4. CASE ~Own(d)
  BY <1>1, <1>4, BesideMove
<1>5. CASE DeleteStep(d) \/ StopDelete(d)
  BY <1>1, <1>2, <1>5, PlanStays, StopDeleteIs
<1> QED
  BY <1>3, <1>4, <1>5 DEF Own

(***************************************************************************)
(* The end of a delete.                                                    *)
(***************************************************************************)
(* No drive is unplugged between the release of the lock and the tidying. *)
Stays == "away" \notin Trouble

SettledPlan(c) == Settled(job[c].plan.ident, job[c].plan.arch)

EndInv(c) ==
  /\ dpc[c] = "tidy" => shown
  /\ dpc[c] \in {"tidy", "logFolder"} /\ ~NoProof(c) => DoneIf(job[c].plan.arch)
  /\ dpc[c] = "logFolder" /\ job[c].folderGone => folder # job[c].plan.ident
  /\ dpc[c] \in {"key", "logForgotten", "finish"} => SettledPlan(c)
  /\ job[c].plan.rerun = "gone" => SettledPlan(c)
  /\ \A i \in DOMAIN log[c] : log[c][i].removed => Settled(log[c][i].ident, log[c][i].arch)

(* Which step leads to the last ones. *)
LEMMA EndFrom ==
  ASSUME Types, NEW d \in Computers, DeleteStep(d)
  PROVE  /\ dpc'[d] = "tidy" => Release(d) /\ ~job[d].left
         /\ dpc'[d] = "logFolder" => TidyFolder(d)
         /\ dpc'[d] \in {"key", "logForgotten", "finish"} =>
              /\ job' = job
              /\ \/ LogFolder(d) /\ ~NoProof(d)
                 \/ dpc[d] \in {"key", "logForgotten", "look"}
<1>1. \A n \in Names : RemoveName(d, n) => dpc'[d] = "remove"
  BY RemoveNameIs
<1>2. Ended(d) => dpc'[d] = "idle"
  BY DEF Ended
<1>3. CASE \/ LogStarted(d) \/ LockAndRecheck(d) \/ MarkFolder(d) \/ LogMarked(d)
           \/ (\E n \in Names : RemoveName(d, n)) \/ BeginLast(d) \/ RemoveLast(d)
           \/ RemoveMarker(d) \/ StopNoAnchor(d) \/ Finish(d)
  <2> DEFINE ends == {"tidy", "logFolder", "key", "logForgotten", "finish"}
  <2>1. CASE LogStarted(d) \/ LockAndRecheck(d) \/ MarkFolder(d)
    <3>1. dpc'[d] \notin ends
      BY <1>2, <2>1, LogStartedIs, LockAndRecheckIs, MarkFolderIs
    <3> QED
      BY <3>1
  <2>2. CASE LogMarked(d) \/ (\E n \in Names : RemoveName(d, n)) \/ BeginLast(d)
    <3>1. dpc'[d] \notin ends
      BY <1>1, <2>2, LogMarkedIs, BeginLastIs
    <3> QED
      BY <3>1
  <2>3. CASE RemoveLast(d) \/ RemoveMarker(d) \/ StopNoAnchor(d) \/ Finish(d)
    <3>1. dpc'[d] \notin ends
      BY <1>2, <2>3, RemoveLastIs, RemoveMarkerIs, LastIs
    <3> QED
      BY <3>1
  <2> QED
    BY <1>3, <2>1, <2>2, <2>3
<1>4. CASE Release(d) \/ TidyFolder(d) \/ LookGone(d)
  BY <1>2, <1>4, ReleaseIs, TidyFolderIs, LookGoneIs
<1>5. CASE LogFolder(d) \/ ForgetKey(d) \/ SkipKey(d) \/ LogForgotten(d)
  BY <1>5, LogFolderIs, KeyIs, LogForgottenIs
<1> QED
  BY <1>3, <1>4, <1>5 DEF DeleteStep

(* A delete that released the lock and needs no more proof has removed all. *)
LEMMA ReleasedIsDone ==
  ASSUME Types, Inv, NEW d \in Computers, PlanInv(d), NoteInv(d), Release(d), ~job[d].left,
         ~NoProof(d)
  PROVE  DoneIf(job[d].plan.arch)
<1>1. /\ dpc[d] = "release" /\ files \cap {"late", "anchor"} = {}
      /\ job[d].plan.rerun # "gone"
      /\ job[d].plan.rerun = "none" \/ job[d].markerGone => files \cap Mail = {}
  BY DEF Release, PlanInv, Locked
<1>2. CASE job[d].plan.rerun = "none" \/ job[d].markerGone
  BY <1>1, <1>2 DEF DoneIf, Recorded
<1>3. CASE ~(job[d].plan.rerun = "none" \/ job[d].markerGone)
  <2>1. job[d].plan.rerun = "noAnchor"
    BY <1>1, <1>3 DEF Types, Jobs, PlanRecords
  <2> QED
    BY <1>3, <2>1 DEF NoProof, NoteInv
<1> QED
  BY <1>2, <1>3

LEMMA EndKept ==
  ASSUME Stays, Types, Inv, PlaceInv, CountInv, [Next]_vars, NEW d \in Computers,
         CountsOf(d), PlanInv(d), NoteInv(d), EndInv(d)
  PROVE  EndInv(d)'
<1> DEFINE p == job[d].plan
<1>0. /\ p \in PlanRecords /\ \A i \in DOMAIN log[d] : log[d][i] \in Lines
  BY DEF Types, Jobs
<1>1. p.arch \in Nat /\ p.arch <= arch /\ p.ident \in Nat /\ p.ident <= folders
  BY <1>0 DEF CountsOf, PlanRecords
<1>2. DoneIf(p.arch) => DoneNext(p.arch)
  BY <1>1, DoneStays
<1>3. p.ident # 0 /\ SettledPlan(d) => SettledNext(p.ident, p.arch)
  BY <1>1, SettledStays DEF SettledPlan
<1>4. ASSUME NEW i \in DOMAIN log[d], log[d][i].removed
      PROVE  SettledNext(log[d][i].ident, log[d][i].arch)
  <2>1. /\ log[d][i].arch \in Nat /\ log[d][i].arch <= arch
        /\ log[d][i].ident \in 1..folders /\ folders \in Nat
    BY <1>0 DEF CountsOf, Lines, Types
  <2>2. Settled(log[d][i].ident, log[d][i].arch)
    BY <1>4 DEF EndInv
  <2> QED
    BY <2>1, <2>2, SettledStays
<1>5. p.rerun = "gone" => SettledNext(p.ident, p.arch)
  BY <1>3 DEF EndInv, CountsOf
<1>6. SUFFICES
        /\ dpc'[d] = "tidy" => shown'
        /\ dpc'[d] \in {"tidy", "logFolder"} /\ ~NoProof(d)' => DoneNext(job'[d].plan.arch)
        /\ dpc'[d] = "logFolder" /\ job'[d].folderGone => folder' # job'[d].plan.ident
        /\ dpc'[d] \in {"key", "logForgotten", "finish"} =>
             SettledNext(job'[d].plan.ident, job'[d].plan.arch)
        /\ job'[d].plan.rerun = "gone" => SettledNext(job'[d].plan.ident, job'[d].plan.arch)
        /\ \A i \in DOMAIN log'[d] :
             log'[d][i].removed => SettledNext(log'[d][i].ident, log'[d][i].arch)
  BY DEF EndInv, SettledPlan, Settled, DoneIf, SettledNext, DoneNext
<1>7. CASE ~Own(d)
  <2>1. UNCHANGED <<dpc[d], job[d], log[d]>>
    BY <1>7, BesideMove
  <2>2. ASSUME dpc[d] = "tidy" PROVE shown'
    <3>1. shown /\ ~Unplug
      BY <2>2 DEF EndInv, Unplug, Stays
    <3> QED
      BY <1>7, <3>1, BesideMove DEF OtherMove, DeleteMove
  <2>3. NoProof(d)' = NoProof(d)
    BY <2>1 DEF NoProof
  <2>4. ASSUME dpc[d] = "logFolder", job[d].folderGone PROVE folder' # p.ident
    <3>1. folder # p.ident /\ p.ident # 0 /\ folders \in Nat
      BY <2>4 DEF EndInv, CountsOf, Types
    <3>2. OtherMove => folder' # p.ident
      BY <1>1, <3>1 DEF OtherMove
    <3>3. \A c \in Computers : DeleteMove(c) => folder' # p.ident
      BY <3>1 DEF DeleteMove
    <3> QED
      BY <3>2, <3>3, AnyMove
  <2>5. dpc[d] \in {"key", "logForgotten", "finish"} => SettledNext(p.ident, p.arch)
    BY <1>3 DEF EndInv, CountsOf
  <2>6. dpc[d] \in {"tidy", "logFolder"} /\ ~NoProof(d) => DoneNext(p.arch)
    BY <1>2 DEF EndInv
  <2> QED
    BY <1>4, <1>5, <2>1, <2>2, <2>3, <2>4, <2>5, <2>6
<1>8. CASE Ended(d)
  <2>1. dpc'[d] = "idle" /\ job'[d].plan.rerun = "none"
    BY <1>8 DEF Ended, NoJob, NoPlan
  <2>2. \A i \in DOMAIN log'[d] : i \in DOMAIN log[d] /\ log'[d][i] = log[d][i]
    BY <1>8 DEF Ended
  <2> QED
    BY <1>4, <2>1, <2>2
<1>9. CASE ShowPlan(d)
  <2>1. PICK q \in Plans(d) : job'[d] = [NoJob EXCEPT !.plan = q]
    BY <1>9, ShowPlanIs
  <2>2. job'[d].plan = q /\ dpc'[d] = "planned" /\ log' = log /\ UNCHANGED <<files, arch, folder>>
    BY <1>9, <2>1, ShowPlanIs DEF NoJob, place
  <2>3. ASSUME q.rerun = "gone" PROVE SettledNext(q.ident, q.arch)
    <3> DEFINE u == Unfinished(d)
    <3>1. u # None /\ q = GonePlan(u) /\ (u.removed \/ folder = 0)
      BY <2>3, PlanIs
    <3>2. q.ident = u.ident /\ q.arch = u.arch
      BY <3>1 DEF GonePlan, NoPlan
    <3>3. PICK k \in DOMAIN log[d] : u = log[d][k]
      BY <3>1, UnfinishedIs
    <3>4. CASE u.removed
      BY <1>4, <3>2, <3>3, <3>4
    <3>5. CASE folder = 0
      <4>1. q.ident # 0
        BY PlanNumbers
      <4> QED
        BY <2>2, <3>5, <4>1 DEF SettledNext
    <3> QED
      BY <3>1, <3>4, <3>5
  <2> QED
    BY <1>4, <2>2, <2>3
<1>10. CASE StopDelete(d)
  BY <1>8, <1>10, StopDeleteIs
<1>11. CASE DeleteStep(d) /\ ~Ended(d)
  <2>1. job'[d].plan = p /\ p.ident # 0
    BY <1>11, PlanStays, AfterFrom DEF CountsOf
  <2>2. ASSUME dpc'[d] = "tidy"
        PROVE  shown' /\ (~NoProof(d)' => DoneNext(p.arch))
    <3>1. Release(d) /\ ~job[d].left
      BY <1>11, <2>2, EndFrom
    <3>2. lock # Free
      BY <3>1 DEF Release, Inv, DeleteInv, Locked, Free
    <3>3. shown' = shown /\ job' = job
      BY <1>11, <3>1, ReleaseIs DEF place
    <3>4. NoProof(d)' = NoProof(d)
      BY <3>3 DEF NoProof
    <3> QED
      BY <1>2, <3>1, <3>2, <3>3, <3>4, ReleasedIsDone DEF PlaceInv, There
  <2>3. ASSUME dpc'[d] = "logFolder"
        PROVE  /\ ~NoProof(d)' => DoneNext(p.arch)
               /\ job'[d].folderGone => folder' # p.ident
    <3>1. TidyFolder(d)
      BY <1>11, <2>3, EndFrom
    <3>2. /\ dpc[d] = "tidy" /\ shown' = shown
          /\ job'[d] = [job[d] EXCEPT !.folderGone = ~There'] /\ job[d] \in Jobs
      BY <3>1, TidyFolderIs DEF Types
    <3>3. /\ job'[d].folderGone = ~There' /\ job'[d].plan = p
          /\ job'[d].markerGone = job[d].markerGone /\ job'[d].there = job[d].there
      BY <3>2 DEF Jobs
    <3>4. NoProof(d)' = NoProof(d)
      BY <3>3 DEF NoProof
    <3>5. job'[d].folderGone => folder' = 0
      BY <3>2, <3>3 DEF EndInv, There
    <3> QED
      BY <1>2, <2>1, <3>2, <3>4, <3>5 DEF EndInv
  <2>4. ASSUME dpc'[d] \in {"key", "logForgotten", "finish"}
        PROVE  SettledNext(p.ident, p.arch)
    <3>1. \/ LogFolder(d) /\ ~NoProof(d)
          \/ dpc[d] \in {"key", "logForgotten", "look"}
      BY <1>11, <2>4, EndFrom
    <3>2. CASE LogFolder(d) /\ ~NoProof(d)
      BY <1>2, <3>2 DEF LogFolder, EndInv, SettledNext
    <3>3. CASE dpc[d] \in {"key", "logForgotten", "look"}
      BY <1>3, <2>1, <3>3 DEF EndInv, PlanInv
    <3> QED
      BY <3>1, <3>2, <3>3
  <2>5. ASSUME NEW i \in DOMAIN log'[d], log'[d][i].removed
        PROVE  SettledNext(log'[d][i].ident, log'[d][i].arch)
    <3>1. LineFrom(d, i)
      BY <1>11, LinesFrom DEF Own
    <3>2. CASE i \in DOMAIN log[d] /\ log[d][i].removed /\ SameLine(log'[d][i], log[d][i])
      BY <1>4, <3>2 DEF SameLine
    <3>3. CASE /\ i \in DOMAIN log[d] /\ SameLine(log'[d][i], log[d][i])
               /\ log[d][i].run = job[d].run
               /\ \/ LogFolder(d) /\ job[d].folderGone
                  \/ LogForgotten(d) /\ ~There'
      <4>1. log'[d][i].ident = p.ident /\ log'[d][i].arch = p.arch
        BY <3>3 DEF SameLine, CountsOf
      <4>2. SettledPlan(d)
        BY <3>3 DEF LogFolder, LogForgotten, EndInv, SettledPlan, Settled
      <4> QED
        BY <1>3, <2>1, <4>1, <4>2
    <3>4. CASE LogStarted(d) /\ log'[d][i] = StartedLine(d, p, runs')
      <4>1. log'[d][i].ident = p.ident /\ log'[d][i].arch = p.arch
        BY <3>4 DEF StartedLine
      <4>2. p.rerun # "gone" => ~StartedLine(d, p, runs').removed
        BY DEF StartedLine
      <4>3. p.rerun = "gone"
        BY <2>5, <3>4, <4>2
      <4> QED
        BY <1>5, <4>1, <4>3
    <3> QED
      BY <2>5, <3>1, <3>2, <3>3, <3>4 DEF LineFrom
  <2> QED
    BY <1>5, <2>1, <2>2, <2>3, <2>4, <2>5
<1> QED
  BY <1>7, <1>8, <1>9, <1>10, <1>11 DEF Own

(***************************************************************************)
(* All of it.                                                              *)
(***************************************************************************)
FolderInv ==
  /\ Inv /\ Types /\ PlaceInv /\ KeptInv /\ VaultInv /\ CountInv
  /\ \A c \in Computers :
       /\ PlanInv(c) /\ WritingInv(c) /\ CountsOf(c)
       /\ MarkedNow(c) /\ MarkedInv(c) /\ NoteInv(c)

LEMMA InitFolder == Init => FolderInv
<1> SUFFICES ASSUME Init PROVE FolderInv
  OBVIOUS
<1>1. Types /\ Inv
  BY InitTypes, InitInv
<1>2. /\ kind \in {"plain", "encrypted"} /\ folder = 1 /\ shown /\ marker = 0 /\ lock = Free
      /\ arch = 1 /\ runs = 0 /\ folders = 1 /\ kept = FALSE
      /\ "anchor" \in files
  BY <1>1 DEF Init, NoMarker, Types, Recorded
<1>3. /\ dpc = [c \in Computers |-> "idle"] /\ bpc = [c \in Computers |-> "idle"]
      /\ log = [c \in Computers |-> <<>>] /\ job = [c \in Computers |-> NoJob]
      /\ keys \in [Computers -> IF kind = "plain" THEN {0} ELSE {0, 1}]
  BY DEF Init
<1>4. PlaceInv
  BY <1>2, <1>3 DEF PlaceInv
<1>5. KeptInv /\ CountInv
  BY <1>2 DEF KeptInv, CountInv
<1>6. ASSUME NEW c \in Computers
      PROVE  /\ dpc[c] = "idle" /\ bpc[c] = "idle" /\ DOMAIN log[c] = {}
             /\ job[c].plan.rerun = "none" /\ job[c].run = 0 /\ job[c].plan.first = 0
             /\ job[c].plan.arch = 0 /\ job[c].plan.ident = 0 /\ ~job[c].plan.noteGone
  BY <1>3 DEF NoJob, NoPlan
<1>7. VaultInv
  BY <1>6 DEF VaultInv, After
<1>8. ASSUME NEW c \in Computers PROVE PlanInv(c) /\ WritingInv(c)
  BY <1>6 DEF PlanInv, WritingInv, Locked
<1>9. ASSUME NEW c \in Computers PROVE CountsOf(c)
  BY <1>2, <1>6 DEF CountsOf
<1>10. ASSUME NEW c \in Computers PROVE MarkedNow(c) /\ MarkedInv(c) /\ NoteInv(c)
  BY <1>6 DEF MarkedNow, MarkedInv, NoteInv
<1> QED
  BY <1>1, <1>4, <1>5, <1>7, <1>8, <1>9, <1>10 DEF FolderInv

LEMMA FolderStep == FolderInv /\ [Next]_vars => FolderInv'
<1> SUFFICES ASSUME FolderInv, [Next]_vars PROVE FolderInv'
  OBVIOUS
<1> USE DEF FolderInv
<1>1. Inv'
  BY InvStep
<1>2. Types' /\ PlaceInv' /\ KeptInv' /\ VaultInv' /\ CountInv'
  BY TypesStep, PlaceStep, KeptStep, VaultStep, CountStep
<1>3. ASSUME NEW c \in Computers
      PROVE  PlanInv(c)' /\ WritingInv(c)' /\ CountsOf(c)' /\ MarkedNow(c)'
  BY PlanStep, WritingKept, CountsStep, MarkedNowStep
<1>4. ASSUME NEW c \in Computers PROVE MarkedInv(c)' /\ NoteInv(c)'
  BY MarkedStep, NoteStep
<1> QED
  BY <1>1, <1>2, <1>3, <1>4

LEMMA FolderInvariant == Spec => []FolderInv
BY InitFolder, FolderStep, PTL DEF Spec

LEMMA EndInvariant == ASSUME Stays PROVE Spec => [](\A c \in Computers : EndInv(c))
<1>1. Init => \A c \in Computers : EndInv(c)
  <2> SUFFICES ASSUME Init, NEW c \in Computers PROVE EndInv(c)
    OBVIOUS
  <2>1. dpc[c] = "idle" /\ DOMAIN log[c] = {} /\ job[c].plan.rerun = "none"
    BY DEF Init, NoJob, NoPlan
  <2> QED
    BY <2>1 DEF EndInv
<1>2. FolderInv /\ (\A c \in Computers : EndInv(c)) /\ [Next]_vars
        => (\A c \in Computers : EndInv(c))'
  BY EndKept DEF FolderInv
<1> QED
  BY <1>1, <1>2, FolderInvariant, PTL DEF Spec

(***************************************************************************)
(* The theorems.                                                           *)
(***************************************************************************)
(* While a delete has taken names of the archive and not its anchor, the
   folder carries the marker: it is written before the first removal and goes
   after the anchor, also in a delete that another computer finishes. *)
THEOREM HalfAlwaysMarked == Spec => []HalfIsMarked
<1>1. Inv => HalfIsMarked
  BY DEF Inv
<1> QED
  BY <1>1, Invariant, PTL

(* No backup, of any computer, saves into an archive half deleted: it looks at
   the marker again under the lock it then holds. *)
THEOREM BackupsAlwaysKeepOut == Spec => BackupsKeepOut
<1>1. ASSUME Inv, Next PROVE rev' # rev => ~half /\ marker = NoMarker
  <2>1. ASSUME NEW c \in Computers, BackupSaves(c) PROVE ~half /\ marker = NoMarker
    BY <1>1, <2>1 DEF BackupSaves, Inv, BackupInv, HalfIsMarked
  <2>2. CASE \/ PutMine \/ TakeOut \/ LoseAnchor \/ Unplug \/ PlugIn
    BY <2>2 DEF PutMine, TakeOut, LoseAnchor, Unplug, PlugIn
  <2>3. ASSUME NEW c \in Computers,
               ShowPlan(c) \/ StopDelete(c) \/ BackupLocks(c) \/ KillBackup(c)
        PROVE  rev' = rev
    BY <2>3 DEF ShowPlan, StopDelete, BackupLocks, KillBackup, place
  <2>4. ASSUME NEW c \in Computers, NEW a \in BOOLEAN, BackupChecks(c, a) PROVE rev' = rev
    BY <2>4 DEF BackupChecks, place
  <2>5. ASSUME NEW c \in Computers, DeleteStep(c) PROVE rev' = rev
    <3>1. ASSUME NEW n \in Names, RemoveName(c, n) PROVE rev' = rev
      BY <3>1 DEF RemoveName
    <3>2. CASE LogStarted(c) \/ LockAndRecheck(c) \/ LookGone(c) \/ MarkFolder(c) \/ LogMarked(c)
      BY <3>2 DEF LogStarted, LockAndRecheck, LookGone, MarkFolder, LogMarked, place
    <3>3. CASE BeginLast(c) \/ RemoveLast(c) \/ RemoveMarker(c) \/ Release(c) \/ TidyFolder(c)
      BY <3>3 DEF BeginLast, RemoveLast, RemoveMarker, Release, TidyFolder, place
    <3>4. CASE LogFolder(c) \/ StopNoAnchor(c) \/ ForgetKey(c) \/ SkipKey(c)
               \/ LogForgotten(c) \/ Finish(c)
      BY <3>4 DEF LogFolder, StopNoAnchor, ForgetKey, SkipKey, LogForgotten, Finish, place
    <3> QED
      BY <2>5, <3>1, <3>2, <3>3, <3>4 DEF DeleteStep
  <2> QED
    BY <1>1, <2>1, <2>2, <2>3, <2>4, <2>5 DEF Next, BackupStep
<1>2. Inv /\ [Next]_vars => [rev' # rev => ~half /\ marker = NoMarker]_vars
  BY <1>1
<1> QED
  BY <1>2, Invariant, PTL DEF Spec, BackupsKeepOut

(* While a delete removes names, no backup has saved since the plan the person
   was shown: the plan is made again under the lock and compared. *)
THEOREM AlwaysRemovesWhatItShowed == Spec => []RemovesWhatItShowed
<1>1. Inv => RemovesWhatItShowed
  BY DEF Inv, DeleteInv, Rechecked, RemovesWhatItShowed, Locked
<1> QED
  BY <1>1, Invariant, PTL

(* A computer forgets the key of an encrypted archive only once its vault is
   gone: also when another computer deleted it, or half of it, and whatever the
   log and the marker say (execute.go, step 8). *)
THEOREM VaultGoesFirst == Spec => KeyOutlivesVault
<1>1. ASSUME FolderInv, [Next]_vars, NEW c \in Computers, keys[c] # 0, keys'[c] = 0
      PROVE  "anchor" \notin files
  <2>1. ~OtherMove
    BY <1>1 DEF OtherMove
  <2>2. \E d \in Computers : ShowPlan(d) \/ DeleteStep(d) \/ StopDelete(d)
    BY <1>1, <2>1, OtherMoves DEF FolderInv
  <2>3. PICK d \in Computers : ShowPlan(d) \/ DeleteStep(d) \/ StopDelete(d)
    BY <2>2
  <2>4. ForgetKey(d)
    <3>1. ASSUME NEW n \in Names, RemoveName(d, n) PROVE keys' = keys
      BY <3>1 DEF RemoveName
    <3>2. ~SkipKey(d)
      BY <1>1 DEF SkipKey
    <3>3. FolderInv => Types
      BY DEF FolderInv
    <3> QED
      BY <1>1, <2>3, <3>1, <3>2, <3>3, ShowPlanIs, StopDeleteIs, LogStartedIs, LockAndRecheckIs,
         LookGoneIs, MarkFolderIs, LogMarkedIs, BeginLastIs, RemoveLastIs, RemoveMarkerIs,
         ReleaseIs, TidyFolderIs, LogFolderIs, LogForgottenIs, LastIs DEF DeleteStep
  <2>5. dpc[d] \in After /\ kind = "encrypted"
    BY <1>1, <2>4 DEF ForgetKey, After, FolderInv, PlaceInv
  <2> QED
    BY <1>1, <2>5 DEF FolderInv, VaultInv
<1>2. FolderInv /\ [Next]_vars =>
        [\A c \in Computers : keys[c] # 0 /\ keys'[c] = 0 => "anchor" \notin files]_vars
  BY <1>1
<1> QED
  BY <1>2, FolderInvariant, PTL DEF Spec, KeyOutlivesVault

(* Where a delete kept the folder for files that are not the archive's, or a
   backup saw the archive before it waited for the lock, no unattended backup
   begins another archive (emptied.go). *)
THEOREM NeverAmongTheirs == Spec => NoArchiveAmongTheirs
<1>1. ASSUME FolderInv, [Next]_vars, arch' # arch, NEW c \in Computers, lock = <<"backup", c>>
      PROVE  attended[c] \/ (~kept /\ ~saw[c])
  <2>1. \E d \in Computers : Saves(d)
    BY <1>1, AnyMove DEF OtherMove, DeleteMove, FolderInv
  <2>2. PICK d \in Computers : Saves(d)
    BY <2>1
  <2>3. d = c
    BY <1>1, <2>2 DEF Saves, FolderInv, Inv, BackupInv
  <2>4. files \cap {"late", "anchor"} = {}
    BY <1>1, <2>2 DEF Saves
  <2> QED
    BY <1>1, <2>2, <2>3, <2>4 DEF FolderInv, WritingInv, Saves
<1>2. FolderInv /\ [Next]_vars =>
        [arch' # arch => \A c \in Computers :
           lock = <<"backup", c>> => attended[c] \/ (~kept /\ ~saw[c])]_vars
  BY <1>1
<1> QED
  BY <1>2, FolderInvariant, PTL DEF Spec, NoArchiveAmongTheirs

(* A delete that ends as complete has left in the folder nothing the archive
   recorded, where the drive stays from the release of the lock to the tidying:
   the removals had ended in this run, or the marker it removed, the `marked`
   line whose marker is gone, or a `folder removed` line proves that they had. *)
THEOREM CompleteAlwaysTrue == ASSUME Stays PROVE Spec => CompleteIsTrue
<1>1. ASSUME FolderInv, \A c \in Computers : EndInv(c), NEW c \in Computers, Finish(c),
             folder = job[c].plan.ident, arch = job[c].plan.arch
      PROVE  files \cap Recorded = {}
  BY <1>1 DEF Finish, EndInv, SettledPlan, Settled, DoneIf
<1>2. FolderInv /\ (\A c \in Computers : EndInv(c)) /\ [Next]_vars =>
        [\A c \in Computers :
           Finish(c) /\ folder = job[c].plan.ident /\ arch = job[c].plan.arch
           => files \cap Recorded = {}]_vars
  BY <1>1
<1> QED
  BY <1>2, FolderInvariant, EndInvariant, PTL DEF Spec, CompleteIsTrue
================================================================================
