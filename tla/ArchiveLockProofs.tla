-------------------------- MODULE ArchiveLockProofs --------------------------
(***************************************************************************)
(* Proofs about the archive's lock as the key file's processes use it, for *)
(* any number of processes, tries, probes and touches of the lock file.    *)
(***************************************************************************)
EXTENDS VaultKeyFile, FiniteSetTheorems, TLAPS

(***************************************************************************)
(* The lock's own steps.  Every step of the key file is one of them, or    *)
(* leaves the lock alone.                                                  *)
(***************************************************************************)
LockNext ==
  \/ \E p \in Procs : LockStep(p) \/ LetGo(p)
  \/ Probe \/ ProbeEnds \/ Upset

(* Files that are not at the path any more and that somebody holds or has open: each
   went there by a touch of its own. *)
Astray == {f \in Files \ {path} : owner[f] # Nobody \/ \E p \in Procs : lock[p].on = f}

AstrayInv == Cardinality(Astray) <= upsets

(* A process that tries has a file open, one that got it owns it. *)
OpenInv ==
  \A p \in Procs :
    /\ lock[p].at \in {"wait", "stamp", "in"} => lock[p].on # 0
    /\ lock[p].at \in {"stamp", "in"} => owner[lock[p].on] = p

(* Each try that failed against no rival failed against a probe of its own. *)
TriesInv ==
  /\ \A f \in Files : owner[f] = Prober => probes > 0
  /\ \A p \in Procs :
       lock[p].at = "wait" /\ "rival" \notin lock[p].met =>
         /\ lock[p].tries <= probes
         /\ owner[lock[p].on] = Prober /\ "probe" \notin lock[p].met => lock[p].tries < probes

(* As long as nobody touches the lock file, everybody's file is the one at the path. *)
AloneInv ==
  upsets = 0 =>
    \A p \in Procs :
      /\ lock[p].at \in {"wait", "stamp", "in"} => lock[p].on = path
      /\ lock[p].at = "in" => says[path] = p

LockInv == LockTypeOK /\ AstrayInv /\ OpenInv /\ TriesInv /\ AloneInv /\ RefusedByRivalOnly

(* Every step of the key file is a step of the lock or leaves it alone. *)
LEMMA LockSteps == Next => LockNext \/ UNCHANGED lockVars
<1> SUFFICES ASSUME Next PROVE LockNext \/ UNCHANGED lockVars
  OBVIOUS
<1>1. ASSUME NEW p \in Procs, TakeLock(p) PROVE LockNext
  BY <1>1 DEF TakeLock, LockNext
<1>2. ASSUME NEW p \in Procs, Return(p) \/ Kill(p) PROVE LockNext
  BY <1>2 DEF Return, Kill, LockNext
<1>3. ASSUME LockOutside PROVE LockNext
  BY <1>3 DEF LockOutside, LockNext
<1>4. ASSUME NEW p \in Procs,
             \/ PrepareCreate(p) \/ AskPassword(p) \/ PrepareNewRecovery(p)
             \/ AskHeal(p) \/ PrepareRestore(p)
      PROVE  UNCHANGED lockVars
  BY <1>4 DEF PrepareCreate, AskPassword, PrepareNewRecovery, AskHeal, PrepareRestore, Begin
<1>5. ASSUME NEW p \in Procs,
             Confirm(p) \/ Judge(p) \/ WritePrimary(p) \/ WriteMirror(p) \/ Clean(p)
      PROVE  UNCHANGED lockVars
  BY <1>5 DEF Confirm, Judge, WritePrimary, WriteMirror, Clean
<1>6. ASSUME Damage \/ Arrive PROVE UNCHANGED lockVars
  BY <1>6 DEF Damage, Arrive, Troubled
<1>7. QED BY <1>1, <1>2, <1>3, <1>4, <1>5, <1>6 DEF Next

(***************************************************************************)
(* Files astray: there is a fresh file whenever one is made.               *)
(***************************************************************************)
LEMMA FilesAreFinite ==
  /\ IsFiniteSet(Files)
  /\ Cardinality(Files) = MaxUpsets + 1
  BY FS_Interval, UpsetsAssumption DEF Files

LEMMA AstrayIsFinite ==
  /\ IsFiniteSet(Astray)
  /\ Cardinality(Astray) \in Nat
  BY FilesAreFinite, FS_Subset, FS_CardinalityType DEF Astray

LEMMA FreshExists ==
  ASSUME LockTypeOK, AstrayInv, path = 0 \/ upsets < MaxUpsets
  PROVE  /\ Fresh \in Files /\ Fresh # path /\ owner[Fresh] = Nobody
         /\ \A p \in Procs : lock[p].on # Fresh
<1> DEFINE Free(f) == f # path /\ owner[f] = Nobody /\ \A p \in Procs : lock[p].on # f
<1>1. upsets \in Nat /\ upsets <= MaxUpsets /\ MaxUpsets \in Nat
  BY UpsetsAssumption DEF LockTypeOK
<1>2. \E f \in Files : Free(f)
  <2> SUFFICES ASSUME \A f \in Files : ~Free(f) PROVE FALSE
    OBVIOUS
  <2>1. Files \subseteq Astray \cup {path}
    BY DEF Astray
  <2>2. CASE path = 0
    <3>1. Files \subseteq Astray
      BY <2>1, <2>2, UpsetsAssumption DEF Files
    <3>2. Cardinality(Files) <= Cardinality(Astray)
      BY <3>1, AstrayIsFinite, FS_Subset
    <3>3. QED BY <3>2, <1>1, FilesAreFinite, AstrayIsFinite DEF AstrayInv
  <2>3. CASE path # 0
    <3>1. Cardinality(Files) <= Cardinality(Astray \cup {path})
      BY <2>1, AstrayIsFinite, FS_AddElement, FS_Subset
    <3>2. Cardinality(Astray \cup {path}) <= Cardinality(Astray) + 1
      BY AstrayIsFinite, FS_AddElement
    <3>3. Cardinality(Files) <= upsets + 1
      BY <3>1, <3>2, <1>1, FilesAreFinite, AstrayIsFinite, FS_AddElement, FS_CardinalityType
         DEF AstrayInv
    <3>4. upsets < MaxUpsets
      BY <2>3
    <3>5. QED BY <3>3, <3>4, <1>1, FilesAreFinite
  <2>4. QED BY <2>2, <2>3
<1>3. QED BY <1>2 DEF Fresh

(* A step that leads no file astray keeps the count, one touch leads one. *)
LEMMA NoMoreAstray ==
  ASSUME LockTypeOK, AstrayInv, Astray' \subseteq Astray, upsets' = upsets
  PROVE  AstrayInv'
<1>1. Cardinality(Astray') <= Cardinality(Astray) /\ Cardinality(Astray') \in Nat
  BY AstrayIsFinite, FS_Subset, FS_CardinalityType
<1>2. QED BY <1>1, AstrayIsFinite DEF AstrayInv, LockTypeOK

LEMMA OneMoreAstray ==
  ASSUME LockTypeOK, AstrayInv, Astray' \subseteq Astray \cup {path}, upsets' = upsets + 1
  PROVE  AstrayInv'
<1>1. IsFiniteSet(Astray \cup {path}) /\ Cardinality(Astray \cup {path}) <= Cardinality(Astray) + 1
  BY AstrayIsFinite, FS_AddElement
<1>2. Cardinality(Astray') <= Cardinality(Astray \cup {path})
  BY <1>1, FS_Subset
<1>3. Cardinality(Astray') \in Nat /\ Cardinality(Astray \cup {path}) \in Nat /\ upsets \in Nat
  BY <1>1, FS_Subset, FS_CardinalityType DEF LockTypeOK
<1>4. QED BY <1>1, <1>2, <1>3, AstrayIsFinite DEF AstrayInv

(***************************************************************************)
(* Each step of the lock keeps the invariant.                              *)
(***************************************************************************)
LEMMA LockStarts == LockInit => LockInv
<1> SUFFICES ASSUME LockInit PROVE LockInv
  OBVIOUS
<1>1. LockTypeOK
  BY GraceAssumption, UpsetsAssumption DEF LockInit, LockTypeOK, Out, Place, Files
<1>2. AstrayInv
  <2>1. Astray = {}
    BY DEF LockInit, Astray, Out, Place, Files
  <2>2. QED BY <2>1, FS_EmptySet DEF AstrayInv, LockInit
<1>3. OpenInv /\ AloneInv /\ RefusedByRivalOnly
  BY DEF LockInit, OpenInv, AloneInv, RefusedByRivalOnly, Out, Place
<1>4. TriesInv
  BY DEF LockInit, TriesInv, Out, Place, Nobody, Prober
<1>5. QED BY <1>1, <1>2, <1>3, <1>4 DEF LockInv

(* A process's place in the lock, as LockTypeOK has it. *)
Places == [at : {"out", "wait", "refused", "stamp", "in"}, on : Files \cup {0},
           tries : 0..Tries, met : SUBSET {"probe", "rival"}]

LEMMA OpenLockKeeps ==
  ASSUME LockInv, NEW p \in Procs, OpenLock(p)
  PROVE  LockInv'
<1> DEFINE f == IF path = 0 THEN Fresh ELSE path
           new == Place("wait", f, {})
<1> USE DEF LockInv
<1>1. /\ f \in Files /\ f # 0 /\ 0 \notin Files
      /\ path = 0 => \A q \in Procs : lock[q].on # f
      /\ path # 0 => f = path
  BY FreshExists DEF LockTypeOK, Files
<1>2. /\ path' = f
      /\ lock' = [lock EXCEPT ![p] = new]
      /\ lock[p].at = "out"
      /\ says' = IF path = 0 THEN [says EXCEPT ![f] = Stale] ELSE says
      /\ UNCHANGED <<owner, probes, upsets>>
  BY DEF OpenLock
<1> HIDE DEF f
<1>3. new \in Places /\ new.at = "wait" /\ new.on = f /\ new.tries = 0
  BY <1>1, GraceAssumption DEF Places, Place
<1> HIDE DEF new
<1>4. lock \in [Procs -> Places] /\ lock' \in [Procs -> Places]
  BY <1>2, <1>3 DEF LockTypeOK, Places
<1>5. LockTypeOK'
  BY <1>1, <1>2, <1>4 DEF LockTypeOK, Places
<1>6. /\ lock'[p] = new
      /\ \A q \in Procs : q # p => lock'[q] = lock[q]
  BY <1>2, <1>4
<1>7. AstrayInv'
  <2> SUFFICES ASSUME NEW g \in Astray' PROVE g \in Astray
    BY <1>2, NoMoreAstray
  <2>1. g \in Files /\ g # f /\ g # path
    BY <1>1, <1>2 DEF Astray
  <2>2. owner[g] # Nobody \/ \E q \in Procs : lock'[q].on = g
    BY <1>2 DEF Astray
  <2>3. \A q \in Procs : lock'[q].on = g => lock[q].on = g
    BY <2>1, <1>3, <1>6
  <2>4. QED BY <2>1, <2>2, <2>3 DEF Astray
<1>8. OpenInv'
  BY <1>1, <1>2, <1>3, <1>6 DEF OpenInv
<1>9. TriesInv'
  BY <1>1, <1>2, <1>3, <1>6 DEF TriesInv, LockTypeOK
<1>10. AloneInv'
  BY <1>1, <1>2, <1>3, <1>6 DEF AloneInv, OpenInv, LockTypeOK
<1>11. RefusedByRivalOnly'
  BY <1>3, <1>6 DEF RefusedByRivalOnly
<1>12. QED BY <1>5, <1>7, <1>8, <1>9, <1>10, <1>11

LEMMA TryLockKeeps ==
  ASSUME LockInv, NEW p \in Procs, TryLock(p)
  PROVE  LockInv'
<1> DEFINE f == lock[p].on
           new == Place("stamp", f, {})
<1> USE DEF LockInv
<1>1. f \in Files /\ f # 0 /\ lock[p] \in Places
  BY DEF TryLock, OpenInv, LockTypeOK, Places
<1>2. /\ owner' = [owner EXCEPT ![f] = p]
      /\ lock' = [lock EXCEPT ![p] = new]
      /\ owner[f] = Nobody /\ lock[p].at = "wait"
      /\ UNCHANGED <<path, says, probes, upsets>>
  BY <1>1 DEF TryLock, LockTypeOK, Places
<1>3. new \in Places /\ new.at = "stamp" /\ new.on = f
  BY <1>1, GraceAssumption DEF Places, Place
<1> HIDE DEF new, f
<1>4. lock \in [Procs -> Places] /\ lock' \in [Procs -> Places]
  BY <1>2, <1>3 DEF LockTypeOK, Places
<1>5. owner' \in [Files -> Procs \cup {Nobody, Prober}]
  BY <1>1, <1>2 DEF LockTypeOK
<1>6. LockTypeOK'
  BY <1>2, <1>4, <1>5 DEF LockTypeOK, Places
<1>7. /\ lock'[p] = new
      /\ \A q \in Procs : q # p => lock'[q] = lock[q]
      /\ owner'[f] = p
      /\ \A g \in Files : g # f => owner'[g] = owner[g]
  BY <1>1, <1>2, <1>4 DEF LockTypeOK
<1>8. AstrayInv'
  <2> SUFFICES ASSUME NEW g \in Astray' PROVE g \in Astray
    BY <1>2, NoMoreAstray
  <2>1. g \in Files /\ g # path
    BY <1>2 DEF Astray
  <2>2. CASE g = f
    BY <2>1, <2>2 DEF Astray, f
  <2>3. CASE g # f
    <3>1. owner'[g] = owner[g] /\ \A q \in Procs : lock'[q].on = g => lock[q].on = g
      BY <2>1, <2>3, <1>3, <1>7
    <3>2. QED BY <2>1, <3>1 DEF Astray
  <2>4. QED BY <2>2, <2>3
<1>9. OpenInv'
  <2>1. ASSUME NEW q \in Procs, q # p, lock[q].at \in {"stamp", "in"}
        PROVE  lock[q].on \in Files /\ lock[q].on # f
    BY <2>1, <1>2, ProcsAssumption DEF OpenInv, LockTypeOK
  <2>2. QED BY <2>1, <1>1, <1>3, <1>7 DEF OpenInv
<1>10. TriesInv'
  <2>1. p # Prober
    BY ProcsAssumption
  <2>2. QED BY <2>1, <1>1, <1>2, <1>3, <1>7 DEF TriesInv, LockTypeOK
<1>11. AloneInv'
  BY <1>2, <1>3, <1>7 DEF AloneInv, f
<1>12. RefusedByRivalOnly'
  BY <1>3, <1>7 DEF RefusedByRivalOnly
<1>13. QED BY <1>6, <1>8, <1>9, <1>10, <1>11, <1>12

LEMMA TryAgainKeeps ==
  ASSUME LockInv, NEW p \in Procs, TryAgain(p)
  PROVE  LockInv'
<1> DEFINE f == lock[p].on
           new == [lock[p] EXCEPT !.tries = @ + 1, !.met = @ \cup Meets(p)]
<1> USE DEF LockInv
<1>1. f \in Files /\ lock[p] \in Places
  BY DEF TryAgain, OpenInv, LockTypeOK, Places
<1>2. /\ lock' = [lock EXCEPT ![p] = new]
      /\ lock[p].at = "wait" /\ "probe" \notin lock[p].met /\ lock[p].tries + 1 < Tries
      /\ owner[f] # Nobody
      /\ UNCHANGED <<path, says, owner, probes, upsets>>
  BY <1>1 DEF TryAgain, Places
<1>3. /\ new \in Places
      /\ new.at = "wait" /\ new.on = f /\ new.tries = lock[p].tries + 1
      /\ new.met = lock[p].met \cup Meets(p)
  <2>1. Meets(p) \subseteq {"probe", "rival"}
    BY DEF Meets
  <2>2. lock[p].met \cup Meets(p) \subseteq {"probe", "rival"}
    BY <2>1, <1>1 DEF Places
  <2>3. lock[p].tries + 1 \in 0..Tries
    BY <1>1, <1>2, GraceAssumption DEF Places
  <2>4. QED BY <1>1, <1>2, <2>2, <2>3 DEF Places
<1> HIDE DEF new
<1>4. lock \in [Procs -> Places] /\ lock' \in [Procs -> Places]
  BY <1>2, <1>3 DEF LockTypeOK, Places
<1>5. LockTypeOK'
  BY <1>2, <1>4 DEF LockTypeOK, Places
<1>6. /\ lock'[p] = new
      /\ \A q \in Procs : q # p => lock'[q] = lock[q]
  BY <1>2, <1>4
<1>7. AstrayInv'
  BY <1>2, <1>3, <1>6, NoMoreAstray DEF Astray
<1>8. OpenInv'
  BY <1>2, <1>3, <1>6 DEF OpenInv
<1>9. TriesInv'
  <2>1. ASSUME "rival" \notin lock'[p].met
        PROVE  lock'[p].tries <= probes /\ "probe" \in lock'[p].met
    <3>1. "rival" \notin lock[p].met /\ owner[f] = Prober /\ "probe" \in Meets(p)
      BY <2>1, <1>3, <1>6 DEF Meets
    <3>2. lock[p].tries < probes
      BY <3>1, <1>2 DEF TriesInv
    <3>3. QED BY <3>1, <3>2, <1>1, <1>3, <1>6 DEF Places, LockTypeOK
  <2>2. QED BY <2>1, <1>2, <1>6 DEF TriesInv
<1>10. AloneInv'
  BY <1>2, <1>3, <1>6 DEF AloneInv
<1>11. RefusedByRivalOnly'
  BY <1>3, <1>6 DEF RefusedByRivalOnly
<1>12. QED BY <1>5, <1>7, <1>8, <1>9, <1>10, <1>11

(* The last try: a process that met probes only has met fewer than it has tries. *)
LEMMA RefusedKeeps ==
  ASSUME LockInv, NEW p \in Procs, Refused(p)
  PROVE  LockInv'
<1> DEFINE f == lock[p].on
           new == Place("refused", 0, lock[p].met \cup Meets(p))
<1> USE DEF LockInv
<1>1. f \in Files /\ lock[p] \in Places
  BY DEF Refused, OpenInv, LockTypeOK, Places
<1>2. /\ lock' = [lock EXCEPT ![p] = new]
      /\ lock[p].at = "wait" /\ "probe" \notin lock[p].met /\ lock[p].tries + 1 = Tries
      /\ UNCHANGED <<path, says, owner, probes, upsets>>
  BY DEF Refused
<1>3. /\ new \in Places
      /\ new.at = "refused" /\ new.on = 0 /\ new.met = lock[p].met \cup Meets(p)
  BY <1>1, GraceAssumption DEF Places, Place, Meets
<1>4. "rival" \in new.met
  <2> SUFFICES ASSUME "rival" \notin lock[p].met /\ "rival" \notin Meets(p) PROVE FALSE
    BY <1>3
  <2>1. owner[f] = Prober
    BY DEF Meets
  <2>2. lock[p].tries < probes
    BY <2>1, <1>2 DEF TriesInv
  <2>3. probes \in Nat /\ probes <= MaxProbes /\ lock[p].tries \in Nat
    BY <1>1, GraceAssumption DEF LockTypeOK, Places
  <2>4. QED BY <2>2, <2>3, <1>2, GraceAssumption
<1> HIDE DEF new
<1>5. lock \in [Procs -> Places] /\ lock' \in [Procs -> Places]
  BY <1>2, <1>3 DEF LockTypeOK, Places
<1>6. LockTypeOK'
  BY <1>2, <1>5 DEF LockTypeOK, Places
<1>7. /\ lock'[p] = new
      /\ \A q \in Procs : q # p => lock'[q] = lock[q]
  BY <1>2, <1>5
<1>8. AstrayInv'
  <2> SUFFICES ASSUME NEW g \in Astray' PROVE g \in Astray
    BY <1>2, NoMoreAstray
  <2>1. g \in Files /\ g # 0 /\ \A q \in Procs : lock'[q].on = g => lock[q].on = g
    BY <1>3, <1>7 DEF Astray, Files
  <2>2. QED BY <2>1, <1>2 DEF Astray
<1>9. OpenInv'
  BY <1>2, <1>3, <1>7 DEF OpenInv
<1>10. TriesInv'
  BY <1>2, <1>3, <1>7 DEF TriesInv
<1>11. AloneInv'
  BY <1>2, <1>3, <1>7 DEF AloneInv
<1>12. RefusedByRivalOnly'
  BY <1>4, <1>7 DEF RefusedByRivalOnly
<1>13. QED BY <1>6, <1>8, <1>9, <1>10, <1>11, <1>12

LEMMA StampKeeps ==
  ASSUME LockInv, NEW p \in Procs, Stamp(p)
  PROVE  LockInv'
<1> DEFINE f == lock[p].on
           new == [lock[p] EXCEPT !.at = "in"]
<1> USE DEF LockInv
<1>1. f \in Files /\ owner[f] = p /\ lock[p] \in Places
  BY DEF Stamp, OpenInv, LockTypeOK, Places
<1>2. /\ lock' = [lock EXCEPT ![p] = new]
      /\ says' = [says EXCEPT ![f] = p]
      /\ lock[p].at = "stamp"
      /\ UNCHANGED <<path, owner, probes, upsets>>
  BY <1>1 DEF Stamp, LockTypeOK, Places
<1>3. new \in Places /\ new.at = "in" /\ new.on = f
  BY <1>1 DEF Places
<1> HIDE DEF new
<1>4. lock \in [Procs -> Places] /\ lock' \in [Procs -> Places]
  BY <1>2, <1>3 DEF LockTypeOK, Places
<1>5. LockTypeOK'
  BY <1>1, <1>2, <1>4 DEF LockTypeOK, Places
<1>6. /\ lock'[p] = new
      /\ \A q \in Procs : q # p => lock'[q] = lock[q]
      /\ says'[f] = p
  BY <1>1, <1>2, <1>4 DEF LockTypeOK
<1>7. AstrayInv'
  BY <1>2, <1>3, <1>6, NoMoreAstray DEF Astray
<1>8. OpenInv'
  BY <1>1, <1>2, <1>3, <1>6 DEF OpenInv, Files
<1>9. TriesInv'
  BY <1>2, <1>3, <1>6 DEF TriesInv
<1>10. AloneInv'
  <2>1. ASSUME NEW q \in Procs, q # p, upsets = 0, lock[q].at = "in" PROVE FALSE
    BY <2>1, <1>1, <1>2 DEF AloneInv, OpenInv
  <2>2. QED BY <2>1, <1>2, <1>3, <1>6 DEF AloneInv
<1>11. RefusedByRivalOnly'
  BY <1>3, <1>6 DEF RefusedByRivalOnly
<1>12. QED BY <1>5, <1>7, <1>8, <1>9, <1>10, <1>11

(* A process that lets go, or ends, leaves every other one's file alone. *)
LEMMA LetGoKeeps ==
  ASSUME LockInv, NEW p \in Procs, LetGo(p)
  PROVE  LockInv'
<1> USE DEF LockInv
<1>1. /\ owner' = [f \in Files |-> IF owner[f] = p THEN Nobody ELSE owner[f]]
      /\ says' = [f \in Files |-> IF says[f] = p THEN Stale ELSE says[f]]
      /\ lock' = [lock EXCEPT ![p] = Out]
      /\ UNCHANGED <<path, probes, upsets>>
  BY DEF LetGo
<1>2. Out \in Places /\ Out.at = "out" /\ Out.on = 0
  BY GraceAssumption DEF Out, Place, Places
<1>3. lock \in [Procs -> Places] /\ lock' \in [Procs -> Places]
  BY <1>1, <1>2 DEF LockTypeOK, Places
<1>4. LockTypeOK'
  BY <1>1, <1>3 DEF LockTypeOK, Places
<1>5. /\ lock'[p] = Out
      /\ \A q \in Procs : q # p => lock'[q] = lock[q]
  BY <1>1, <1>3
<1>6. \A f \in Files : owner'[f] = owner[f] \/ owner'[f] = Nobody
  BY <1>1
<1>7. \A f \in Files : owner[f] # p => owner'[f] = owner[f]
  BY <1>1
<1>8. AstrayInv'
  <2> SUFFICES ASSUME NEW g \in Astray' PROVE g \in Astray
    BY <1>1, NoMoreAstray
  <2>1. g \in Files /\ g # 0 /\ \A q \in Procs : lock'[q].on = g => lock[q].on = g
    BY <1>2, <1>5 DEF Astray, Files
  <2>2. QED BY <2>1, <1>1, <1>6 DEF Astray
<1>9. OpenInv'
  <2>1. ASSUME NEW q \in Procs, q # p, lock[q].at \in {"stamp", "in"}
        PROVE  owner'[lock[q].on] = q
    BY <2>1, <1>7 DEF OpenInv, LockTypeOK, Places
  <2>2. QED BY <2>1, <1>2, <1>5 DEF OpenInv
<1>10. TriesInv'
  <2>1. \A f \in Files : owner'[f] = Prober => owner[f] = Prober
    BY <1>6 DEF Nobody, Prober
  <2>2. \A q \in Procs : lock[q].at = "wait" => lock[q].on \in Files
    BY DEF OpenInv, LockTypeOK
  <2>3. QED BY <2>1, <2>2, <1>1, <1>2, <1>5 DEF TriesInv
<1>11. AloneInv'
  <2>1. ASSUME NEW q \in Procs, q # p, upsets = 0, lock[q].at = "in"
        PROVE  says'[path] = q
    BY <2>1, <1>1 DEF AloneInv, OpenInv, LockTypeOK
  <2>2. QED BY <2>1, <1>1, <1>2, <1>5 DEF AloneInv
<1>12. RefusedByRivalOnly'
  BY <1>2, <1>5 DEF RefusedByRivalOnly
<1>13. QED BY <1>4, <1>8, <1>9, <1>10, <1>11, <1>12

LEMMA ProbeKeeps ==
  ASSUME LockInv, Probe
  PROVE  LockInv'
<1> USE DEF LockInv
<1>1. /\ path \in Files /\ owner[path] = Nobody /\ probes < MaxProbes
      /\ owner' = [owner EXCEPT ![path] = Prober]
      /\ probes' = probes + 1
      /\ UNCHANGED <<path, says, lock, upsets>>
  BY DEF Probe, LockTypeOK
<1>2. probes \in Nat /\ MaxProbes \in Nat
  BY GraceAssumption DEF LockTypeOK
<1>3. /\ owner' \in [Files -> Procs \cup {Nobody, Prober}]
      /\ probes' \in 0..MaxProbes
  BY <1>1, <1>2 DEF LockTypeOK
<1>4. LockTypeOK'
  BY <1>1, <1>3 DEF LockTypeOK
<1>5. /\ owner'[path] = Prober
      /\ \A f \in Files : f # path => owner'[f] = owner[f]
  BY <1>1 DEF LockTypeOK
<1>6. AstrayInv'
  BY <1>1, <1>5, NoMoreAstray DEF Astray
<1>7. OpenInv'
  <2>1. \A q \in Procs : lock[q].at \in {"stamp", "in"} =>
          lock[q].on \in Files /\ lock[q].on # path
    BY <1>1, ProcsAssumption DEF OpenInv, LockTypeOK
  <2>2. QED BY <2>1, <1>1, <1>5 DEF OpenInv
<1>8. TriesInv'
  <2>1. \A q \in Procs : lock[q].tries \in Nat
    BY GraceAssumption DEF LockTypeOK
  <2>2. QED BY <2>1, <1>1, <1>2 DEF TriesInv
<1>9. AloneInv' /\ RefusedByRivalOnly'
  BY <1>1 DEF AloneInv, RefusedByRivalOnly
<1>10. QED BY <1>4, <1>6, <1>7, <1>8, <1>9

LEMMA ProbeEndsKeeps ==
  ASSUME LockInv, ProbeEnds
  PROVE  LockInv'
<1> DEFINE new(q) == [lock[q] EXCEPT !.met = @ \ {"probe"}]
<1> USE DEF LockInv
<1>1. /\ owner' = [f \in Files |-> IF owner[f] = Prober THEN Nobody ELSE owner[f]]
      /\ lock' = [q \in Procs |-> new(q)]
      /\ UNCHANGED <<path, says, probes, upsets>>
  BY DEF ProbeEnds
<1>2. lock \in [Procs -> Places]
  BY DEF LockTypeOK, Places
<1>3. \A q \in Procs :
        /\ new(q) \in Places
        /\ new(q).at = lock[q].at /\ new(q).on = lock[q].on /\ new(q).tries = lock[q].tries
        /\ new(q).met = lock[q].met \ {"probe"}
  BY <1>2 DEF Places
<1> HIDE DEF new
<1>4. LockTypeOK'
  BY <1>1, <1>3 DEF LockTypeOK, Places
<1>5. \A q \in Procs :
        /\ lock'[q].at = lock[q].at /\ lock'[q].on = lock[q].on
        /\ lock'[q].tries = lock[q].tries /\ lock'[q].met = lock[q].met \ {"probe"}
  BY <1>1, <1>3
<1>6. \A f \in Files : owner'[f] # Prober /\ (owner[f] # Prober => owner'[f] = owner[f])
  BY <1>1 DEF Nobody, Prober
<1>7. AstrayInv'
  <2> SUFFICES ASSUME NEW g \in Astray' PROVE g \in Astray
    BY <1>1, NoMoreAstray
  <2>1. g \in Files /\ g # path /\ (owner'[g] # Nobody \/ \E q \in Procs : lock'[q].on = g)
    BY <1>1 DEF Astray
  <2>2. owner'[g] # Nobody => owner[g] # Nobody
    BY <2>1, <1>1
  <2>3. QED BY <2>1, <2>2, <1>5 DEF Astray
<1>8. OpenInv'
  <2>1. \A q \in Procs : lock[q].at \in {"stamp", "in"} =>
          lock[q].on \in Files /\ owner[lock[q].on] # Prober
    BY ProcsAssumption DEF OpenInv, LockTypeOK
  <2>2. QED BY <2>1, <1>5, <1>6 DEF OpenInv
<1>9. TriesInv'
  <2>1. \A q \in Procs : lock[q].at = "wait" => lock[q].on \in Files
    BY DEF OpenInv, LockTypeOK
  <2>2. QED BY <2>1, <1>1, <1>5, <1>6 DEF TriesInv
<1>10. AloneInv' /\ RefusedByRivalOnly'
  BY <1>1, <1>5 DEF AloneInv, RefusedByRivalOnly
<1>11. QED BY <1>4, <1>7, <1>8, <1>9, <1>10

(* A touch of the lock file leads at most the file at the path astray. *)
LEMMA UpsetKeeps ==
  ASSUME LockInv, Upset
  PROVE  LockInv'
<1> USE DEF LockInv
<1>1. /\ upsets < MaxUpsets /\ upsets' = upsets + 1 /\ path \in Files
      /\ path' \in {0, Fresh, path}
      /\ UNCHANGED <<owner, lock, probes>>
  BY DEF Upset, LockTypeOK
<1>2. Fresh \in Files
  BY <1>1, FreshExists
<1>3. upsets \in Nat /\ upsets' # 0 /\ upsets' \in 0..MaxUpsets
  BY <1>1, UpsetsAssumption DEF LockTypeOK
<1>4. says' \in [Files -> Procs \cup {Stale}]
  BY <1>1, <1>2 DEF Upset, LockTypeOK
<1>5. LockTypeOK'
  BY <1>1, <1>2, <1>3, <1>4 DEF LockTypeOK
<1>6. AstrayInv'
  BY <1>1, OneMoreAstray DEF Astray
<1>7. OpenInv' /\ TriesInv' /\ RefusedByRivalOnly'
  BY <1>1 DEF OpenInv, TriesInv, RefusedByRivalOnly
<1>8. AloneInv'
  BY <1>3 DEF AloneInv
<1>9. QED BY <1>5, <1>6, <1>7, <1>8

LEMMA LockKept == LockInv /\ [Next]_vars => LockInv'
<1> SUFFICES ASSUME LockInv, LockNext \/ UNCHANGED lockVars
             PROVE  LockInv'
  BY LockSteps DEF vars
<1>1. ASSUME NEW p \in Procs, LockStep(p) \/ LetGo(p) PROVE LockInv'
  BY <1>1, OpenLockKeeps, TryLockKeeps, TryAgainKeeps, RefusedKeeps, StampKeeps, LetGoKeeps
     DEF LockStep
<1>2. ASSUME Probe \/ ProbeEnds \/ Upset PROVE LockInv'
  BY <1>2, ProbeKeeps, ProbeEndsKeeps, UpsetKeeps
<1>3. ASSUME UNCHANGED lockVars PROVE LockInv'
  BY <1>3 DEF lockVars, LockInv, LockTypeOK, AstrayInv, Astray, OpenInv, TriesInv, AloneInv,
              RefusedByRivalOnly
<1>4. QED BY <1>1, <1>2, <1>3 DEF LockNext

LEMMA LockInvHolds == Spec => []LockInv
<1>1. Init => LockInv
  BY LockStarts DEF Init
<1>2. QED BY <1>1, LockKept, PTL DEF Spec

(***************************************************************************)
(* The results.                                                            *)
(***************************************************************************)
(* A run that is refused the archive's lock (ErrHeld) met another run that held it: as
   long as fewer programs probe than an acquirer tries, whoever probes, and however
   often the lock file is touched meanwhile. *)
THEOREM RefusalsAreFair == Spec => []RefusedByRivalOnly
<1>1. LockInv => RefusedByRivalOnly
  BY DEF LockInv
<1>2. QED BY <1>1, LockInvHolds, PTL

(* As long as nobody touches the lock file, whoever has the lock goes on holding the
   one file at the path and reading its own nonce there, whatever the others do. *)
THEOREM HolderIsSafe == Spec => []HolderIsLeftAlone
<1>1. LockInv => HolderIsLeftAlone
  <2> SUFFICES ASSUME LockInv, upsets = 0, NEW p \in Procs, lock[p].at = "in"
               PROVE  StillHeld(p) /\ owner[path] = p
    BY DEF HolderIsLeftAlone
  <2>1. lock[p].on = path /\ says[path] = p /\ lock[p].on # 0 /\ owner[lock[p].on] = p
    BY DEF LockInv, OpenInv, AloneInv
  <2>2. QED BY <2>1 DEF StillHeld
<1>2. QED BY <1>1, LockInvHolds, PTL
=============================================================================
