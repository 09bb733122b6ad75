---------------------------- MODULE SealedRecord ----------------------------
(***************************************************************************)
(* The sealed record of an encrypted archive (internal/container/store.go) *)
(* with the unit store beside it (internal/export/units.go) and the run's  *)
(* opening (internal/app/encrypted.go).                                    *)
(*                                                                         *)
(* A run loads the record under the archive lock, sweeps what no record    *)
(* names, captures messages as unit files under new names, and saves: the  *)
(* changed manifest section sealed in two chunk files, the lock proved     *)
(* again, the pointer renamed into place (the commit), its mirror, the     *)
(* envelope when it needs healing, and the inventory (a shard, then the    *)
(* top file).  Between any two of these writes the process may be killed,  *)
(* a write may fail, and the power may be cut, which on a drive that does  *)
(* not flush folders loses recent renames of the three root files.         *)
(*                                                                         *)
(* Abstracted: the manifest is one section; the inventory has one shard;   *)
(* a file's digest is the serial number of the bytes drawn for it; a       *)
(* time is the number of the run whose start it is.  The timeline's and    *)
(* the search index's chunks, further tables of the pointer, are left out. *)
(***************************************************************************)
EXTENDS Integers, FiniteSets

CONSTANTS
  None,       \* no such file, or nothing recorded
  Bad,        \* a file that is there and cannot be read
  Units,      \* the kinds of unit of every message: page, attachments, original
  MaxRev,     \* bound: revisions of a unit
  MaxRuns,    \* bound: runs
  MaxDraws,   \* bound: files of fresh bytes
  MaxGen,     \* bound: generations
  MaxDamage,  \* bound: external damage and power cuts
  Captures,   \* what a capture may do to a unit: "update", "drop"
  Trouble,    \* what may go wrong: "write", "remove", "lock", "cut"
  Damages,    \* what may be damaged: "pointer", "chunk", "shard", "top", "envelope"
  Restores    \* which old copies a user may put back: "record"

ASSUME BoundsAssumption ==
  /\ MaxRev \in Nat /\ MaxRuns \in Nat /\ MaxDraws \in Nat
  /\ MaxGen \in Nat /\ MaxDamage \in Nat

Revs == 1..MaxRev
Runs == 1..MaxRuns
Draws == 1..MaxDraws
Copies == {1, 2}

VARIABLES
  \* the archive folder
  files,      \* unit and chunk files: the bytes they hold and the run that wrote them
  ptr,        \* the record pointer, renamed into place by a commit
  mirror,     \* its second copy
  top,        \* the inventory's top file
  shards,     \* the inventory's shard files, by the generation that names them
  env,        \* the envelope at the manifest's name
  \* what a power cut would leave of the root files
  hardPtr, hardMirror, hardTop,
  \* the run's memory
  pc,         \* where the run is
  start,      \* its start, the mtime of what it writes
  sptr,       \* Store.ptr: the last committed pointer
  attempted,  \* Store.attempted: the highest generation a rename was attempted at
  inv,        \* Store.inv: the last durable inventory's top
  listed,     \* Store.shards, invLive and invRetained: what its shard lists
  reseal,     \* Store.reseal: the section copies the load found lost
  prevLive,   \* Store.prevLive: the live files of the last commit
  retained,   \* Store.retained: files superseded during this run
  recs,       \* the manifest: the revision and the bytes of each unit
  newp,       \* the pointer a commit under way is about to rename
  orphanAfter,\* Units.OrphanAfter (0: not set)
  \* history
  runs,       \* runs begun
  drawn,      \* fresh bytes and names drawn so far
  verdict,    \* what the last load decided
  backup,     \* an old copy of the record's root files a user kept
  damage      \* files damaged from outside, and power cuts, so far

disk == <<files, ptr, mirror, top, shards, env>>
hard == <<hardPtr, hardMirror, hardTop>>
store == <<start, sptr, attempted, inv, listed, reseal, prevLive, retained, orphanAfter>>
history == <<runs, verdict, backup, damage>>
vars == <<disk, hard, store, pc, recs, newp, drawn, history>>

Unit(u, r) == <<"unit", u, r>>
Chunk(n, i) == <<"chunk", n, i>>
UnitNames == {Unit(u, r) : u \in Units, r \in Revs}
ChunkNames == {Chunk(n, i) : n \in Draws, i \in Copies}
FileNames == UnitNames \cup ChunkNames

Record == [rev : Revs, bytes : Draws]
Records == [Units -> Record \cup {None}]
Gens == 1..MaxGen
Pointer == [gen : Gens, inv : 0..MaxGen, start : Runs, sect : Draws, recs : Records]
List == [live : SUBSET FileNames, retained : SUBSET FileNames]
Top == [gen : Gens, of : Pointer, shard : Gens, list : List]
Shard == [list : List, at : Runs]
File == [bytes : Draws, at : Runs]

ASSUME MarksAssumption ==
  /\ None # Bad
  /\ None \notin Record \cup File \cup Pointer \cup Top \cup Shard \cup List
  /\ Bad \notin Pointer \cup Top

PCs == {"idle", "loaded", "fresh", "running", "prove", "rename", "mirror", "envelope",
        "shard", "top", "ended"}
Verdicts == {"none", "accepted", "fresh", "record", "missing", "inventoryDamaged",
             "unfinished", "restoredOlder"}

FolderOK ==
  /\ files \in [FileNames -> File \cup {None}]
  /\ ptr \in Pointer \cup {None, Bad}
  /\ mirror \in Pointer \cup {None, Bad}
  /\ top \in Top \cup {None, Bad}
  /\ shards \in [Gens -> Shard \cup {None}]
  /\ env \in {"absent", "present", "unreadable"}
  /\ hardPtr \in Pointer \cup {None, Bad}
  /\ hardMirror \in Pointer \cup {None, Bad}
  /\ hardTop \in Top \cup {None, Bad}

MemoryOK ==
  /\ pc \in PCs
  /\ start \in 0..MaxRuns
  /\ sptr \in Pointer \cup {None}
  /\ attempted \in 0..MaxGen
  /\ inv \in Top \cup {None}
  /\ listed \in List \cup {None}
  /\ reseal \subseteq Copies
  /\ prevLive \subseteq FileNames
  /\ retained \subseteq FileNames
  /\ recs \in Records
  /\ newp \in Pointer \cup {None}
  /\ orphanAfter \in 0..MaxRuns

HistoryOK ==
  /\ runs \in 0..MaxRuns
  /\ drawn \in 0..MaxDraws
  /\ verdict \in Verdicts
  /\ damage \in 0..MaxDamage

TypeOK == FolderOK /\ MemoryOK /\ HistoryOK

\* Store.fresh, in a run: the first commit is owed.
Fresh == sptr = None

(***************************************************************************)
(* What a pointer names, and what of it is on disk.                        *)
(***************************************************************************)
Readable(x) == x \notin {None, Bad}

Holds(name, bytes) == files[name] # None /\ files[name].bytes = bytes

\* Store.liveFiles: the unit files the records name and the chunks the pointer names.
LiveFiles(rs, p) ==
  {Unit(u, rs[u].rev) : u \in {v \in Units : rs[v] # None}}
    \cup {Chunk(p.sect, i) : i \in Copies}

SectionCopies(p) == {i \in Copies : Holds(Chunk(p.sect, i), p.sect)}

UnitsIntact(rs) ==
  \A u \in Units : rs[u] # None => Holds(Unit(u, rs[u].rev), rs[u].bytes)

Intact(p) == SectionCopies(p) = Copies /\ UnitsIntact(p.recs)

NoRecords == [u \in Units |-> None]

Init ==
  /\ files = [f \in FileNames |-> None]
  /\ ptr = None /\ mirror = None /\ top = None
  /\ shards = [g \in Gens |-> None]
  /\ env = "absent"
  /\ hardPtr = None /\ hardMirror = None /\ hardTop = None
  /\ pc = "idle"
  /\ start = 0 /\ sptr = None /\ attempted = 0 /\ inv = None /\ listed = None
  /\ reseal = {}
  /\ prevLive = {} /\ retained = {} /\ orphanAfter = 0
  /\ recs = NoRecords
  /\ newp = None
  /\ drawn = 0
  /\ runs = 0 /\ verdict = "none" /\ backup = None /\ damage = 0

\* The run is over, at its end or killed: its memory is gone.
Forget ==
  /\ pc' = "idle"
  /\ start' = 0 /\ sptr' = None /\ attempted' = 0 /\ inv' = None /\ listed' = None
  /\ reseal' = {}
  /\ prevLive' = {} /\ retained' = {} /\ orphanAfter' = 0
  /\ recs' = NoRecords
  /\ newp' = None

(***************************************************************************)
(* The load: LoadManifest, checkFresh, readInventory, readSections,        *)
(* checkF12.  It writes nothing.                                           *)
(***************************************************************************)
\* Mutant: the second copy of the pointer is never read.
BestMutant == ptr

\* readPointers: the highest generation that authenticates, the primary on a tie.
Best ==
  IF ~Readable(mirror) THEN ptr
  ELSE IF Readable(ptr) /\ ptr.gen >= mirror.gen THEN ptr ELSE mirror

NoInventory == [inv |-> None, listed |-> None]

\* readInventory: a list written for this very generation must name the pointer on
\* disk; a damaged shard is tolerated only under a list of this generation.
Inventory(p) ==
  IF ~Readable(top) \/ (top.gen = p.gen /\ top.of \notin {ptr, mirror})
    THEN NoInventory
  ELSE IF shards[top.shard] # None /\ shards[top.shard].list = top.list
    THEN [inv |-> top, listed |-> top.list]
  ELSE IF top.gen = p.gen THEN [inv |-> top, listed |-> None] ELSE NoInventory

\* Mutant: an older pointer put back beside a newer file list is taken.
F12Mutant(p, i) ==
  IF i = None THEN (IF p.inv >= 1 THEN "inventoryDamaged" ELSE "accepted")
  ELSE IF i.gen = p.gen + 1 THEN "unfinished"
  ELSE IF i.gen < p.inv THEN "restoredOlder"
  ELSE "accepted"

\* checkF12.
F12(p, i) ==
  IF i = None THEN (IF p.inv >= 1 THEN "inventoryDamaged" ELSE "accepted")
  ELSE IF i.gen = p.gen + 1 THEN "unfinished"
  ELSE IF i.gen > p.gen \/ i.gen < p.inv THEN "restoredOlder"
  ELSE "accepted"

\* checkFresh: no pointer is a first commit to make only when no unit and no part of
\* an inventory is there.
NothingYet ==
  /\ \A f \in UnitNames : files[f] = None
  /\ \A g \in Gens : shards[g] = None

Decision ==
  IF ~Readable(Best)
    THEN IF ptr # None \/ mirror # None THEN "record"
         ELSE IF NothingYet THEN "fresh" ELSE "missing"
  ELSE IF SectionCopies(Best) = {} THEN "record"
  ELSE F12(Best, Inventory(Best).inv)

\* Runs begin far apart: what an earlier one renamed has reached the drive by now.
Begin ==
  /\ pc = "idle"
  /\ runs < MaxRuns
  /\ runs' = runs + 1
  /\ verdict' = Decision
  /\ hardPtr' = ptr /\ hardMirror' = mirror /\ hardTop' = top

Refuse ==
  /\ Begin
  /\ Decision \notin {"accepted", "fresh"}
  /\ UNCHANGED <<disk, store, pc, recs, newp, drawn, backup, damage>>

LoadFresh ==
  /\ Begin
  /\ Decision = "fresh"
  /\ pc' = "fresh"
  /\ start' = runs'
  /\ UNCHANGED <<disk, sptr, attempted, inv, listed, reseal, prevLive, retained,
                 orphanAfter, recs, newp, drawn, backup, damage>>

Load ==
  /\ Begin
  /\ Decision = "accepted"
  /\ pc' = "loaded"
  /\ start' = runs'
  /\ sptr' = Best
  /\ attempted' = Best.gen
  /\ inv' = Inventory(Best).inv
  /\ listed' = Inventory(Best).listed
  /\ reseal' = Copies \ SectionCopies(Best)
  /\ prevLive' = LiveFiles(Best.recs, Best)
  /\ retained' = {}
  /\ orphanAfter' = Best.start
  /\ recs' = Best.recs
  /\ UNCHANGED <<disk, newp, drawn, backup, damage>>

(***************************************************************************)
(* The start sweep: SweepUnits and SweepContainersSplit under MayRemove.   *)
(***************************************************************************)
ListedLive == IF listed = None THEN {} ELSE listed.live
ListedRetained == IF listed = None THEN {} ELSE listed.retained

\* Mutant: what the list beside the record calls live is judged by its time alone.
MayRemoveMutant(f) == f \in ListedRetained \/ files[f].at >= sptr.start

MayRemove(f) ==
  /\ f \notin ListedLive
  /\ f \in ListedRetained \/ files[f].at >= sptr.start

\* Mutant: the sweep trusts the list and does not ask what the record names.
SweepableMutant ==
  {f \in FileNames : files[f] # None /\ MayRemove(f) /\ files[f].at < start}

Sweepable ==
  {f \in FileNames : /\ files[f] # None
                     /\ f \notin LiveFiles(sptr.recs, sptr)
                     /\ MayRemove(f)
                     /\ files[f].at < start}

\* Every removal that fails leaves its file; so does a kill between two removals.
Sweep ==
  /\ pc = "loaded"
  /\ IF listed # None
       THEN \E gone \in IF "remove" \in Trouble THEN SUBSET Sweepable ELSE {Sweepable} :
              /\ files' = [f \in FileNames |-> IF f \in gone THEN None ELSE files[f]]
              /\ shards' = [g \in Gens |->
                             IF shards[g] # None /\ g # inv.shard /\ shards[g].at < start
                               THEN None ELSE shards[g]]
       ELSE UNCHANGED <<files, shards>>
  /\ pc' = "running"
  /\ UNCHANGED <<ptr, mirror, top, env, hard, store, recs, newp, drawn, history>>

(***************************************************************************)
(* Captures: sealKind, Units.Write, and the manifest's entry.              *)
(***************************************************************************)
NextRev(u) == IF recs[u] = None THEN 1 ELSE recs[u].rev + 1

\* Units.Write: a taken name is a crashed run's orphan when a run since the record's
\* last commit wrote it, and is replaced; any other is refused.
MayWrite(f) ==
  files[f] # None => orphanAfter # 0 /\ files[f].at >= orphanAfter

CanCapture(u) ==
  /\ pc = "running" /\ ~Fresh
  /\ "update" \in Captures
  /\ NextRev(u) \in Revs /\ drawn < MaxDraws
  /\ MayWrite(Unit(u, NextRev(u)))

Capture(u) ==
  /\ CanCapture(u)
  /\ drawn' = drawn + 1
  /\ files' = [files EXCEPT ![Unit(u, NextRev(u))] = [bytes |-> drawn + 1, at |-> start]]
  /\ recs' = [recs EXCEPT ![u] = [rev |-> NextRev(u), bytes |-> drawn + 1]]
  /\ UNCHANGED <<ptr, mirror, top, shards, env, hard, store, pc, newp, history>>

\* The message's export fails after its unit was written: endStage removes it, and
\* what it replaced is gone too.
CaptureFails(u) ==
  /\ CanCapture(u)
  /\ "write" \in Trouble
  /\ drawn' = drawn + 1
  /\ files' = [files EXCEPT ![Unit(u, NextRev(u))] = None]
  /\ UNCHANGED <<ptr, mirror, top, shards, env, hard, store, pc, recs, newp, history>>

\* A capture that has nothing to seal of this kind (attachments that could not be
\* read) drops the record's unit; its file goes at a later sweep.
Drop(u) ==
  /\ pc = "running" /\ ~Fresh
  /\ "drop" \in Captures
  /\ recs[u] # None
  /\ recs' = [recs EXCEPT ![u] = None]
  /\ UNCHANGED <<disk, hard, store, pc, newp, drawn, history>>

(***************************************************************************)
(* The save: Init's preparation, then Commit step by step.                 *)
(***************************************************************************)
\* A save that fails before its pointer landed leaves a first run nothing to go on.
AfterFailure == IF Fresh THEN "ended" ELSE "running"

\* Init: an interrupted first commit's leftovers go, then the envelope is written.
Prepare ==
  /\ pc = "fresh"
  /\ files' = [f \in FileNames |-> IF f \in ChunkNames THEN None ELSE files[f]]
  /\ env' = "present"
  /\ pc' = "running"
  /\ UNCHANGED <<ptr, mirror, top, shards, hard, store, recs, newp, drawn, history>>

\* Mutant: generations follow the last commit known to have landed.
GenMutant == IF sptr = None THEN 1 ELSE sptr.gen + 1
Gen == attempted + 1

\* Mutant: a lost chunk copy is not sealed again.
SectionChangedMutant == IF Fresh THEN TRUE ELSE recs # sptr.recs

SectionChanged == IF Fresh THEN TRUE ELSE reseal # {} \/ recs # sptr.recs

\* Mutant: the pointer claims the file list its own save has yet to write.
NewPointerMutant(n) ==
  [gen |-> Gen, inv |-> Gen, start |-> start, sect |-> n, recs |-> recs]

NewPointer(n) ==
  [gen |-> Gen, inv |-> IF inv = None THEN 0 ELSE inv.gen, start |-> start,
   sect |-> n, recs |-> recs]

ChunkWritten(f, n, copies) ==
  [g \in FileNames |->
     IF g \in {Chunk(n, i) : i \in copies} THEN [bytes |-> n, at |-> start] ELSE f[g]]

\* The changed section is sealed twice under names drawn for it.
Seal ==
  /\ pc = "running"
  /\ Gen \in Gens
  /\ \/ /\ SectionChanged
        /\ drawn < MaxDraws
        /\ drawn' = drawn + 1
        /\ files' = ChunkWritten(files, drawn + 1, Copies)
        /\ newp' = NewPointer(drawn + 1)
     \/ /\ ~SectionChanged
        /\ newp' = NewPointer(sptr.sect)
        /\ UNCHANGED <<drawn, files>>
  /\ pc' = "prove"
  /\ UNCHANGED <<ptr, mirror, top, shards, env, hard, store, recs, history>>

\* A chunk cannot be written: at most one copy is left behind.
SealFails ==
  /\ pc = "running"
  /\ Gen \in Gens
  /\ "write" \in Trouble
  /\ SectionChanged
  /\ drawn < MaxDraws
  /\ drawn' = drawn + 1
  /\ \E copies \in {{}, {1}} : files' = ChunkWritten(files, drawn + 1, copies)
  /\ pc' = AfterFailure
  /\ UNCHANGED <<ptr, mirror, top, shards, env, hard, store, recs, newp, history>>

ProveLock ==
  /\ pc = "prove"
  /\ pc' = "rename"
  /\ UNCHANGED <<disk, hard, store, recs, newp, drawn, history>>

\* ErrLockLost ends the run.
LockLost ==
  /\ pc = "prove"
  /\ "lock" \in Trouble
  /\ Forget
  /\ UNCHANGED <<disk, hard, drawn, history>>

\* [COMMIT].  The memory follows only a rename that reported success.
Land ==
  /\ pc = "rename"
  /\ ptr' = newp
  /\ sptr' = newp
  /\ attempted' = newp.gen
  /\ reseal' = {}
  /\ pc' = "mirror"
  /\ UNCHANGED <<files, mirror, top, shards, env, hard, start, inv, listed,
                 prevLive, retained, orphanAfter, recs, newp, drawn, history>>

\* A rename that reports an error may have landed all the same.
RenameFails ==
  /\ pc = "rename"
  /\ "write" \in Trouble
  /\ attempted' = newp.gen
  /\ ptr' \in {ptr, newp}
  /\ newp' = None
  /\ pc' = AfterFailure
  /\ UNCHANGED <<files, mirror, top, shards, env, hard, start, sptr, inv, listed, reseal,
                 prevLive, retained, orphanAfter, recs, drawn, history>>

\* A mirror that cannot be written is left for the next save.
WriteMirror ==
  /\ pc = "mirror"
  /\ mirror' \in IF "write" \in Trouble THEN {newp, mirror} ELSE {newp}
  /\ pc' = IF env # "present" THEN "envelope" ELSE "shard"
  /\ UNCHANGED <<files, ptr, top, shards, env, hard, store, recs, newp, drawn, history>>

\* An envelope the load found missing or unreadable.
HealEnvelope ==
  /\ pc = "envelope"
  /\ env' \in IF "write" \in Trouble THEN {"present", env} ELSE {"present"}
  /\ pc' = "shard"
  /\ UNCHANGED <<files, ptr, mirror, top, shards, hard, store, recs, newp, drawn, history>>

\* What the new inventory lists: the files superseded since the run's first commit
\* stay, retained, beside the live ones.
NewLive == LiveFiles(recs, sptr)
NewRetained == (retained \cup prevLive) \ NewLive
NewList == [live |-> NewLive, retained |-> NewRetained]

\* Mutant: what the save superseded is removed at once.
WriteShardMutant ==
  /\ pc = "shard"
  /\ prevLive' = NewLive
  /\ retained' = {}
  /\ files' = [f \in FileNames |-> IF f \in NewRetained THEN None ELSE files[f]]
  /\ shards' = [shards EXCEPT ![sptr.gen] =
                  [list |-> [live |-> NewLive, retained |-> {}], at |-> start]]
  /\ pc' = "top"
  /\ UNCHANGED <<ptr, mirror, top, env, hard, start, sptr, attempted, inv, listed,
                 reseal, orphanAfter, recs, newp, drawn, history>>

WriteShard ==
  /\ pc = "shard"
  /\ prevLive' = NewLive
  /\ retained' = NewRetained
  /\ \/ /\ shards' = IF listed = NewList THEN shards
                     ELSE [shards EXCEPT ![sptr.gen] = [list |-> NewList, at |-> start]]
        /\ pc' = "top"
     \/ /\ "write" \in Trouble
        /\ pc' = "running"
        /\ UNCHANGED shards
  /\ UNCHANGED <<files, ptr, mirror, top, env, hard, start, sptr, attempted, inv, listed,
                 reseal, orphanAfter, recs, newp, drawn, history>>

\* Mutant: the file list is stamped with the generation after the pointer's.
NewTopMutant ==
  LET list == [live |-> prevLive, retained |-> retained]
  IN  [gen |-> Gen, of |-> sptr, list |-> list,
       shard |-> IF listed = list THEN inv.shard ELSE sptr.gen]

NewTop ==
  LET list == [live |-> prevLive, retained |-> retained]
  IN  [gen |-> sptr.gen, of |-> sptr, list |-> list,
       shard |-> IF listed = list THEN inv.shard ELSE sptr.gen]

WriteTop ==
  /\ pc = "top"
  /\ \/ /\ top' = NewTop
        /\ inv' = NewTop
        /\ listed' = NewTop.list
     \/ /\ "write" \in Trouble
        /\ UNCHANGED <<top, inv, listed>>
  /\ pc' = "running"
  /\ newp' = None
  /\ UNCHANGED <<files, ptr, mirror, shards, env, hard, start, sptr, attempted, reseal,
                 prevLive, retained, orphanAfter, recs, drawn, history>>

(***************************************************************************)
(* What happens to the run and to the folder from outside.                 *)
(***************************************************************************)
\* The run ends, or is killed anywhere: nothing more is written.
Stop ==
  /\ pc # "idle"
  /\ Forget
  /\ UNCHANGED <<disk, hard, drawn, history>>

\* What was renamed so far reaches the drive.
Flush ==
  /\ "cut" \in Trouble
  /\ hard # <<ptr, mirror, top>>
  /\ hardPtr' = ptr /\ hardMirror' = mirror /\ hardTop' = top
  /\ UNCHANGED <<disk, store, pc, recs, newp, drawn, history>>

\* The power goes: each root file is what it was, or what had reached the drive.
PowerCut ==
  /\ "cut" \in Trouble
  /\ pc # "idle"
  /\ damage < MaxDamage
  /\ damage' = damage + 1
  /\ ptr' \in {ptr, hardPtr}
  /\ mirror' \in {mirror, hardMirror}
  /\ top' \in {top, hardTop}
  /\ hardPtr' = ptr' /\ hardMirror' = mirror' /\ hardTop' = top'
  /\ Forget
  /\ UNCHANGED <<files, shards, env, drawn, runs, verdict, backup>>

\* One file of the record is damaged or lost, between runs.
Damage ==
  /\ pc = "idle"
  /\ damage < MaxDamage
  /\ damage' = damage + 1
  /\ \/ /\ "pointer" \in Damages
        /\ \/ Readable(ptr) /\ ptr' \in {None, Bad} /\ UNCHANGED mirror
           \/ Readable(mirror) /\ mirror' \in {None, Bad} /\ UNCHANGED ptr
        /\ UNCHANGED <<files, top, shards, env>>
     \/ /\ "chunk" \in Damages
        /\ \E n \in Draws, i \in Copies :
             files[Chunk(n, i)] # None /\ files' = [files EXCEPT ![Chunk(n, i)] = None]
        /\ UNCHANGED <<ptr, mirror, top, shards, env>>
     \/ /\ "shard" \in Damages
        /\ \E g \in Gens : shards[g] # None /\ shards' = [shards EXCEPT ![g] = None]
        /\ UNCHANGED <<files, ptr, mirror, top, env>>
     \/ /\ "top" \in Damages
        /\ top # None /\ top' \in {None, Bad}
        /\ UNCHANGED <<files, ptr, mirror, shards, env>>
     \/ /\ "envelope" \in Damages
        /\ env' \in {"absent", "unreadable"} \ {env}
        /\ UNCHANGED <<files, ptr, mirror, top, shards>>
  /\ UNCHANGED <<hard, store, pc, recs, newp, drawn, runs, verdict, backup>>

\* A user keeps a copy of the record pointer's two files and puts it back later.
Keep ==
  /\ "record" \in Restores
  /\ pc = "idle" /\ backup = None /\ Readable(ptr)
  /\ backup' = [ptr |-> ptr, mirror |-> mirror]
  /\ UNCHANGED <<disk, hard, store, pc, recs, newp, drawn, runs, verdict, damage>>

Restore ==
  /\ "record" \in Restores
  /\ pc = "idle" /\ backup # None
  /\ ptr' = backup.ptr /\ mirror' = backup.mirror
  /\ UNCHANGED <<files, top, shards, env, hard, store, pc, recs, newp, drawn, history>>

Next ==
  \/ Refuse \/ LoadFresh \/ Load \/ Sweep
  \/ \E u \in Units : Capture(u) \/ CaptureFails(u) \/ Drop(u)
  \/ Prepare \/ Seal \/ SealFails \/ ProveLock \/ LockLost \/ Land \/ RenameFails
  \/ WriteMirror \/ HealEnvelope \/ WriteShard \/ WriteTop
  \/ Stop \/ Flush \/ PowerCut \/ Damage \/ Keep \/ Restore

Spec == Init /\ [][Next]_vars

(***************************************************************************)
(* Properties.                                                             *)
(***************************************************************************)
\* Whatever instant the run is stopped at, the record a load would take names two
\* chunk copies and unit files that are all on disk with the bytes it recorded:
\* nothing a save, a sweep or a capture removes or writes is still named.
NamedFilesIntact == Readable(Best) => Intact(Best)

\* Every file the durable file list calls live is on disk, also when later saves have
\* superseded it: an older copy of the record put back is never short of files while
\* the list beside it says otherwise.
ListedFilesIntact == Readable(top) => Intact(top.of)

\* Being killed anywhere, with any write or removal failing, never makes the record
\* one the next run refuses.  A power cut may: the list can be ahead of the pointer.
KillNeverLocksOut == damage = 0 => verdict \in {"none", "fresh", "accepted"}

\* A pointer that lands is of a later generation than every copy and every file list
\* on disk: two different records never carry one generation.
LandsAsNewest ==
  [][ptr' # ptr /\ pc = "rename" /\ pc' # "idle" =>
       /\ \A q \in {ptr, mirror} : Readable(q) => ptr'.gen > q.gen
       /\ Readable(top) => ptr'.gen > top.gen]_vars

\* Every part of the record is there twice, and the file list is its own.
Redundant ==
  /\ Readable(ptr) /\ mirror = ptr /\ SectionCopies(ptr) = Copies
  /\ env = "present"
  /\ Readable(top) /\ top.of = ptr
  /\ shards[top.shard] # None /\ shards[top.shard].list = top.list

\* A save of which nothing failed leaves every part of the record twice, whatever was
\* damaged before the run that made it.
FullSaveHeals ==
  [][pc = "top" /\ pc' = "running" /\ top' # top /\ mirror = ptr /\ env = "present" =>
       Redundant']_vars

\* Losing one pointer copy, one chunk copy, the envelope or the list's shard of a
\* record that is whole costs nothing: the next load takes the same record.
OneLossIsSurvived ==
  [][pc = "idle" /\ damage' # damage /\ Redundant /\ top' = top =>
       /\ Decision' = "accepted"
       /\ Best'.recs = ptr.recs /\ Best'.gen = ptr.gen]_vars

\* A load that goes on has a whole record before it: an older pointer put back is
\* refused while the file list tells, and complete when it does not.
AcceptedIsIntact == pc = "loaded" => SectionCopies(sptr) # {} /\ UnitsIntact(sptr.recs)
=============================================================================
