------------------------- MODULE SealedRecordProofs -------------------------
(***************************************************************************)
(* The properties of the sealed record, for any number of units, runs and  *)
(* generations, with writes, removals and the lock proof failing and with  *)
(* kills anywhere.  What each theorem sets aside:                          *)
(*                                                                         *)
(*   NamedFilesIntact, ListedFilesIntact   damage from outside, an old     *)
(*      copy put back, a capture that drops a unit (Quiet)                 *)
(*   FullSaveHeals, OneLossIsSurvived      nothing                         *)
(*   LandsAsNewest       a lost shard of the file list                     *)
(*   KillNeverLocksOut   an old copy put back (damage and power cuts are   *)
(*                       set aside by the property itself)                 *)
(*   AcceptedIsIntact    damage, power cuts and dropped units, but no old  *)
(*                       copy put back (Handled)                           *)
(*                                                                         *)
(* Seven invariants carry them: TInv (the types, which nothing breaks),    *)
(* IInv (the copies a power cut could leave), HealInv (redundancy),        *)
(* NewestInv (generations), KillInv (the copies in step), ListInv (the     *)
(* files of a list), BackInv (the copy a user keeps).                      *)
(***************************************************************************)
EXTENDS SealedRecord, TLAPS

\* What the run's position says of its memory.
PositionOK ==
  /\ pc # "idle" => start \in Runs
  /\ pc \in {"loaded", "mirror", "envelope", "shard", "top"} => sptr # None
  /\ pc \in {"prove", "rename", "mirror"} => newp # None
  /\ listed # None => inv # None
  /\ backup # None => /\ backup.ptr \in Pointer \cup {None, Bad}
                      /\ backup.mirror \in Pointer \cup {None, Bad}

TInv == TypeOK /\ PositionOK

LEMMA TypesInit == Init => TInv
<1> SUFFICES ASSUME Init PROVE TInv
  OBVIOUS
<1>1. FolderOK
  BY DEF Init, FolderOK
<1>2. MemoryOK
  BY BoundsAssumption DEF Init, MemoryOK, NoRecords, Records, PCs
<1>3. HistoryOK
  BY BoundsAssumption DEF Init, HistoryOK, Verdicts
<1>4. PositionOK
  BY DEF Init, PositionOK
<1> QED BY <1>1, <1>2, <1>3, <1>4 DEF TInv, TypeOK

\* The fields of the values the run keeps.
LEMMA PointerFields ==
  ASSUME NEW p \in Pointer
  PROVE  /\ p.gen \in Gens /\ p.inv \in 0..MaxGen /\ p.start \in Runs
         /\ p.sect \in Draws /\ p.recs \in Records
BY DEF Pointer

LEMMA TopFields ==
  ASSUME NEW t \in Top
  PROVE  t.gen \in Gens /\ t.of \in Pointer /\ t.shard \in Gens /\ t.list \in List
BY DEF Top

LEMMA ListFields ==
  ASSUME NEW l \in List
  PROVE  l.live \subseteq FileNames /\ l.retained \subseteq FileNames
BY DEF List

LEMMA LiveFilesAreNames ==
  ASSUME NEW rs \in Records, NEW p \in Pointer
  PROVE  LiveFiles(rs, p) \subseteq FileNames
<1>1. \A u \in Units : rs[u] # None => Unit(u, rs[u].rev) \in FileNames
  BY DEF Records, Record, FileNames, UnitNames
<1>2. \A i \in Copies : Chunk(p.sect, i) \in FileNames
  BY PointerFields DEF FileNames, ChunkNames
<1> QED BY <1>1, <1>2 DEF LiveFiles

\* A step that leaves the folder, or the run's memory, as it was.
LEMMA FolderUntouched ==
  ASSUME FolderOK, UNCHANGED <<disk, hard>>
  PROVE  FolderOK'
BY DEF FolderOK, disk, hard

LEMMA MemoryUntouched ==
  ASSUME MemoryOK, UNCHANGED <<store, pc, recs, newp>>
  PROVE  MemoryOK'
BY DEF MemoryOK, store

LEMMA HistoryUntouched ==
  ASSUME HistoryOK, UNCHANGED <<drawn, history>>
  PROVE  HistoryOK'
BY DEF HistoryOK, history

LEMMA PositionUntouched ==
  ASSUME PositionOK, UNCHANGED <<store, pc, newp, backup>>
  PROVE  PositionOK'
BY DEF PositionOK, store

(***************************************************************************)
(* The load.                                                               *)
(***************************************************************************)
LEMMA BestIsAPointer ==
  ASSUME TInv
  PROVE  Best \in Pointer \cup {None, Bad} /\ (Readable(Best) => Best \in Pointer)
BY DEF TInv, TypeOK, FolderOK, Best, Readable

LEMMA InventoryFits ==
  ASSUME TInv, NEW p
  PROVE  /\ Inventory(p).inv \in Top \cup {None}
         /\ Inventory(p).listed \in List \cup {None}
         /\ Inventory(p).listed # None => Inventory(p).inv # None
<1>1. top \in Top \cup {None, Bad}
  BY DEF TInv, TypeOK, FolderOK
<1>2. CASE Inventory(p) = NoInventory
  BY <1>2 DEF NoInventory
<1>3. CASE Readable(top) /\ Inventory(p) = [inv |-> top, listed |-> top.list]
  BY <1>1, <1>3, TopFields, MarksAssumption DEF Readable
<1>4. CASE Readable(top) /\ Inventory(p) = [inv |-> top, listed |-> None]
  BY <1>1, <1>4 DEF Readable
<1> QED BY <1>2, <1>3, <1>4 DEF Inventory

LEMMA DecisionFits == Decision \in Verdicts
<1>1. \A p, i : F12(p, i) \in Verdicts
  BY DEF F12, Verdicts
<1> QED BY <1>1 DEF Decision, Verdicts

LEMMA BeginTypes ==
  ASSUME TInv, Begin, UNCHANGED <<disk, drawn, damage>>
  PROVE  FolderOK' /\ HistoryOK' /\ runs' \in Runs
<1>1. FolderOK'
  BY DEF TInv, TypeOK, FolderOK, Begin, disk
<1>2. runs' \in Runs
  BY BoundsAssumption DEF TInv, TypeOK, HistoryOK, Begin, Runs
<1>3. HistoryOK'
  BY <1>2, DecisionFits DEF TInv, TypeOK, HistoryOK, Begin, Runs
<1> QED BY <1>1, <1>2, <1>3

LEMMA RefuseTypes == ASSUME TInv, Refuse PROVE TInv'
<1>1. FolderOK' /\ HistoryOK'
  BY BeginTypes DEF Refuse
<1>2. MemoryOK' /\ PositionOK'
  BY MemoryUntouched, PositionUntouched DEF Refuse, TInv, TypeOK
<1> QED BY <1>1, <1>2 DEF TInv, TypeOK

LEMMA LoadFreshTypes == ASSUME TInv, LoadFresh PROVE TInv'
<1>1. FolderOK' /\ HistoryOK' /\ runs' \in Runs
  BY BeginTypes DEF LoadFresh
<1>2. MemoryOK'
  BY <1>1, BoundsAssumption DEF LoadFresh, TInv, TypeOK, MemoryOK, Runs, PCs
<1>3. PositionOK'
  BY <1>1 DEF LoadFresh, TInv, PositionOK
<1> QED BY <1>1, <1>2, <1>3 DEF TInv, TypeOK

LEMMA LoadTypes == ASSUME TInv, Load PROVE TInv'
<1>1. FolderOK' /\ HistoryOK' /\ runs' \in Runs
  BY BeginTypes DEF Load
<1>2. Best \in Pointer
  <2>1. Decision = "accepted"
    BY DEF Load
  <2> QED BY <2>1, BestIsAPointer DEF Decision
<1>3. /\ Best.gen \in 0..MaxGen /\ Best.start \in 0..MaxRuns
      /\ Best.recs \in Records /\ LiveFiles(Best.recs, Best) \subseteq FileNames
  BY <1>2, PointerFields, LiveFilesAreNames DEF Gens, Runs
<1>4. /\ Inventory(Best).inv \in Top \cup {None}
      /\ Inventory(Best).listed \in List \cup {None}
      /\ Inventory(Best).listed # None => Inventory(Best).inv # None
  BY InventoryFits
<1>5. MemoryOK'
  <2>1. start' \in 0..MaxRuns /\ pc' \in PCs
    BY <1>1, BoundsAssumption DEF Load, Runs, PCs
  <2>2. reseal' \subseteq Copies /\ retained' \subseteq FileNames /\ newp' = newp
    BY DEF Load
  <2> QED BY <1>2, <1>3, <1>4, <2>1, <2>2 DEF Load, TInv, TypeOK, MemoryOK
<1>6. PositionOK'
  BY <1>1, <1>2, <1>4, MarksAssumption DEF Load, TInv, PositionOK
<1> QED BY <1>1, <1>5, <1>6 DEF TInv, TypeOK

(***************************************************************************)
(* Steps that change the unit and chunk files and nothing the run keeps    *)
(* but the records, the new pointer and its position.                      *)
(***************************************************************************)
LEMMA FilesStepTypes ==
  ASSUME TInv, UNCHANGED <<ptr, mirror, top, hard, store, runs, verdict, backup, damage>>,
         files' \in [FileNames -> File \cup {None}],
         shards' \in [Gens -> Shard \cup {None}],
         env' \in {"absent", "present", "unreadable"},
         pc' \in PCs, recs' \in Records, newp' \in Pointer \cup {None},
         drawn' \in 0..MaxDraws,
         pc # "idle", pc' \in {"loaded", "mirror", "envelope", "shard", "top"} => sptr # None,
         pc' \in {"prove", "rename", "mirror"} => newp' # None
  PROVE  TInv'
<1>1. FolderOK'
  BY DEF TInv, TypeOK, FolderOK, hard
<1>2. MemoryOK'
  BY DEF TInv, TypeOK, MemoryOK, store
<1>3. HistoryOK'
  BY DEF TInv, TypeOK, HistoryOK
<1>4. PositionOK'
  BY DEF TInv, PositionOK, store
<1> QED BY <1>1, <1>2, <1>3, <1>4 DEF TInv, TypeOK

LEMMA SweepTypes == ASSUME TInv, Sweep PROVE TInv'
<1>1. files' \in [FileNames -> File \cup {None}] /\ shards' \in [Gens -> Shard \cup {None}]
  BY DEF Sweep, TInv, TypeOK, FolderOK
<1>2. /\ pc # "idle" /\ pc' = "running"
      /\ UNCHANGED <<ptr, mirror, top, env, hard, store, recs, newp, drawn, history>>
  BY DEF Sweep
<1>3. /\ env \in {"absent", "present", "unreadable"} /\ recs \in Records
      /\ newp \in Pointer \cup {None} /\ drawn \in 0..MaxDraws
  BY DEF TInv, TypeOK, FolderOK, MemoryOK, HistoryOK
<1> QED BY <1>1, <1>2, <1>3, FilesStepTypes DEF PCs, history

LEMMA FileFits ==
  ASSUME TInv, pc # "idle", drawn < MaxDraws, drawn' = drawn + 1
  PROVE  /\ drawn + 1 \in Draws /\ drawn' \in 0..MaxDraws
         /\ [bytes |-> drawn + 1, at |-> start] \in File
<1>1. drawn + 1 \in Draws /\ drawn' \in 0..MaxDraws
  BY BoundsAssumption DEF TInv, TypeOK, HistoryOK, Draws
<1> QED BY <1>1 DEF TInv, PositionOK, File

LEMMA CaptureTypes == ASSUME TInv, NEW u \in Units, Capture(u) \/ CaptureFails(u) PROVE TInv'
<1>1. /\ pc = "running" /\ pc' = pc /\ NextRev(u) \in Revs
      /\ drawn < MaxDraws /\ drawn' = drawn + 1
      /\ UNCHANGED <<ptr, mirror, top, shards, env, hard, store, newp, history>>
  BY DEF Capture, CaptureFails, CanCapture
<1>2. /\ drawn + 1 \in Draws /\ drawn' \in 0..MaxDraws
      /\ [bytes |-> drawn + 1, at |-> start] \in File
  BY <1>1, FileFits
<1>3. /\ files \in [FileNames -> File \cup {None}] /\ shards \in [Gens -> Shard \cup {None}]
      /\ env \in {"absent", "present", "unreadable"} /\ recs \in Records
      /\ newp \in Pointer \cup {None}
  BY DEF TInv, TypeOK, FolderOK, MemoryOK
<1>4. files' \in [FileNames -> File \cup {None}]
  BY <1>2, <1>3 DEF Capture, CaptureFails
<1>5. recs' \in Records
  <2>1. [rev |-> NextRev(u), bytes |-> drawn + 1] \in Record
    BY <1>1, <1>2 DEF Record
  <2> QED BY <1>3, <2>1 DEF Capture, CaptureFails, Records
<1> QED BY <1>1, <1>2, <1>3, <1>4, <1>5, FilesStepTypes DEF PCs, history

LEMMA DropTypes == ASSUME TInv, NEW u \in Units, Drop(u) PROVE TInv'
<1>1. recs' \in Records
  BY DEF Drop, TInv, TypeOK, MemoryOK, Records
<1>2. /\ pc = "running"
      /\ UNCHANGED <<disk, hard, store, pc, newp, drawn, history>>
  BY DEF Drop
<1>3. FolderOK' /\ HistoryOK' /\ PositionOK'
  BY <1>2, FolderUntouched, HistoryUntouched, PositionUntouched DEF TInv, TypeOK, history
<1>4. MemoryOK'
  BY <1>1, <1>2 DEF TInv, TypeOK, MemoryOK, store
<1> QED BY <1>3, <1>4 DEF TInv, TypeOK

(***************************************************************************)
(* The save.                                                               *)
(***************************************************************************)
LEMMA Kept ==
  ASSUME TInv
  PROVE  /\ files \in [FileNames -> File \cup {None}] /\ shards \in [Gens -> Shard \cup {None}]
         /\ env \in {"absent", "present", "unreadable"} /\ recs \in Records
         /\ ptr \in Pointer \cup {None, Bad} /\ mirror \in Pointer \cup {None, Bad}
         /\ newp \in Pointer \cup {None} /\ sptr \in Pointer \cup {None}
         /\ drawn \in 0..MaxDraws
BY DEF TInv, TypeOK, FolderOK, MemoryOK, HistoryOK

LEMMA PrepareTypes == ASSUME TInv, Prepare PROVE TInv'
<1>1. files' \in [FileNames -> File \cup {None}]
  BY Kept DEF Prepare
<1>2. /\ pc # "idle" /\ pc' = "running" /\ env' = "present"
      /\ UNCHANGED <<ptr, mirror, top, shards, hard, store, recs, newp, drawn, history>>
  BY DEF Prepare
<1> QED BY <1>1, <1>2, Kept, FilesStepTypes DEF PCs, history

LEMMA ChunksFit ==
  ASSUME TInv, NEW n, NEW copies, [bytes |-> n, at |-> start] \in File
  PROVE  ChunkWritten(files, n, copies) \in [FileNames -> File \cup {None}]
BY Kept DEF ChunkWritten

LEMMA NewPointerFits ==
  ASSUME TInv, pc # "idle", Gen \in Gens, NEW n \in Draws
  PROVE  NewPointer(n) \in Pointer
<1>1. start \in Runs
  BY DEF TInv, PositionOK
<1>2. (IF inv = None THEN 0 ELSE inv.gen) \in 0..MaxGen
  BY TopFields, BoundsAssumption DEF TInv, TypeOK, MemoryOK, Gens
<1> QED BY <1>1, <1>2, Kept DEF NewPointer, Pointer

LEMMA SealTypes == ASSUME TInv, Seal PROVE TInv'
<1>1. /\ pc = "running" /\ pc' = "prove" /\ Gen \in Gens
      /\ UNCHANGED <<ptr, mirror, top, shards, env, hard, store, recs, history>>
  BY DEF Seal
<1>2. CASE /\ drawn < MaxDraws /\ drawn' = drawn + 1
           /\ files' = ChunkWritten(files, drawn + 1, Copies)
           /\ newp' = NewPointer(drawn + 1)
  <2>1. /\ drawn + 1 \in Draws /\ drawn' \in 0..MaxDraws
        /\ [bytes |-> drawn + 1, at |-> start] \in File
    BY <1>1, <1>2, FileFits
  <2>2. files' \in [FileNames -> File \cup {None}]
    BY <1>2, <2>1, ChunksFit
  <2>3. newp' \in Pointer
    BY <1>1, <1>2, <2>1, NewPointerFits
  <2> QED BY <1>1, <2>1, <2>2, <2>3, Kept, MarksAssumption, FilesStepTypes DEF PCs, history
<1>3. CASE /\ ~SectionChanged /\ newp' = NewPointer(sptr.sect)
           /\ UNCHANGED <<drawn, files>>
  <2>1. sptr \in Pointer
    BY <1>3, Kept DEF SectionChanged, Fresh
  <2>2. newp' \in Pointer
    BY <1>1, <1>3, <2>1, PointerFields, NewPointerFits
  <2> QED BY <1>1, <1>3, <2>2, Kept, MarksAssumption, FilesStepTypes DEF PCs, history
<1> QED BY <1>2, <1>3 DEF Seal

LEMMA SealFailsTypes == ASSUME TInv, SealFails PROVE TInv'
<1>1. /\ pc = "running" /\ pc' \in {"running", "ended"}
      /\ drawn < MaxDraws /\ drawn' = drawn + 1
      /\ UNCHANGED <<ptr, mirror, top, shards, env, hard, store, recs, newp, history>>
  BY DEF SealFails, AfterFailure
<1>2. drawn' \in 0..MaxDraws /\ [bytes |-> drawn + 1, at |-> start] \in File
  BY <1>1, FileFits
<1>3. files' \in [FileNames -> File \cup {None}]
  BY <1>2, ChunksFit DEF SealFails
<1> QED BY <1>1, <1>2, <1>3, Kept, FilesStepTypes DEF PCs, history

LEMMA MemoryStepTypes ==
  ASSUME TInv, ProveLock \/ HealEnvelope PROVE TInv'
<1>1. /\ UNCHANGED <<files, ptr, mirror, top, shards, hard, store, recs, newp, drawn, history>>
      /\ env' \in {"absent", "present", "unreadable"}
      /\ \/ pc = "prove" /\ pc' = "rename"
         \/ pc = "envelope" /\ pc' = "shard"
  BY Kept DEF ProveLock, HealEnvelope, disk
<1>2. pc' = "shard" => sptr # None
  BY <1>1 DEF TInv, PositionOK
<1>3. pc' = "rename" => newp' # None
  BY <1>1 DEF TInv, PositionOK
<1> QED BY <1>1, <1>2, <1>3, Kept, FilesStepTypes DEF PCs, history

LEMMA LandTypes == ASSUME TInv, Land PROVE TInv'
<1>1. newp \in Pointer
  BY Kept DEF Land, TInv, PositionOK
<1>2. newp.gen \in 0..MaxGen
  BY <1>1, PointerFields DEF Gens
<1>3. FolderOK'
  BY <1>1 DEF Land, TInv, TypeOK, FolderOK, hard
<1>4. MemoryOK'
  BY <1>1, <1>2 DEF Land, TInv, TypeOK, MemoryOK, PCs
<1>5. HistoryOK'
  BY HistoryUntouched DEF Land, TInv, TypeOK
<1>6. PositionOK'
  BY <1>1, MarksAssumption DEF Land, TInv, PositionOK, history
<1> QED BY <1>3, <1>4, <1>5, <1>6 DEF TInv, TypeOK

LEMMA RenameFailsTypes == ASSUME TInv, RenameFails PROVE TInv'
<1>1. newp \in Pointer
  BY Kept DEF RenameFails, TInv, PositionOK
<1>2. newp.gen \in 0..MaxGen
  BY <1>1, PointerFields DEF Gens
<1>3. FolderOK'
  BY <1>1 DEF RenameFails, TInv, TypeOK, FolderOK, hard
<1>4. MemoryOK'
  BY <1>1, <1>2 DEF RenameFails, AfterFailure, TInv, TypeOK, MemoryOK, PCs
<1>5. HistoryOK'
  BY HistoryUntouched DEF RenameFails, TInv, TypeOK
<1>6. PositionOK'
  BY DEF RenameFails, AfterFailure, TInv, PositionOK, history
<1> QED BY <1>3, <1>4, <1>5, <1>6 DEF TInv, TypeOK

LEMMA WriteMirrorTypes == ASSUME TInv, WriteMirror PROVE TInv'
<1>1. mirror' \in Pointer \cup {None, Bad} /\ pc' \in {"envelope", "shard"} /\ pc = "mirror"
  BY Kept DEF WriteMirror
<1>2. FolderOK'
  BY <1>1 DEF WriteMirror, TInv, TypeOK, FolderOK, hard
<1>3. MemoryOK'
  BY <1>1 DEF WriteMirror, TInv, TypeOK, MemoryOK, PCs, store
<1>4. HistoryOK'
  BY HistoryUntouched DEF WriteMirror, TInv, TypeOK
<1>5. PositionOK'
  BY <1>1 DEF WriteMirror, TInv, PositionOK, store, history
<1> QED BY <1>2, <1>3, <1>4, <1>5 DEF TInv, TypeOK

LEMMA ListsFit ==
  ASSUME TInv, sptr # None
  PROVE  NewLive \subseteq FileNames /\ NewRetained \subseteq FileNames
<1>1. NewLive \subseteq FileNames
  BY Kept, LiveFilesAreNames DEF NewLive
<1> QED BY <1>1 DEF NewRetained, TInv, TypeOK, MemoryOK

LEMMA WriteShardTypes == ASSUME TInv, WriteShard PROVE TInv'
<1>1. /\ sptr \in Pointer
      /\ UNCHANGED <<files, ptr, mirror, top, env, hard, start, sptr, attempted, inv, listed,
                     reseal, orphanAfter, recs, newp, drawn, history>>
      /\ pc = "shard" /\ pc' \in {"top", "running"}
      /\ prevLive' = NewLive /\ retained' = NewRetained
  BY Kept DEF WriteShard, TInv, PositionOK
<1>2. NewLive \subseteq FileNames /\ NewRetained \subseteq FileNames
  BY <1>1, ListsFit, MarksAssumption
<1>3. [list |-> NewList, at |-> start] \in Shard
  <2>1. NewList \in List
    BY <1>2 DEF NewList, List
  <2> QED BY <1>1, <2>1 DEF Shard, TInv, PositionOK
<1>4. shards' \in [Gens -> Shard \cup {None}]
  BY <1>3, Kept DEF WriteShard
<1>5. FolderOK'
  BY <1>1, <1>4 DEF TInv, TypeOK, FolderOK, hard
<1>6. MemoryOK'
  BY <1>1, <1>2 DEF TInv, TypeOK, MemoryOK, PCs
<1>7. HistoryOK'
  BY <1>1, HistoryUntouched DEF TInv, TypeOK
<1>8. PositionOK'
  BY <1>1 DEF TInv, PositionOK, history
<1> QED BY <1>5, <1>6, <1>7, <1>8 DEF TInv, TypeOK

LEMMA NewTopFits ==
  ASSUME TInv, sptr \in Pointer
  PROVE  NewTop \in Top
<1> DEFINE list == [live |-> prevLive, retained |-> retained]
<1>1. list \in List
  BY DEF List, TInv, TypeOK, MemoryOK
<1>2. listed = list => inv \in Top
  <2>1. list # None
    BY <1>1, MarksAssumption
  <2> QED BY <2>1 DEF TInv, TypeOK, MemoryOK, PositionOK
<1>3. (IF listed = list THEN inv.shard ELSE sptr.gen) \in Gens
  BY <1>2, PointerFields, TopFields
<1>4. sptr.gen \in Gens
  BY PointerFields
<1> QED BY <1>1, <1>3, <1>4 DEF NewTop, Top

LEMMA WriteTopTypes == ASSUME TInv, WriteTop PROVE TInv'
<1>1. /\ sptr \in Pointer
      /\ UNCHANGED <<files, ptr, mirror, shards, env, hard, start, sptr, attempted, reseal,
                     prevLive, retained, orphanAfter, recs, drawn, history>>
      /\ pc = "top" /\ pc' = "running" /\ newp' = None
      /\ \/ top' = NewTop /\ inv' = NewTop /\ listed' = NewTop.list
         \/ UNCHANGED <<top, inv, listed>>
  BY Kept DEF WriteTop, TInv, PositionOK
<1>2. NewTop \in Top /\ NewTop.list \in List
  BY <1>1, NewTopFits, TopFields
<1>3. FolderOK'
  BY <1>1, <1>2 DEF TInv, TypeOK, FolderOK, hard
<1>4. MemoryOK'
  BY <1>1, <1>2 DEF TInv, TypeOK, MemoryOK, PCs
<1>5. HistoryOK'
  BY <1>1, HistoryUntouched DEF TInv, TypeOK
<1>6. PositionOK'
  BY <1>1, <1>2, MarksAssumption DEF TInv, PositionOK, history
<1> QED BY <1>3, <1>4, <1>5, <1>6 DEF TInv, TypeOK

(***************************************************************************)
(* Ends, kills, and what happens from outside.                             *)
(***************************************************************************)
LEMMA ForgetTypes ==
  ASSUME TInv, Forget, UNCHANGED backup
  PROVE  MemoryOK' /\ PositionOK'
<1>1. MemoryOK'
  BY BoundsAssumption DEF Forget, MemoryOK, NoRecords, Records, PCs
<1>2. PositionOK'
  BY DEF Forget, TInv, PositionOK
<1> QED BY <1>1, <1>2

LEMMA EndTypes == ASSUME TInv, Stop \/ LockLost PROVE TInv'
<1>1. Forget /\ UNCHANGED <<disk, hard, drawn, history>>
  BY DEF Stop, LockLost
<1>2. HistoryOK'
  BY <1>1, HistoryUntouched DEF TInv, TypeOK
<1> QED BY <1>1, <1>2, ForgetTypes, FolderUntouched DEF TInv, TypeOK, history

LEMMA PowerCutTypes == ASSUME TInv, PowerCut PROVE TInv'
<1>1. FolderOK'
  BY DEF PowerCut, TInv, TypeOK, FolderOK
<1>2. HistoryOK'
  BY BoundsAssumption DEF PowerCut, TInv, TypeOK, HistoryOK
<1> QED BY <1>1, <1>2, ForgetTypes DEF PowerCut, TInv, TypeOK

LEMMA FlushTypes == ASSUME TInv, Flush PROVE TInv'
<1>1. FolderOK'
  BY DEF Flush, TInv, TypeOK, FolderOK, disk
<1>2. MemoryOK' /\ HistoryOK' /\ PositionOK'
  BY MemoryUntouched, HistoryUntouched, PositionUntouched DEF Flush, TInv, TypeOK, history
<1> QED BY <1>1, <1>2 DEF TInv, TypeOK

LEMMA DamageTypes == ASSUME TInv, Damage PROVE TInv'
<1>1. UNCHANGED <<hard, store, pc, recs, newp, drawn, runs, verdict, backup>>
  BY DEF Damage
<1>2. damage' \in 0..MaxDamage
  BY BoundsAssumption DEF Damage, TInv, TypeOK, HistoryOK
<1>3. HistoryOK' /\ MemoryOK' /\ PositionOK'
  BY <1>1, <1>2, MemoryUntouched, PositionUntouched DEF TInv, TypeOK, HistoryOK
<1>4. /\ ptr' \in Pointer \cup {None, Bad} /\ mirror' \in Pointer \cup {None, Bad}
      /\ top' \in Top \cup {None, Bad}
      /\ env' \in {"absent", "present", "unreadable"}
  BY DEF Damage, TInv, TypeOK, FolderOK
<1>5. files' \in [FileNames -> File \cup {None}] /\ shards' \in [Gens -> Shard \cup {None}]
  BY Kept DEF Damage
<1>6. FolderOK'
  BY <1>1, <1>4, <1>5 DEF TInv, TypeOK, FolderOK, hard
<1> QED BY <1>3, <1>6 DEF TInv, TypeOK

LEMMA KeepTypes == ASSUME TInv, Keep PROVE TInv'
<1>1. FolderOK' /\ MemoryOK'
  BY FolderUntouched, MemoryUntouched DEF Keep, TInv, TypeOK
<1>2. HistoryOK'
  BY DEF Keep, TInv, TypeOK, HistoryOK
<1>3. PositionOK'
  BY Kept DEF Keep, TInv, PositionOK, store
<1> QED BY <1>1, <1>2, <1>3 DEF TInv, TypeOK

LEMMA RestoreTypes == ASSUME TInv, Restore PROVE TInv'
<1>1. MemoryOK' /\ HistoryOK' /\ PositionOK'
  BY MemoryUntouched, HistoryUntouched, PositionUntouched DEF Restore, TInv, TypeOK, history
<1>2. FolderOK'
  BY DEF Restore, TInv, PositionOK, TypeOK, FolderOK, hard
<1> QED BY <1>1, <1>2 DEF TInv, TypeOK

LEMMA TypesStep == ASSUME TInv, [Next]_vars PROVE TInv'
<1>1. CASE UNCHANGED vars
  BY <1>1, FolderUntouched, MemoryUntouched, HistoryUntouched, PositionUntouched
     DEF vars, TInv, TypeOK, history
<1>2. CASE Refuse \/ LoadFresh \/ Load \/ Sweep \/ Prepare
  BY <1>2, RefuseTypes, LoadFreshTypes, LoadTypes, SweepTypes, PrepareTypes
<1>3. CASE \E u \in Units : Capture(u) \/ CaptureFails(u) \/ Drop(u)
  BY <1>3, CaptureTypes, DropTypes
<1>4. CASE Seal \/ SealFails \/ ProveLock \/ HealEnvelope \/ Land \/ RenameFails
  BY <1>4, SealTypes, SealFailsTypes, MemoryStepTypes, LandTypes, RenameFailsTypes
<1>5. CASE WriteMirror \/ WriteShard \/ WriteTop
  BY <1>5, WriteMirrorTypes, WriteShardTypes, WriteTopTypes
<1>6. CASE LockLost \/ Stop \/ Flush \/ PowerCut
  BY <1>6, EndTypes, FlushTypes, PowerCutTypes
<1>7. CASE Damage \/ Keep \/ Restore
  BY <1>7, DamageTypes, KeepTypes, RestoreTypes
<1> QED BY <1>1, <1>2, <1>3, <1>4, <1>5, <1>6, <1>7 DEF Next

\* With the facts about a run's position that make it inductive.
THEOREM PositionsAndTypes == Spec => []TInv
<1> QED BY TypesInit, TypesStep, PTL DEF Spec

\* Every file, copy and list keeps its shape, and generations, revisions and drawn
\* bytes stay in their bounds, through every failure, damage and restore.
THEOREM TypesAreKept == Spec => []TypeOK
<1>1. TInv => TypeOK
  BY DEF TInv
<1> QED BY <1>1, PositionsAndTypes, PTL

(***************************************************************************)
(* Whole records.                                                          *)
(***************************************************************************)
Quiet == Damages = {} /\ "record" \notin Restores /\ "drop" \notin Captures

(***************************************************************************)
(* Pointers over an explicit folder f.                                     *)
(***************************************************************************)
Has(f, name, bytes) == f[name] # None /\ f[name].bytes = bytes

ChunksIn(f, n) == \A i \in Copies : Has(f, Chunk(n, i), n)

UnitsIn(f, rs) == \A u \in Units : rs[u] # None => Has(f, Unit(u, rs[u].rev), rs[u].bytes)

WholeIn(f, p) == ChunksIn(f, p.sect) /\ UnitsIn(f, p.recs)

(***************************************************************************)
(* The invariant.  A power cut may bring back an older pointer, so it      *)
(* speaks of every copy a cut could leave, hardened ones included: each    *)
(* that a load could still take is whole.                                  *)
(***************************************************************************)
G(p) == IF p = None THEN 0 ELSE p.gen

Disk == {ptr, mirror, hardPtr, hardMirror}

\* A copy some power cut could make the best one.
Takable(p) == p # None /\ G(hardPtr) =< G(p) /\ G(hardMirror) =< G(p)

PointerLike(p) ==
  /\ p # Bad
  /\ p.gen \in Nat \ {0}
  /\ p.sect \in Draws /\ p.sect =< drawn
  /\ p.recs \in Records

Typed ==
  /\ DOMAIN files = FileNames
  /\ drawn \in Nat /\ attempted \in Nat
  /\ recs \in Records
  /\ \A p \in Disk \cup {sptr, newp} : p # None => PointerLike(p)

Ordered ==
  /\ G(hardPtr) =< G(ptr)
  /\ G(hardMirror) =< G(mirror)
  /\ \A p, q \in Disk : p # None /\ q # None /\ p.gen = q.gen => p = q

TakableWhole == \A p \in Disk : Takable(p) => WholeIn(files, p)

\* What a run under way knows: its generations are ahead of the folder's, its
\* records never go back below a takable copy's, and what it has is whole.
Running ==
  pc # "idle" =>
    /\ \A p \in Disk : G(p) =< attempted
    /\ \A p \in Disk, u \in Units :
         Takable(p) /\ p.recs[u] # None => recs[u] # None /\ p.recs[u].rev =< recs[u].rev
    /\ UnitsIn(files, recs)
    /\ sptr # None => ChunksIn(files, sptr.sect)

AtStep ==
  /\ pc = "idle" => attempted = 0 /\ sptr = None /\ recs = NoRecords
  /\ pc = "loaded" =>
       /\ sptr # None /\ sptr = Best
       /\ hardPtr = ptr /\ hardMirror = mirror
       /\ recs = sptr.recs
  /\ pc = "fresh" => attempted = 0 /\ sptr = None
  /\ pc \in {"prove", "rename"} =>
       /\ newp # None /\ newp.gen = attempted + 1
       /\ newp.recs = recs
       /\ ChunksIn(files, newp.sect)
  /\ pc = "mirror" => newp # None /\ newp = ptr /\ newp.gen = attempted

IInv == Typed /\ Ordered /\ TakableWhole /\ Running /\ AtStep

(***************************************************************************)
(* Names and pointers.                                                     *)
(***************************************************************************)
LEMMA UnitNameApart ==
  ASSUME NEW u, NEW v, NEW r, NEW s, Unit(u, r) = Unit(v, s)
  PROVE  u = v /\ r = s
BY DEF Unit

LEMMA ChunkNameApart ==
  ASSUME NEW n, NEW m, NEW i, NEW j, Chunk(n, i) = Chunk(m, j)
  PROVE  n = m /\ i = j
BY DEF Chunk

LEMMA UnitIsNoChunk ==
  ASSUME NEW u, NEW r, NEW n, NEW i
  PROVE  Unit(u, r) # Chunk(n, i)
BY DEF Unit, Chunk

LEMMA WholeIsIntact ==
  ASSUME NEW p
  PROVE  Intact(p) <=> WholeIn(files, p)
<1>1. (SectionCopies(p) = Copies) <=> ChunksIn(files, p.sect)
  BY DEF SectionCopies, ChunksIn, Holds, Has
<1>2. UnitsIntact(p.recs) <=> UnitsIn(files, p.recs)
  BY DEF UnitsIntact, UnitsIn, Holds, Has
<1> QED BY <1>1, <1>2 DEF Intact, WholeIn

\* A pointer's files are judged by their names alone.
LEMMA ChunksKept ==
  ASSUME NEW f, NEW g, NEW n, ChunksIn(f, n), \A i \in Copies : g[Chunk(n, i)] = f[Chunk(n, i)]
  PROVE  ChunksIn(g, n)
BY DEF ChunksIn, Has

LEMMA UnitsKept ==
  ASSUME NEW f, NEW g, NEW rs, UnitsIn(f, rs),
         \A u \in Units : rs[u] # None => g[Unit(u, rs[u].rev)] = f[Unit(u, rs[u].rev)]
  PROVE  UnitsIn(g, rs)
BY DEF UnitsIn, Has

LEMMA NamesAreNames ==
  ASSUME NEW u \in Units, NEW r \in Revs, NEW n \in Draws, NEW i \in Copies
  PROVE  Unit(u, r) \in FileNames /\ Chunk(n, i) \in FileNames
BY DEF FileNames, UnitNames, ChunkNames

LEMMA InitHolds == Init => IInv
<1> SUFFICES ASSUME Init PROVE IInv
  OBVIOUS
<1>1. Typed
  BY DEF Init, Typed, Disk, Records, NoRecords
<1>2. Ordered /\ TakableWhole /\ Running /\ AtStep
  BY DEF Init, Ordered, TakableWhole, Takable, Running, AtStep, Disk, G
<1> QED BY <1>1, <1>2 DEF IInv

\* The best of the two copies on disk is one a load takes.
LEMMA BestIsTakable ==
  ASSUME IInv, Best # None
  PROVE  /\ Best \in {ptr, mirror} /\ Takable(Best)
         /\ G(ptr) =< G(Best) /\ G(mirror) =< G(Best)
<1>1. ptr # Bad /\ mirror # Bad
  BY MarksAssumption DEF IInv, Typed, Disk, PointerLike
<1>2. \A p \in Disk : p # None => p.gen \in Nat \ {0}
  BY DEF IInv, Typed, PointerLike
<1>3. Best \in {ptr, mirror} /\ G(ptr) =< G(Best) /\ G(mirror) =< G(Best)
  BY <1>1, <1>2 DEF Best, Readable, G, Disk
<1>4. \A p \in Disk : G(p) \in Nat
  BY <1>2 DEF G
<1> QED BY <1>3, <1>4 DEF IInv, Ordered, Takable, Disk

LEMMA InvariantImpliesProperty == IInv => NamedFilesIntact
<1> SUFFICES ASSUME IInv, Readable(Best) PROVE Intact(Best)
  BY DEF NamedFilesIntact
<1>1. Best \in Disk /\ Takable(Best)
  BY BestIsTakable DEF Readable, Disk
<1> QED BY <1>1, WholeIsIntact DEF IInv, TakableWhole
(***************************************************************************)
(* Steps that touch neither the files nor the copies of the pointer.       *)
(***************************************************************************)
LEMMA MemoryStepKeeps ==
  ASSUME IInv, pc # "idle",
         UNCHANGED <<files, ptr, mirror, hard, recs, sptr, attempted, drawn>>,
         newp' \in {newp, None},
         \/ pc' \in {"running", "envelope", "shard", "top", "ended"}
         \/ pc = "prove" /\ pc' = "rename" /\ newp' = newp
  PROVE  IInv'
<1>1. Disk' = Disk
  BY DEF Disk, hard
<1>2. Typed'
  BY <1>1 DEF IInv, Typed, PointerLike
<1>3. Ordered' /\ TakableWhole'
  BY <1>1 DEF IInv, Ordered, TakableWhole, Takable, G, hard
<1>4. Running'
  BY <1>1 DEF IInv, Running, Takable, G, hard
<1>5. AtStep'
  BY DEF IInv, AtStep
<1> QED BY <1>2, <1>3, <1>4, <1>5 DEF IInv

\* The run ends or is killed, and perhaps older copies come back.
LEMMA EndKeeps ==
  ASSUME IInv, Forget, UNCHANGED <<files, drawn>>,
         ptr' \in {ptr, hardPtr}, mirror' \in {mirror, hardMirror},
         \/ UNCHANGED <<ptr, mirror, hard>>
         \/ hardPtr' = ptr' /\ hardMirror' = mirror'
  PROVE  IInv'
<1>1. Disk' \subseteq Disk
  BY DEF Disk, hard
<1>2. Typed'
  BY <1>1 DEF IInv, Typed, PointerLike, Forget, Records, NoRecords
<1>3. \A p \in Disk : G(p) \in Nat
  BY DEF IInv, Typed, PointerLike, G
<1>4. G(hardPtr) =< G(hardPtr') /\ G(hardMirror) =< G(hardMirror')
  BY <1>3 DEF IInv, Ordered, Disk, hard
<1>5. Ordered'
  BY <1>1, <1>3 DEF IInv, Ordered, G, hard, Disk
<1>6. \A p \in Disk' : G(p) \in Nat /\ (Takable(p)' => Takable(p))
  BY <1>1, <1>3, <1>4 DEF Takable, G, Disk
<1>7. TakableWhole'
  BY <1>1, <1>6 DEF IInv, TakableWhole
<1> QED BY <1>2, <1>5, <1>7 DEF IInv, Running, AtStep, Forget

\* What was renamed reaches the drive, within a run or between two.
LEMMA HardenKeeps ==
  ASSUME IInv, UNCHANGED <<files, ptr, mirror, drawn>>, hardPtr' = ptr, hardMirror' = mirror
  PROVE  /\ Disk' \subseteq Disk
         /\ Ordered' /\ TakableWhole'
         /\ \A p \in Disk' : G(p) \in Nat /\ (Takable(p)' => Takable(p))
<1>1. Disk' \subseteq Disk
  BY DEF Disk
<1>3. \A p \in Disk : G(p) \in Nat
  BY DEF IInv, Typed, PointerLike, G
<1>5. Ordered'
  BY <1>1, <1>3 DEF IInv, Ordered, G, Disk
<1>6. \A p \in Disk' : G(p) \in Nat /\ (Takable(p)' => Takable(p))
  BY <1>1, <1>3 DEF Takable, G, Disk, IInv, Ordered
<1>7. TakableWhole'
  BY <1>1, <1>6 DEF IInv, TakableWhole
<1> QED BY <1>1, <1>5, <1>6, <1>7

LEMMA FlushKeeps == ASSUME IInv, Flush PROVE IInv'
<1>1. UNCHANGED <<files, ptr, mirror, drawn, pc, recs, sptr, newp, attempted>>
      /\ hardPtr' = ptr /\ hardMirror' = mirror
  BY DEF Flush, disk, store
<1>2. /\ Disk' \subseteq Disk /\ Ordered' /\ TakableWhole'
      /\ \A p \in Disk' : Takable(p)' => Takable(p)
  BY <1>1, HardenKeeps
<1>3. Typed'
  BY <1>1, <1>2 DEF IInv, Typed, PointerLike
<1>4. Running'
  BY <1>1, <1>2 DEF IInv, Running, G
<1>5. AtStep'
  BY <1>1 DEF IInv, AtStep, Best, Readable
<1> QED BY <1>2, <1>3, <1>4, <1>5 DEF IInv

LEMMA RefuseKeeps == ASSUME IInv, Refuse PROVE IInv'
<1>1. UNCHANGED <<files, ptr, mirror, drawn, pc, recs, sptr, newp, attempted>>
      /\ hardPtr' = ptr /\ hardMirror' = mirror /\ pc = "idle"
  BY DEF Refuse, Begin, disk, store
<1>2. Disk' \subseteq Disk /\ Ordered' /\ TakableWhole'
  BY <1>1, HardenKeeps
<1>3. Typed'
  BY <1>1, <1>2 DEF IInv, Typed, PointerLike
<1> QED BY <1>1, <1>2, <1>3 DEF IInv, Running, AtStep
(***************************************************************************)
(* The load.                                                               *)
(***************************************************************************)
\* With no readable copy nothing is on disk: the first commit starts from nothing.
LEMMA LoadFreshKeeps == ASSUME IInv, LoadFresh PROVE IInv'
<1>0. attempted = 0 /\ sptr = None /\ recs = NoRecords
  BY DEF IInv, AtStep, LoadFresh, Begin
<1>1. UNCHANGED <<files, ptr, mirror, drawn, recs, sptr, newp, attempted>>
      /\ hardPtr' = ptr /\ hardMirror' = mirror /\ pc' = "fresh"
  BY DEF LoadFresh, Begin, disk
<1>2. ptr = None /\ mirror = None
  <2>1. Decision = "fresh"
    BY DEF LoadFresh
  <2>2. F12(Best, Inventory(Best).inv) # "fresh"
    BY DEF F12
  <2> QED BY <2>1, <2>2 DEF Decision
<1>3. Disk' \subseteq Disk /\ Ordered' /\ TakableWhole'
  BY <1>1, HardenKeeps
<1>4. Typed'
  BY <1>1, <1>3 DEF IInv, Typed, PointerLike
<1>5. Running'
  BY <1>0, <1>1, <1>2 DEF Running, Disk, G, Takable, UnitsIn, NoRecords
<1>6. AtStep'
  BY <1>0, <1>1 DEF AtStep
<1> QED BY <1>3, <1>4, <1>5, <1>6 DEF IInv

LEMMA LoadKeeps == ASSUME IInv, Load PROVE IInv'
<1>1. UNCHANGED <<files, ptr, mirror, drawn, newp>>
      /\ hardPtr' = ptr /\ hardMirror' = mirror /\ pc' = "loaded"
      /\ sptr' = Best /\ attempted' = Best.gen /\ recs' = Best.recs
  BY DEF Load, Begin, disk
<1>2. Readable(Best)
  <2>1. Decision = "accepted"
    BY DEF Load
  <2> QED BY <2>1 DEF Decision
<1>3. /\ Best \in {ptr, mirror} /\ Takable(Best)
      /\ G(ptr) =< G(Best) /\ G(mirror) =< G(Best)
  BY <1>2, BestIsTakable DEF Readable
<1>4. WholeIn(files, Best) /\ PointerLike(Best)
  BY <1>2, <1>3 DEF IInv, TakableWhole, Typed, Disk, Readable
<1>5. /\ Disk' \subseteq Disk /\ Ordered' /\ TakableWhole'
      /\ \A p \in Disk' : G(p) \in Nat
  BY <1>1, HardenKeeps
<1>6. Typed'
  BY <1>1, <1>4, <1>5 DEF IInv, Typed, PointerLike
<1>7. Best' = Best
  BY <1>1 DEF Best, Readable
<1>8. \A p \in Disk' : G(p) =< Best.gen
  <2>1. G(Best) = Best.gen
    BY <1>2 DEF G, Readable
  <2>2. \A p \in Disk' : p \in {ptr, mirror}
    BY <1>1 DEF Disk
  <2> QED BY <1>3, <2>1, <2>2
<1>9. \A p \in Disk' : Takable(p)' => p = Best
  BY <1>1, <1>2, <1>3, <1>5, <1>8 DEF Takable, G, IInv, Ordered, Disk, Readable
<1>10. UnitsIn(files, Best.recs) /\ ChunksIn(files, Best.sect)
  BY <1>4 DEF WholeIn
<1>11. Running'
  <2>1. \A p \in Disk', u \in Units :
          Takable(p)' /\ p.recs[u] # None => recs'[u] # None /\ p.recs[u].rev =< recs'[u].rev
    BY <1>1, <1>4, <1>9 DEF PointerLike, Records, Record, Revs
  <2> QED BY <1>1, <1>8, <1>10, <2>1 DEF Running
<1>12. AtStep'
  BY <1>1, <1>2, <1>7 DEF AtStep, Readable
<1> QED BY <1>5, <1>6, <1>11, <1>12 DEF IInv

(***************************************************************************)
(* Steps that write or remove files.  Each leaves alone the files of every *)
(* takable copy, of the records and of the last committed pointer.         *)
(***************************************************************************)
LEMMA FilesStepKeeps ==
  ASSUME IInv, pc # "idle",
         UNCHANGED <<ptr, mirror, hard, sptr, attempted>>,
         DOMAIN files' = FileNames, drawn' \in Nat, drawn =< drawn',
         \A p \in Disk : Takable(p) => WholeIn(files', p),
         sptr # None => ChunksIn(files', sptr.sect)
  PROVE  /\ Disk' = Disk
         /\ recs' \in Records /\ (newp' \in {newp, None} \/ PointerLike(newp)') => Typed'
         /\ Ordered' /\ TakableWhole'
         /\ recs' = recs /\ UnitsIn(files', recs) => Running'
<1>1. Disk' = Disk
  BY DEF Disk, hard
<1>2. ASSUME recs' \in Records, newp' \in {newp, None} \/ PointerLike(newp)' PROVE Typed'
  <2>1. \A p : PointerLike(p) => PointerLike(p)'
    BY DEF PointerLike, Draws, IInv, Typed
  <2> QED BY <1>1, <1>2, <2>1 DEF IInv, Typed
<1>3. Ordered'
  BY <1>1 DEF IInv, Ordered, G, hard
<1>4. TakableWhole'
  BY <1>1 DEF TakableWhole, Takable, G, hard
<1>5. ASSUME recs' = recs, UnitsIn(files', recs) PROVE Running'
  BY <1>1, <1>5 DEF IInv, Running, Takable, G, hard
<1> QED BY <1>1, <1>2, <1>3, <1>4, <1>5

LEMMA SweepKeeps == ASSUME IInv, Sweep PROVE IInv'
<1>1. /\ UNCHANGED <<ptr, mirror, hard, sptr, attempted, drawn, recs, newp>>
      /\ pc = "loaded" /\ pc' = "running"
  BY DEF Sweep, store
<1>2. /\ DOMAIN files' = FileNames
      /\ \A f \in FileNames : files'[f] # files[f] => f \in Sweepable
  BY DEF Sweep, IInv, Typed
<1>3. \A f \in LiveFiles(sptr.recs, sptr) \cap FileNames : files'[f] = files[f]
  BY <1>2 DEF Sweepable
<1>4. sptr # None /\ sptr = Best /\ hardPtr = ptr /\ hardMirror = mirror /\ recs = sptr.recs
  BY <1>1 DEF IInv, AtStep
<1>5. PointerLike(sptr)
  BY <1>4 DEF IInv, Typed
<1>6. ChunksIn(files', sptr.sect)
  <2>1. \A i \in Copies : Chunk(sptr.sect, i) \in LiveFiles(sptr.recs, sptr) \cap FileNames
    BY <1>5 DEF LiveFiles, PointerLike, FileNames, ChunkNames
  <2> QED BY <1>1, <1>3, <1>4, <2>1, ChunksKept DEF IInv, Running
<1>7. UnitsIn(files', sptr.recs)
  <2>1. \A u \in Units : sptr.recs[u] # None =>
          Unit(u, sptr.recs[u].rev) \in LiveFiles(sptr.recs, sptr) \cap FileNames
    BY <1>5 DEF LiveFiles, PointerLike, Records, Record, FileNames, UnitNames
  <2> QED BY <1>1, <1>3, <1>4, <2>1, UnitsKept DEF IInv, Running
<1>8. \A p \in Disk : Takable(p) => p = sptr
  <2>1. Takable(sptr) /\ sptr \in {ptr, mirror}
    BY <1>4, BestIsTakable
  <2>2. \A p \in Disk : G(p) \in Nat
    BY DEF IInv, Typed, PointerLike, G
  <2> QED BY <1>4, <2>1, <2>2 DEF Takable, Disk, G, IInv, Ordered
<1>9. drawn \in Nat /\ recs \in Records
  BY DEF IInv, Typed
<1>10. \A p \in Disk : Takable(p) => WholeIn(files', p)
  BY <1>6, <1>7, <1>8 DEF WholeIn
<1>11. Typed' /\ Ordered' /\ TakableWhole' /\ Running'
  <2>1. drawn' \in Nat /\ drawn =< drawn'
    BY <1>1, <1>9
  <2> QED BY <1>1, <1>2, <1>4, <1>6, <1>7, <1>9, <1>10, <2>1, FilesStepKeeps
<1>12. AtStep'
  BY <1>1 DEF AtStep
<1> QED BY <1>11, <1>12 DEF IInv

\* The revision after the records' own is named by nothing that a load could take.
LEMMA NextUnitIsNamedByNothing ==
  ASSUME IInv, pc = "running", sptr # None, NEW u \in Units, NextRev(u) \in Revs, NEW x,
         files' = [files EXCEPT ![Unit(u, NextRev(u))] = x]
  PROVE  /\ DOMAIN files' = FileNames /\ files'[Unit(u, NextRev(u))] = x
         /\ UnitsIn(files', recs) /\ ChunksIn(files', sptr.sect)
         /\ \A p \in Disk : Takable(p) => WholeIn(files', p)
<1> DEFINE f == Unit(u, NextRev(u))
<1>1. DOMAIN files = FileNames /\ f \in FileNames /\ recs \in Records
  BY DEF IInv, Typed, FileNames, UnitNames
<1>2. DOMAIN files' = FileNames /\ files'[f] = x
      /\ \A g \in FileNames : g # f => files'[g] = files[g]
  BY <1>1
<1>3. recs[u] # None => recs[u].rev \in Nat /\ NextRev(u) = recs[u].rev + 1
  BY <1>1 DEF NextRev, Records, Record, Revs
<1>4. ASSUME NEW n \in Draws, ChunksIn(files, n) PROVE ChunksIn(files', n)
  <2>1. \A i \in Copies : Chunk(n, i) \in FileNames /\ Chunk(n, i) # f
    BY UnitIsNoChunk DEF FileNames, ChunkNames
  <2>2. \A i \in Copies : files'[Chunk(n, i)] = files[Chunk(n, i)]
    BY <1>2, <2>1
  <2> QED BY <1>4, <2>2 DEF ChunksIn, Has
<1>5. ASSUME NEW rs \in Records, UnitsIn(files, rs),
             rs[u] # None => recs[u] # None /\ rs[u].rev =< recs[u].rev
      PROVE  UnitsIn(files', rs)
  <2>1. \A v \in Units : rs[v] # None => rs[v].rev \in Revs
    BY DEF Records, Record
  <2>2. \A v \in Units : rs[v] # None => Unit(v, rs[v].rev) \in FileNames
    BY <2>1 DEF FileNames, UnitNames
  <2>3. rs[u] # None => rs[u].rev # NextRev(u)
    BY <1>3, <1>5, <2>1 DEF Revs
  <2>4. \A v \in Units : rs[v] # None => Unit(v, rs[v].rev) # f
    BY <2>3, UnitNameApart
  <2>5. \A v \in Units : rs[v] # None => files'[Unit(v, rs[v].rev)] = files[Unit(v, rs[v].rev)]
    BY <1>2, <2>2, <2>4
  <2> QED BY <1>5, <2>5 DEF UnitsIn, Has
<1>6. UnitsIn(files', recs)
  <2>1. UnitsIn(files, recs)
    BY DEF IInv, Running
  <2>2. recs[u] # None => recs[u].rev =< recs[u].rev
    BY <1>3
  <2> QED BY <1>1, <1>5, <2>1, <2>2
<1>7. ChunksIn(files', sptr.sect)
  BY <1>4 DEF IInv, Running, Typed, PointerLike
<1>8. ASSUME NEW p \in Disk, Takable(p) PROVE WholeIn(files', p)
  <2>1. PointerLike(p) /\ WholeIn(files, p)
    BY <1>8 DEF IInv, Typed, TakableWhole, Takable
  <2>2. p.recs[u] # None => recs[u] # None /\ p.recs[u].rev =< recs[u].rev
    BY <1>8 DEF IInv, Running
  <2> QED BY <1>4, <1>5, <2>1, <2>2 DEF WholeIn, PointerLike
<1> QED BY <1>2, <1>6, <1>7, <1>8

LEMMA CaptureKeeps == ASSUME IInv, TInv, NEW u \in Units, Capture(u) PROVE IInv'
<1> DEFINE r == NextRev(u)
<1>1. /\ UNCHANGED <<ptr, mirror, hard, sptr, attempted, pc, newp>>
      /\ pc = "running" /\ sptr # None /\ r \in Revs
      /\ drawn' = drawn + 1
      /\ recs' = [recs EXCEPT ![u] = [rev |-> r, bytes |-> drawn + 1]]
      /\ files' = [files EXCEPT ![Unit(u, r)] = [bytes |-> drawn + 1, at |-> start]]
  BY DEF Capture, CanCapture, Fresh, store
<1>2. drawn \in Nat /\ drawn < MaxDraws /\ recs \in Records
  BY DEF IInv, Typed, Capture, CanCapture
<1>3. /\ [rev |-> r, bytes |-> drawn + 1] \in Record
      /\ [bytes |-> drawn + 1, at |-> start] \in File
      /\ recs' \in Records
  <2>1. drawn + 1 \in Draws /\ [bytes |-> drawn + 1, at |-> start] \in File
    BY <1>1, <1>2, FileFits
  <2>2. [rev |-> r, bytes |-> drawn + 1] \in Record
    BY <1>1, <2>1 DEF Record
  <2> QED BY <1>1, <1>2, <2>1, <2>2 DEF Records
<1>4. /\ DOMAIN files' = FileNames
      /\ files'[Unit(u, r)] = [bytes |-> drawn + 1, at |-> start]
      /\ UnitsIn(files', recs) /\ ChunksIn(files', sptr.sect)
      /\ \A p \in Disk : Takable(p) => WholeIn(files', p)
  BY <1>1, NextUnitIsNamedByNothing
<1>5. drawn' \in Nat /\ drawn =< drawn'
  BY <1>1, <1>2
<1>6. Disk' = Disk /\ Typed' /\ Ordered' /\ TakableWhole'
  BY <1>1, <1>3, <1>4, <1>5, FilesStepKeeps
<1>7. \A v \in Units : recs'[v] = IF v = u THEN [rev |-> r, bytes |-> drawn + 1] ELSE recs[v]
  BY <1>1, <1>2 DEF Records
<1>8. UnitsIn(files', recs')
  <2>2. Has(files', Unit(u, r), drawn + 1)
    BY <1>3, <1>4, MarksAssumption DEF Has
  <2>3. \A v \in Units \ {u} : recs'[v] # None => Has(files', Unit(v, recs'[v].rev), recs'[v].bytes)
    BY <1>4, <1>7 DEF UnitsIn
  <2> QED BY <1>7, <2>2, <2>3 DEF UnitsIn
<1>9. \A p \in Disk, v \in Units :
        Takable(p) /\ p.recs[v] # None => recs'[v] # None /\ p.recs[v].rev =< recs'[v].rev
  <2> SUFFICES ASSUME NEW p \in Disk, NEW v \in Units, Takable(p), p.recs[v] # None
               PROVE  recs'[v] # None /\ p.recs[v].rev =< recs'[v].rev
    OBVIOUS
  <2>1. recs[v] # None /\ p.recs[v].rev =< recs[v].rev
    BY <1>1 DEF IInv, Running
  <2>2. p.recs[v].rev \in Nat /\ recs[v].rev \in Nat
    BY <1>2, <2>1 DEF IInv, Typed, PointerLike, Takable, Records, Record, Revs
  <2>3. CASE v = u
    <3>1. r = recs[u].rev + 1
      BY <2>1, <2>3 DEF NextRev
    <3> HIDE DEF r
    <3> QED BY <1>3, <1>7, <2>1, <2>2, <2>3, <3>1, MarksAssumption
  <2>4. CASE v # u
    BY <1>7, <2>1, <2>4
  <2> QED BY <2>3, <2>4
<1>10. Running'
  BY <1>1, <1>4, <1>6, <1>8, <1>9 DEF IInv, Running, Takable, G, hard
<1>11. AtStep'
  BY <1>1 DEF IInv, AtStep
<1> QED BY <1>6, <1>10, <1>11 DEF IInv

LEMMA CaptureFailsKeeps == ASSUME IInv, NEW u \in Units, CaptureFails(u) PROVE IInv'
<1>1. /\ UNCHANGED <<ptr, mirror, hard, sptr, attempted, pc, newp, recs>>
      /\ pc = "running" /\ sptr # None /\ NextRev(u) \in Revs
      /\ drawn' = drawn + 1
      /\ files' = [files EXCEPT ![Unit(u, NextRev(u))] = None]
  BY DEF CaptureFails, CanCapture, Fresh, store
<1>2. drawn' \in Nat /\ drawn =< drawn' /\ recs' \in Records
  BY <1>1 DEF IInv, Typed
<1>3. /\ DOMAIN files' = FileNames
      /\ UnitsIn(files', recs) /\ ChunksIn(files', sptr.sect)
      /\ \A p \in Disk : Takable(p) => WholeIn(files', p)
  BY <1>1, NextUnitIsNamedByNothing
<1>4. Typed' /\ Ordered' /\ TakableWhole' /\ Running'
  BY <1>1, <1>2, <1>3, FilesStepKeeps
<1>5. AtStep'
  BY <1>1 DEF IInv, AtStep
<1> QED BY <1>4, <1>5 DEF IInv

\* Before the first commit no copy of the pointer exists, so nothing is named.
LEMMA PrepareKeeps == ASSUME IInv, Prepare PROVE IInv'
<1>1. /\ UNCHANGED <<ptr, mirror, hard, sptr, attempted, newp, recs, drawn>>
      /\ pc = "fresh" /\ pc' = "running"
      /\ files' = [f \in FileNames |-> IF f \in ChunkNames THEN None ELSE files[f]]
  BY DEF Prepare, store
<1>2. drawn' \in Nat /\ drawn =< drawn' /\ recs' \in Records /\ DOMAIN files' = FileNames
  BY <1>1 DEF IInv, Typed
<1>3. sptr = None /\ \A p \in Disk : p = None
  BY <1>1 DEF IInv, AtStep, Running, Typed, PointerLike, G
<1>4. UnitsIn(files', recs)
  <2>1. \A u \in Units : recs[u] # None =>
          Unit(u, recs[u].rev) \in FileNames /\ Unit(u, recs[u].rev) \notin ChunkNames
    BY UnitIsNoChunk DEF IInv, Typed, Records, Record, FileNames, UnitNames, ChunkNames
  <2>2. \A u \in Units : recs[u] # None =>
          files'[Unit(u, recs[u].rev)] = files[Unit(u, recs[u].rev)]
    BY <1>1, <2>1
  <2> QED BY <1>1, <2>2 DEF IInv, Running, UnitsIn, Has
<1>5. \A p \in Disk : Takable(p) => WholeIn(files', p)
  BY <1>3 DEF Takable
<1>6. Typed' /\ Ordered' /\ TakableWhole' /\ Running'
  BY <1>1, <1>2, <1>3, <1>4, <1>5, FilesStepKeeps
<1>7. AtStep'
  BY <1>1 DEF AtStep
<1> QED BY <1>6, <1>7 DEF IInv

\* Chunks are written under names drawn for them, which no pointer can name yet.
LEMMA ChunksAreNew ==
  ASSUME IInv, TInv, pc # "idle", drawn < MaxDraws, NEW copies,
         files' = ChunkWritten(files, drawn + 1, copies)
  PROVE  /\ DOMAIN files' = FileNames
         /\ UnitsIn(files', recs)
         /\ sptr # None => ChunksIn(files', sptr.sect)
         /\ \A p \in Disk : Takable(p) => WholeIn(files', p)
         /\ copies = Copies => ChunksIn(files', drawn + 1)
<1> DEFINE n == drawn + 1
<1>1. /\ DOMAIN files' = FileNames
      /\ \A g \in FileNames : files'[g] = IF g \in {Chunk(n, i) : i \in copies}
                                            THEN [bytes |-> n, at |-> start] ELSE files[g]
  BY DEF ChunkWritten
<1>2. drawn \in Nat /\ n \in Draws
  BY BoundsAssumption DEF IInv, Typed, Draws
<1>3. ASSUME NEW m \in Draws, m =< drawn, ChunksIn(files, m) PROVE ChunksIn(files', m)
  <2>1. \A i \in Copies : Chunk(m, i) \in FileNames
    BY DEF FileNames, ChunkNames
  <2>2. m # n
    BY <1>2, <1>3 DEF Draws
  <2>3. \A i \in Copies : files'[Chunk(m, i)] = files[Chunk(m, i)]
    BY <1>1, <2>1, <2>2, ChunkNameApart
  <2> QED BY <1>3, <2>3 DEF ChunksIn, Has
<1>4. ASSUME NEW rs \in Records, UnitsIn(files, rs) PROVE UnitsIn(files', rs)
  <2>1. \A u \in Units : rs[u] # None => Unit(u, rs[u].rev) \in FileNames
    BY DEF Records, Record, FileNames, UnitNames
  <2>2. \A u \in Units : rs[u] # None => files'[Unit(u, rs[u].rev)] = files[Unit(u, rs[u].rev)]
    BY <1>1, <2>1, UnitIsNoChunk
  <2> QED BY <1>4, <2>2 DEF UnitsIn, Has
<1>5. UnitsIn(files', recs)
  BY <1>4 DEF IInv, Running, Typed
<1>6. ASSUME sptr # None PROVE ChunksIn(files', sptr.sect)
  <2>1. PointerLike(sptr) /\ ChunksIn(files, sptr.sect)
    BY <1>6 DEF IInv, Typed, Running
  <2> QED BY <1>3, <2>1 DEF PointerLike
<1>7. ASSUME NEW p \in Disk, Takable(p) PROVE WholeIn(files', p)
  <2>1. PointerLike(p) /\ WholeIn(files, p)
    BY <1>7 DEF IInv, Typed, TakableWhole, Takable
  <2> QED BY <1>3, <1>4, <2>1 DEF WholeIn, PointerLike
<1>8. ASSUME copies = Copies PROVE ChunksIn(files', n)
  <2>1. [bytes |-> n, at |-> start] \in File
    BY <1>2 DEF File, TInv, PositionOK
  <2>2. \A i \in Copies : Chunk(n, i) \in FileNames
    BY <1>2 DEF FileNames, ChunkNames
  <2>3. \A i \in Copies : files'[Chunk(n, i)] = [bytes |-> n, at |-> start]
    BY <1>1, <1>8, <2>2
  <2> HIDE DEF n
  <2> QED BY <2>1, <2>3, MarksAssumption DEF ChunksIn, Has
<1> QED BY <1>1, <1>5, <1>6, <1>7, <1>8

LEMMA SealFailsKeeps == ASSUME IInv, TInv, SealFails PROVE IInv'
<1>1. /\ UNCHANGED <<ptr, mirror, hard, sptr, attempted, newp, recs>>
      /\ pc = "running" /\ pc' \in {"running", "ended"}
      /\ drawn < MaxDraws /\ drawn' = drawn + 1
  BY DEF SealFails, AfterFailure, store
<1>2. drawn' \in Nat /\ drawn =< drawn' /\ recs' \in Records
  BY <1>1 DEF IInv, Typed
<1>3. PICK copies : files' = ChunkWritten(files, drawn + 1, copies)
  BY DEF SealFails
<1>4. /\ DOMAIN files' = FileNames
      /\ UnitsIn(files', recs)
      /\ sptr # None => ChunksIn(files', sptr.sect)
      /\ \A p \in Disk : Takable(p) => WholeIn(files', p)
  BY <1>1, <1>3, ChunksAreNew
<1>5. Typed' /\ Ordered' /\ TakableWhole' /\ Running'
  BY <1>1, <1>2, <1>4, FilesStepKeeps
<1>6. AtStep'
  BY <1>1 DEF IInv, AtStep
<1> QED BY <1>5, <1>6 DEF IInv

(***************************************************************************)
(* The commit.                                                             *)
(***************************************************************************)
LEMMA SealKeeps == ASSUME IInv, TInv, Seal PROVE IInv'
<1>1. /\ UNCHANGED <<ptr, mirror, hard, sptr, attempted, recs>>
      /\ pc = "running" /\ pc' = "prove" /\ Gen \in Gens
  BY DEF Seal, store
<1>2. drawn \in Nat /\ recs \in Records /\ DOMAIN files = FileNames
  BY DEF IInv, Typed
<1>3. \E n \in Draws :
        /\ newp' = NewPointer(n) /\ n =< drawn'
        /\ drawn' \in Nat /\ drawn =< drawn'
        /\ DOMAIN files' = FileNames
        /\ UnitsIn(files', recs) /\ ChunksIn(files', n)
        /\ sptr # None => ChunksIn(files', sptr.sect)
        /\ \A p \in Disk : Takable(p) => WholeIn(files', p)
  <2>1. CASE /\ drawn < MaxDraws /\ drawn' = drawn + 1
             /\ files' = ChunkWritten(files, drawn + 1, Copies)
             /\ newp' = NewPointer(drawn + 1)
    <3>1. drawn + 1 \in Draws
      BY <1>1, <2>1, FileFits
    <3>2. drawn + 1 =< drawn' /\ drawn' \in Nat /\ drawn =< drawn'
      BY <1>2, <2>1
    <3>3. /\ DOMAIN files' = FileNames
          /\ UnitsIn(files', recs) /\ ChunksIn(files', drawn + 1)
          /\ sptr # None => ChunksIn(files', sptr.sect)
          /\ \A p \in Disk : Takable(p) => WholeIn(files', p)
      BY <1>1, <2>1, ChunksAreNew
    <3> QED BY <2>1, <3>1, <3>2, <3>3
  <2>2. CASE ~SectionChanged /\ newp' = NewPointer(sptr.sect) /\ UNCHANGED <<drawn, files>>
    <3>1. sptr # None
      BY <2>2 DEF SectionChanged, Fresh
    <3>2. PointerLike(sptr)
      BY <3>1 DEF IInv, Typed
    <3>3. /\ UnitsIn(files, recs) /\ ChunksIn(files, sptr.sect)
          /\ \A p \in Disk : Takable(p) => WholeIn(files, p)
      BY <1>1, <3>1 DEF IInv, Running, TakableWhole
    <3> QED BY <1>2, <2>2, <3>2, <3>3 DEF PointerLike
  <2> QED BY <2>1, <2>2 DEF Seal
<1>4. PICK n \in Draws :
        /\ newp' = NewPointer(n) /\ n =< drawn'
        /\ drawn' \in Nat /\ drawn =< drawn'
        /\ DOMAIN files' = FileNames
        /\ UnitsIn(files', recs) /\ ChunksIn(files', n)
        /\ sptr # None => ChunksIn(files', sptr.sect)
        /\ \A p \in Disk : Takable(p) => WholeIn(files', p)
  BY <1>3
<1>5. newp' \in Pointer
  BY <1>1, <1>4, NewPointerFits
<1>6. newp'.gen = attempted + 1 /\ newp'.recs = recs /\ newp'.sect = n
  BY <1>4 DEF NewPointer, Gen
<1>7. PointerLike(newp)'
  BY <1>2, <1>4, <1>5, <1>6, PointerFields, MarksAssumption DEF PointerLike, Gens
<1>8. recs' \in Records /\ recs' = recs
  BY <1>1, <1>2
<1>9. Typed' /\ Ordered' /\ TakableWhole' /\ Running'
  BY <1>1, <1>4, <1>7, <1>8, FilesStepKeeps
<1>10. AtStep'
  BY <1>1, <1>4, <1>5, <1>6, MarksAssumption DEF AtStep
<1> QED BY <1>9, <1>10 DEF IInv

\* The pointer of a commit is later than every copy, whole, and names the records.
LEMMA RenameKeeps ==
  ASSUME IInv, pc = "rename", ptr' \in {ptr, newp}, attempted' = newp.gen,
         UNCHANGED <<files, mirror, hard, recs, drawn>>,
         sptr' \in {sptr, newp}, newp' \in {newp, None}
  PROVE  Typed' /\ Ordered' /\ TakableWhole' /\ Running'
<1>1. /\ newp # None /\ newp.gen = attempted + 1 /\ newp.recs = recs
      /\ ChunksIn(files, newp.sect) /\ PointerLike(newp) /\ attempted \in Nat
  BY DEF IInv, AtStep, Typed
<1>2. \A p \in Disk : G(p) \in Nat /\ G(p) =< attempted
  BY DEF IInv, Running, Typed, PointerLike, G
<1>3. Disk' \subseteq Disk \cup {newp} /\ hardPtr' = hardPtr /\ hardMirror' = hardMirror
  BY DEF Disk, hard
<1>4. Typed'
  <2>1. \A p : PointerLike(p)' <=> PointerLike(p)
    BY DEF PointerLike
  <2>2. \A p \in Disk' \cup {sptr', newp'} : p # None => PointerLike(p)
    BY <1>1, <1>3 DEF IInv, Typed
  <2>3. DOMAIN files' = FileNames /\ drawn' \in Nat /\ attempted' \in Nat /\ recs' \in Records
    BY <1>1 DEF IInv, Typed
  <2> QED BY <2>1, <2>2, <2>3 DEF Typed
<1>5. Ordered'
  <2>1. G(hardPtr') =< G(ptr') /\ G(hardMirror') =< G(mirror')
    BY <1>1, <1>2, <1>3 DEF IInv, Ordered, G, Disk
  <2>2. \A p, q \in Disk' : p # None /\ q # None /\ p.gen = q.gen => p = q
    BY <1>1, <1>2, <1>3 DEF IInv, Ordered, G
  <2> QED BY <2>1, <2>2 DEF Ordered, G
<1>6. \A p \in Disk' : Takable(p)' => p = newp \/ (p \in Disk /\ Takable(p))
  BY <1>3 DEF Takable, G
<1>7. UnitsIn(files, recs)
  BY DEF IInv, Running
<1>8. TakableWhole'
  BY <1>1, <1>6, <1>7 DEF TakableWhole, IInv, WholeIn
<1>9. Running'
  <2>1. \A p \in Disk' : G(p) =< attempted'
    BY <1>1, <1>2, <1>3 DEF G
  <2>2. ASSUME NEW p \in Disk', NEW u \in Units, Takable(p)', p.recs[u] # None
        PROVE  recs'[u] # None /\ p.recs[u].rev =< recs'[u].rev
    <3>1. CASE p = newp
      <4>1. recs[u].rev \in Nat
        BY <1>1, <2>2, <3>1 DEF PointerLike, Records, Record, Revs
      <4> QED BY <1>1, <2>2, <3>1, <4>1
    <3>2. CASE p \in Disk /\ Takable(p)
      BY <2>2, <3>2 DEF IInv, Running
    <3> QED BY <1>6, <2>2, <3>1, <3>2
  <2>3. sptr' # None => ChunksIn(files', sptr'.sect)
    BY <1>1 DEF IInv, Running
  <2>4. UnitsIn(files', recs')
    BY <1>7
  <2> QED BY <2>1, <2>2, <2>3, <2>4 DEF Running, G
<1> QED BY <1>4, <1>5, <1>8, <1>9

LEMMA LandKeeps == ASSUME IInv, Land PROVE IInv'
<1>1. /\ pc = "rename" /\ pc' = "mirror" /\ ptr' = newp /\ sptr' = newp /\ attempted' = newp.gen
      /\ UNCHANGED <<files, mirror, hard, recs, drawn, newp>>
  BY DEF Land
<1>2. Typed' /\ Ordered' /\ TakableWhole' /\ Running'
  BY <1>1, RenameKeeps
<1>3. AtStep'
  BY <1>1 DEF IInv, AtStep
<1> QED BY <1>2, <1>3 DEF IInv

LEMMA RenameFailsKeeps == ASSUME IInv, RenameFails PROVE IInv'
<1>1. /\ pc = "rename" /\ pc' \in {"running", "ended"} /\ ptr' \in {ptr, newp}
      /\ attempted' = newp.gen /\ newp' = None
      /\ UNCHANGED <<files, mirror, hard, recs, drawn, sptr>>
  BY DEF RenameFails, AfterFailure
<1>2. Typed' /\ Ordered' /\ TakableWhole' /\ Running'
  BY <1>1, RenameKeeps
<1>3. AtStep'
  BY <1>1 DEF AtStep
<1> QED BY <1>2, <1>3 DEF IInv

LEMMA WriteMirrorKeeps == ASSUME IInv, WriteMirror PROVE IInv'
<1>1. /\ pc = "mirror" /\ pc' \in {"envelope", "shard"} /\ mirror' \in {newp, mirror}
      /\ UNCHANGED <<files, ptr, hard, recs, drawn, sptr, newp, attempted>>
  BY DEF WriteMirror, store
<1>2. newp # None /\ newp = ptr /\ newp.gen = attempted
  BY <1>1 DEF IInv, AtStep
<1>3. Disk' \subseteq Disk /\ hardPtr' = hardPtr /\ hardMirror' = hardMirror
  BY <1>1, <1>2 DEF Disk, hard
<1>4. Typed'
  BY <1>1, <1>3 DEF IInv, Typed, PointerLike
<1>5. Ordered'
  <2>1. G(hardPtr') =< G(ptr') /\ G(hardMirror') =< G(mirror')
    BY <1>1, <1>2, <1>3 DEF IInv, Ordered, Running, G, Disk
  <2>2. \A p, q \in Disk' : p # None /\ q # None /\ p.gen = q.gen => p = q
    BY <1>3 DEF IInv, Ordered
  <2> QED BY <2>1, <2>2 DEF Ordered, G
<1>6. \A p \in Disk' : p \in Disk /\ (Takable(p)' => Takable(p))
  BY <1>3 DEF Takable, G
<1>7. TakableWhole'
  BY <1>1, <1>6 DEF IInv, TakableWhole
<1>8. Running'
  BY <1>1, <1>6 DEF IInv, Running, G
<1>9. AtStep'
  BY <1>1 DEF AtStep
<1> QED BY <1>4, <1>5, <1>7, <1>8, <1>9 DEF IInv

(***************************************************************************)
(* Every step.                                                             *)
(***************************************************************************)
LEMMA OtherStepsKeep ==
  ASSUME IInv, ProveLock \/ HealEnvelope \/ WriteShard \/ WriteTop PROVE IInv'
<1>1. /\ pc # "idle"
      /\ UNCHANGED <<files, ptr, mirror, hard, recs, sptr, attempted, drawn>>
      /\ newp' \in {newp, None}
      /\ \/ pc' \in {"running", "envelope", "shard", "top", "ended"}
         \/ pc = "prove" /\ pc' = "rename" /\ newp' = newp
  BY DEF ProveLock, HealEnvelope, WriteShard, WriteTop, disk, store
<1> QED BY <1>1, MemoryStepKeeps

LEMMA EndsKeep == ASSUME IInv, Stop \/ LockLost \/ PowerCut PROVE IInv'
<1>1. /\ Forget /\ UNCHANGED <<files, drawn>>
      /\ ptr' \in {ptr, hardPtr} /\ mirror' \in {mirror, hardMirror}
      /\ UNCHANGED <<ptr, mirror, hard>> \/ (hardPtr' = ptr' /\ hardMirror' = mirror')
  BY DEF Stop, LockLost, PowerCut, disk
<1> QED BY <1>1, EndKeeps

LEMMA UnchangedKeeps == ASSUME IInv, UNCHANGED vars PROVE IInv'
<1>1. UNCHANGED <<files, ptr, mirror, hard, pc, recs, sptr, attempted, drawn, newp>>
  BY DEF vars, disk, store
<1>2. Disk' = Disk
  BY <1>1 DEF Disk, hard
<1>3. Typed' /\ Ordered'
  BY <1>1, <1>2 DEF IInv, Typed, PointerLike, Ordered, G, hard
<1>4. TakableWhole' /\ Running'
  BY <1>1, <1>2 DEF IInv, TakableWhole, Running, Takable, G, hard
<1>5. AtStep'
  BY <1>1 DEF IInv, AtStep, Best, Readable, hard
<1> QED BY <1>3, <1>4, <1>5 DEF IInv

LEMMA StepKeeps == ASSUME Quiet, IInv, TInv, [Next]_vars PROVE IInv'
<1>1. CASE UNCHANGED vars
  BY <1>1, UnchangedKeeps
<1>2. CASE Refuse \/ LoadFresh \/ Load \/ Sweep \/ Prepare
  BY <1>2, RefuseKeeps, LoadFreshKeeps, LoadKeeps, SweepKeeps, PrepareKeeps
<1>3. CASE \E u \in Units : Capture(u) \/ CaptureFails(u) \/ Drop(u)
  <2>1. \A u \in Units : ~Drop(u)
    BY DEF Quiet, Drop
  <2> QED BY <1>3, <2>1, CaptureKeeps, CaptureFailsKeeps
<1>4. CASE Seal \/ SealFails \/ Land \/ RenameFails \/ WriteMirror
  BY <1>4, SealKeeps, SealFailsKeeps, LandKeeps, RenameFailsKeeps, WriteMirrorKeeps
<1>5. CASE ProveLock \/ HealEnvelope \/ WriteShard \/ WriteTop
  BY <1>5, OtherStepsKeep
<1>6. CASE LockLost \/ Stop \/ Flush \/ PowerCut
  BY <1>6, EndsKeep, FlushKeeps
<1>7. CASE Damage \/ Keep \/ Restore
  BY <1>7 DEF Quiet, Damage, Keep, Restore
<1> QED BY <1>1, <1>2, <1>3, <1>4, <1>5, <1>6, <1>7 DEF Next

\* At every instant, whatever failed and wherever the run was killed or the power cut:
\* the record the next load would take names two chunk copies and unit files that are
\* all there with the bytes it recorded.
THEOREM SavedRecordIsWhole == ASSUME Quiet PROVE Spec => []NamedFilesIntact
<1>1. IInv /\ TInv /\ [Next]_vars => IInv'
  BY StepKeeps
<1> QED BY <1>1, InitHolds, InvariantImpliesProperty, PositionsAndTypes, PTL DEF Spec

(***************************************************************************)
(* Healing and redundancy.  These hold through every damage, restore, drop *)
(* and power cut: nothing is set aside.                                    *)
(***************************************************************************)
\* A pointer claims no file list later than itself; a file list is of the pointer it
\* names, and its shard is no later than it.
PtrSane(p) == p \in Pointer => p.inv =< p.gen
TopSane(t) == t \in Top => t.gen = t.of.gen /\ t.shard =< t.gen

Pointers == {ptr, mirror, hardPtr, hardMirror, newp}
              \cup IF backup = None THEN {} ELSE {backup.ptr, backup.mirror}

Sane == /\ \A p \in Pointers : PtrSane(p)
        /\ \A t \in {top, hardTop, inv} : TopSane(t)

SaveStates == {"mirror", "envelope", "shard", "top"}

\* The last durable file list is no later than the run's generations, and before the
\* pointer a save has just landed.
InvOld ==
  inv # None => inv.gen =< attempted /\ (pc \in SaveStates => inv.gen < attempted)

\* The shard the memory goes on from is on disk.
ListedShard ==
  listed # None => shards[inv.shard] # None /\ shards[inv.shard].list = listed

\* Both chunk copies of what the run committed or loaded are there, save for those the
\* load found lost, and both of what it is about to commit.
SectionThere ==
  /\ sptr # None /\ reseal = {} => ChunksIn(files, sptr.sect)
  /\ pc \in {"prove", "rename"} => ChunksIn(files, newp.sect)

Commit ==
  /\ pc \in {"idle", "fresh"} => attempted = 0 /\ sptr = None /\ inv = None /\ listed = None
  /\ pc \in {"prove", "rename"} => newp.gen = attempted + 1
  /\ pc \in SaveStates => sptr = ptr /\ sptr.gen = attempted /\ reseal = {}
  /\ pc = "mirror" => newp = ptr

\* A shard that lists what the top file is about to name is on disk.
ShardWritten ==
  pc = "top" =>
    \/ listed = [live |-> prevLive, retained |-> retained]
    \/ /\ shards[sptr.gen] # None
       /\ shards[sptr.gen].list = [live |-> prevLive, retained |-> retained]

HealInv == Sane /\ InvOld /\ ListedShard /\ SectionThere /\ Commit /\ ShardWritten

LEMMA HealInit == Init => HealInv
<1> SUFFICES ASSUME Init PROVE HealInv
  OBVIOUS
<1>1. Sane
  BY MarksAssumption DEF Init, Sane, Pointers, PtrSane, TopSane
<1>2. InvOld /\ ListedShard /\ SectionThere /\ Commit /\ ShardWritten
  BY DEF Init, InvOld, ListedShard, SectionThere, Commit, ShardWritten, SaveStates
<1> QED BY <1>1, <1>2 DEF HealInv

\* Copies that only move between the folder, the drive and the user's hands stay sane.
LEMMA SaneKept ==
  ASSUME HealInv, Pointers' \subseteq Pointers \cup {None, Bad},
         {top, hardTop, inv}' \subseteq {top, hardTop, inv} \cup {None, Bad}
  PROVE  Sane'
BY MarksAssumption DEF HealInv, Sane, PtrSane, TopSane

\* Between two runs nothing else is said.
LEMMA HealIdle == ASSUME HealInv, Sane', pc' = "idle",
                         attempted' = 0, sptr' = None, inv' = None, listed' = None
                  PROVE  HealInv'
BY DEF HealInv, InvOld, ListedShard, SectionThere, Commit, ShardWritten, SaveStates

\* What two runs cannot have in common is gone with the first.
LEMMA HealForget ==
  ASSUME HealInv, Forget, Pointers' \subseteq Pointers \cup {None, Bad},
         {top, hardTop}' \subseteq {top, hardTop} \cup {None, Bad}
  PROVE  HealInv'
<1>1. Sane'
  BY SaneKept DEF Forget
<1> QED BY <1>1, HealIdle DEF Forget

LEMMA HealEnds == ASSUME HealInv, Stop \/ LockLost \/ PowerCut PROVE HealInv'
<1>1. Forget /\ backup' = backup
  BY DEF Stop, LockLost, PowerCut, history
<1>2. /\ ptr' \in {ptr, hardPtr} /\ hardPtr' \in {ptr, hardPtr}
      /\ mirror' \in {mirror, hardMirror} /\ hardMirror' \in {mirror, hardMirror}
      /\ top' \in {top, hardTop} /\ hardTop' \in {top, hardTop}
  BY DEF Stop, LockLost, PowerCut, disk, hard
<1>3. newp' = None
  BY <1>1 DEF Forget
<1>4. Pointers' \subseteq Pointers \cup {None, Bad}
  BY <1>1, <1>2, <1>3 DEF Pointers
<1> QED BY <1>1, <1>2, <1>4, HealForget

LEMMA HealOutside == ASSUME HealInv, Damage \/ Keep \/ Restore \/ Refuse PROVE HealInv'
<1>1. pc = "idle" /\ UNCHANGED <<pc, store, newp>>
  BY DEF Damage, Keep, Restore, Refuse, Begin
<1>2. Sane'
  <2>1. /\ {ptr', mirror', hardPtr', hardMirror'} \subseteq Pointers \cup {None, Bad}
        /\ {top', hardTop'} \subseteq {top, hardTop, None, Bad}
    BY DEF Damage, Keep, Restore, Refuse, Begin, disk, hard, Pointers
  <2>2. backup' = backup \/ (backup' # None /\ backup'.ptr = ptr /\ backup'.mirror = mirror)
    BY MarksAssumption DEF Damage, Keep, Restore, Refuse, Begin, history
  <2>3. Pointers' \subseteq Pointers \cup {None, Bad}
    BY <1>1, <2>1, <2>2 DEF Pointers
  <2> QED BY <1>1, <2>1, <2>3, SaneKept DEF store
<1> QED BY <1>1, <1>2, HealIdle DEF HealInv, Commit, store

LEMMA HealFlush == ASSUME HealInv, Flush PROVE HealInv'
<1>1. UNCHANGED <<files, ptr, mirror, top, shards, store, pc, newp, backup>>
      /\ hardPtr' = ptr /\ hardMirror' = mirror /\ hardTop' = top
  BY DEF Flush, disk, history
<1>2. Pointers' \subseteq Pointers \cup {None, Bad}
  BY <1>1 DEF Pointers
<1>3. Sane'
  BY <1>1, <1>2, SaneKept DEF store
<1> QED BY <1>1, <1>3
        DEF HealInv, InvOld, ListedShard, SectionThere, Commit, ShardWritten, SaveStates, store

(***************************************************************************)
(* The load and the sweep.                                                 *)
(***************************************************************************)
\* A load that goes on takes a list only of its own generation or an earlier one.
LEMMA AcceptedList ==
  ASSUME TInv, HealInv, Decision = "accepted"
  PROVE  /\ Best \in Pointer
         /\ LET i == Inventory(Best)
            IN  /\ i.inv \in {None, top}
                /\ i.inv # None => i.inv \in Top /\ i.inv.gen =< Best.gen
                /\ i.listed # None => /\ i.inv # None /\ shards[i.inv.shard] # None
                                      /\ shards[i.inv.shard].list = i.listed
<1> DEFINE i == Inventory(Best)
<1>1. Best \in Pointer /\ F12(Best, i.inv) = "accepted"
  BY BestIsAPointer DEF Decision
<1>2. i.inv # None => ~(i.inv.gen > Best.gen \/ i.inv.gen < Best.inv)
  BY <1>1 DEF F12
<1>3. i.inv \in Top \cup {None}
  BY InventoryFits
<1>4. i.inv \in {None, top}
  BY DEF Inventory, NoInventory
<1>5. i.inv # None => i.inv.gen \in Nat /\ Best.gen \in Nat /\ i.inv.gen =< Best.gen
  BY <1>1, <1>2, <1>3, TopFields, PointerFields DEF Gens
<1>6. i.listed # None => /\ i.inv # None /\ shards[i.inv.shard] # None
                         /\ shards[i.inv.shard].list = i.listed
  BY DEF Inventory, NoInventory, Readable
<1> QED BY <1>1, <1>3, <1>4, <1>5, <1>6

LEMMA HealLoads == ASSUME TInv, HealInv, Load \/ LoadFresh PROVE HealInv'
<1>1. /\ UNCHANGED <<files, ptr, mirror, top, shards, newp, backup>>
      /\ hardPtr' = ptr /\ hardMirror' = mirror /\ hardTop' = top
  BY DEF Load, LoadFresh, Begin, disk
<1>2. Pointers' \subseteq Pointers \cup {None, Bad}
  BY <1>1 DEF Pointers
<1>3. CASE LoadFresh
  <2>1. pc = "idle" /\ pc' = "fresh" /\ UNCHANGED <<sptr, attempted, inv, listed, reseal>>
    BY <1>3 DEF LoadFresh, Begin
  <2>2. Sane'
    BY <1>1, <1>2, <2>1, SaneKept
  <2> QED BY <2>1, <2>2
          DEF HealInv, InvOld, ListedShard, SectionThere, Commit, ShardWritten, SaveStates
<1>4. CASE Load
  <2> DEFINE i == Inventory(Best)
  <2>1. /\ pc' = "loaded" /\ sptr' = Best /\ attempted' = Best.gen
        /\ inv' = i.inv /\ listed' = i.listed /\ reseal' = Copies \ SectionCopies(Best)
        /\ Decision = "accepted"
    BY <1>4 DEF Load
  <2>2. /\ i.inv \in {None, top} /\ (i.inv # None => i.inv.gen =< Best.gen)
        /\ i.listed # None => /\ shards[i.inv.shard] # None
                              /\ shards[i.inv.shard].list = i.listed
    BY <2>1, AcceptedList
  <2> HIDE DEF i
  <2>3. Sane'
    BY <1>1, <1>2, <2>1, <2>2, SaneKept
  <2>4. InvOld' /\ ListedShard'
    BY <1>1, <2>1, <2>2 DEF InvOld, ListedShard, SaveStates
  <2>5. SectionThere'
    BY <1>1, <2>1 DEF SectionThere, SectionCopies, ChunksIn, Holds, Has
  <2>6. Commit' /\ ShardWritten'
    BY <2>1 DEF Commit, ShardWritten, SaveStates
  <2> QED BY <2>3, <2>4, <2>5, <2>6 DEF HealInv
<1> QED BY <1>3, <1>4

\* A step of a run that leaves the copies, the lists and the commit's memory alone.
LEMMA HealFrame ==
  ASSUME HealInv, UNCHANGED <<ptr, mirror, top, hard, store, newp, backup>>,
         pc' = pc \/ pc' = "running" \/ pc' = "ended"
                  \/ (pc = "prove" /\ pc' = "rename") \/ (pc = "envelope" /\ pc' = "shard"),
         pc' \notin {"idle", "fresh"},
         ListedShard', SectionThere', pc' # "top"
  PROVE  HealInv'
<1>1. Pointers' = Pointers
  BY DEF Pointers, hard
<1>2. Sane'
  BY <1>1, SaneKept DEF hard, store
<1>3. InvOld' /\ Commit' /\ ShardWritten'
  BY DEF HealInv, InvOld, Commit, ShardWritten, SaveStates, store
<1> QED BY <1>2, <1>3 DEF HealInv

\* The sweep takes neither a chunk of the loaded record nor the shard of its list.
LEMMA SweepSpares ==
  ASSUME TInv, Sweep
  PROVE  /\ ChunksIn(files, sptr.sect) => ChunksIn(files', sptr.sect)
         /\ inv # None => shards'[inv.shard] = shards[inv.shard]
<1>1. sptr \in Pointer /\ inv \in Top \cup {None}
  BY DEF Sweep, TInv, TypeOK, MemoryOK, PositionOK
<1>2. \A f \in FileNames \cap LiveFiles(sptr.recs, sptr) : files'[f] = files[f]
  BY DEF Sweep, Sweepable
<1>3. \A j \in Copies : Chunk(sptr.sect, j) \in FileNames \cap LiveFiles(sptr.recs, sptr)
  BY <1>1, PointerFields DEF LiveFiles, FileNames, ChunkNames
<1>4. ChunksIn(files, sptr.sect) => ChunksIn(files', sptr.sect)
  BY <1>2, <1>3, ChunksKept
<1>5. ASSUME inv # None PROVE shards'[inv.shard] = shards[inv.shard]
  <2>1. inv.shard \in Gens
    BY <1>1, <1>5, TopFields
  <2>2. CASE listed # None
    <3>1. shards' = [g \in Gens |-> IF shards[g] # None /\ g # inv.shard /\ shards[g].at < start
                                      THEN None ELSE shards[g]]
      BY <2>2 DEF Sweep
    <3> QED BY <2>1, <3>1
  <2>3. CASE listed = None
    BY <2>3 DEF Sweep
  <2> QED BY <2>2, <2>3
<1> QED BY <1>4, <1>5

LEMMA HealSweep == ASSUME TInv, HealInv, Sweep PROVE HealInv'
<1>1. /\ UNCHANGED <<ptr, mirror, top, hard, store, newp, backup>>
      /\ pc = "loaded" /\ pc' = "running"
  BY DEF Sweep, history
<1>2. SectionThere'
  BY <1>1, SweepSpares DEF HealInv, SectionThere, store
<1>3. listed # None => inv # None
  BY DEF TInv, PositionOK
<1>4. ListedShard'
  BY <1>1, <1>3, SweepSpares DEF HealInv, ListedShard, store
<1> QED BY <1>1, <1>2, <1>4, HealFrame

(***************************************************************************)
(* Captures and the save.                                                  *)
(***************************************************************************)
\* A capture writes and removes unit files alone.
LEMMA CaptureKeepsChunks ==
  ASSUME TInv, NEW u \in Units, Capture(u) \/ CaptureFails(u) \/ Drop(u),
         NEW n \in Draws, ChunksIn(files, n)
  PROVE  ChunksIn(files', n)
<1>1. \E x : files' = files \/ files' = [files EXCEPT ![Unit(u, NextRev(u))] = x]
  BY DEF Capture, CaptureFails, Drop, disk
<1>2. files \in [FileNames -> File \cup {None}]
  BY DEF TInv, TypeOK, FolderOK
<1>3. ASSUME NEW j \in Copies PROVE files'[Chunk(n, j)] = files[Chunk(n, j)]
  <2>1. Chunk(n, j) \in FileNames /\ Chunk(n, j) # Unit(u, NextRev(u))
    BY UnitIsNoChunk DEF FileNames, ChunkNames
  <2> QED BY <1>1, <1>2, <2>1
<1> QED BY <1>3, ChunksKept

LEMMA HealCaptures ==
  ASSUME TInv, HealInv, NEW u \in Units, Capture(u) \/ CaptureFails(u) \/ Drop(u)
  PROVE  HealInv'
<1>1. /\ UNCHANGED <<ptr, mirror, top, shards, hard, store, newp, backup, pc>>
      /\ pc = "running"
  BY DEF Capture, CaptureFails, CanCapture, Drop, disk, history
<1>2. \A n \in Draws : ChunksIn(files, n) => ChunksIn(files', n)
  BY CaptureKeepsChunks
<1>3. sptr # None => sptr.sect \in Draws
  BY PointerFields DEF TInv, TypeOK, MemoryOK
<1>4. SectionThere' /\ ListedShard'
  BY <1>1, <1>2, <1>3 DEF HealInv, SectionThere, ListedShard, store
<1> QED BY <1>1, <1>4, HealFrame

LEMMA HealPrepare == ASSUME HealInv, Prepare PROVE HealInv'
<1>1. /\ UNCHANGED <<ptr, mirror, top, shards, hard, store, newp, backup>>
      /\ pc = "fresh" /\ pc' = "running"
  BY DEF Prepare, history
<1>2. SectionThere' /\ ListedShard'
  BY <1>1 DEF HealInv, Commit, SectionThere, ListedShard, store
<1> QED BY <1>1, <1>2, HealFrame

\* Bytes written under a name drawn for them are those bytes, whatever was there.
LEMMA ChunksStay ==
  ASSUME TInv, pc # "idle", drawn < MaxDraws, NEW copies, NEW m \in Draws, ChunksIn(files, m)
  PROVE  ChunksIn(ChunkWritten(files, drawn + 1, copies), m)
<1> DEFINE x == [bytes |-> drawn + 1, at |-> start]
<1>1. x # None /\ x.bytes = drawn + 1
  <2>1. start \in Runs /\ drawn \in 0..MaxDraws
    BY DEF TInv, PositionOK, TypeOK, HistoryOK
  <2>2. drawn + 1 \in Draws
    BY <2>1, BoundsAssumption DEF Draws
  <2>3. x \in File
    BY <2>1, <2>2 DEF File
  <2> QED BY <2>3, MarksAssumption
<1>2. ASSUME NEW j \in Copies PROVE Has(ChunkWritten(files, drawn + 1, copies), Chunk(m, j), m)
  <2>1. Chunk(m, j) \in FileNames
    BY DEF FileNames, ChunkNames
  <2>2. CASE Chunk(m, j) \in {Chunk(drawn + 1, k) : k \in copies}
    <3>1. m = drawn + 1
      BY <2>2, ChunkNameApart
    <3>2. ChunkWritten(files, drawn + 1, copies)[Chunk(m, j)] = x
      BY <2>1, <2>2 DEF ChunkWritten
    <3> HIDE DEF x
    <3> QED BY <1>1, <3>1, <3>2 DEF Has
  <2>3. CASE Chunk(m, j) \notin {Chunk(drawn + 1, k) : k \in copies}
    BY <2>1, <2>3 DEF ChunkWritten, ChunksIn, Has
  <2> QED BY <2>2, <2>3
<1> QED BY <1>2 DEF ChunksIn

LEMMA ChunksCome ==
  ASSUME TInv, pc # "idle", drawn < MaxDraws
  PROVE  ChunksIn(ChunkWritten(files, drawn + 1, Copies), drawn + 1)
<1> DEFINE x == [bytes |-> drawn + 1, at |-> start]
<1>1. drawn + 1 \in Draws /\ x # None /\ x.bytes = drawn + 1
  <2>1. start \in Runs /\ drawn \in 0..MaxDraws
    BY DEF TInv, PositionOK, TypeOK, HistoryOK
  <2>2. drawn + 1 \in Draws
    BY <2>1, BoundsAssumption DEF Draws
  <2>3. x \in File
    BY <2>1, <2>2 DEF File
  <2> QED BY <2>2, <2>3, MarksAssumption
<1>2. ASSUME NEW j \in Copies
      PROVE  ChunkWritten(files, drawn + 1, Copies)[Chunk(drawn + 1, j)] = x
  <2>1. Chunk(drawn + 1, j) \in FileNames
    BY <1>1 DEF FileNames, ChunkNames
  <2> QED BY <2>1 DEF ChunkWritten
<1> HIDE DEF x
<1> QED BY <1>1, <1>2 DEF ChunksIn, Has

LEMMA HealSealFails == ASSUME TInv, HealInv, SealFails PROVE HealInv'
<1>1. /\ UNCHANGED <<ptr, mirror, top, shards, hard, store, newp, backup>>
      /\ pc = "running" /\ pc' \in {"running", "ended"} /\ drawn < MaxDraws
  BY DEF SealFails, AfterFailure, history
<1>2. PICK copies : files' = ChunkWritten(files, drawn + 1, copies)
  BY DEF SealFails
<1>3. sptr # None => sptr.sect \in Draws
  BY PointerFields DEF TInv, TypeOK, MemoryOK
<1>4. SectionThere'
  BY <1>1, <1>2, <1>3, ChunksStay DEF HealInv, SectionThere, store
<1>5. ListedShard'
  BY <1>1 DEF HealInv, ListedShard, store
<1> QED BY <1>1, <1>4, <1>5, HealFrame

LEMMA HealSeal == ASSUME TInv, HealInv, Seal PROVE HealInv'
<1>1. /\ UNCHANGED <<ptr, mirror, top, shards, hard, store, backup>>
      /\ pc = "running" /\ pc' = "prove" /\ Gen \in Gens
  BY DEF Seal, history
<1>2. sptr # None => sptr \in Pointer /\ sptr.sect \in Draws
  BY PointerFields DEF TInv, TypeOK, MemoryOK
<1>3. PICK n \in Draws : /\ newp' = NewPointer(n) /\ ChunksIn(files', n)
                         /\ sptr # None /\ reseal = {} => ChunksIn(files', sptr.sect)
  <2>1. CASE /\ drawn < MaxDraws
             /\ files' = ChunkWritten(files, drawn + 1, Copies)
             /\ newp' = NewPointer(drawn + 1)
    <3>1. drawn + 1 \in Draws
      BY <1>1, <2>1, BoundsAssumption DEF TInv, TypeOK, HistoryOK, Draws
    <3>2. ChunksIn(files', drawn + 1)
      BY <1>1, <2>1, ChunksCome
    <3>3. sptr # None /\ reseal = {} => ChunksIn(files', sptr.sect)
      BY <1>1, <1>2, <2>1, ChunksStay DEF HealInv, SectionThere
    <3> QED BY <2>1, <3>1, <3>2, <3>3
  <2>2. CASE ~SectionChanged /\ newp' = NewPointer(sptr.sect) /\ files' = files
    <3>1. sptr # None /\ reseal = {}
      BY <2>2 DEF SectionChanged, Fresh
    <3>2. ChunksIn(files, sptr.sect)
      BY <3>1 DEF HealInv, SectionThere
    <3> QED BY <1>2, <2>2, <3>1, <3>2
  <2> QED BY <2>1, <2>2 DEF Seal
<1>4. newp' \in Pointer
  BY <1>1, <1>3, NewPointerFits
<1>5. /\ newp'.gen = attempted + 1 /\ newp'.sect = n
      /\ newp'.inv = IF inv = None THEN 0 ELSE inv.gen
  BY <1>3 DEF NewPointer, Gen
<1>6. newp'.inv =< newp'.gen
  <2>1. attempted \in Nat /\ (inv # None => inv \in Top)
    BY DEF TInv, TypeOK, MemoryOK
  <2>2. inv # None => inv.gen \in Nat /\ inv.gen =< attempted
    BY <2>1, TopFields DEF HealInv, InvOld, Gens
  <2> QED BY <1>5, <2>1, <2>2
<1>7. Sane'
  <2>1. Pointers' \subseteq Pointers \cup {newp'}
    BY <1>1 DEF Pointers, hard
  <2>2. PtrSane(newp')
    BY <1>6 DEF PtrSane
  <2>3. \A p \in Pointers \cup {newp'} : PtrSane(p)
    BY <2>2 DEF HealInv, Sane
  <2>4. \A p : PtrSane(p)' <=> PtrSane(p)
    BY DEF PtrSane
  <2>5. {top, hardTop, inv}' = {top, hardTop, inv}
    BY <1>1 DEF hard, store
  <2>6. \A t : TopSane(t)' <=> TopSane(t)
    BY DEF TopSane
  <2> QED BY <2>1, <2>3, <2>5 DEF HealInv, Sane, PtrSane, TopSane
<1>8. SectionThere'
  BY <1>1, <1>3, <1>5 DEF SectionThere, store
<1>9. InvOld' /\ ListedShard' /\ Commit' /\ ShardWritten'
  BY <1>1, <1>5
     DEF HealInv, InvOld, ListedShard, Commit, ShardWritten, SaveStates, store
<1> QED BY <1>7, <1>8, <1>9 DEF HealInv

\* The steps of a save after its chunks: the copies are those of the new pointer.
LEMMA HealRename == ASSUME TInv, HealInv, ProveLock \/ HealEnvelope \/ Land \/ RenameFails
                           \/ WriteMirror
                    PROVE HealInv'
<1>1. CASE ProveLock \/ HealEnvelope
  <2>1. /\ UNCHANGED <<files, ptr, mirror, top, shards, hard, store, newp, backup>>
        /\ (pc = "prove" /\ pc' = "rename") \/ (pc = "envelope" /\ pc' = "shard")
    BY <1>1 DEF ProveLock, HealEnvelope, disk, history
  <2>2. SectionThere' /\ ListedShard'
    BY <2>1 DEF HealInv, SectionThere, ListedShard, store
  <2> QED BY <2>1, <2>2, HealFrame
<1>2. CASE Land \/ RenameFails \/ WriteMirror
  <2>1. /\ UNCHANGED <<files, top, shards, hard, inv, listed, backup, prevLive, retained>>
        /\ ptr' \in {ptr, newp} /\ mirror' \in {mirror, newp} /\ newp' \in {newp, None}
    BY <1>2 DEF Land, RenameFails, WriteMirror, store, history
  <2>2. Pointers' \subseteq Pointers \cup {None, Bad}
    BY <2>1 DEF Pointers, hard
  <2>3. Sane'
    BY <2>1, <2>2, SaneKept DEF hard
  <2>4. newp # None /\ newp \in Pointer /\ newp.gen \in Nat /\ attempted \in Nat
    BY <1>2, PointerFields
       DEF Land, RenameFails, WriteMirror, TInv, TypeOK, MemoryOK, PositionOK, Gens
  <2>5. inv # None => inv.gen \in Nat
    BY TopFields DEF TInv, TypeOK, MemoryOK, Gens
  <2>6. CASE Land
    <3>1. /\ pc = "rename" /\ pc' = "mirror" /\ ptr' = newp /\ sptr' = newp /\ newp' = newp
          /\ attempted' = newp.gen /\ reseal' = {}
      BY <2>6 DEF Land
    <3>2. newp.gen = attempted + 1 /\ ChunksIn(files, newp.sect)
      BY <3>1 DEF HealInv, Commit, SectionThere
    <3>3. InvOld' /\ ListedShard' /\ SectionThere' /\ Commit' /\ ShardWritten'
      BY <2>1, <2>4, <2>5, <3>1, <3>2
         DEF HealInv, InvOld, ListedShard, SectionThere, Commit, ShardWritten, SaveStates
    <3> QED BY <2>3, <3>3 DEF HealInv
  <2>7. CASE RenameFails
    <3>1. /\ pc = "rename" /\ pc' \in {"running", "ended"} /\ attempted' = newp.gen
          /\ UNCHANGED <<sptr, reseal>>
      BY <2>7 DEF RenameFails, AfterFailure
    <3>2. newp.gen = attempted + 1
      BY <3>1 DEF HealInv, Commit
    <3>3. InvOld' /\ ListedShard' /\ SectionThere' /\ Commit' /\ ShardWritten'
      BY <2>1, <2>4, <2>5, <3>1, <3>2
         DEF HealInv, InvOld, ListedShard, SectionThere, Commit, ShardWritten, SaveStates
    <3> QED BY <2>3, <3>3 DEF HealInv
  <2>8. CASE WriteMirror
    <3>1. /\ pc = "mirror" /\ pc' \in {"envelope", "shard"}
          /\ UNCHANGED <<ptr, sptr, newp, attempted, reseal>>
      BY <2>8 DEF WriteMirror, store
    <3>2. InvOld' /\ ListedShard' /\ SectionThere' /\ Commit' /\ ShardWritten'
      BY <2>1, <3>1
         DEF HealInv, InvOld, ListedShard, SectionThere, Commit, ShardWritten, SaveStates
    <3> QED BY <2>3, <3>2 DEF HealInv
  <2> QED BY <1>2, <2>6, <2>7, <2>8
<1> QED BY <1>1, <1>2

\* The shard is written under the new generation, which is not the one gone on from.
LEMMA HealShard == ASSUME TInv, HealInv, WriteShard PROVE HealInv'
<1>1. /\ UNCHANGED <<files, ptr, mirror, top, hard, sptr, attempted, inv, listed, reseal,
                     newp, backup>>
      /\ pc = "shard" /\ pc' \in {"top", "running"}
      /\ prevLive' = NewLive /\ retained' = NewRetained
  BY DEF WriteShard, history
<1>2. Pointers' \subseteq Pointers \cup {None, Bad}
  BY <1>1 DEF Pointers, hard
<1>3. Sane'
  BY <1>1, <1>2, SaneKept DEF hard
<1>4. /\ sptr \in Pointer /\ sptr.gen \in Gens /\ sptr.gen = attempted
      /\ shards \in [Gens -> Shard \cup {None}]
  BY <1>1, PointerFields
     DEF TInv, TypeOK, FolderOK, MemoryOK, PositionOK, HealInv, Commit, SaveStates
<1>5. listed # None => inv.shard # sptr.gen
  <2>1. SUFFICES ASSUME listed # None PROVE inv.shard # sptr.gen
    OBVIOUS
  <2>2. inv \in Top
    BY <2>1 DEF TInv, TypeOK, MemoryOK, PositionOK
  <2>3. inv.shard \in Nat /\ inv.gen \in Nat /\ sptr.gen \in Nat
    BY <1>4, <2>2, TopFields DEF Gens
  <2>4. inv.shard =< inv.gen /\ inv.gen < sptr.gen
    BY <1>1, <1>4, <2>2, MarksAssumption DEF HealInv, Sane, TopSane, InvOld, SaveStates
  <2> QED BY <2>3, <2>4
<1> DEFINE x == [list |-> NewList, at |-> start]
<1>6. shards' = shards \/ shards' = [shards EXCEPT ![sptr.gen] = x]
  BY DEF WriteShard
<1>7. ListedShard'
  <2>1. \A g \in Gens : g # sptr.gen => shards'[g] = shards[g]
    <3> HIDE DEF x
    <3> QED BY <1>4, <1>6
  <2>2. listed # None => inv.shard \in Gens
    BY TopFields DEF TInv, TypeOK, MemoryOK, PositionOK
  <2> QED BY <1>1, <1>5, <2>1, <2>2 DEF HealInv, ListedShard
<1>8. ASSUME pc' = "top" PROVE ShardWritten'
  <2>1. CASE listed = NewList
    BY <1>1, <2>1 DEF ShardWritten, NewList
  <2>2. CASE listed # NewList
    <3>1. shards' = [shards EXCEPT ![sptr.gen] = x]
      BY <1>8, <2>2 DEF WriteShard
    <3>2. x \in Shard
      <4>1. NewList \in List
        BY <1>4, ListsFit, MarksAssumption DEF NewList, List
      <4> QED BY <1>1, <4>1 DEF Shard, TInv, PositionOK
    <3>3. x # None /\ x.list = NewList
      BY <3>2, MarksAssumption
    <3>4. shards'[sptr.gen] = x
      <4> HIDE DEF x
      <4> QED BY <1>4, <3>1
    <3> HIDE DEF x
    <3> QED BY <1>1, <3>3, <3>4 DEF ShardWritten, NewList
  <2> QED BY <2>1, <2>2
<1>9. InvOld' /\ SectionThere' /\ Commit'
  BY <1>1 DEF HealInv, InvOld, SectionThere, Commit, SaveStates
<1> QED BY <1>1, <1>3, <1>7, <1>8, <1>9 DEF HealInv, ShardWritten

\* The new file list is of the new pointer and names a shard that is there.
LEMMA NewTopIs ==
  ASSUME TInv, HealInv, pc = "top"
  PROVE  /\ NewTop \in Top /\ NewTop.gen = attempted
         /\ NewTop.of = ptr /\ ptr \in Pointer /\ ptr = sptr
         /\ TopSane(NewTop)
         /\ shards[NewTop.shard] # None /\ shards[NewTop.shard].list = NewTop.list
<1> DEFINE list == [live |-> prevLive, retained |-> retained]
<1>1. sptr \in Pointer /\ sptr = ptr /\ sptr.gen = attempted /\ sptr.gen \in Nat
  BY PointerFields DEF TInv, TypeOK, MemoryOK, PositionOK, HealInv, Commit, SaveStates, Gens
<1>2. /\ NewTop \in Top /\ NewTop.gen = sptr.gen /\ NewTop.of = sptr /\ NewTop.list = list
      /\ NewTop.shard = IF listed = list THEN inv.shard ELSE sptr.gen
  BY <1>1, NewTopFits DEF NewTop
<1>3. list # None
  <2>1. list \in List
    BY DEF List, TInv, TypeOK, MemoryOK
  <2> QED BY <2>1, MarksAssumption
<1> HIDE DEF list
<1>4. CASE listed = list
  <2>1. inv \in Top /\ inv.shard \in Nat /\ inv.gen \in Nat
    BY <1>3, <1>4, TopFields DEF TInv, TypeOK, MemoryOK, PositionOK, Gens
  <2>2. inv.shard =< inv.gen /\ inv.gen < sptr.gen
    BY <1>1, <2>1, MarksAssumption DEF HealInv, Sane, TopSane, InvOld, SaveStates
  <2>3. NewTop.shard =< NewTop.gen
    BY <1>1, <1>2, <1>4, <2>1, <2>2
  <2>4. shards[inv.shard] # None /\ shards[inv.shard].list = list
    BY <1>3, <1>4 DEF HealInv, ListedShard
  <2> QED BY <1>1, <1>2, <1>4, <2>3, <2>4 DEF TopSane
<1>5. CASE listed # list
  <2>1. shards[sptr.gen] # None /\ shards[sptr.gen].list = list
    BY <1>5 DEF HealInv, ShardWritten, list
  <2> QED BY <1>1, <1>2, <1>5, <2>1 DEF TopSane
<1> QED BY <1>4, <1>5

LEMMA HealTop == ASSUME TInv, HealInv, WriteTop PROVE HealInv'
<1>1. /\ UNCHANGED <<files, ptr, mirror, shards, hard, sptr, attempted, reseal, backup>>
      /\ pc = "top" /\ pc' = "running" /\ newp' = None
      /\ \/ top' = NewTop /\ inv' = NewTop /\ listed' = NewTop.list
         \/ UNCHANGED <<top, inv, listed>>
  BY DEF WriteTop, history
<1>2. /\ NewTop \in Top /\ NewTop.gen = attempted /\ TopSane(NewTop)
      /\ shards[NewTop.shard] # None /\ shards[NewTop.shard].list = NewTop.list
  BY <1>1, NewTopIs
<1>3. Pointers' \subseteq Pointers \cup {None}
  BY <1>1 DEF Pointers, hard
<1>4. Sane'
  <2>1. {top', hardTop', inv'} \subseteq {top, hardTop, inv, NewTop}
    BY <1>1 DEF hard
  <2>2. \A t \in {top, hardTop, inv, NewTop} : TopSane(t)
    BY <1>2 DEF HealInv, Sane
  <2>3. \A p \in Pointers \cup {None} : PtrSane(p)
    BY MarksAssumption DEF HealInv, Sane, PtrSane
  <2> QED BY <1>3, <2>1, <2>2, <2>3 DEF Sane, PtrSane, TopSane
<1>5. InvOld'
  <2>1. attempted \in Nat
    BY DEF TInv, TypeOK, MemoryOK
  <2> QED BY <1>1, <1>2, <2>1 DEF HealInv, InvOld, SaveStates
<1>6. ListedShard' /\ SectionThere' /\ Commit' /\ ShardWritten'
  BY <1>1, <1>2 DEF HealInv, ListedShard, SectionThere, Commit, ShardWritten, SaveStates
<1> QED BY <1>4, <1>5, <1>6 DEF HealInv

LEMMA HealStep == ASSUME TInv, HealInv, [Next]_vars PROVE HealInv'
<1>1. CASE UNCHANGED vars
  <2>1. UNCHANGED <<files, ptr, mirror, top, shards, hard, store, pc, newp, backup>>
    BY <1>1 DEF vars, disk, history
  <2>2. Pointers' \subseteq Pointers \cup {None, Bad}
    BY <2>1 DEF Pointers, hard
  <2>3. Sane'
    BY <2>1, <2>2, SaneKept DEF hard, store
  <2> QED BY <2>1, <2>3
          DEF HealInv, InvOld, ListedShard, SectionThere, Commit, ShardWritten, SaveStates, store
<1>2. CASE Refuse \/ Damage \/ Keep \/ Restore
  BY <1>2, HealOutside
<1>3. CASE LoadFresh \/ Load \/ Sweep \/ Prepare
  BY <1>3, HealLoads, HealSweep, HealPrepare
<1>4. CASE \E u \in Units : Capture(u) \/ CaptureFails(u) \/ Drop(u)
  BY <1>4, HealCaptures
<1>5. CASE Seal \/ SealFails \/ WriteShard \/ WriteTop
  BY <1>5, HealSeal, HealSealFails, HealShard, HealTop
<1>6. CASE ProveLock \/ HealEnvelope \/ Land \/ RenameFails \/ WriteMirror
  BY <1>6, HealRename
<1>7. CASE LockLost \/ Stop \/ Flush \/ PowerCut
  BY <1>7, HealEnds, HealFlush
<1> QED BY <1>1, <1>2, <1>3, <1>4, <1>5, <1>6, <1>7 DEF Next

LEMMA HealAlways == Spec => [](TInv /\ HealInv)
<1>1. TInv /\ HealInv /\ [Next]_vars => (TInv /\ HealInv)'
  BY HealStep, TypesStep
<1> QED BY <1>1, HealInit, TypesInit, PTL DEF Spec

\* A save whose last write lands, its mirror and its envelope in place, leaves every
\* part of the record there twice, whatever was damaged, restored or cut before the
\* run that made it.
THEOREM SaveAlwaysHeals == Spec => FullSaveHeals
<1>1. ASSUME TInv, HealInv, [Next]_vars,
             pc = "top", pc' = "running", top' # top, mirror = ptr, env = "present"
      PROVE  Redundant'
  <2>1. WriteTop
    BY <1>1 DEF Next, vars, disk, Refuse, LoadFresh, Load, Begin, Sweep, Capture, CaptureFails,
       CanCapture, Drop, Prepare, Seal, SealFails, ProveLock, LockLost, Land, RenameFails,
       WriteMirror, HealEnvelope, WriteShard, Stop, Forget, Flush, PowerCut, Damage, Keep,
       Restore
  <2>2. /\ top' = NewTop
        /\ UNCHANGED <<files, ptr, mirror, shards, env, sptr>>
    BY <1>1, <2>1 DEF WriteTop
  <2>3. /\ NewTop \in Top /\ NewTop.of = ptr /\ ptr \in Pointer /\ ptr = sptr
        /\ shards[NewTop.shard] # None /\ shards[NewTop.shard].list = NewTop.list
    BY <1>1, NewTopIs
  <2>4. SectionCopies(ptr) = Copies
    <3>1. reseal = {} /\ sptr # None
      BY <1>1, <2>3, MarksAssumption DEF HealInv, Commit, SaveStates
    <3> QED BY <2>3, <3>1, <1>1
            DEF HealInv, SectionThere, ChunksIn, SectionCopies, Has, Holds
  <2>5. SectionCopies(ptr)' = SectionCopies(ptr)
    BY <2>2 DEF SectionCopies, Holds
  <2> QED BY <1>1, <2>2, <2>3, <2>4, <2>5, MarksAssumption DEF Redundant, Readable
<1>2. TInv /\ HealInv /\ [Next]_vars =>
        [pc = "top" /\ pc' = "running" /\ top' # top /\ mirror = ptr /\ env = "present"
           => Redundant']_vars
  BY <1>1
<1> QED BY <1>2, HealAlways, PTL DEF Spec, FullSaveHeals

\* Losing one copy of the pointer, one chunk, the envelope or the list's shard of a
\* record that is whole: the next load goes on with the same record.
THEOREM OneLossAlwaysSurvived == Spec => OneLossIsSurvived
<1>1. ASSUME TInv, HealInv, [Next]_vars, pc = "idle", damage' # damage, Redundant, top' = top
      PROVE  Decision' = "accepted" /\ Best'.recs = ptr.recs /\ Best'.gen = ptr.gen
  <2>1. Damage
    BY <1>1 DEF Next, vars, history, Refuse, LoadFresh, Load, Begin, Sweep, Capture,
       CaptureFails, CanCapture, Drop, Prepare, Seal, SealFails, ProveLock, LockLost, Land,
       RenameFails, WriteMirror, HealEnvelope, WriteShard, WriteTop, Stop, Forget, Flush,
       PowerCut, Keep, Restore
  <2>2. /\ ptr \in Pointer /\ mirror = ptr /\ SectionCopies(ptr) = Copies
        /\ top \in Top /\ top.of = ptr
        /\ shards[top.shard] # None /\ shards[top.shard].list = top.list
    BY <1>1 DEF Redundant, Readable, TInv, TypeOK, FolderOK
  <2>3. /\ ptr' = ptr \/ mirror' = mirror
        /\ ptr' \in {ptr, None, Bad} /\ mirror' \in {mirror, None, Bad}
    BY <2>1 DEF Damage
  <2>4. Best' = ptr
    BY <2>2, <2>3, MarksAssumption DEF Best, Readable
  <2>5. \E j \in Copies : /\ files'[Chunk(ptr.sect, j)] # None
                           /\ files'[Chunk(ptr.sect, j)].bytes = ptr.sect
    <3>1. \E j \in Copies : files'[Chunk(ptr.sect, j)] = files[Chunk(ptr.sect, j)]
      <4>1. CASE files' = files
        BY <4>1 DEF Copies
      <4>2. CASE \E n \in Draws, k \in Copies : files' = [files EXCEPT ![Chunk(n, k)] = None]
        <5>1. PICK n \in Draws, k \in Copies : files' = [files EXCEPT ![Chunk(n, k)] = None]
          BY <4>2
        <5>2. PICK j \in Copies : j # k
          BY DEF Copies
        <5>3. Chunk(ptr.sect, j) \in FileNames /\ Chunk(ptr.sect, j) # Chunk(n, k)
          BY <2>2, <5>2, PointerFields, ChunkNameApart DEF FileNames, ChunkNames
        <5>4. files \in [FileNames -> File \cup {None}]
          BY <1>1 DEF TInv, TypeOK, FolderOK
        <5> QED BY <5>1, <5>2, <5>3, <5>4
      <4> QED BY <2>1, <4>1, <4>2 DEF Damage
    <3> QED BY <2>2, <3>1 DEF SectionCopies, Holds
  <2>6. top.gen = ptr.gen /\ ptr.inv =< ptr.gen
    BY <1>1, <2>2 DEF HealInv, Sane, TopSane, PtrSane, Pointers
  <2>7. Inventory(Best)'.inv = top
    <3>1. Readable(top') /\ top'.of \in {ptr', mirror'} /\ top'.gen = ptr.gen
      BY <1>1, <2>2, <2>3, <2>6, MarksAssumption DEF Readable
    <3> QED BY <1>1, <2>4, <3>1 DEF Inventory
  <2>8. F12(ptr, top) = "accepted"
    <3>1. ptr.gen \in Nat /\ ptr.inv \in Nat /\ top # None
      BY <2>2, PointerFields, MarksAssumption DEF Gens
    <3> QED BY <2>6, <3>1 DEF F12
  <2>9. Decision' = "accepted"
    <3>1. Readable(ptr)
      BY <2>2, MarksAssumption DEF Readable
    <3>2. SectionCopies(Best)' # {}
      BY <2>4, <2>5 DEF SectionCopies, Holds
    <3>3. F12(Best, Inventory(Best).inv)' = "accepted"
      BY <2>4, <2>7, <2>8 DEF F12
    <3> QED BY <2>4, <3>1, <3>2, <3>3 DEF Decision, Readable
  <2> QED BY <2>4, <2>9
<1>2. TInv /\ HealInv /\ [Next]_vars =>
        [pc = "idle" /\ damage' # damage /\ Redundant /\ top' = top
           => /\ Decision' = "accepted"
              /\ Best'.recs = ptr.recs /\ Best'.gen = ptr.gen]_vars
  BY <1>1
<1> QED BY <1>2, HealAlways, PTL DEF Spec, OneLossIsSurvived

(***************************************************************************)
(* Generations.  Nothing on disk is later than what a run counts from, as  *)
(* long as no shard is lost: a list whose shard is lost under an older     *)
(* pointer is not read, and says nothing of its generation.                *)
(***************************************************************************)
GensOld ==
  pc # "idle" => \A p \in Disk : p \in Pointer => p.gen =< attempted

TopOld(t) ==
  t \in Top =>
    /\ shards[t.shard] # None /\ shards[t.shard].list = t.list
    /\ pc # "idle" => t.gen =< attempted /\ (pc \in SaveStates => t.gen < attempted)

LoadedTop == pc = "loaded" => hardTop = top /\ (listed # None => inv = top)

NewestInv == GensOld /\ TopOld(top) /\ TopOld(hardTop) /\ LoadedTop

LEMMA NewestInit == Init => NewestInv
BY MarksAssumption DEF Init, NewestInv, GensOld, TopOld, LoadedTop

\* A step of a run, or its end, that brings no copy and no list to the folder and takes
\* no shard a list names.
LEMMA NewestFrame ==
  ASSUME NewestInv, Disk' \subseteq Disk \cup {None, Bad},
         {top, hardTop}' \subseteq {top, hardTop},
         \A g \in Gens : shards[g] # None => shards'[g] = shards[g],
         \/ pc' = "idle"
         \/ /\ pc # "idle" /\ attempted' = attempted
            /\ pc' \in SaveStates => pc \in SaveStates
            /\ pc' # "loaded" \/ UNCHANGED <<pc, top, hardTop, listed, inv>>
  PROVE  NewestInv'
<1>1. GensOld'
  BY MarksAssumption DEF NewestInv, GensOld
<1>2. \A t \in {top, hardTop} : TopOld(t)'
  <2> SUFFICES ASSUME NEW t \in {top, hardTop}, t' \in Top PROVE TopOld(t)'
    BY DEF TopOld
  <2>1. \A s \in {top, hardTop} : s \in Top => s.shard \in Gens
    BY TopFields
  <2> QED BY <2>1 DEF NewestInv, TopOld
<1>3. LoadedTop'
  BY DEF NewestInv, LoadedTop
<1> QED BY <1>1, <1>2, <1>3 DEF NewestInv

LEMMA NewestEnds ==
  ASSUME NewestInv, Stop \/ LockLost \/ PowerCut \/ Flush \/ Keep PROVE NewestInv'
<1>1. /\ ptr' \in {ptr, hardPtr} /\ hardPtr' \in {ptr, hardPtr}
      /\ mirror' \in {mirror, hardMirror} /\ hardMirror' \in {mirror, hardMirror}
      /\ top' \in {top, hardTop} /\ hardTop' \in {top, hardTop} /\ shards' = shards
  BY DEF Stop, LockLost, PowerCut, Flush, Keep, disk, hard
<1>2. Disk' \subseteq Disk
  BY <1>1 DEF Disk
<1>3. CASE pc' = "idle"
  BY <1>1, <1>2, <1>3, NewestFrame
<1>4. CASE pc' # "idle"
  <2>1. pc # "idle" /\ UNCHANGED <<pc, attempted, listed, inv, top>> /\ hardTop' = top
    BY <1>4 DEF Stop, LockLost, PowerCut, Flush, Keep, Forget, store, disk
  <2>2. NewestInv => GensOld' /\ LoadedTop'
    BY <1>2, <2>1 DEF NewestInv, GensOld, LoadedTop
  <2>3. TopOld(top)' /\ TopOld(hardTop)'
    BY <1>1, <2>1 DEF NewestInv, TopOld
  <2> QED BY <2>2, <2>3 DEF NewestInv
<1> QED BY <1>3, <1>4

\* Between two runs nothing is said of generations, only of shards.
LEMMA NewestDamage ==
  ASSUME "shard" \notin Damages, NewestInv, Damage \/ Restore \/ Refuse PROVE NewestInv'
<1>1. /\ pc' = "idle" /\ shards' = shards
      /\ top' \in {top, None, Bad} /\ hardTop' \in {top, hardTop}
  BY DEF Damage, Restore, Refuse, Begin, disk, hard
<1>2. TopOld(top)' /\ TopOld(hardTop)'
  BY <1>1, MarksAssumption DEF NewestInv, TopOld
<1> QED BY <1>1, <1>2 DEF NewestInv, GensOld, LoadedTop

LEMMA NewestLoads == ASSUME TInv, NewestInv, HealInv, Load \/ LoadFresh PROVE NewestInv'
<1>1. /\ UNCHANGED <<ptr, mirror, top, shards>>
      /\ hardPtr' = ptr /\ hardMirror' = mirror /\ hardTop' = top /\ pc = "idle"
  BY DEF Load, LoadFresh, Begin, disk
<1>2. /\ ptr \in Pointer \cup {None, Bad} /\ mirror \in Pointer \cup {None, Bad}
      /\ top \in Top \cup {None, Bad}
  BY DEF TInv, TypeOK, FolderOK
<1>3. CASE LoadFresh
  <2>1. ptr = None /\ mirror = None /\ NothingYet /\ pc' = "fresh"
    <3>1. Decision = "fresh" /\ pc' = "fresh"
      BY <1>3 DEF LoadFresh
    <3>2. F12(Best, Inventory(Best).inv) # "fresh"
      BY DEF F12
    <3> QED BY <3>1, <3>2 DEF Decision
  <2>2. top \notin Top
    BY <2>1, TopFields DEF NewestInv, TopOld, NothingYet
  <2> QED BY <1>1, <2>1, <2>2, MarksAssumption
          DEF NewestInv, GensOld, TopOld, LoadedTop, Disk, SaveStates
<1>4. CASE Load
  <2> DEFINE i == Inventory(Best)
  <2>1. /\ Decision = "accepted" /\ pc' = "loaded" /\ attempted' = Best.gen
        /\ inv' = i.inv /\ listed' = i.listed
    BY <1>4 DEF Load
  <2>2. /\ Best \in Pointer /\ i.inv \in {None, top}
        /\ i.inv # None => i.inv \in Top /\ i.inv.gen =< Best.gen
        /\ i.listed # None => i.inv # None
    BY <2>1, AcceptedList
  <2>3. Best.gen \in Nat /\ Readable(Best)
    BY <2>2, PointerFields, MarksAssumption DEF Gens, Readable
  <2>4. \A p \in {ptr, mirror} : p \in Pointer => p.gen =< Best.gen
    <3>1. \A p \in Pointer : Readable(p) /\ p.gen \in Nat
      BY PointerFields, MarksAssumption DEF Readable, Gens
    <3> QED BY <2>3, <3>1 DEF Best
  <2>5. top \in Top => top.gen =< Best.gen
    <3>1. SUFFICES ASSUME top \in Top, i.inv = None PROVE top.gen =< Best.gen
      BY <2>2
    <3>2. Readable(top) /\ shards[top.shard] # None /\ shards[top.shard].list = top.list
      BY <3>1, MarksAssumption DEF Readable, NewestInv, TopOld
    <3>3. top.gen = Best.gen
      BY <3>1, <3>2, MarksAssumption DEF Inventory, NoInventory, Readable
    <3> QED BY <2>3, <3>3
  <2>6. GensOld'
    BY <1>1, <2>1, <2>4 DEF GensOld, Disk
  <2>7. TopOld(top)' /\ TopOld(hardTop)'
    BY <1>1, <2>1, <2>5 DEF NewestInv, TopOld, SaveStates
  <2>8. LoadedTop'
    BY <1>1, <2>1, <2>2 DEF LoadedTop
  <2> QED BY <2>6, <2>7, <2>8 DEF NewestInv
<1> QED BY <1>3, <1>4

LEMMA NewestSweep == ASSUME TInv, NewestInv, Sweep PROVE NewestInv'
<1>1. /\ UNCHANGED <<ptr, mirror, top, hard, store>> /\ pc = "loaded" /\ pc' = "running"
  BY DEF Sweep
<1>2. \A t \in {top, hardTop} : t \in Top => shards'[t.shard] = shards[t.shard]
  <2>1. CASE listed # None
    BY <1>1, <2>1, SweepSpares DEF NewestInv, LoadedTop, TInv, PositionOK
  <2>2. CASE listed = None
    BY <2>2 DEF Sweep
  <2> QED BY <2>1, <2>2
<1>3. GensOld'
  BY <1>1 DEF NewestInv, GensOld, Disk, hard, store
<1>4. TopOld(top)' /\ TopOld(hardTop)'
  BY <1>1, <1>2 DEF NewestInv, TopOld, hard, store, SaveStates
<1> QED BY <1>1, <1>3, <1>4 DEF NewestInv, LoadedTop

LEMMA NewestAside ==
  ASSUME NewestInv, UNCHANGED <<ptr, top, hard, shards, attempted>>,
         mirror' \in {mirror, ptr},
         pc # "idle", pc' \notin {"idle", "loaded"}, pc' \in SaveStates => pc \in SaveStates
  PROVE  NewestInv'
<1>1. Disk' \subseteq Disk
  BY DEF Disk, hard
<1> QED BY <1>1, NewestFrame DEF hard

\* A rename that lands, or may have, counts its generation from then on.
LEMMA NewestRename == ASSUME TInv, HealInv, NewestInv, Land \/ RenameFails PROVE NewestInv'
<1>1. /\ pc = "rename" /\ pc' \in {"mirror", "running", "ended"} /\ attempted' = newp.gen
      /\ ptr' \in {ptr, newp} /\ UNCHANGED <<mirror, top, hard, shards>>
  BY DEF Land, RenameFails, AfterFailure
<1>2. newp.gen = attempted + 1 /\ attempted \in Nat
  BY <1>1 DEF HealInv, Commit, TInv, TypeOK, MemoryOK
<1>3. \A p \in Disk : p \in Pointer => p.gen \in Nat /\ p.gen =< attempted
  BY <1>1, PointerFields DEF NewestInv, GensOld, Gens
<1>4. GensOld'
  <2>1. Disk' \subseteq Disk \cup {newp}
    BY <1>1 DEF Disk, hard
  <2> QED BY <1>1, <1>2, <1>3, <2>1 DEF GensOld
<1>5. \A t \in {top, hardTop} : t \in Top => t.gen \in Nat /\ t.gen =< attempted
  BY <1>1, TopFields DEF NewestInv, TopOld, Gens
<1>6. \A t \in {top, hardTop} : t \in Top => t.gen =< newp.gen /\ t.gen < newp.gen
  BY <1>2, <1>5
<1>7. TopOld(top)' /\ TopOld(hardTop)'
  BY <1>1, <1>6 DEF NewestInv, TopOld, hard
<1> QED BY <1>1, <1>4, <1>7 DEF NewestInv, LoadedTop

LEMMA NewestShard == ASSUME TInv, HealInv, NewestInv, WriteShard PROVE NewestInv'
<1>1. /\ UNCHANGED <<ptr, mirror, top, hard, attempted>>
      /\ pc = "shard" /\ pc' \in {"top", "running"}
  BY DEF WriteShard
<1>2. sptr.gen = attempted /\ shards \in [Gens -> Shard \cup {None}] /\ attempted \in Nat
  BY <1>1 DEF HealInv, Commit, SaveStates, TInv, TypeOK, FolderOK, MemoryOK
<1>3. \A g \in Gens : g # sptr.gen => shards'[g] = shards[g]
  BY <1>2 DEF WriteShard
<1>4. \A t \in {top, hardTop} : t \in Top => t.shard \in Gens /\ t.shard # sptr.gen
  <2> SUFFICES ASSUME NEW t \in {top, hardTop}, t \in Top
               PROVE  t.shard \in Gens /\ t.shard # sptr.gen
    OBVIOUS
  <2>1. t.shard \in Gens /\ t.shard \in Nat /\ t.gen \in Nat
    BY TopFields DEF Gens
  <2>2. t.shard =< t.gen /\ t.gen < attempted
    BY <1>1 DEF HealInv, Sane, TopSane, NewestInv, TopOld, SaveStates
  <2> QED BY <1>2, <2>1, <2>2
<1>5. GensOld'
  BY <1>1 DEF NewestInv, GensOld, Disk, hard
<1>6. TopOld(top)' /\ TopOld(hardTop)'
  BY <1>1, <1>3, <1>4 DEF NewestInv, TopOld, hard, SaveStates
<1> QED BY <1>1, <1>5, <1>6 DEF NewestInv, LoadedTop

LEMMA NewestTop == ASSUME TInv, HealInv, NewestInv, WriteTop PROVE NewestInv'
<1>1. /\ UNCHANGED <<ptr, mirror, hard, shards, attempted>>
      /\ pc = "top" /\ pc' = "running" /\ top' \in {top, NewTop}
  BY DEF WriteTop
<1>2. /\ NewTop.gen = attempted /\ attempted \in Nat
      /\ shards[NewTop.shard] # None /\ shards[NewTop.shard].list = NewTop.list
  BY <1>1, NewTopIs DEF TInv, TypeOK, MemoryOK
<1>3. GensOld'
  BY <1>1 DEF NewestInv, GensOld, Disk, hard
<1>4. TopOld(top)' /\ TopOld(hardTop)'
  BY <1>1, <1>2 DEF NewestInv, TopOld, hard, SaveStates
<1> QED BY <1>1, <1>3, <1>4 DEF NewestInv, LoadedTop

LEMMA NewestStep ==
  ASSUME "shard" \notin Damages, TInv, HealInv, NewestInv, [Next]_vars PROVE NewestInv'
<1>1. CASE UNCHANGED vars
  <2>1. UNCHANGED <<ptr, mirror, top, shards, hard, pc, attempted, listed, inv>>
    BY <1>1 DEF vars, disk, store
  <2> QED BY <2>1 DEF NewestInv, GensOld, TopOld, LoadedTop, Disk, hard, SaveStates
<1>2. CASE LockLost \/ Stop \/ Flush \/ PowerCut \/ Keep
  BY <1>2, NewestEnds
<1>3. CASE Refuse \/ Damage \/ Restore
  BY <1>3, NewestDamage
<1>4. CASE LoadFresh \/ Load \/ Sweep
  BY <1>4, NewestLoads, NewestSweep
<1>5. CASE Land \/ RenameFails \/ WriteShard \/ WriteTop
  BY <1>5, NewestRename, NewestShard, NewestTop
<1>6. CASE \/ \E u \in Units : Capture(u) \/ CaptureFails(u) \/ Drop(u)
           \/ Prepare \/ Seal \/ SealFails \/ ProveLock \/ HealEnvelope \/ WriteMirror
  <2>1. UNCHANGED <<ptr, top, hard, shards, attempted>>
    BY <1>6 DEF Capture, CaptureFails, Drop, Prepare, Seal, SealFails, ProveLock, HealEnvelope,
       WriteMirror, disk, store
  <2>2. mirror' \in {mirror, ptr}
    BY <1>6 DEF Capture, CaptureFails, Drop, Prepare, Seal, SealFails, ProveLock, HealEnvelope,
       WriteMirror, disk, HealInv, Commit
  <2>3. /\ pc # "idle" /\ pc' \notin {"idle", "loaded"}
        /\ pc' \in SaveStates => pc \in SaveStates
    BY <1>6 DEF Capture, CaptureFails, CanCapture, Drop, Prepare, Seal, SealFails, ProveLock,
       HealEnvelope, WriteMirror, AfterFailure, SaveStates
  <2> QED BY <2>1, <2>2, <2>3, NewestAside
<1> QED BY <1>1, <1>2, <1>3, <1>4, <1>5, <1>6 DEF Next

LEMMA NewestAlways ==
  ASSUME "shard" \notin Damages PROVE Spec => [](TInv /\ HealInv /\ NewestInv)
<1>1. TInv /\ HealInv /\ NewestInv /\ [Next]_vars => (TInv /\ HealInv /\ NewestInv)'
  BY HealStep, TypesStep, NewestStep
<1> QED BY <1>1, HealInit, TypesInit, NewestInit, PTL DEF Spec

\* A pointer that lands is of a later generation than every copy and every list on
\* disk, through failed renames, power cuts, lost copies and old copies put back, as
\* long as no shard of the file list is lost.
THEOREM AlwaysLandsAsNewest == ASSUME "shard" \notin Damages PROVE Spec => LandsAsNewest
<1>1. ASSUME TInv, HealInv, NewestInv, [Next]_vars, ptr' # ptr, pc = "rename", pc' # "idle"
      PROVE  /\ \A q \in {ptr, mirror} : Readable(q) => ptr'.gen > q.gen
             /\ Readable(top) => ptr'.gen > top.gen
  <2>1. ptr' = newp
    BY <1>1 DEF Next, vars, disk, Refuse, LoadFresh, Load, Begin, Sweep, Capture, CaptureFails,
       CanCapture, Drop, Prepare, Seal, SealFails, ProveLock, LockLost, Land, RenameFails,
       WriteMirror, HealEnvelope, WriteShard, WriteTop, Stop, Forget, Flush, PowerCut, Damage,
       Keep, Restore
  <2>2. newp.gen = attempted + 1 /\ attempted \in Nat
    BY <1>1 DEF HealInv, Commit, TInv, TypeOK, MemoryOK
  <2>3. \A q \in {ptr, mirror} : Readable(q) => q.gen \in Nat /\ q.gen =< attempted
    <3>1. \A q \in {ptr, mirror} : Readable(q) => q \in Pointer /\ q \in Disk
      BY <1>1 DEF TInv, TypeOK, FolderOK, Readable, Disk
    <3> QED BY <1>1, <3>1, PointerFields DEF NewestInv, GensOld, Gens
  <2>4. Readable(top) => top.gen \in Nat /\ top.gen =< attempted
    <3>1. Readable(top) => top \in Top
      BY <1>1 DEF TInv, TypeOK, FolderOK, Readable
    <3> QED BY <1>1, <3>1, TopFields DEF NewestInv, TopOld, Gens
  <2> QED BY <2>1, <2>2, <2>3, <2>4
<1>2. TInv /\ HealInv /\ NewestInv /\ [Next]_vars =>
        [ptr' # ptr /\ pc = "rename" /\ pc' # "idle" =>
           /\ \A q \in {ptr, mirror} : Readable(q) => ptr'.gen > q.gen
           /\ Readable(top) => ptr'.gen > top.gen]_vars
  BY <1>1
<1> QED BY <1>2, NewestAlways, PTL DEF Spec, LandsAsNewest

(***************************************************************************)
(* Kills alone.  With no damage, no power cut and no old copy put back the *)
(* pointer, its mirror and the list beside them keep step.                 *)
(***************************************************************************)
GenOfTop(t) == IF t = None THEN 0 ELSE t.gen

InStep ==
  /\ ptr # Bad /\ mirror # Bad /\ top # Bad
  /\ mirror # None => ptr # None /\ mirror.gen =< ptr.gen
  /\ top # None => /\ ptr # None /\ top.gen =< ptr.gen
                   /\ top.gen = ptr.gen => top.of = ptr
                   /\ shards[top.shard] # None /\ shards[top.shard].list = top.list
  /\ ptr # None => ptr.inv =< GenOfTop(top) /\ ChunksIn(files, ptr.sect)
  /\ ptr = None => NothingYet

RunInStep ==
  /\ pc # "idle" => inv = top /\ (ptr # None => ptr.gen =< attempted)
  /\ sptr # None => ptr # None
  /\ pc \in {"fresh", "running", "prove", "rename"} /\ sptr = None => ptr = None
  /\ pc = "loaded" => sptr = ptr
  /\ pc \in {"prove", "rename"} => newp.inv = GenOfTop(top)

KillInv ==
  /\ damage = 0 => InStep /\ RunInStep
  /\ KillNeverLocksOut

LEMMA KillInit == Init => KillInv
BY MarksAssumption DEF Init, KillInv, InStep, RunInStep, KillNeverLocksOut, NothingYet, GenOfTop,
   UnitNames, FileNames

\* The copies, the list and the chunks in step: a load goes on with the first copy and
\* with the list, or starts from nothing.
LEMMA DecisionInStep ==
  ASSUME TInv, HealInv, InStep
  PROVE  /\ ptr # None => /\ Decision = "accepted" /\ Best = ptr
                          /\ Inventory(ptr).inv = top
         /\ ptr = None => Decision = "fresh" /\ top = None
<1>1. /\ ptr \in Pointer \cup {None} /\ mirror \in Pointer \cup {None}
      /\ top \in Top \cup {None}
  BY DEF TInv, TypeOK, FolderOK, InStep
<1>2. ASSUME ptr # None PROVE Decision = "accepted" /\ Best = ptr /\ Inventory(ptr).inv = top
  <2>1. ptr \in Pointer /\ Readable(ptr) /\ ptr.gen \in Nat /\ ptr.inv \in Nat
    BY <1>1, <1>2, PointerFields, MarksAssumption DEF Readable, Gens
  <2>2. Best = ptr
    <3>1. mirror # None => mirror.gen \in Nat /\ mirror.gen =< ptr.gen
      BY <1>1, PointerFields DEF InStep, Gens
    <3> QED BY <1>1, <2>1, <3>1 DEF Best, Readable
  <2>3. top # None => /\ top \in Top /\ Readable(top) /\ top.gen \in Nat /\ top.gen =< ptr.gen
                      /\ top.gen = ptr.gen => top.of = ptr
                      /\ shards[top.shard] # None /\ shards[top.shard].list = top.list
    BY <1>1, TopFields, MarksAssumption DEF InStep, Readable, Gens
  <2>4. Inventory(ptr).inv = top
    BY <2>3 DEF Inventory, NoInventory, Readable
  <2>5. ptr.inv =< GenOfTop(top)
    BY <1>2 DEF InStep
  <2>6. F12(ptr, top) = "accepted"
    <3>1. CASE top = None
      BY <2>1, <2>5, <3>1 DEF F12, GenOfTop
    <3>2. CASE top # None
      BY <2>1, <2>3, <2>5, <3>2 DEF F12, GenOfTop
    <3> QED BY <3>1, <3>2
  <2>7. SectionCopies(ptr) # {}
    <3>1. 1 \in Copies /\ ChunksIn(files, ptr.sect)
      BY <1>2 DEF Copies, InStep
    <3> QED BY <3>1 DEF SectionCopies, ChunksIn, Has, Holds
  <2> QED BY <2>1, <2>2, <2>4, <2>6, <2>7 DEF Decision
<1>3. ASSUME ptr = None PROVE Decision = "fresh" /\ top = None
  BY <1>3 DEF InStep, Best, Readable, Decision
<1> QED BY <1>2, <1>3

\* Between two runs, and where a run ends, the folder is as it was.
LEMMA KillEnds ==
  ASSUME InStep, UNCHANGED <<ptr, mirror, top, files, shards>>,
         pc' = "idle", sptr' = None
  PROVE  InStep' /\ RunInStep'
BY DEF InStep, RunInStep, ChunksIn, Has, NothingYet, GenOfTop

LEMMA KillLoads ==
  ASSUME TInv, HealInv, InStep, Load \/ LoadFresh
  PROVE  InStep' /\ RunInStep'
<1>1. UNCHANGED <<ptr, mirror, top, files, shards, newp>> /\ pc = "idle"
  BY DEF Load, LoadFresh, Begin, disk
<1>2. InStep'
  BY <1>1 DEF InStep, ChunksIn, Has, NothingYet, GenOfTop
<1>3. CASE Load
  <2>1. /\ Decision = "accepted" /\ pc' = "loaded" /\ sptr' = Best /\ attempted' = Best.gen
        /\ inv' = Inventory(Best).inv
    BY <1>3 DEF Load
  <2>2. ptr # None /\ Best = ptr /\ Inventory(ptr).inv = top
    BY <2>1, DecisionInStep
  <2>3. ptr.gen =< ptr.gen
    <3>1. ptr \in Pointer
      BY <2>2 DEF TInv, TypeOK, FolderOK, InStep
    <3> QED BY <3>1, PointerFields DEF Gens
  <2> QED BY <1>1, <1>2, <2>1, <2>2, <2>3 DEF RunInStep
<1>4. CASE LoadFresh
  <2>1. Decision = "fresh" /\ pc' = "fresh" /\ UNCHANGED <<sptr, inv>>
    BY <1>4 DEF LoadFresh
  <2>2. ptr = None /\ top = None
    BY <2>1, DecisionInStep
  <2>3. sptr = None /\ inv = None
    BY <1>1 DEF HealInv, Commit
  <2> QED BY <1>1, <1>2, <2>1, <2>2, <2>3 DEF RunInStep
<1> QED BY <1>3, <1>4

\* Steps that change the files of a run alone.
LEMMA KillFiles ==
  ASSUME TInv, HealInv, InStep, RunInStep,
         \/ Sweep \/ Prepare \/ Seal \/ SealFails
         \/ \E u \in Units : Capture(u) \/ CaptureFails(u) \/ Drop(u)
  PROVE  InStep' /\ RunInStep'
<1>1. /\ UNCHANGED <<ptr, mirror, top, sptr, inv, attempted>> /\ pc # "idle"
      /\ pc' \in {"running", "prove", "ended"}
      /\ pc' = "prove" => Seal
      /\ pc \in {"loaded", "fresh", "running"}
  BY DEF Sweep, Prepare, Seal, SealFails, Capture, CaptureFails, CanCapture, Drop, AfterFailure,
     disk, store
<1>2. ptr \in Pointer \cup {None}
  BY DEF TInv, TypeOK, FolderOK, InStep
<1>3. ASSUME ptr # None PROVE ChunksIn(files', ptr.sect)
  <2>1. ptr.sect \in Draws /\ ChunksIn(files, ptr.sect)
    BY <1>2, <1>3, PointerFields DEF InStep
  <2>2. CASE Sweep
    BY <2>1, <2>2, SweepSpares DEF Sweep, RunInStep
  <2>3. CASE Prepare
    BY <1>3, <2>3 DEF Prepare, HealInv, Commit, RunInStep
  <2>4. CASE Seal \/ SealFails
    <3>1. files' = files \/ (drawn < MaxDraws /\ \E c : files' = ChunkWritten(files, drawn + 1, c))
      BY <2>4 DEF Seal, SealFails
    <3> QED BY <1>1, <2>1, <3>1, ChunksStay
  <2>5. CASE \E u \in Units : Capture(u) \/ CaptureFails(u) \/ Drop(u)
    BY <2>1, <2>5, CaptureKeepsChunks
  <2> QED BY <2>2, <2>3, <2>4, <2>5
<1>4. ASSUME ptr = None PROVE NothingYet'
  <2>1. NothingYet /\ sptr = None
    BY <1>4 DEF InStep, RunInStep
  <2>2. ~Sweep /\ ~ \E u \in Units : Capture(u) \/ CaptureFails(u)
    BY <2>1 DEF Sweep, Capture, CaptureFails, CanCapture, Fresh, TInv, PositionOK
  <2>3. shards' = shards
    BY <2>2 DEF Prepare, Seal, SealFails, Drop, disk
  <2>4. \A f \in UnitNames : f \in FileNames /\ f \notin ChunkNames
    BY UnitIsNoChunk DEF UnitNames, ChunkNames, FileNames
  <2>5. \A f \in UnitNames : files'[f] = files[f]
    <3>1. CASE Prepare
      BY <2>1, <2>4, <3>1 DEF Prepare
    <3>2. CASE Seal \/ SealFails
      <4>1. files' = files \/ \E c : files' = ChunkWritten(files, drawn + 1, c)
        BY <3>2 DEF Seal, SealFails
      <4>2. \A c : \A f \in UnitNames : f \notin {Chunk(drawn + 1, i) : i \in c}
        BY UnitIsNoChunk DEF UnitNames
      <4> QED BY <2>4, <4>1, <4>2 DEF ChunkWritten
    <3>3. CASE \E u \in Units : Drop(u)
      BY <3>3 DEF Drop, disk
    <3> QED BY <2>2, <3>1, <3>2, <3>3
  <2> QED BY <2>1, <2>3, <2>5 DEF NothingYet
<1>5. top # None => shards'[top.shard] = shards[top.shard]
  <2>1. CASE Sweep
    BY <1>1, <2>1, SweepSpares DEF RunInStep
  <2>2. CASE ~Sweep
    BY <2>2 DEF Prepare, Seal, SealFails, Capture, CaptureFails, Drop, disk
  <2> QED BY <2>1, <2>2
<1>6. InStep'
  BY <1>1, <1>3, <1>4, <1>5 DEF InStep, GenOfTop
<1>7. Seal => newp'.inv = GenOfTop(top)
  <2>1. inv = top
    BY <1>1 DEF RunInStep
  <2>2. \A n : NewPointer(n).inv = GenOfTop(top)
    BY <2>1 DEF NewPointer, GenOfTop
  <2> QED BY <2>2 DEF Seal
<1>8. RunInStep'
  <2>1. pc = "loaded" => sptr # None
    BY DEF TInv, PositionOK
  <2> QED BY <1>1, <1>7, <2>1 DEF RunInStep, GenOfTop
<1> QED BY <1>6, <1>8

\* The commit: the new pointer is later than everything, and claims the list there is.
LEMMA KillCommit ==
  ASSUME TInv, HealInv, InStep, RunInStep, Land \/ RenameFails
  PROVE  InStep' /\ RunInStep'
<1>1. /\ pc = "rename" /\ ptr' \in {ptr, newp} /\ attempted' = newp.gen
      /\ UNCHANGED <<files, mirror, top, shards, inv>>
      /\ \/ pc' = "mirror" /\ sptr' = newp /\ ptr' = newp
         \/ pc' = AfterFailure /\ sptr' = sptr
  BY DEF Land, RenameFails
<1>2. /\ newp \in Pointer /\ newp # None /\ newp.gen \in Nat
      /\ newp.gen = attempted + 1 /\ attempted \in Nat
      /\ newp.inv = GenOfTop(top) /\ ChunksIn(files, newp.sect)
  BY <1>1, PointerFields
     DEF TInv, TypeOK, MemoryOK, PositionOK, HealInv, Commit, SectionThere, RunInStep, Gens
<1>3. /\ ptr \in Pointer \cup {None} /\ mirror \in Pointer \cup {None}
      /\ top \in Top \cup {None}
  BY DEF TInv, TypeOK, FolderOK, InStep
<1>4. inv = top /\ (ptr # None => ptr.gen \in Nat /\ ptr.gen =< attempted)
  BY <1>1, <1>3, PointerFields DEF RunInStep, Gens
<1>5. ASSUME mirror # None PROVE mirror.gen \in Nat /\ mirror.gen =< attempted
  <2>1. ptr # None /\ mirror.gen =< ptr.gen /\ mirror \in Pointer
    BY <1>3, <1>5 DEF InStep
  <2>2. mirror.gen \in Nat
    BY <2>1, PointerFields DEF Gens
  <2> QED BY <1>2, <1>4, <2>1, <2>2
<1>6. ASSUME top # None PROVE top.gen \in Nat /\ top.gen =< attempted
  <2>1. ptr # None /\ top.gen =< ptr.gen /\ top \in Top
    BY <1>3, <1>6 DEF InStep
  <2>2. top.gen \in Nat
    BY <2>1, TopFields DEF Gens
  <2> QED BY <1>2, <1>4, <2>1, <2>2
<1>7. CASE ptr' = newp
  <2>1. /\ newp # Bad /\ (mirror # None => mirror.gen =< newp.gen)
        /\ top # None => top.gen =< newp.gen /\ top.gen # newp.gen
        /\ newp.inv =< GenOfTop(top) /\ newp.gen =< newp.gen
    <3>1. GenOfTop(top) \in Nat
      BY <1>6 DEF GenOfTop
    <3> QED BY <1>2, <1>5, <1>6, <3>1, MarksAssumption
  <2>2. InStep'
    BY <1>1, <1>2, <1>7, <2>1 DEF InStep, GenOfTop
  <2>3. RunInStep'
    BY <1>1, <1>2, <1>4, <1>7, <2>1 DEF RunInStep, AfterFailure, Fresh
  <2> QED BY <2>2, <2>3
<1>8. CASE ptr' = ptr
  <2>1. InStep'
    BY <1>1, <1>8 DEF InStep, ChunksIn, Has, NothingYet, GenOfTop
  <2>2. ptr # None => ptr.gen =< newp.gen
    BY <1>2, <1>4
  <2>3. ptr # newp => pc' = AfterFailure /\ sptr' = sptr
    BY <1>1, <1>8
  <2>4. RunInStep'
    BY <1>1, <1>2, <1>4, <1>8, <2>2, <2>3 DEF RunInStep, AfterFailure, Fresh
  <2> QED BY <2>1, <2>4
<1> QED BY <1>1, <1>7, <1>8

LEMMA KillAfter ==
  ASSUME TInv, HealInv, InStep, RunInStep,
         ProveLock \/ HealEnvelope \/ WriteMirror \/ WriteShard \/ WriteTop
  PROVE  InStep' /\ RunInStep'
<1>1. UNCHANGED <<ptr, files, sptr, attempted>> /\ pc \notin {"idle", "fresh", "running"}
  BY DEF ProveLock, HealEnvelope, WriteMirror, WriteShard, WriteTop, disk, store
<1>2. CASE ProveLock \/ HealEnvelope
  <2>1. /\ UNCHANGED <<mirror, top, shards, inv, newp>>
        /\ (pc = "prove" /\ pc' = "rename") \/ (pc = "envelope" /\ pc' = "shard")
    BY <1>2 DEF ProveLock, HealEnvelope, disk, store
  <2> QED BY <1>1, <2>1 DEF InStep, RunInStep, ChunksIn, Has, NothingYet, GenOfTop
<1>3. CASE WriteMirror \/ WriteShard \/ WriteTop
  <2>1. /\ ptr \in Pointer /\ ptr # None /\ sptr = ptr /\ ptr.gen = attempted /\ ptr.gen \in Nat
        /\ ptr # Bad /\ inv = top
    BY <1>3, PointerFields, MarksAssumption
       DEF WriteMirror, WriteShard, WriteTop, HealInv, Commit, SaveStates, TInv, TypeOK,
           MemoryOK, PositionOK, RunInStep, Gens
  <2>2. top # Bad => top \in Top \cup {None}
    BY DEF TInv, TypeOK, FolderOK
  <2>3. CASE WriteMirror
    <3>1. /\ mirror' \in {mirror, ptr} /\ UNCHANGED <<top, shards, inv>>
          /\ pc' \in {"envelope", "shard"}
      BY <2>3 DEF WriteMirror, store, HealInv, Commit
    <3> QED BY <1>1, <2>1, <3>1 DEF InStep, RunInStep, GenOfTop
  <2>4. CASE WriteShard
    <3>1. UNCHANGED <<mirror, top, inv>> /\ pc' \in {"top", "running"} /\ pc = "shard"
      BY <2>4 DEF WriteShard
    <3>2. \A g \in Gens : g # sptr.gen => shards'[g] = shards[g]
      BY <2>4 DEF WriteShard, TInv, TypeOK, FolderOK
    <3>3. ASSUME top # None PROVE top.shard \in Gens /\ top.shard # sptr.gen
      <4>1. top \in Top /\ top.shard \in Gens /\ top.shard \in Nat /\ top.gen \in Nat
        BY <2>2, <3>3, TopFields DEF InStep, Gens
      <4>2. top.shard =< top.gen /\ top.gen < attempted
        BY <2>1, <3>1, <3>3, <4>1 DEF HealInv, Sane, TopSane, InvOld, SaveStates
      <4> QED BY <2>1, <4>1, <4>2
    <3> QED BY <1>1, <2>1, <3>1, <3>2, <3>3 DEF InStep, RunInStep, GenOfTop
  <2>5. CASE WriteTop
    <3>1. /\ UNCHANGED <<mirror, shards>> /\ pc' = "running" /\ pc = "top"
          /\ (top' = NewTop /\ inv' = NewTop) \/ UNCHANGED <<top, inv>>
      BY <2>5 DEF WriteTop
    <3>2. /\ NewTop \in Top /\ NewTop.gen = attempted /\ NewTop.of = ptr
          /\ shards[NewTop.shard] # None /\ shards[NewTop.shard].list = NewTop.list
      BY <3>1, NewTopIs
    <3>3. ptr.inv =< ptr.gen
      BY <2>1 DEF HealInv, Sane, PtrSane, Pointers
    <3>4. InStep'
      BY <1>1, <2>1, <3>1, <3>2, <3>3, MarksAssumption DEF InStep, GenOfTop
    <3> QED BY <1>1, <2>1, <3>1, <3>4 DEF RunInStep
  <2> QED BY <1>3, <2>3, <2>4, <2>5
<1> QED BY <1>2, <1>3

LEMMA KillStep ==
  ASSUME "record" \notin Restores, TInv, HealInv, KillInv, [Next]_vars PROVE KillInv'
<1>1. damage \in Nat /\ (damage' = damage \/ damage' = damage + 1)
  BY DEF TInv, TypeOK, HistoryOK, Next, vars, history, Refuse, LoadFresh, Load, Begin, Sweep,
     Capture, CaptureFails, CanCapture, Drop, Prepare, Seal, SealFails, ProveLock, LockLost,
     Land, RenameFails, WriteMirror, HealEnvelope, WriteShard, WriteTop, Stop, Flush, PowerCut,
     Damage, Keep, Restore
<1>2. SUFFICES ASSUME damage' = 0
               PROVE  InStep' /\ RunInStep' /\ verdict' \in {"none", "fresh", "accepted"}
  BY DEF KillInv, KillNeverLocksOut
<1>3. damage = 0 /\ InStep /\ RunInStep /\ verdict \in {"none", "fresh", "accepted"}
  BY <1>1, <1>2 DEF KillInv, KillNeverLocksOut
<1>4. ~PowerCut /\ ~Damage /\ ~Keep /\ ~Restore /\ ~Refuse
  <2>1. Decision \in {"accepted", "fresh"}
    BY <1>3, DecisionInStep
  <2> QED BY <1>2, <1>3, <2>1 DEF PowerCut, Damage, Keep, Restore, Refuse
<1>5. verdict' \in {"none", "fresh", "accepted"}
  <2>1. verdict' = verdict \/ Load \/ LoadFresh
    BY <1>4 DEF Next, vars, history, Sweep, Capture, CaptureFails, Drop, Prepare, Seal,
       SealFails, ProveLock, LockLost, Land, RenameFails, WriteMirror, HealEnvelope, WriteShard,
       WriteTop, Stop, Flush
  <2> QED BY <1>3, <2>1 DEF Load, LoadFresh, Begin
<1>6. CASE LockLost \/ Stop
  <2>1. UNCHANGED <<ptr, mirror, top, files, shards>> /\ pc' = "idle" /\ sptr' = None
    BY <1>6 DEF LockLost, Stop, Forget, disk
  <2> QED BY <1>3, <1>5, <2>1, KillEnds
<1>7. CASE Flush \/ UNCHANGED vars
  <2>1. UNCHANGED <<ptr, mirror, top, files, shards, pc, sptr, inv, attempted, newp>>
    BY <1>7 DEF Flush, vars, disk, store
  <2> QED BY <1>3, <1>5, <2>1 DEF InStep, RunInStep, ChunksIn, Has, NothingYet, GenOfTop
<1>8. CASE Load \/ LoadFresh
  BY <1>3, <1>5, <1>8, KillLoads
<1>9. CASE \/ Sweep \/ Prepare \/ Seal \/ SealFails
           \/ \E u \in Units : Capture(u) \/ CaptureFails(u) \/ Drop(u)
  BY <1>3, <1>5, <1>9, KillFiles
<1>10. CASE Land \/ RenameFails
  BY <1>3, <1>5, <1>10, KillCommit
<1>11. CASE ProveLock \/ HealEnvelope \/ WriteMirror \/ WriteShard \/ WriteTop
  BY <1>3, <1>5, <1>11, KillAfter
<1> QED BY <1>4, <1>6, <1>7, <1>8, <1>9, <1>10, <1>11 DEF Next

\* Being killed anywhere, with any write, removal or lock proof failing, never makes the
\* record one the next run refuses, as long as nothing is damaged from outside, the
\* power holds, and no old copy is put back.
THEOREM KillNeverLocksAnyoneOut ==
  ASSUME "record" \notin Restores PROVE Spec => []KillNeverLocksOut
<1>1. TInv /\ HealInv /\ KillInv /\ [Next]_vars => KillInv'
  BY KillStep
<1>2. KillInv => KillNeverLocksOut
  BY DEF KillInv
<1> QED BY <1>1, <1>2, KillInit, HealAlways, PTL DEF Spec

(***************************************************************************)
(* The files a durable list calls live.                                    *)
(***************************************************************************)
\* No unit of the records rs is of a later revision than in qs.
Below(rs, qs) ==
  \A u \in Units : rs[u] # None => qs[u] # None /\ rs[u].rev =< qs[u].rev

TopWhole(t) ==
  t \in Top =>
    /\ WholeIn(files, t.of)
    /\ t.list.live = LiveFiles(t.of.recs, t.of)
    /\ \A p \in Disk : p # None /\ t.gen =< p.gen => Below(t.of.recs, p.recs)
    /\ pc # "idle" => Below(t.of.recs, recs)

RecsSaved ==
  /\ pc \in SaveStates => recs = sptr.recs
  /\ pc = "top" => prevLive = LiveFiles(sptr.recs, sptr)

ListInv == TopWhole(top) /\ TopWhole(hardTop) /\ RecsSaved

LEMMA ListInit == Init => ListInv
BY MarksAssumption DEF Init, ListInv, TopWhole, RecsSaved, SaveStates

LEMMA ListImpliesProperty == ASSUME TInv, ListInv PROVE ListedFilesIntact
<1> SUFFICES ASSUME Readable(top) PROVE Intact(top.of)
  BY DEF ListedFilesIntact
<1>1. top \in Top
  BY DEF TInv, TypeOK, FolderOK, Readable
<1> QED BY <1>1, WholeIsIntact DEF ListInv, TopWhole

\* A step that brings no copy and no list, keeps the lists' files, and takes no record
\* of a run back.
LEMMA ListFrame ==
  ASSUME ListInv, Disk' \subseteq Disk, {top', hardTop'} \subseteq {top, hardTop},
         \A t \in {top, hardTop} : t \in Top => WholeIn(files', t.of),
         pc' # "idle" => /\ pc # "idle"
                         /\ \A rs \in Records : Below(rs, recs) => Below(rs, recs'),
         RecsSaved'
  PROVE  ListInv'
<1>1. \A t \in {top, hardTop} : TopWhole(t)'
  <2> SUFFICES ASSUME NEW t \in {top, hardTop}, t \in Top
               PROVE  /\ WholeIn(files', t.of)
                      /\ t.list.live = LiveFiles(t.of.recs, t.of)
                      /\ \A p \in Disk' : p # None /\ t.gen =< p.gen => Below(t.of.recs, p.recs)
                      /\ pc' # "idle" => Below(t.of.recs, recs')
    BY DEF TopWhole, Below, WholeIn, ChunksIn, UnitsIn, Has, LiveFiles
  <2>1. TopWhole(t) /\ t.of.recs \in Records
    BY TopFields, PointerFields DEF ListInv
  <2> QED BY <2>1 DEF TopWhole
<1>2. TopWhole(top)' /\ TopWhole(hardTop)'
  BY <1>1 DEF TopWhole
<1> QED BY <1>2 DEF ListInv

LEMMA ListWhole ==
  ASSUME ListInv, files' = files
  PROVE  \A t \in {top, hardTop} : t \in Top => WholeIn(files', t.of)
BY DEF ListInv, TopWhole

\* Between two runs, and where one ends.
LEMMA ListEnds ==
  ASSUME ListInv, Stop \/ LockLost \/ PowerCut \/ Refuse PROVE ListInv'
<1>1. /\ ptr' \in {ptr, hardPtr} /\ hardPtr' \in {ptr, hardPtr}
      /\ mirror' \in {mirror, hardMirror} /\ hardMirror' \in {mirror, hardMirror}
      /\ top' \in {top, hardTop} /\ hardTop' \in {top, hardTop}
      /\ files' = files /\ pc' = "idle"
  BY DEF Stop, LockLost, PowerCut, Refuse, Begin, Forget, disk, hard
<1>2. Disk' \subseteq Disk
  BY <1>1 DEF Disk
<1>3. RecsSaved'
  BY <1>1 DEF RecsSaved, SaveStates
<1> QED BY <1>1, <1>2, <1>3, ListWhole, ListFrame

\* Steps of a run that leave its files and its records alone.
LEMMA ListAside ==
  ASSUME TInv, HealInv, ListInv,
         \/ Flush \/ ProveLock \/ HealEnvelope \/ WriteMirror \/ WriteShard \/ UNCHANGED vars
  PROVE  ListInv'
<1>1. UNCHANGED <<files, ptr, recs, sptr, top>> /\ (pc' # "idle" => pc # "idle")
  BY DEF Flush, ProveLock, HealEnvelope, WriteMirror, WriteShard, vars, disk, store
<1>2. /\ hardPtr' \in {ptr, hardPtr} /\ hardMirror' \in {mirror, hardMirror}
      /\ hardTop' \in {top, hardTop} /\ mirror' \in {mirror, ptr}
  BY DEF Flush, ProveLock, HealEnvelope, WriteMirror, WriteShard, vars, disk, hard,
     HealInv, Commit
<1>3. Disk' \subseteq Disk
  BY <1>1, <1>2 DEF Disk
<1>4. RecsSaved'
  <2>1. CASE WriteShard
    BY <2>1 DEF WriteShard, NewLive, ListInv, RecsSaved, SaveStates, LiveFiles
  <2>2. CASE Flush \/ UNCHANGED vars
    BY <2>2 DEF Flush, vars, store, ListInv, RecsSaved, SaveStates, LiveFiles
  <2>3. CASE ProveLock \/ HealEnvelope \/ WriteMirror
    BY <1>1, <2>3 DEF ProveLock, HealEnvelope, WriteMirror, ListInv, RecsSaved, SaveStates
  <2> QED BY <2>1, <2>2, <2>3
<1> QED BY <1>1, <1>2, <1>3, <1>4, ListWhole, ListFrame

\* A load takes a pointer no earlier than the list, so its records are no earlier than
\* the list's.
LEMMA ListLoads ==
  ASSUME TInv, HealInv, NewestInv, NewestInv', ListInv, Load \/ LoadFresh PROVE ListInv'
<1>1. /\ UNCHANGED <<files, ptr, mirror, top>> /\ pc' \in {"loaded", "fresh"}
      /\ hardPtr' = ptr /\ hardMirror' = mirror /\ hardTop' = top
  BY DEF Load, LoadFresh, Begin, disk
<1>2. Disk' \subseteq Disk
  BY <1>1 DEF Disk
<1>3. RecsSaved'
  BY <1>1 DEF RecsSaved, SaveStates
<1>4. ASSUME top \in Top PROVE Below(top.of.recs, recs')
  <2>1. top.gen =< attempted' /\ shards'[top.shard] # None
    BY <1>1, <1>4 DEF NewestInv, TopOld
  <2>2. Load
    <3>1. CASE LoadFresh
      <4>1. NothingYet /\ shards' = shards
        <5>1. Decision = "fresh"
          BY <3>1 DEF LoadFresh
        <5>2. F12(Best, Inventory(Best).inv) # "fresh"
          BY DEF F12
        <5> QED BY <3>1, <5>1, <5>2 DEF Decision, LoadFresh, disk
      <4> QED BY <1>4, <2>1, <4>1, TopFields DEF NothingYet
    <3> QED BY <3>1
  <2>3. attempted' = Best.gen /\ recs' = Best.recs /\ Decision = "accepted"
    BY <2>2 DEF Load
  <2>4. Best \in Disk /\ Best # None
    <3>1. Best \in Pointer
      BY <2>3, AcceptedList
    <3> QED BY <3>1, MarksAssumption DEF Best, Disk
  <2> QED BY <1>4, <2>1, <2>3, <2>4 DEF ListInv, TopWhole
<1>5. \A t \in {top} : TopWhole(t)'
  <2> SUFFICES ASSUME NEW t \in {top}, t \in Top
               PROVE  /\ WholeIn(files', t.of)
                      /\ t.list.live = LiveFiles(t.of.recs, t.of)
                      /\ \A p \in Disk' : p # None /\ t.gen =< p.gen => Below(t.of.recs, p.recs)
                      /\ Below(t.of.recs, recs')
    BY DEF TopWhole, Below, WholeIn, ChunksIn, UnitsIn, Has, LiveFiles
  <2> QED BY <1>1, <1>2, <1>4 DEF ListInv, TopWhole
<1>6. TopWhole(top)' /\ TopWhole(hardTop)'
  BY <1>1, <1>5 DEF TopWhole
<1> QED BY <1>3, <1>6 DEF ListInv

\* A sweep spares what the list calls live.
LEMMA ListSweep ==
  ASSUME TInv, HealInv, NewestInv, ListInv, Sweep PROVE ListInv'
<1>1. UNCHANGED <<ptr, mirror, top, hard, recs>> /\ pc = "loaded" /\ pc' = "running"
  BY DEF Sweep, store
<1>2. hardTop = top /\ (listed # None => inv = top)
  BY <1>1 DEF NewestInv, LoadedTop
<1>3. ASSUME top \in Top PROVE WholeIn(files', top.of)
  <2>1. WholeIn(files, top.of) /\ top.list.live = LiveFiles(top.of.recs, top.of)
    BY <1>3 DEF ListInv, TopWhole
  <2>2. CASE listed = None
    BY <2>1, <2>2 DEF Sweep
  <2>3. CASE listed # None
    <3>1. listed = top.list
      BY <1>2, <1>3, <2>3 DEF HealInv, ListedShard, NewestInv, TopOld
    <3>2. \A f \in FileNames \cap LiveFiles(top.of.recs, top.of) : files'[f] = files[f]
      BY <2>1, <2>3, <3>1 DEF Sweep, Sweepable, MayRemove, ListedLive
    <3>3. top.of \in Pointer /\ top.of.sect \in Draws /\ top.of.recs \in Records
      BY <1>3, TopFields, PointerFields
    <3>4. \A i \in Copies :
            Chunk(top.of.sect, i) \in FileNames \cap LiveFiles(top.of.recs, top.of)
      BY <3>3 DEF LiveFiles, FileNames, ChunkNames
    <3>5. \A u \in Units : top.of.recs[u] # None =>
            Unit(u, top.of.recs[u].rev) \in FileNames \cap LiveFiles(top.of.recs, top.of)
      BY <3>3 DEF LiveFiles, Records, Record, FileNames, UnitNames
    <3>6. ChunksIn(files', top.of.sect)
      BY <2>1, <3>2, <3>4, ChunksKept DEF WholeIn
    <3>7. UnitsIn(files', top.of.recs)
      BY <2>1, <3>2, <3>5, UnitsKept DEF WholeIn
    <3> QED BY <3>6, <3>7 DEF WholeIn
  <2> QED BY <2>2, <2>3
<1>4. Disk' \subseteq Disk /\ {top', hardTop'} \subseteq {top, hardTop}
  BY <1>1 DEF Disk, hard
<1>5. RecsSaved'
  BY <1>1 DEF RecsSaved, SaveStates
<1> QED BY <1>1, <1>2, <1>3, <1>4, <1>5, ListFrame

\* The revision after the records' own is in no list.
LEMMA NextUnitIsInNoList ==
  ASSUME TInv, NEW u \in Units, NextRev(u) \in Revs, NEW x,
         files' = [files EXCEPT ![Unit(u, NextRev(u))] = x],
         NEW p \in Pointer, WholeIn(files, p), Below(p.recs, recs)
  PROVE  WholeIn(files', p)
<1> DEFINE f == Unit(u, NextRev(u))
<1>1. /\ DOMAIN files = FileNames /\ f \in FileNames /\ recs \in Records
      /\ p.sect \in Draws /\ p.recs \in Records
  BY PointerFields DEF TInv, TypeOK, FolderOK, MemoryOK, FileNames, UnitNames
<1>2. \A g \in FileNames : g # f => files'[g] = files[g]
  BY <1>1
<1>3. \A i \in Copies : Chunk(p.sect, i) \in FileNames /\ Chunk(p.sect, i) # f
  BY <1>1, UnitIsNoChunk DEF FileNames, ChunkNames
<1>4. \A v \in Units : p.recs[v] # None => p.recs[v].rev \in Revs
  BY <1>1 DEF Records, Record
<1>5. p.recs[u] # None => p.recs[u].rev # NextRev(u)
  <2> SUFFICES ASSUME p.recs[u] # None PROVE p.recs[u].rev # NextRev(u)
    OBVIOUS
  <2>1. recs[u] # None /\ p.recs[u].rev =< recs[u].rev
    BY DEF Below
  <2>2. recs[u].rev \in Nat /\ p.recs[u].rev \in Nat
    BY <1>1, <1>4, <2>1 DEF Records, Record, Revs
  <2> QED BY <2>1, <2>2 DEF NextRev
<1>6. \A v \in Units : p.recs[v] # None =>
        Unit(v, p.recs[v].rev) \in FileNames /\ Unit(v, p.recs[v].rev) # f
  BY <1>4, <1>5, UnitNameApart DEF FileNames, UnitNames
<1> HIDE DEF f
<1>7. ChunksIn(files', p.sect)
  <2>1. \A i \in Copies : files'[Chunk(p.sect, i)] = files[Chunk(p.sect, i)]
    BY <1>2, <1>3
  <2> QED BY <2>1 DEF WholeIn, ChunksIn, Has
<1>8. UnitsIn(files', p.recs)
  <2>1. \A v \in Units : p.recs[v] # None =>
          files'[Unit(v, p.recs[v].rev)] = files[Unit(v, p.recs[v].rev)]
    BY <1>2, <1>6
  <2> QED BY <2>1 DEF WholeIn, UnitsIn, Has
<1> QED BY <1>7, <1>8 DEF WholeIn

LEMMA ListCaptures ==
  ASSUME TInv, ListInv, NEW u \in Units, Capture(u) \/ CaptureFails(u) PROVE ListInv'
<1>1. /\ UNCHANGED <<ptr, mirror, top, hard>> /\ pc = "running" /\ pc' = "running"
      /\ NextRev(u) \in Revs
      /\ \E x : files' = [files EXCEPT ![Unit(u, NextRev(u))] = x]
      /\ \/ recs' = recs
         \/ recs' = [recs EXCEPT ![u] = [rev |-> NextRev(u), bytes |-> drawn + 1]]
  BY DEF Capture, CaptureFails, CanCapture
<1>2. \A t \in {top, hardTop} : t \in Top => WholeIn(files', t.of)
  <2> SUFFICES ASSUME NEW t \in {top, hardTop}, t \in Top PROVE WholeIn(files', t.of)
    OBVIOUS
  <2>1. PICK x : files' = [files EXCEPT ![Unit(u, NextRev(u))] = x]
    BY <1>1
  <2>2. t.of \in Pointer /\ WholeIn(files, t.of) /\ Below(t.of.recs, recs)
    BY <1>1, TopFields DEF ListInv, TopWhole
  <2> QED BY <1>1, <2>1, <2>2, NextUnitIsInNoList
<1>3. recs \in Records
  BY DEF TInv, TypeOK, MemoryOK
<1>4. ASSUME NEW rs \in Records, Below(rs, recs) PROVE Below(rs, recs')
  <2>1. CASE recs' = recs
    BY <1>4, <2>1
  <2>2. CASE recs' = [recs EXCEPT ![u] = [rev |-> NextRev(u), bytes |-> drawn + 1]]
    <3>1. \A v \in Units : v # u => recs'[v] = recs[v]
      BY <1>3, <2>2 DEF Records
    <3>2. recs'[u].rev = NextRev(u) /\ recs'[u] # None
      <4>1. recs'[u] = [rev |-> NextRev(u), bytes |-> drawn + 1]
        BY <1>3, <2>2 DEF Records
      <4>2. drawn + 1 \in Draws
        <5>1. drawn \in Nat /\ drawn < MaxDraws
          BY DEF Capture, CaptureFails, CanCapture, TInv, TypeOK, HistoryOK
        <5> QED BY <5>1, BoundsAssumption DEF Draws
      <4>3. recs'[u] \in Record
        BY <1>1, <4>1, <4>2 DEF Record
      <4> QED BY <4>1, <4>3, MarksAssumption
    <3>3. rs[u] # None => rs[u].rev =< NextRev(u)
      <4> SUFFICES ASSUME rs[u] # None PROVE rs[u].rev =< NextRev(u)
        OBVIOUS
      <4>1. recs[u] # None /\ rs[u].rev =< recs[u].rev
        BY <1>4 DEF Below
      <4>2. rs[u].rev \in Nat /\ recs[u].rev \in Nat
        BY <1>3, <1>4, <4>1 DEF Records, Record, Revs
      <4> QED BY <4>1, <4>2 DEF NextRev
    <3> QED BY <1>4, <3>1, <3>2, <3>3 DEF Below
  <2> QED BY <1>1, <2>1, <2>2
<1>5. Disk' \subseteq Disk /\ {top', hardTop'} \subseteq {top, hardTop}
  BY <1>1 DEF Disk, hard
<1>6. RecsSaved'
  BY <1>1 DEF RecsSaved, SaveStates
<1> QED BY <1>1, <1>2, <1>4, <1>5, <1>6, ListFrame

\* What a fresh run prepares, no list is there to call live.
LEMMA ListPrepare == ASSUME TInv, HealInv, NewestInv, ListInv, Prepare PROVE ListInv'
<1>1. UNCHANGED <<ptr, mirror, top, hard, recs>> /\ pc = "fresh" /\ pc' = "running"
  BY DEF Prepare
<1>2. \A t \in {top, hardTop} : t \notin Top
  <2> SUFFICES ASSUME NEW t \in {top, hardTop}, t \in Top PROVE FALSE
    OBVIOUS
  <2>1. t.gen =< attempted /\ attempted = 0
    BY <1>1 DEF NewestInv, TopOld, HealInv, Commit
  <2> QED BY <2>1, TopFields DEF Gens
<1>3. Disk' \subseteq Disk /\ {top', hardTop'} \subseteq {top, hardTop}
  BY <1>1 DEF Disk, hard
<1>4. RecsSaved'
  BY <1>1 DEF RecsSaved, SaveStates
<1> QED BY <1>1, <1>2, <1>3, <1>4, ListFrame

\* Sealed chunks take the place of nothing a list calls live.
LEMMA ListSeals == ASSUME TInv, ListInv, Seal \/ SealFails PROVE ListInv'
<1>1. /\ UNCHANGED <<ptr, mirror, top, hard, recs>>
      /\ pc = "running" /\ pc' \in {"prove", "running", "ended"}
  BY DEF Seal, SealFails, AfterFailure
<1>2. \A t \in {top, hardTop} : t \in Top => WholeIn(files', t.of)
  <2> SUFFICES ASSUME NEW t \in {top, hardTop}, t \in Top PROVE WholeIn(files', t.of)
    OBVIOUS
  <2> DEFINE p == t.of
  <2>1. p \in Pointer /\ WholeIn(files, p)
    BY TopFields DEF ListInv, TopWhole
  <2> HIDE DEF p
  <2>2. CASE files' = files
    BY <2>1, <2>2 DEF p
  <2>3. CASE drawn < MaxDraws /\ \E c : files' = ChunkWritten(files, drawn + 1, c)
    <3>1. PICK c : files' = ChunkWritten(files, drawn + 1, c)
      BY <2>3
    <3>2. p.sect \in Draws /\ p.recs \in Records
      BY <2>1, PointerFields
    <3>3. ChunksIn(files', p.sect)
      BY <1>1, <2>1, <2>3, <3>1, <3>2, ChunksStay DEF WholeIn
    <3>4. \A u \in Units : p.recs[u] # None =>
            files'[Unit(u, p.recs[u].rev)] = files[Unit(u, p.recs[u].rev)]
      <4>1. \A u \in Units : p.recs[u] # None => Unit(u, p.recs[u].rev) \in FileNames
        BY <3>2 DEF Records, Record, FileNames, UnitNames
      <4> QED BY <3>1, <4>1, UnitIsNoChunk DEF ChunkWritten
    <3> QED BY <2>1, <3>3, <3>4 DEF WholeIn, UnitsIn, Has, p
  <2> QED BY <2>2, <2>3 DEF Seal, SealFails
<1>3. Disk' \subseteq Disk /\ {top', hardTop'} \subseteq {top, hardTop}
  BY <1>1 DEF Disk, hard
<1>4. RecsSaved'
  BY <1>1 DEF RecsSaved, SaveStates
<1> QED BY <1>1, <1>2, <1>3, <1>4, ListFrame

\* The pointer a commit brings has the run's records, no earlier than any list's.
LEMMA ListRename ==
  ASSUME TInv, IInv, HealInv, ListInv, Land \/ RenameFails PROVE ListInv'
<1>1. /\ UNCHANGED <<files, mirror, top, hard, recs>> /\ ptr' \in {ptr, newp}
      /\ pc = "rename" /\ pc' \in {"mirror", "running", "ended"}
      /\ pc' = "mirror" => sptr' = newp
  BY DEF Land, RenameFails, AfterFailure
<1>2. newp.recs = recs
  BY <1>1 DEF IInv, AtStep
<1>3. Disk' \subseteq Disk \cup {newp}
  BY <1>1 DEF Disk, hard
<1>4. \A t \in {top, hardTop} : TopWhole(t)'
  <2> SUFFICES ASSUME NEW t \in {top, hardTop}, t \in Top
               PROVE  /\ WholeIn(files', t.of)
                      /\ t.list.live = LiveFiles(t.of.recs, t.of)
                      /\ \A p \in Disk' : p # None /\ t.gen =< p.gen => Below(t.of.recs, p.recs)
                      /\ Below(t.of.recs, recs')
    BY DEF TopWhole, Below, WholeIn, ChunksIn, UnitsIn, Has, LiveFiles
  <2> QED BY <1>1, <1>2, <1>3 DEF ListInv, TopWhole
<1>5. TopWhole(top)' /\ TopWhole(hardTop)'
  BY <1>1, <1>4 DEF TopWhole, hard
<1>6. RecsSaved'
  BY <1>1, <1>2 DEF RecsSaved, SaveStates
<1> QED BY <1>5, <1>6 DEF ListInv

\* The list a save writes is of the pointer it landed, whole and with its files.
LEMMA ListWritten == ASSUME TInv, IInv, HealInv, ListInv, WriteTop PROVE ListInv'
<1>1. /\ UNCHANGED <<files, ptr, mirror, hard, recs, sptr>> /\ pc = "top" /\ pc' = "running"
      /\ top' \in {top, NewTop}
  BY DEF WriteTop
<1>2. /\ NewTop \in Top /\ NewTop.gen = attempted /\ NewTop.of = ptr /\ ptr = sptr
      /\ ptr \in Pointer /\ ptr \in Disk /\ ptr # None /\ ptr.gen = attempted
      /\ ptr.gen \in Nat /\ ptr.recs \in Records /\ recs = ptr.recs
  BY <1>1, NewTopIs, PointerFields, MarksAssumption
     DEF Disk, HealInv, Commit, SaveStates, ListInv, RecsSaved, Gens
<1>3. NewTop.list.live = LiveFiles(ptr.recs, ptr)
  BY <1>1, <1>2 DEF ListInv, RecsSaved, NewTop
<1>4. \A p \in Disk : p # None => p.gen \in Nat /\ p.gen =< attempted
  BY <1>1 DEF IInv, Typed, Running, PointerLike, G
<1>5. WholeIn(files, ptr)
  <2>1. Takable(ptr)
    BY <1>2, <1>4 DEF Takable, G, Disk
  <2> QED BY <1>2, <2>1 DEF IInv, TakableWhole
<1>6. Below(ptr.recs, ptr.recs)
  BY <1>2 DEF Below, Records, Record, Revs
<1>7. \A p \in Disk : p # None /\ NewTop.gen =< p.gen => Below(ptr.recs, p.recs)
  <2> SUFFICES ASSUME NEW p \in Disk, p # None, NewTop.gen =< p.gen PROVE p = ptr
    BY <1>6
  <2>1. p.gen = ptr.gen
    BY <1>2, <1>4
  <2> QED BY <1>2, <2>1 DEF IInv, Ordered
<1>8. Disk' = Disk
  BY <1>1 DEF Disk, hard
<1>9. \A t \in {top, hardTop, NewTop} : TopWhole(t)'
  <2> SUFFICES ASSUME NEW t \in {top, hardTop, NewTop}, t \in Top
               PROVE  /\ WholeIn(files, t.of)
                      /\ t.list.live = LiveFiles(t.of.recs, t.of)
                      /\ \A p \in Disk : p # None /\ t.gen =< p.gen => Below(t.of.recs, p.recs)
                      /\ Below(t.of.recs, recs)
    BY <1>1, <1>8 DEF TopWhole, Below, WholeIn, ChunksIn, UnitsIn, Has, LiveFiles
  <2>1. CASE t \in {top, hardTop}
    BY <1>1, <2>1 DEF ListInv, TopWhole
  <2>2. CASE t = NewTop
    BY <1>2, <1>3, <1>5, <1>6, <1>7, <2>2
  <2> QED BY <2>1, <2>2
<1>10. TopWhole(top)' /\ TopWhole(hardTop)'
  BY <1>1, <1>9 DEF TopWhole, hard
<1>11. RecsSaved'
  BY <1>1 DEF RecsSaved, SaveStates
<1> QED BY <1>10, <1>11 DEF ListInv

LEMMA ListStep ==
  ASSUME Quiet, TInv, IInv, HealInv, NewestInv, NewestInv', ListInv, [Next]_vars
  PROVE  ListInv'
<1>1. CASE Refuse \/ LockLost \/ Stop \/ PowerCut
  BY <1>1, ListEnds
<1>2. CASE \/ Flush \/ ProveLock \/ HealEnvelope \/ WriteMirror \/ WriteShard
           \/ UNCHANGED vars
  BY <1>2, ListAside
<1>3. CASE LoadFresh \/ Load \/ Sweep \/ Prepare
  BY <1>3, ListLoads, ListSweep, ListPrepare
<1>4. CASE \E u \in Units : Capture(u) \/ CaptureFails(u) \/ Drop(u)
  <2>1. \A u \in Units : ~Drop(u)
    BY DEF Quiet, Drop
  <2> QED BY <1>4, <2>1, ListCaptures
<1>5. CASE Seal \/ SealFails \/ Land \/ RenameFails \/ WriteTop
  BY <1>5, ListSeals, ListRename, ListWritten
<1>6. CASE Damage \/ Keep \/ Restore
  BY <1>6 DEF Quiet, Damage, Keep, Restore
<1> QED BY <1>1, <1>2, <1>3, <1>4, <1>5, <1>6 DEF Next

\* Every file the durable file list calls live is on disk, also when later saves have
\* superseded it, and whatever the power cuts brought back.
THEOREM ListedFilesStay == ASSUME Quiet PROVE Spec => []ListedFilesIntact
<1>1. /\ TInv /\ IInv /\ HealInv /\ NewestInv /\ ListInv /\ [Next]_vars
      => (TInv /\ IInv /\ HealInv /\ NewestInv /\ ListInv)'
  <2> SUFFICES ASSUME TInv, IInv, HealInv, NewestInv, ListInv, [Next]_vars
               PROVE  (TInv /\ IInv /\ HealInv /\ NewestInv /\ ListInv)'
    OBVIOUS
  <2>1. NewestInv'
    BY NewestStep DEF Quiet
  <2> QED BY <2>1, TypesStep, StepKeeps, HealStep, ListStep
<1>2. TInv /\ ListInv => ListedFilesIntact
  BY ListImpliesProperty
<1>3. Init => TInv /\ IInv /\ HealInv /\ NewestInv /\ ListInv
  BY TypesInit, InitHolds, HealInit, NewestInit, ListInit
<1> QED BY <1>1, <1>2, <1>3, PTL DEF Spec

(***************************************************************************)
(* Old copies put back.  With no damage, no power cut and no dropped unit: *)
(* of the pointer on disk and of the copy a user keeps, each that the file *)
(* list does not tell to be old is whole.                                  *)
(***************************************************************************)
\* The bytes are there since a run no later than t.
HasBy(f, name, bytes, t) == Has(f, name, bytes) /\ f[name].at =< t
ChunksBy(f, n, t) == \A i \in Copies : HasBy(f, Chunk(n, i), n, t)
UnitsBy(f, rs, t) == \A u \in Units : rs[u] # None => HasBy(f, Unit(u, rs[u].rev), rs[u].bytes, t)
WholeBy(f, p) == ChunksBy(f, p.sect, p.start) /\ UnitsBy(f, p.recs, p.start)

\* Every file of F is of the records rs and the section n, or of earlier ones.
AtMost(F, rs, n) ==
  /\ \A u \in Units, r \in Revs : Unit(u, r) \in F => rs[u] # None /\ r =< rs[u].rev
  /\ \A m \in Draws, i \in Copies : Chunk(m, i) \in F => m =< n

\* Every file of F is of earlier ones.
Past(F, rs, n) ==
  /\ \A u \in Units, r \in Revs : Unit(u, r) \in F => rs[u] # None /\ r < rs[u].rev
  /\ \A m \in Draws, i \in Copies : Chunk(m, i) \in F => m < n

Listed(t) == IF t \in Top THEN t.list.retained ELSE {}

InHand == {ptr} \cup IF backup = None THEN {} ELSE {backup.ptr}

Untold(p) == top \in Top => top.gen =< p.gen

CopiesInStep ==
  /\ ptr # Bad /\ mirror # Bad /\ top # Bad
  /\ mirror # None => ptr # None /\ mirror.gen =< ptr.gen
  /\ ptr = None => top = None
  /\ backup # None =>
       /\ ptr # None /\ backup.ptr \in Pointer /\ backup.mirror # Bad
       /\ backup.mirror # None => backup.mirror.gen =< backup.ptr.gen
       /\ ptr # backup.ptr => /\ backup.ptr.gen < ptr.gen /\ backup.ptr.start < ptr.start
                              /\ Below(backup.ptr.recs, ptr.recs)

KeptWhole ==
  \A p \in InHand : p # None =>
    /\ p.sect =< drawn /\ p.start =< runs
    /\ Untold(p) => WholeBy(files, p) /\ Past(Listed(top), p.recs, p.sect)

Memory ==
  pc # "idle" =>
    /\ start = runs
    /\ ptr # None => Untold(ptr)
    /\ \A p \in InHand : p # None => Below(p.recs, recs)
    /\ backup # None => backup.ptr.start < start
    /\ UnitsBy(files, recs, start)
    /\ sptr = None => prevLive = {} /\ retained = {} /\ (ptr = None \/ pc = "ended")
    /\ sptr # None =>
         /\ ptr # None /\ ChunksBy(files, sptr.sect, start) /\ sptr.sect =< drawn
         /\ AtMost(prevLive \cup retained, recs, sptr.sect)
         /\ Past(Listed(top), recs, sptr.sect)

AtSave ==
  /\ pc = "idle" => recs = NoRecords /\ prevLive = {} /\ retained = {}
  /\ pc = "loaded" => sptr = ptr /\ recs = sptr.recs
  /\ pc \in {"prove", "rename"} =>
       /\ newp.recs = recs /\ newp.start = start
       /\ ChunksBy(files, newp.sect, start) /\ newp.sect =< drawn
       /\ sptr # None => sptr.sect =< newp.sect
  /\ pc \in SaveStates => recs = sptr.recs
  /\ pc = "top" => Past(retained, recs, sptr.sect)

BackInv == CopiesInStep /\ KeptWhole /\ Memory /\ AtSave

Handled == Damages = {} /\ "cut" \notin Trouble /\ "drop" \notin Captures

LEMMA BackInit == Init => BackInv
<1> SUFFICES ASSUME Init PROVE BackInv
  OBVIOUS
<1>1. CopiesInStep
  BY MarksAssumption DEF Init, CopiesInStep
<1>2. KeptWhole /\ Memory /\ AtSave
  BY DEF Init, KeptWhole, InHand, Memory, AtSave, SaveStates
<1> QED BY <1>1, <1>2 DEF BackInv

\* What is in hand is well formed.
LEMMA InHandTyped ==
  ASSUME TInv, CopiesInStep
  PROVE  /\ ptr \in Pointer \cup {None} /\ mirror \in Pointer \cup {None}
         /\ top \in Top \cup {None} /\ (top \in Top <=> top # None)
         /\ \A p \in InHand : p # None => p \in Pointer
         /\ \A p \in Pointer : p # None /\ p.gen \in Nat /\ p.start \in Nat /\ p.sect \in Nat
                               /\ p.sect \in Draws /\ p.recs \in Records
<1>1. /\ ptr \in Pointer \cup {None} /\ mirror \in Pointer \cup {None}
      /\ top \in Top \cup {None}
  BY DEF TInv, TypeOK, FolderOK, CopiesInStep
<1>2. top \in Top <=> top # None
  BY <1>1, MarksAssumption
<1>3. \A p \in InHand : p # None => p \in Pointer
  BY <1>1 DEF InHand, CopiesInStep
<1>4. \A p \in Pointer : p # None /\ p.gen \in Nat /\ p.start \in Nat /\ p.sect \in Nat
                         /\ p.sect \in Draws /\ p.recs \in Records
  BY PointerFields, MarksAssumption DEF Gens, Runs, Draws
<1> QED BY <1>1, <1>2, <1>3, <1>4

\* A copy the file list tells to be old is refused: a load that goes on goes on with the
\* pointer on disk, and the list says nothing against it.
LEMMA ToldIsRefused ==
  ASSUME TInv, NewestInv, CopiesInStep, Decision = "accepted"
  PROVE  Best = ptr /\ ptr \in Pointer /\ Untold(ptr)
<1>1. Best = ptr /\ ptr \in Pointer
  <2>1. Readable(Best)
    BY DEF Decision
  <2>2. ptr # None
    BY <2>1 DEF Best, Readable, CopiesInStep
  <2>3. ptr \in Pointer /\ ptr.gen \in Nat /\ Readable(ptr)
    BY <2>2, InHandTyped, MarksAssumption DEF Readable
  <2>4. mirror # None => mirror.gen \in Nat /\ mirror.gen =< ptr.gen
    BY InHandTyped DEF CopiesInStep
  <2> QED BY <2>3, <2>4 DEF Best, Readable
<1>2. ASSUME top \in Top, ptr.gen < top.gen PROVE FALSE
  <2>1. /\ Readable(top) /\ shards[top.shard] # None /\ shards[top.shard].list = top.list
        /\ top.gen \in Nat /\ ptr.gen \in Nat
    BY <1>1, <1>2, TopFields, PointerFields, MarksAssumption
       DEF Readable, NewestInv, TopOld, Gens
  <2>2. Inventory(ptr).inv = top
    BY <1>2, <2>1 DEF Inventory, NoInventory
  <2>3. top # None
    BY <2>1 DEF Readable
  <2>4. F12(ptr, top) # "accepted"
    BY <1>2, <2>1, <2>3 DEF F12
  <2> QED BY <1>1, <2>2, <2>4 DEF Decision
<1>3. top \in Top => top.gen \in Nat /\ ptr.gen \in Nat
  BY <1>1, TopFields, PointerFields DEF Gens
<1> QED BY <1>1, <1>2, <1>3 DEF Untold

LEMMA BackImpliesProperty == ASSUME TInv, BackInv PROVE AcceptedIsIntact
<1> SUFFICES ASSUME pc = "loaded" PROVE SectionCopies(sptr) # {} /\ UnitsIntact(sptr.recs)
  BY DEF AcceptedIsIntact
<1>1. sptr = ptr /\ sptr # None /\ Untold(ptr) /\ ptr \in InHand
  BY DEF BackInv, AtSave, Memory, TInv, PositionOK, InHand
<1>2. WholeBy(files, sptr)
  BY <1>1 DEF BackInv, KeptWhole
<1>3. 1 \in Copies /\ HasBy(files, Chunk(sptr.sect, 1), sptr.sect, sptr.start)
  BY <1>2 DEF WholeBy, ChunksBy, Copies
<1> QED BY <1>2, <1>3
        DEF WholeBy, UnitsBy, HasBy, Has, SectionCopies, UnitsIntact, Holds, Copies

(***************************************************************************)
(* Steps that touch neither the copies nor the list nor the files.         *)
(***************************************************************************)
LEMMA LaterBy ==
  ASSUME TInv, NEW p \in Pointer, WholeBy(files, p), NEW t \in Nat, p.start =< t
  PROVE  UnitsBy(files, p.recs, t) /\ ChunksBy(files, p.sect, t)
<1>1. /\ \A f \in FileNames : files[f] # None => files[f].at \in Nat
      /\ p.sect \in Draws /\ p.recs \in Records /\ p.start \in Nat
  BY PointerFields DEF TInv, TypeOK, FolderOK, File, Runs
<1>2. ASSUME NEW f \in FileNames, NEW b, HasBy(files, f, b, p.start) PROVE HasBy(files, f, b, t)
  BY <1>1, <1>2 DEF HasBy, Has
<1>3. UnitsBy(files, p.recs, t)
  <2>1. \A u \in Units : p.recs[u] # None => Unit(u, p.recs[u].rev) \in FileNames
    BY <1>1 DEF Records, Record, FileNames, UnitNames
  <2> QED BY <1>2, <2>1 DEF UnitsBy, WholeBy
<1>4. ChunksBy(files, p.sect, t)
  <2>1. \A i \in Copies : Chunk(p.sect, i) \in FileNames
    BY <1>1 DEF FileNames, ChunkNames
  <2> QED BY <1>2, <2>1 DEF ChunksBy, WholeBy
<1> QED BY <1>3, <1>4

LEMMA LiveIsAtMost ==
  ASSUME NEW rs \in Records, NEW p, p.sect \in Nat
  PROVE  AtMost(LiveFiles(rs, p), rs, p.sect)
<1>1. ASSUME NEW u \in Units, NEW r \in Revs, Unit(u, r) \in LiveFiles(rs, p)
      PROVE  rs[u] # None /\ r = rs[u].rev
  BY <1>1, UnitNameApart, UnitIsNoChunk DEF LiveFiles
<1>2. ASSUME NEW m \in Draws, NEW i \in Copies, Chunk(m, i) \in LiveFiles(rs, p)
      PROVE  m = p.sect
  BY <1>2, ChunkNameApart, UnitIsNoChunk DEF LiveFiles
<1> QED BY <1>1, <1>2 DEF AtMost, Revs

\* What a save's records and section no longer name is of earlier ones.
LEMMA SupersededIsPast ==
  ASSUME NEW rs \in Records, NEW p, p.sect \in Draws, NEW F, AtMost(F, rs, p.sect)
  PROVE  Past(F \ LiveFiles(rs, p), rs, p.sect)
<1>1. ASSUME NEW u \in Units, NEW r \in Revs, Unit(u, r) \in F \ LiveFiles(rs, p)
      PROVE  rs[u] # None /\ r < rs[u].rev
  <2>1. rs[u] # None /\ r =< rs[u].rev
    BY <1>1 DEF AtMost
  <2>2. r # rs[u].rev
    BY <1>1, <2>1 DEF LiveFiles
  <2>3. rs[u].rev \in Nat /\ r \in Nat
    BY <2>1 DEF Records, Record, Revs
  <2> QED BY <2>1, <2>2, <2>3
<1>2. ASSUME NEW m \in Draws, NEW i \in Copies, Chunk(m, i) \in F \ LiveFiles(rs, p)
      PROVE  m < p.sect
  <2>1. m =< p.sect
    BY <1>2 DEF AtMost
  <2>2. m # p.sect
    BY <1>2 DEF LiveFiles
  <2> QED BY <2>1, <2>2 DEF Draws
<1> QED BY <1>1, <1>2 DEF Past

LEMMA BackFrame ==
  ASSUME BackInv, UNCHANGED <<files, ptr, mirror, top, backup>>,
         drawn' = drawn, runs' \in Nat, runs \in Nat, runs =< runs', TInv
  PROVE  CopiesInStep' /\ KeptWhole' /\ InHand' = InHand /\ Untold(ptr)' = Untold(ptr)
<1>1. CopiesInStep' /\ InHand' = InHand /\ Untold(ptr)' = Untold(ptr)
  BY DEF BackInv, CopiesInStep, InHand, Untold, Below
<1>2. KeptWhole'
  <2> SUFFICES ASSUME NEW p \in InHand, p # None
               PROVE  /\ p.sect =< drawn' /\ p.start =< runs'
                      /\ Untold(p)' => WholeBy(files, p)' /\ Past(Listed(top), p.recs, p.sect)'
    BY <1>1 DEF KeptWhole
  <2>1. /\ p.sect =< drawn /\ p.start =< runs
        /\ Untold(p) => WholeBy(files, p) /\ Past(Listed(top), p.recs, p.sect)
    BY DEF BackInv, KeptWhole
  <2>2. p.start \in Nat
    BY InHandTyped DEF BackInv
  <2>3. Untold(p)' <=> Untold(p)
    BY DEF Untold
  <2>4. WholeBy(files, p) => WholeBy(files, p)'
    BY DEF WholeBy, ChunksBy, UnitsBy, HasBy, Has
  <2>5. Past(Listed(top), p.recs, p.sect) => Past(Listed(top), p.recs, p.sect)'
    BY DEF Past, Listed
  <2> QED BY <2>1, <2>2, <2>3, <2>4, <2>5
<1> QED BY <1>1, <1>2

\* Between two runs.
LEMMA BackRests ==
  ASSUME Handled, TInv, TInv', BackInv,
         \/ Stop \/ LockLost \/ Refuse \/ PowerCut \/ Damage
         \/ (pc = "idle" /\ UNCHANGED vars)
  PROVE  BackInv'
<1>1. ~PowerCut /\ ~Damage
  BY DEF Handled, PowerCut, Damage
<1>2. /\ UNCHANGED <<files, ptr, mirror, top, backup, drawn>> /\ pc' = "idle"
      /\ runs' \in {runs, runs + 1}
  BY <1>1 DEF Stop, LockLost, Refuse, Begin, Forget, vars, disk, history
<1>3. runs \in Nat /\ runs' \in Nat /\ runs =< runs'
  BY <1>2 DEF TInv, TypeOK, HistoryOK
<1>4. CopiesInStep' /\ KeptWhole'
  BY <1>2, <1>3, BackFrame
<1>5. recs' = NoRecords /\ prevLive' = {} /\ retained' = {}
  BY <1>1 DEF Stop, LockLost, Refuse, Begin, Forget, vars, store, BackInv, AtSave
<1> QED BY <1>2, <1>4, <1>5 DEF BackInv, Memory, AtSave, SaveStates

\* Copies that move between the folder and the user's hands are as whole as they were.
LEMMA HandKeeps ==
  ASSUME KeptWhole, InHand' \subseteq InHand, UNCHANGED <<files, top, drawn, runs>>
  PROVE  KeptWhole'
<1> SUFFICES ASSUME NEW p \in InHand, p # None
             PROVE  /\ p.sect =< drawn' /\ p.start =< runs'
                    /\ Untold(p)' => WholeBy(files', p) /\ Past(Listed(top)', p.recs, p.sect)
  BY DEF KeptWhole, WholeBy, ChunksBy, UnitsBy, HasBy, Has, Past
<1>1. Untold(p)' = Untold(p) /\ Listed(top)' = Listed(top)
  BY DEF Untold, Listed
<1> QED BY <1>1 DEF KeptWhole

LEMMA BackKeeps == ASSUME TInv, BackInv, Keep \/ Restore PROVE BackInv'
<1>1. /\ UNCHANGED <<files, top, drawn, runs, pc>> /\ pc = "idle"
  BY DEF Keep, Restore, disk, history
<1>2. CASE Keep
  <2>1. /\ UNCHANGED <<ptr, mirror, recs, prevLive, retained>>
        /\ backup'.ptr = ptr /\ backup'.mirror = mirror
        /\ ptr \in Pointer /\ ptr # None /\ pc' = "idle"
    BY <1>1, <1>2, InHandTyped DEF Keep, Readable, BackInv, disk, store
  <2>2. InHand' = {ptr}
    BY <2>1 DEF InHand
  <2>3. CopiesInStep'
    BY <1>1, <2>1 DEF BackInv, CopiesInStep
  <2>4. KeptWhole'
    BY <1>1, <2>1, <2>2, HandKeeps DEF BackInv, InHand
  <2> QED BY <1>1, <2>1, <2>3, <2>4 DEF BackInv, Memory, AtSave, SaveStates
<1>3. CASE Restore
  <2>1. /\ backup # None /\ ptr' = backup.ptr /\ mirror' = backup.mirror /\ backup' = backup
        /\ backup.ptr \in Pointer /\ backup.ptr # None /\ backup.ptr # Bad
        /\ UNCHANGED <<recs, prevLive, retained>> /\ pc' = "idle"
    BY <1>1, <1>3, InHandTyped, MarksAssumption
       DEF Restore, history, BackInv, CopiesInStep, store
  <2>2. InHand' \subseteq InHand
    BY <2>1 DEF InHand
  <2>3. CopiesInStep'
    BY <1>1, <2>1 DEF BackInv, CopiesInStep
  <2>4. KeptWhole'
    BY <1>1, <2>2, HandKeeps DEF BackInv
  <2> QED BY <1>1, <2>1, <2>3, <2>4 DEF BackInv, Memory, AtSave, SaveStates
<1> QED BY <1>2, <1>3

LEMMA BackLoads ==
  ASSUME TInv, TInv', NewestInv, HealInv, BackInv, Load \/ LoadFresh PROVE BackInv'
<1>1. /\ UNCHANGED <<files, ptr, mirror, top, backup, drawn, newp>>
      /\ pc = "idle" /\ pc' \in {"loaded", "fresh"} /\ runs' = runs + 1 /\ start' = runs'
  BY DEF Load, LoadFresh, Begin, disk
<1>2. runs \in Nat /\ runs' \in Nat /\ runs =< runs' /\ drawn \in Nat
  BY <1>1 DEF TInv, TypeOK, HistoryOK
<1>3. CopiesInStep' /\ KeptWhole' /\ InHand' = InHand /\ (Untold(ptr)' <=> Untold(ptr))
  BY <1>1, <1>2, BackFrame
<1>4. backup # None => backup.ptr.start < start'
  <2> SUFFICES ASSUME backup # None PROVE backup.ptr.start < start'
    OBVIOUS
  <2>1. backup.ptr \in InHand /\ backup.ptr \in Pointer /\ backup.ptr # None
    BY InHandTyped DEF InHand, BackInv, CopiesInStep
  <2>2. backup.ptr.start \in Nat /\ backup.ptr.start =< runs
    BY <2>1, InHandTyped DEF BackInv, KeptWhole
  <2> QED BY <1>1, <1>2, <2>2
<1>5. CASE LoadFresh
  <2>1. /\ UNCHANGED <<sptr, prevLive, retained, recs>> /\ pc' = "fresh"
        /\ ptr = None /\ mirror = None
    <3>1. Decision = "fresh" /\ pc' = "fresh" /\ UNCHANGED <<sptr, prevLive, retained, recs>>
      BY <1>5 DEF LoadFresh
    <3>2. F12(Best, Inventory(Best).inv) # "fresh"
      BY DEF F12
    <3> QED BY <3>1, <3>2 DEF Decision
  <2>2. backup = None /\ InHand' = {None}
    BY <1>3, <2>1 DEF BackInv, CopiesInStep, InHand
  <2>3. sptr = None /\ prevLive = {} /\ retained = {} /\ recs = NoRecords
    BY <1>1 DEF BackInv, AtSave, HealInv, Commit
  <2>4. Memory'
    BY <1>1, <1>2, <2>1, <2>2, <2>3 DEF Memory, UnitsBy, NoRecords
  <2>5. AtSave'
    BY <2>1 DEF AtSave, SaveStates
  <2> QED BY <1>3, <2>4, <2>5 DEF BackInv
<1>6. CASE Load
  <2>1. /\ Best = ptr /\ ptr \in Pointer /\ Untold(ptr) /\ pc' = "loaded" /\ sptr' = ptr
        /\ recs' = ptr.recs /\ retained' = {} /\ prevLive' = LiveFiles(ptr.recs, ptr)
        /\ ptr # None
    BY <1>6, ToldIsRefused, InHandTyped DEF Load, BackInv
  <2>2. /\ WholeBy(files, ptr) /\ Past(Listed(top), ptr.recs, ptr.sect)
        /\ ptr.sect =< drawn /\ ptr.start =< runs
    BY <2>1 DEF BackInv, KeptWhole, InHand
  <2>3. ptr.start \in Nat /\ ptr.sect \in Draws /\ ptr.sect \in Nat /\ ptr.recs \in Records
    BY <2>1, InHandTyped DEF BackInv
  <2>4. ptr.start =< start'
    BY <1>1, <1>2, <2>2, <2>3
  <2>5. UnitsBy(files, ptr.recs, start') /\ ChunksBy(files, ptr.sect, start')
    BY <1>1, <1>2, <2>1, <2>2, <2>4, LaterBy
  <2>6. \A p \in InHand : p # None => Below(p.recs, ptr.recs)
    <3>1. Below(ptr.recs, ptr.recs)
      BY <2>3 DEF Below, Records, Record, Revs
    <3> QED BY <3>1 DEF InHand, BackInv, CopiesInStep
  <2>7. AtMost(LiveFiles(ptr.recs, ptr), ptr.recs, ptr.sect)
    BY <2>3, LiveIsAtMost
  <2>8. Memory'
    <3>1. prevLive' \cup retained' = LiveFiles(ptr.recs, ptr)
      BY <2>1
    <3> QED BY <1>1, <1>3, <1>4, <2>1, <2>2, <2>5, <2>6, <2>7, <3>1
            DEF Memory, UnitsBy, ChunksBy, HasBy, Has, Below, AtMost, Past, Listed
  <2>9. AtSave'
    BY <1>1, <2>1 DEF AtSave, SaveStates
  <2> QED BY <1>3, <2>8, <2>9 DEF BackInv
<1> QED BY <1>5, <1>6

(***************************************************************************)
(* Steps of a run.                                                         *)
(***************************************************************************)
\* A step that brings no copy and no list, and keeps the files of the copies in hand.
LEMMA HandsKept ==
  ASSUME TInv, BackInv, UNCHANGED <<ptr, mirror, top, backup, runs>>,
         drawn \in Nat, drawn' \in Nat, drawn =< drawn',
         \A p \in InHand : p # None /\ Untold(p) => WholeBy(files', p)
  PROVE  CopiesInStep' /\ KeptWhole' /\ InHand' = InHand /\ Untold(ptr)' = Untold(ptr)
         /\ Listed(top)' = Listed(top)
<1>1. CopiesInStep' /\ InHand' = InHand /\ Untold(ptr)' = Untold(ptr)
      /\ Listed(top)' = Listed(top)
  BY DEF BackInv, CopiesInStep, InHand, Untold, Below, Listed
<1>2. KeptWhole'
  <2> SUFFICES ASSUME NEW p \in InHand, p # None
               PROVE  /\ p.sect =< drawn' /\ p.start =< runs
                      /\ Untold(p)' => WholeBy(files', p) /\ Past(Listed(top), p.recs, p.sect)
    BY <1>1 DEF KeptWhole, WholeBy, ChunksBy, UnitsBy, HasBy, Has, Past
  <2>1. /\ p.sect =< drawn /\ p.start =< runs
        /\ Untold(p) => WholeBy(files', p) /\ Past(Listed(top), p.recs, p.sect)
    BY DEF BackInv, KeptWhole
  <2>2. p.sect \in Nat
    BY InHandTyped DEF BackInv
  <2>3. Untold(p)' <=> Untold(p)
    BY DEF Untold
  <2> QED BY <2>1, <2>2, <2>3
<1> QED BY <1>1, <1>2

\* The memory of a run through such a step, with no record taken back.
LEMMA MemoryKept ==
  ASSUME BackInv, UNCHANGED <<ptr, top, backup, runs, start, sptr, prevLive, retained>>,
         pc # "idle", pc' # "idle", pc = "ended" => pc' = "ended",
         drawn \in Nat, drawn' \in Nat, drawn =< drawn', sptr # None => sptr.sect \in Nat,
         \A p \in InHand : p # None /\ Below(p.recs, recs) => Below(p.recs, recs'),
         UnitsBy(files', recs', start),
         sptr # None => /\ ChunksBy(files', sptr.sect, start)
                        /\ AtMost(prevLive \cup retained, recs', sptr.sect)
                        /\ Past(Listed(top), recs', sptr.sect)
  PROVE  Memory'
<1>1. InHand' = InHand /\ Untold(ptr)' = Untold(ptr) /\ Listed(top)' = Listed(top)
  BY DEF InHand, Untold, Listed
<1>2. \A p \in InHand : p # None => Below(p.recs, recs')
  BY DEF BackInv, Memory
<1>3. sptr # None => sptr.sect =< drawn'
  BY DEF BackInv, Memory
<1>4. /\ start' = runs' /\ (ptr' # None => Untold(ptr)')
      /\ backup' # None => backup'.ptr.start < start'
      /\ sptr' = None => prevLive' = {} /\ retained' = {} /\ (ptr' = None \/ pc' = "ended")
      /\ sptr' # None => ptr' # None
  BY <1>1 DEF BackInv, Memory
<1> QED BY <1>1, <1>2, <1>3, <1>4
        DEF Memory, UnitsBy, ChunksBy, HasBy, Has, Below, AtMost, Past

\* A sweep judges by the record it goes on from, by the list and by the time: what the
\* user's copy names is older than that record, and in no list's superseded files.
LEMMA BackSweeps ==
  ASSUME TInv, HealInv, NewestInv, BackInv, Sweep PROVE BackInv'
<1>1. /\ UNCHANGED <<ptr, mirror, top, backup, runs, start, sptr, prevLive, retained, drawn, recs>>
      /\ pc = "loaded" /\ pc' = "running"
  BY DEF Sweep, store, history
<1>2. /\ sptr = ptr /\ ptr # None /\ ptr \in Pointer /\ recs = sptr.recs /\ Untold(ptr)
      /\ drawn \in Nat /\ ptr.sect \in Draws /\ ptr.sect \in Nat
      /\ ptr.recs \in Records /\ ptr.start \in Nat
  <2>1. sptr = ptr /\ ptr # None /\ recs = sptr.recs /\ Untold(ptr) /\ drawn \in Nat
    BY <1>1 DEF BackInv, AtSave, Memory, TInv, PositionOK, TypeOK, HistoryOK
  <2> QED BY <2>1, InHandTyped DEF BackInv
<1>3. /\ \A f \in FileNames : files'[f] = files[f] \/ f \in Sweepable
      /\ listed = None => files' = files
  BY DEF Sweep
<1>4. \A f \in FileNames \cap LiveFiles(ptr.recs, ptr) : files'[f] = files[f]
  BY <1>2, <1>3 DEF Sweepable
<1>5. \A rs \in Records : \A p : \A u \in Units :
        rs[u] # None => Unit(u, rs[u].rev) \in FileNames \cap LiveFiles(rs, p)
  BY DEF LiveFiles, Records, Record, FileNames, UnitNames
<1>6. \A p \in Pointer, i \in Copies : Chunk(p.sect, i) \in FileNames \cap LiveFiles(p.recs, p)
  BY InHandTyped, PointerFields DEF LiveFiles, FileNames, ChunkNames
<1>7. ASSUME NEW t, UnitsBy(files, ptr.recs, t) PROVE UnitsBy(files', ptr.recs, t)
  BY <1>2, <1>4, <1>5, <1>7 DEF UnitsBy, HasBy, Has
<1>8. ASSUME NEW t, ChunksBy(files, ptr.sect, t) PROVE ChunksBy(files', ptr.sect, t)
  BY <1>2, <1>4, <1>6, <1>8 DEF ChunksBy, HasBy, Has
<1>9. ASSUME NEW p \in InHand, p # None, Untold(p) PROVE WholeBy(files', p)
  <2>1. /\ p \in Pointer /\ WholeBy(files, p) /\ Past(Listed(top), p.recs, p.sect)
        /\ p.sect \in Draws /\ p.recs \in Records /\ p.start \in Nat
    BY <1>9, InHandTyped DEF BackInv, KeptWhole
  <2>2. CASE p = ptr
    BY <1>7, <1>8, <2>1, <2>2 DEF WholeBy
  <2>3. CASE p # ptr
    <3>1. p.start < ptr.start
      BY <1>9, <2>3 DEF BackInv, CopiesInStep, InHand
    <3>2. ASSUME NEW f \in FileNames, NEW b, HasBy(files, f, b, p.start), f \notin Listed(top)
          PROVE  HasBy(files', f, b, p.start)
      <4>1. CASE listed = None
        BY <1>3, <3>2, <4>1
      <4>2. CASE listed # None
        <5>1. inv = top /\ inv \in Top
          BY <1>1, <4>2 DEF NewestInv, LoadedTop, TInv, PositionOK, TypeOK, MemoryOK
        <5>2. listed = top.list /\ Listed(top) = top.list.retained
          BY <4>2, <5>1 DEF HealInv, ListedShard, NewestInv, TopOld, Listed
        <5>3. files[f] # None /\ files[f].at \in Nat /\ files[f].at =< p.start
          BY <3>2 DEF HasBy, Has, TInv, TypeOK, FolderOK, File, Runs
        <5>4. f \notin Sweepable
          BY <1>2, <2>1, <3>1, <3>2, <4>2, <5>2, <5>3
             DEF Sweepable, MayRemove, ListedRetained
        <5> QED BY <1>3, <3>2, <5>4 DEF HasBy, Has
      <4> QED BY <4>1, <4>2
    <3>3. UnitsBy(files', p.recs, p.start)
      <4> SUFFICES ASSUME NEW u \in Units, p.recs[u] # None
                   PROVE  HasBy(files', Unit(u, p.recs[u].rev), p.recs[u].bytes, p.start)
        BY DEF UnitsBy
      <4>1. Unit(u, p.recs[u].rev) \in FileNames /\ p.recs[u].rev \in Revs
        BY <2>1 DEF Records, Record, FileNames, UnitNames
      <4>2. Unit(u, p.recs[u].rev) \notin Listed(top)
        BY <2>1, <4>1 DEF Past, Revs
      <4>3. HasBy(files, Unit(u, p.recs[u].rev), p.recs[u].bytes, p.start)
        BY <2>1 DEF WholeBy, UnitsBy
      <4> QED BY <3>2, <4>1, <4>2, <4>3
    <3>4. ChunksBy(files', p.sect, p.start)
      <4> SUFFICES ASSUME NEW i \in Copies
                   PROVE  HasBy(files', Chunk(p.sect, i), p.sect, p.start)
        BY DEF ChunksBy
      <4>1. Chunk(p.sect, i) \in FileNames
        BY <1>6, <2>1
      <4>2. Chunk(p.sect, i) \notin Listed(top)
        BY <2>1 DEF Past, Draws
      <4>3. HasBy(files, Chunk(p.sect, i), p.sect, p.start)
        BY <2>1 DEF WholeBy, ChunksBy
      <4> QED BY <3>2, <4>1, <4>2, <4>3
    <3> QED BY <3>3, <3>4 DEF WholeBy
  <2> QED BY <2>2, <2>3
<1>10. CopiesInStep' /\ KeptWhole'
  <2>1. drawn' \in Nat /\ drawn =< drawn'
    BY <1>1, <1>2
  <2> QED BY <1>1, <1>2, <1>9, <2>1, HandsKept
<1>11. Memory'
  <2>1. drawn' \in Nat /\ drawn =< drawn'
    BY <1>1, <1>2
  <2>2. UnitsBy(files', recs', start) /\ ChunksBy(files', sptr.sect, start)
    BY <1>1, <1>2, <1>7, <1>8 DEF BackInv, Memory
  <2>3. /\ AtMost(prevLive \cup retained, recs', sptr.sect)
        /\ Past(Listed(top), recs', sptr.sect)
        /\ \A p \in InHand : p # None /\ Below(p.recs, recs) => Below(p.recs, recs')
    BY <1>1, <1>2 DEF BackInv, Memory
  <2> QED BY <1>1, <1>2, <2>1, <2>2, <2>3, MemoryKept
<1>12. AtSave'
  BY <1>1 DEF AtSave, SaveStates
<1> QED BY <1>10, <1>11, <1>12 DEF BackInv

\* Records that only went on say no less of what is superseded.
LEMMA RecordsGoOn ==
  ASSUME NEW rs \in Records, NEW qs \in Records, Below(rs, qs), NEW F, NEW n
  PROVE  /\ AtMost(F, rs, n) => AtMost(F, qs, n)
         /\ Past(F, rs, n) => Past(F, qs, n)
         /\ \A ps \in Records : Below(ps, rs) => Below(ps, qs)
<1>1. \A ps \in Records : \A u \in Units : ps[u] # None => ps[u].rev \in Nat
  BY DEF Records, Record, Revs
<1>2. \A u \in Units : rs[u] # None => qs[u] # None /\ rs[u].rev =< qs[u].rev
  BY DEF Below
<1>3. ASSUME NEW u \in Units, NEW r \in Revs, rs[u] # None
      PROVE  /\ r =< rs[u].rev => r =< qs[u].rev
             /\ r < rs[u].rev => r < qs[u].rev
  <2>1. rs[u].rev \in Nat /\ qs[u].rev \in Nat /\ rs[u].rev =< qs[u].rev /\ r \in Nat
    BY <1>1, <1>2, <1>3 DEF Revs
  <2> QED BY <2>1
<1>4. AtMost(F, rs, n) => AtMost(F, qs, n)
  BY <1>2, <1>3 DEF AtMost
<1>5. Past(F, rs, n) => Past(F, qs, n)
  BY <1>2, <1>3 DEF Past
<1>6. ASSUME NEW ps \in Records, Below(ps, rs) PROVE Below(ps, qs)
  <2> SUFFICES ASSUME NEW u \in Units, ps[u] # None
               PROVE  qs[u] # None /\ ps[u].rev =< qs[u].rev
    BY DEF Below
  <2>1. rs[u] # None /\ ps[u].rev =< rs[u].rev
    BY <1>6 DEF Below
  <2>2. ps[u].rev \in Nat /\ rs[u].rev \in Nat /\ qs[u].rev \in Nat
    BY <1>1, <1>2, <2>1
  <2> QED BY <1>2, <2>1, <2>2
<1> QED BY <1>4, <1>5, <1>6

\* A later section says no less either.
LEMMA SectionGoesOn ==
  ASSUME NEW F, NEW rs, NEW n \in Nat, NEW m \in Nat, n =< m
  PROVE  (AtMost(F, rs, n) => AtMost(F, rs, m)) /\ (Past(F, rs, n) => Past(F, rs, m))
BY DEF AtMost, Past, Draws

\* The next revision takes the place of nothing that records no later than these name.
LEMMA NextUnitIsNew ==
  ASSUME TInv, NEW u \in Units, NextRev(u) \in Revs, NEW x,
         files' = [files EXCEPT ![Unit(u, NextRev(u))] = x], NEW t
  PROVE  /\ \A rs \in Records :
              Below(rs, recs) /\ UnitsBy(files, rs, t) => UnitsBy(files', rs, t)
         /\ \A n \in Draws : ChunksBy(files, n, t) => ChunksBy(files', n, t)
         /\ files'[Unit(u, NextRev(u))] = x
<1> DEFINE f == Unit(u, NextRev(u))
<1>1. DOMAIN files = FileNames /\ f \in FileNames /\ recs \in Records
  BY DEF TInv, TypeOK, FolderOK, MemoryOK, FileNames, UnitNames
<1>2. (\A g \in FileNames : g # f => files'[g] = files[g]) /\ files'[f] = x
  BY <1>1
<1>3. ASSUME NEW rs \in Records, Below(rs, recs), UnitsBy(files, rs, t)
      PROVE  UnitsBy(files', rs, t)
  <2> SUFFICES ASSUME NEW v \in Units, rs[v] # None
               PROVE  HasBy(files', Unit(v, rs[v].rev), rs[v].bytes, t)
    BY DEF UnitsBy
  <2>1. rs[v].rev \in Revs /\ Unit(v, rs[v].rev) \in FileNames
    BY DEF Records, Record, FileNames, UnitNames
  <2>2. recs[v] # None /\ rs[v].rev =< recs[v].rev /\ recs[v].rev \in Nat
    BY <1>1, <1>3 DEF Below, Records, Record, Revs
  <2>3. v = u => rs[v].rev # NextRev(u)
    BY <2>1, <2>2 DEF NextRev, Revs
  <2>4. Unit(v, rs[v].rev) # f
    BY <2>3, UnitNameApart
  <2>5. HasBy(files, Unit(v, rs[v].rev), rs[v].bytes, t)
    BY <1>3 DEF UnitsBy
  <2> HIDE DEF f
  <2>6. files'[Unit(v, rs[v].rev)] = files[Unit(v, rs[v].rev)]
    BY <1>2, <2>1, <2>4
  <2> QED BY <2>5, <2>6 DEF HasBy, Has
<1>4. ASSUME NEW n \in Draws, ChunksBy(files, n, t) PROVE ChunksBy(files', n, t)
  <2> SUFFICES ASSUME NEW i \in Copies PROVE HasBy(files', Chunk(n, i), n, t)
    BY DEF ChunksBy
  <2>1. Chunk(n, i) \in FileNames /\ Chunk(n, i) # f
    BY UnitIsNoChunk DEF FileNames, ChunkNames
  <2> HIDE DEF f
  <2>2. files'[Chunk(n, i)] = files[Chunk(n, i)]
    BY <1>2, <2>1
  <2> QED BY <1>4, <2>2 DEF ChunksBy, HasBy, Has
<1> QED BY <1>2, <1>3, <1>4

\* Chunks take the place of nothing written before them.
LEMMA ChunksAside ==
  ASSUME TInv, drawn < MaxDraws, NEW copies, files' = ChunkWritten(files, drawn + 1, copies),
         NEW t
  PROVE  /\ \A rs \in Records : UnitsBy(files, rs, t) => UnitsBy(files', rs, t)
         /\ \A n \in Draws : n =< drawn /\ ChunksBy(files, n, t) => ChunksBy(files', n, t)
<1>1. drawn \in Nat
  BY DEF TInv, TypeOK, HistoryOK
<1>2. ASSUME NEW rs \in Records, UnitsBy(files, rs, t) PROVE UnitsBy(files', rs, t)
  <2> SUFFICES ASSUME NEW v \in Units, rs[v] # None
               PROVE  HasBy(files', Unit(v, rs[v].rev), rs[v].bytes, t)
    BY DEF UnitsBy
  <2>1. Unit(v, rs[v].rev) \in FileNames
    BY DEF Records, Record, FileNames, UnitNames
  <2>2. files'[Unit(v, rs[v].rev)] = files[Unit(v, rs[v].rev)]
    BY <2>1, UnitIsNoChunk DEF ChunkWritten
  <2> QED BY <1>2, <2>2 DEF UnitsBy, HasBy, Has
<1>3. ASSUME NEW n \in Draws, n =< drawn, ChunksBy(files, n, t) PROVE ChunksBy(files', n, t)
  <2> SUFFICES ASSUME NEW i \in Copies PROVE HasBy(files', Chunk(n, i), n, t)
    BY DEF ChunksBy
  <2>1. Chunk(n, i) \in FileNames /\ n # drawn + 1
    BY <1>1, <1>3 DEF FileNames, ChunkNames, Draws
  <2>2. files'[Chunk(n, i)] = files[Chunk(n, i)]
    BY <2>1, ChunkNameApart DEF ChunkWritten
  <2> QED BY <1>3, <2>2 DEF ChunksBy, HasBy, Has
<1> QED BY <1>2, <1>3

LEMMA ChunksArrive ==
  ASSUME TInv, pc # "idle", drawn < MaxDraws, files' = ChunkWritten(files, drawn + 1, Copies)
  PROVE  ChunksBy(files', drawn + 1, start) /\ drawn + 1 \in Draws
<1> DEFINE x == [bytes |-> drawn + 1, at |-> start]
<1>1. drawn + 1 \in Draws /\ x # None /\ x.bytes = drawn + 1 /\ x.at =< start
  <2>1. start \in Runs /\ drawn \in 0..MaxDraws /\ start \in Nat
    BY DEF TInv, PositionOK, TypeOK, HistoryOK, Runs
  <2>2. drawn + 1 \in Draws
    BY <2>1, BoundsAssumption DEF Draws
  <2>3. x \in File
    BY <2>1, <2>2 DEF File
  <2> QED BY <2>1, <2>2, <2>3, MarksAssumption
<1>2. \A i \in Copies : Chunk(drawn + 1, i) \in FileNames
  BY <1>1 DEF FileNames, ChunkNames
<1>3. \A i \in Copies : files'[Chunk(drawn + 1, i)] = x
  BY <1>2 DEF ChunkWritten
<1> HIDE DEF x
<1> QED BY <1>1, <1>3 DEF ChunksBy, HasBy, Has

LEMMA BackCaptures ==
  ASSUME TInv, TInv', BackInv, NEW u \in Units, Capture(u) \/ CaptureFails(u) PROVE BackInv'
<1>1. /\ UNCHANGED <<ptr, mirror, top, backup, runs, start, sptr, prevLive, retained>>
      /\ pc = "running" /\ pc' = "running" /\ drawn' = drawn + 1 /\ NextRev(u) \in Revs
      /\ \E x : files' = [files EXCEPT ![Unit(u, NextRev(u))] = x]
      /\ sptr # None
  BY DEF Capture, CaptureFails, CanCapture, Fresh, store, history
<1>2. /\ drawn \in Nat /\ drawn' \in Nat /\ drawn =< drawn' /\ sptr \in Pointer
      /\ sptr.sect \in Draws /\ sptr.sect \in Nat /\ recs \in Records /\ recs' \in Records
      /\ start \in Nat
  <2>1. drawn \in Nat /\ sptr \in Pointer /\ recs \in Records /\ recs' \in Records /\ start \in Nat
    BY <1>1 DEF TInv, TypeOK, HistoryOK, MemoryOK
  <2> QED BY <1>1, <2>1, PointerFields DEF Draws
<1>3. /\ \A t : \A rs \in Records :
                  Below(rs, recs) /\ UnitsBy(files, rs, t) => UnitsBy(files', rs, t)
      /\ \A t : \A n \in Draws : ChunksBy(files, n, t) => ChunksBy(files', n, t)
  BY <1>1, NextUnitIsNew
<1>4. \A p \in InHand : p # None /\ Untold(p) => WholeBy(files', p)
  <2> SUFFICES ASSUME NEW p \in InHand, p # None, Untold(p) PROVE WholeBy(files', p)
    OBVIOUS
  <2>1. WholeBy(files, p) /\ Below(p.recs, recs) /\ p.recs \in Records /\ p.sect \in Draws
    BY <1>1, InHandTyped DEF BackInv, KeptWhole, Memory
  <2> QED BY <1>3, <2>1 DEF WholeBy
<1>5. CopiesInStep' /\ KeptWhole'
  BY <1>1, <1>2, <1>4, HandsKept
<1>6. Below(recs, recs)
  BY <1>2 DEF Below, Records, Record, Revs
<1>7. UnitsBy(files', recs, start)
  BY <1>1, <1>2, <1>3, <1>6 DEF BackInv, Memory
<1>8. Below(recs, recs') /\ UnitsBy(files', recs', start)
  <2>1. CASE recs' = recs
    BY <1>6, <1>7, <2>1
  <2>2. CASE Capture(u)
    <3> DEFINE r == NextRev(u)
               x == [bytes |-> drawn + 1, at |-> start]
    <3>1. /\ files' = [files EXCEPT ![Unit(u, r)] = x]
          /\ recs' = [recs EXCEPT ![u] = [rev |-> r, bytes |-> drawn + 1]]
      BY <2>2 DEF Capture
    <3>2. files'[Unit(u, r)] = x
      BY <1>1, <3>1, NextUnitIsNew
    <3>3. /\ recs'[u].rev = r /\ recs'[u].bytes = drawn + 1 /\ recs'[u] # None
          /\ \A v \in Units : v # u => recs'[v] = recs[v]
      <4>1. /\ recs'[u] = [rev |-> r, bytes |-> drawn + 1]
            /\ \A v \in Units : v # u => recs'[v] = recs[v]
        BY <1>2, <3>1 DEF Records
      <4>2. recs'[u] # None
        <5>1. [rev |-> r, bytes |-> drawn + 1] \in Record
          <6>1. drawn < MaxDraws
            BY <2>2 DEF Capture, CanCapture
          <6>2. drawn + 1 \in Draws
            BY <1>2, <6>1, BoundsAssumption DEF Draws
          <6> QED BY <1>1, <6>2 DEF Record
        <5> QED BY <4>1, <5>1, MarksAssumption
      <4> QED BY <4>1, <4>2
    <3>4. HasBy(files', Unit(u, r), drawn + 1, start)
      <4>1. x # None /\ x.bytes = drawn + 1 /\ x.at =< start
        <5>1. x \in File
          <6>1. drawn < MaxDraws /\ start \in Runs
            BY <1>1, <2>2 DEF Capture, CanCapture, TInv, PositionOK
          <6>2. drawn + 1 \in Draws
            BY <1>2, <6>1, BoundsAssumption DEF Draws
          <6> QED BY <6>1, <6>2 DEF File
        <5> QED BY <1>2, <5>1, MarksAssumption
      <4> HIDE DEF x
      <4> QED BY <3>2, <4>1 DEF HasBy, Has
    <3>5. recs[u] # None => recs[u].rev =< r
      BY <1>2 DEF NextRev, Records, Record, Revs
    <3> HIDE DEF r
    <3>6. Below(recs, recs')
      BY <1>6, <3>3, <3>5 DEF Below
    <3>7. UnitsBy(files', recs', start)
      BY <1>7, <3>3, <3>4 DEF UnitsBy
    <3> QED BY <3>6, <3>7
  <2> QED BY <2>1, <2>2 DEF CaptureFails
<1>9. Memory'
  <2>1. /\ AtMost(prevLive \cup retained, recs, sptr.sect) /\ Past(Listed(top), recs, sptr.sect)
        /\ ChunksBy(files, sptr.sect, start)
    BY <1>1 DEF BackInv, Memory
  <2>2. /\ AtMost(prevLive \cup retained, recs', sptr.sect)
        /\ Past(Listed(top), recs', sptr.sect)
    BY <1>2, <1>8, <2>1, RecordsGoOn
  <2>3. \A p \in InHand : p # None /\ Below(p.recs, recs) => Below(p.recs, recs')
    BY <1>2, <1>8, RecordsGoOn, InHandTyped DEF BackInv
  <2>4. ChunksBy(files', sptr.sect, start)
    BY <1>2, <1>3, <2>1
  <2> QED BY <1>1, <1>2, <1>8, <2>2, <2>3, <2>4, MemoryKept
<1>10. AtSave'
  BY <1>1 DEF AtSave, SaveStates
<1> QED BY <1>5, <1>9, <1>10 DEF BackInv

LEMMA BackPrepares == ASSUME TInv, HealInv, BackInv, Prepare PROVE BackInv'
<1>1. /\ UNCHANGED <<ptr, mirror, top, backup, runs, start, sptr, prevLive, retained, drawn, recs>>
      /\ pc = "fresh" /\ pc' = "running"
      /\ files' = [f \in FileNames |-> IF f \in ChunkNames THEN None ELSE files[f]]
  BY DEF Prepare, store, history
<1>2. sptr = None /\ ptr = None /\ backup = None /\ drawn \in Nat /\ recs \in Records
  BY <1>1 DEF HealInv, Commit, BackInv, Memory, CopiesInStep, TInv, TypeOK, HistoryOK, MemoryOK
<1>3. \A p \in InHand : p = None
  BY <1>2 DEF InHand
<1>4. UnitsBy(files', recs, start)
  <2> SUFFICES ASSUME NEW u \in Units, recs[u] # None
               PROVE  HasBy(files', Unit(u, recs[u].rev), recs[u].bytes, start)
    BY DEF UnitsBy
  <2>1. Unit(u, recs[u].rev) \in FileNames /\ Unit(u, recs[u].rev) \notin ChunkNames
    BY <1>2, UnitIsNoChunk DEF Records, Record, FileNames, UnitNames, ChunkNames
  <2>2. files'[Unit(u, recs[u].rev)] = files[Unit(u, recs[u].rev)]
    BY <1>1, <2>1
  <2>3. HasBy(files, Unit(u, recs[u].rev), recs[u].bytes, start)
    BY <1>1 DEF BackInv, Memory, UnitsBy
  <2> QED BY <2>2, <2>3 DEF HasBy, Has
<1>5. drawn' \in Nat /\ drawn =< drawn'
  BY <1>1, <1>2
<1>6. CopiesInStep' /\ KeptWhole'
  BY <1>1, <1>2, <1>3, <1>5, HandsKept
<1>7. Memory'
  BY <1>1, <1>2, <1>3, <1>4, <1>5, MemoryKept
<1>8. AtSave'
  BY <1>1 DEF AtSave, SaveStates
<1> QED BY <1>6, <1>7, <1>8 DEF BackInv

LEMMA BackSeals == ASSUME TInv, TInv', BackInv, Seal \/ SealFails PROVE BackInv'
<1>1. /\ UNCHANGED <<ptr, mirror, top, backup, runs, start, sptr, prevLive, retained, recs>>
      /\ pc = "running" /\ pc' \in {"prove", "running", "ended"}
      /\ pc' = "prove" => Seal
  BY DEF Seal, SealFails, AfterFailure, store, history
<1>2. /\ drawn \in Nat /\ drawn' \in Nat /\ drawn =< drawn' /\ recs \in Records
      /\ sptr # None => sptr.sect \in Draws /\ sptr.sect \in Nat
  <2>1. drawn \in Nat /\ recs \in Records /\ sptr \in Pointer \cup {None}
    BY DEF TInv, TypeOK, HistoryOK, MemoryOK
  <2>2. drawn' \in {drawn, drawn + 1}
    BY DEF Seal, SealFails
  <2> QED BY <2>1, <2>2, PointerFields DEF Draws
<1>3. ASSUME NEW t
      PROVE  /\ \A rs \in Records : UnitsBy(files, rs, t) => UnitsBy(files', rs, t)
             /\ \A n \in Draws : n =< drawn /\ ChunksBy(files, n, t) => ChunksBy(files', n, t)
  <2>1. CASE files' = files
    BY <2>1
  <2>2. CASE drawn < MaxDraws /\ \E c : files' = ChunkWritten(files, drawn + 1, c)
    BY <2>2, ChunksAside
  <2> QED BY <2>1, <2>2 DEF Seal, SealFails
<1>4. \A p \in InHand : p # None /\ Untold(p) => WholeBy(files', p)
  <2> SUFFICES ASSUME NEW p \in InHand, p # None, Untold(p) PROVE WholeBy(files', p)
    OBVIOUS
  <2>1. WholeBy(files, p) /\ p.recs \in Records /\ p.sect \in Draws /\ p.sect =< drawn
    BY InHandTyped DEF BackInv, KeptWhole
  <2> QED BY <1>3, <2>1 DEF WholeBy
<1>5. CopiesInStep' /\ KeptWhole'
  BY <1>1, <1>2, <1>4, HandsKept
<1>6. Memory'
  <2>1. UnitsBy(files', recs', start)
    BY <1>1, <1>2, <1>3 DEF BackInv, Memory
  <2>2. sptr # None => /\ ChunksBy(files', sptr.sect, start)
                       /\ AtMost(prevLive \cup retained, recs', sptr.sect)
                       /\ Past(Listed(top), recs', sptr.sect)
    BY <1>1, <1>2, <1>3 DEF BackInv, Memory
  <2>3. \A p \in InHand : p # None /\ Below(p.recs, recs) => Below(p.recs, recs')
    BY <1>1
  <2> QED BY <1>1, <1>2, <2>1, <2>2, <2>3, MemoryKept
<1>7. AtSave'
  <2>1. CASE SealFails
    BY <1>1, <2>1 DEF SealFails, AfterFailure, AtSave, SaveStates
  <2>2. CASE Seal
    <3>1. PICK n \in Draws : /\ newp' = NewPointer(n) /\ n =< drawn'
                             /\ ChunksBy(files', n, start)
                             /\ sptr # None => sptr.sect =< n
      <4>1. CASE /\ drawn < MaxDraws /\ drawn' = drawn + 1
                 /\ files' = ChunkWritten(files, drawn + 1, Copies)
                 /\ newp' = NewPointer(drawn + 1)
        <5>1. ChunksBy(files', drawn + 1, start) /\ drawn + 1 \in Draws
          BY <1>1, <4>1, ChunksArrive
        <5>2. sptr # None => sptr.sect =< drawn + 1
          BY <1>1, <1>2 DEF BackInv, Memory
        <5> QED BY <1>2, <4>1, <5>1, <5>2
      <4>2. CASE ~SectionChanged /\ newp' = NewPointer(sptr.sect) /\ UNCHANGED <<drawn, files>>
        <5>1. sptr # None
          BY <4>2 DEF SectionChanged, Fresh
        <5>2. ChunksBy(files, sptr.sect, start) /\ sptr.sect =< drawn
          BY <1>1, <5>1 DEF BackInv, Memory
        <5> QED BY <1>2, <4>2, <5>1, <5>2
      <4> QED BY <2>2, <4>1, <4>2 DEF Seal
    <3>2. newp'.recs = recs /\ newp'.start = start /\ newp'.sect = n
      BY <3>1 DEF NewPointer
    <3>3. pc' = "prove"
      BY <2>2 DEF Seal
    <3> QED BY <1>1, <3>1, <3>2, <3>3 DEF AtSave, SaveStates, ChunksBy, HasBy, Has
  <2> QED BY <2>1, <2>2
<1> QED BY <1>5, <1>6, <1>7 DEF BackInv

\* Steps of a save that leave the files, the pointer and the list alone.
LEMMA BackAside ==
  ASSUME TInv, HealInv, BackInv, pc # "idle",
         \/ ProveLock \/ HealEnvelope \/ WriteMirror \/ WriteShard \/ UNCHANGED vars
  PROVE  BackInv'
<1>1. /\ UNCHANGED <<files, ptr, top, backup, runs, start, sptr, drawn, recs>>
      /\ mirror' \in {mirror, ptr}
      /\ pc' # "idle" /\ (pc = "ended" => pc' = "ended")
  BY DEF ProveLock, HealEnvelope, WriteMirror, WriteShard, vars, disk, store, history, HealInv,
     Commit
<1>2. /\ drawn \in Nat /\ recs \in Records /\ sptr \in Pointer \cup {None}
      /\ sptr # None => sptr.sect \in Draws /\ sptr.sect \in Nat
  BY PointerFields DEF TInv, TypeOK, HistoryOK, MemoryOK, Draws
<1>3. CopiesInStep'
  <2>1. ptr # None => ptr.gen \in Nat /\ ptr.gen =< ptr.gen
    BY InHandTyped DEF BackInv
  <2> QED BY <1>1, <2>1 DEF BackInv, CopiesInStep, Below
<1>4. KeptWhole'
  BY <1>1, HandKeeps DEF BackInv, InHand
<1>5. CASE WriteShard
  <2>1. /\ pc = "shard" /\ pc' \in {"top", "running"}
        /\ prevLive' = NewLive /\ retained' = NewRetained
    BY <1>5 DEF WriteShard
  <2>2. sptr # None /\ recs = sptr.recs
    BY <2>1 DEF TInv, PositionOK, BackInv, AtSave, SaveStates
  <2>3. AtMost(NewLive, recs, sptr.sect)
    BY <1>2, <2>2, LiveIsAtMost DEF NewLive
  <2>4. AtMost(prevLive \cup retained, recs, sptr.sect)
    BY <2>1, <2>2 DEF BackInv, Memory
  <2>5. Past(NewRetained, recs, sptr.sect)
    <3>1. NewRetained = (prevLive \cup retained) \ LiveFiles(recs, sptr)
      BY DEF NewRetained, NewLive
    <3> QED BY <1>2, <2>2, <2>4, <3>1, SupersededIsPast
  <2>6. AtMost(prevLive' \cup retained', recs, sptr.sect)
    BY <2>1, <2>3, <2>4 DEF AtMost, NewRetained
  <2>7. Memory'
    BY <1>1, <2>1, <2>2, <2>6
       DEF BackInv, Memory, InHand, Untold, Listed, UnitsBy, ChunksBy, HasBy, Has, Below, AtMost,
           Past
  <2>8. AtSave'
    BY <1>1, <2>1, <2>2, <2>5 DEF AtSave, SaveStates, Past
  <2> QED BY <1>3, <1>4, <2>7, <2>8 DEF BackInv
<1>6. CASE ProveLock \/ HealEnvelope \/ WriteMirror \/ UNCHANGED vars
  <2>1. UNCHANGED <<prevLive, retained, newp>>
    BY <1>6 DEF ProveLock, HealEnvelope, WriteMirror, vars, store
  <2>2. Memory'
    BY <1>1, <2>1
       DEF BackInv, Memory, InHand, Untold, Listed, UnitsBy, ChunksBy, HasBy, Has, Below, AtMost,
           Past
  <2>3. \/ pc = "prove" /\ pc' = "rename"
        \/ pc \in {"mirror", "envelope"} /\ pc' \in {"envelope", "shard"}
        \/ pc' = pc
    BY <1>6 DEF ProveLock, HealEnvelope, WriteMirror, vars
  <2>4. AtSave'
    BY <1>1, <2>1, <2>3 DEF BackInv, AtSave, SaveStates, ChunksBy, HasBy, Has, Past
  <2> QED BY <1>3, <1>4, <2>2, <2>4 DEF BackInv
<1> QED BY <1>5, <1>6

\* The pointer a commit brings is later than the user's copy, whole, and names nothing
\* that a list calls superseded.
LEMMA BackRenames ==
  ASSUME TInv, HealInv, NewestInv, BackInv, Land \/ RenameFails PROVE BackInv'
<1>1. /\ UNCHANGED <<files, mirror, top, backup, runs, start, prevLive, retained, drawn, recs>>
      /\ ptr' \in {ptr, newp} /\ pc = "rename"
      /\ \/ pc' = "mirror" /\ sptr' = newp /\ ptr' = newp
         \/ pc' = (IF sptr = None THEN "ended" ELSE "running") /\ sptr' = sptr
  BY DEF Land, RenameFails, AfterFailure, Fresh, history
<1>2. /\ newp \in Pointer /\ newp # None /\ newp.recs = recs /\ newp.start = start
      /\ ChunksBy(files, newp.sect, start) /\ newp.sect =< drawn
      /\ (sptr # None => sptr.sect =< newp.sect /\ sptr.sect \in Nat)
      /\ newp.gen = attempted + 1 /\ attempted \in Nat /\ newp.gen \in Nat
      /\ newp.sect \in Nat /\ recs \in Records /\ start \in Nat /\ newp # Bad
  <2>1. newp \in Pointer /\ newp # None
    BY <1>1 DEF TInv, PositionOK, TypeOK, MemoryOK
  <2>2. newp.gen \in Nat /\ newp.sect \in Nat
    BY <2>1, PointerFields DEF Gens, Draws
  <2>3. sptr # None => sptr.sect \in Nat
    BY PointerFields DEF TInv, TypeOK, MemoryOK, Draws
  <2> QED BY <1>1, <2>1, <2>2, <2>3, MarksAssumption
          DEF BackInv, AtSave, HealInv, Commit, TInv, TypeOK, MemoryOK
<1>3. /\ ptr # None => ptr \in Pointer /\ ptr.gen \in Nat /\ ptr.gen =< attempted
      /\ top \in Top => top.gen \in Nat /\ top.gen =< attempted
  <2>1. ptr # None => ptr \in Pointer /\ ptr.gen \in Nat
    BY InHandTyped DEF BackInv
  <2>2. top \in Top => top.gen \in Nat
    BY TopFields DEF Gens
  <2> QED BY <1>1, <2>1, <2>2 DEF NewestInv, GensOld, TopOld, Disk
<1>4. UnitsBy(files, recs, start) /\ start = runs
  BY <1>1 DEF BackInv, Memory
<1>5. WholeBy(files, newp)
  BY <1>2, <1>4 DEF WholeBy
<1>6. Past(Listed(top), recs, newp.sect)
  <2>1. CASE sptr # None
    <3>1. Past(Listed(top), recs, sptr.sect)
      BY <1>1, <2>1 DEF BackInv, Memory
    <3> QED BY <1>2, <2>1, <3>1, SectionGoesOn
  <2>2. CASE sptr = None
    <3>1. top = None
      BY <1>1, <2>2 DEF BackInv, Memory, CopiesInStep
    <3>2. Listed(top) = {}
      BY <3>1, MarksAssumption DEF Listed
    <3> QED BY <3>2 DEF Past
  <2> QED BY <2>1, <2>2
<1>7. InHand' \subseteq InHand \cup {newp}
  BY <1>1 DEF InHand
<1>8. KeptWhole'
  <2> SUFFICES ASSUME NEW p \in InHand \cup {newp}, p # None
               PROVE  /\ p.sect =< drawn /\ p.start =< runs
                      /\ Untold(p)' => WholeBy(files, p) /\ Past(Listed(top), p.recs, p.sect)
    BY <1>1, <1>7 DEF KeptWhole, WholeBy, ChunksBy, UnitsBy, HasBy, Has, Past, Listed
  <2>1. Untold(p)' = Untold(p)
    BY <1>1 DEF Untold
  <2>2. CASE p = newp
    BY <1>2, <1>4, <1>5, <1>6, <2>2
  <2>3. CASE p \in InHand
    BY <2>1, <2>3 DEF BackInv, KeptWhole
  <2> QED BY <2>2, <2>3
<1>9. CopiesInStep'
  <2>1. CASE ptr' = ptr
    BY <1>1, <2>1 DEF BackInv, CopiesInStep, Below
  <2>2. CASE ptr' = newp
    <3>1. mirror # None => mirror.gen =< newp.gen
      <4> SUFFICES ASSUME mirror # None PROVE mirror.gen =< newp.gen
        OBVIOUS
      <4>1. ptr # None /\ mirror.gen =< ptr.gen /\ mirror.gen \in Nat
        BY InHandTyped DEF BackInv, CopiesInStep
      <4> QED BY <1>2, <1>3, <4>1
    <3>2. ASSUME backup # None
          PROVE  /\ backup.ptr.gen < newp.gen /\ backup.ptr.start < newp.start
                 /\ Below(backup.ptr.recs, newp.recs)
      <4>1. /\ ptr # None /\ backup.ptr \in Pointer /\ backup.ptr.gen \in Nat
            /\ backup.ptr \in InHand /\ backup.ptr # None
        BY <3>2, InHandTyped DEF BackInv, CopiesInStep, InHand
      <4>2. backup.ptr.gen =< ptr.gen
        BY <1>3, <3>2, <4>1 DEF BackInv, CopiesInStep
      <4> QED BY <1>1, <1>2, <1>3, <3>2, <4>1, <4>2 DEF BackInv, Memory
    <3> QED BY <1>1, <1>2, <2>2, <3>1, <3>2 DEF BackInv, CopiesInStep, Below
  <2> QED BY <1>1, <2>1, <2>2
<1>10. Memory'
  <2>1. Untold(newp)
    BY <1>2, <1>3 DEF Untold
  <2>2. Below(recs, recs)
    BY <1>2 DEF Below, Records, Record, Revs
  <2>3. \A p \in InHand' : p # None => Below(p.recs, recs)
    BY <1>1, <1>2, <1>7, <2>2 DEF BackInv, Memory
  <2>4. AtMost(prevLive \cup retained, recs, newp.sect)
    <3>1. CASE sptr # None
      BY <1>1, <1>2, <3>1, SectionGoesOn DEF BackInv, Memory
    <3>2. CASE sptr = None
      BY <1>1, <3>2 DEF BackInv, Memory, AtMost
    <3> QED BY <3>1, <3>2
  <2>5. /\ start' = runs' /\ (ptr' # None => Untold(ptr)')
        /\ backup' # None => backup'.ptr.start < start'
    BY <1>1, <2>1 DEF BackInv, Memory, Untold
  <2>6. sptr' = None => prevLive' = {} /\ retained' = {} /\ (ptr' = None \/ pc' = "ended")
    BY <1>1, <1>2 DEF BackInv, Memory
  <2>7. sptr' # None =>
          /\ ptr' # None /\ ChunksBy(files, sptr'.sect, start) /\ sptr'.sect =< drawn
          /\ AtMost(prevLive \cup retained, recs, sptr'.sect)
          /\ Past(Listed(top), recs, sptr'.sect)
    BY <1>1, <1>2, <1>6, <2>4 DEF BackInv, Memory
  <2> QED BY <1>1, <1>4, <2>3, <2>5, <2>6, <2>7
          DEF Memory, UnitsBy, ChunksBy, HasBy, Has, Below, AtMost, Past, Listed
<1>11. AtSave'
  BY <1>1, <1>2 DEF AtSave, SaveStates
<1> QED BY <1>8, <1>9, <1>10, <1>11 DEF BackInv

\* The list a save writes tells the user's copy to be old, and calls superseded nothing
\* of the pointer it is of.
LEMMA BackLists == ASSUME TInv, TInv', HealInv, BackInv, WriteTop PROVE BackInv'
<1>1. /\ UNCHANGED <<files, ptr, mirror, backup, runs, start, sptr, prevLive, retained, drawn,
                     recs>>
      /\ pc = "top" /\ pc' = "running" /\ top' \in {top, NewTop}
  BY DEF WriteTop, history
<1>2. /\ NewTop \in Top /\ NewTop # None /\ NewTop # Bad /\ NewTop.gen = ptr.gen
      /\ ptr = sptr /\ ptr \in Pointer /\ ptr # None /\ ptr.gen \in Nat
      /\ recs = ptr.recs /\ NewTop.list.retained = retained
  <2>1. /\ NewTop \in Top /\ NewTop.gen = attempted /\ ptr = sptr /\ ptr \in Pointer
        /\ sptr.gen = attempted
    BY <1>1, NewTopIs DEF HealInv, Commit, SaveStates
  <2>2. recs = sptr.recs
    BY <1>1 DEF BackInv, AtSave, SaveStates
  <2>3. NewTop.list.retained = retained
    BY DEF NewTop
  <2> QED BY <2>1, <2>2, <2>3, InHandTyped, MarksAssumption DEF BackInv
<1>3. CASE top' = top
  <2>1. CopiesInStep' /\ KeptWhole'
    BY <1>1, <1>3, HandKeeps DEF BackInv, CopiesInStep, Below, InHand
  <2>2. Memory'
    BY <1>1, <1>3
       DEF BackInv, Memory, InHand, Untold, Listed, UnitsBy, ChunksBy, HasBy, Has, Below, AtMost,
           Past
  <2>3. AtSave'
    BY <1>1 DEF AtSave, SaveStates
  <2> QED BY <2>1, <2>2, <2>3 DEF BackInv
<1>4. CASE top' = NewTop
  <2>1. CopiesInStep'
    BY <1>1, <1>2, <1>4 DEF BackInv, CopiesInStep, Below
  <2>2. Past(retained, recs, sptr.sect) /\ Listed(top)' = retained
    BY <1>1, <1>2, <1>4 DEF BackInv, AtSave, Listed
  <2>3. InHand' = InHand /\ ptr \in InHand
    BY <1>1 DEF InHand
  <2>4. Untold(ptr) /\ Untold(ptr)'
    BY <1>1, <1>2, <1>4 DEF BackInv, Memory, Untold
  <2>5. KeptWhole'
    <3> SUFFICES ASSUME NEW p \in InHand, p # None
                 PROVE  /\ p.sect =< drawn /\ p.start =< runs
                        /\ Untold(p)' => WholeBy(files, p) /\ Past(retained, p.recs, p.sect)
      BY <1>1, <2>2, <2>3 DEF KeptWhole, WholeBy, ChunksBy, UnitsBy, HasBy, Has, Past
    <3>1. CASE p = ptr
      BY <1>2, <2>2, <2>4, <3>1 DEF BackInv, KeptWhole
    <3>2. CASE p # ptr
      <4>1. p.gen < ptr.gen /\ p.gen \in Nat
        BY <3>2, InHandTyped DEF BackInv, CopiesInStep, InHand
      <4>2. ~Untold(p)'
        BY <1>2, <1>4, <4>1 DEF Untold
      <4> QED BY <4>2 DEF BackInv, KeptWhole
    <3> QED BY <3>1, <3>2
  <2>6. Memory'
    <3>1. sptr # None
      BY <1>2
    <3> QED BY <1>1, <2>2, <2>3, <2>4, <3>1
            DEF BackInv, Memory, UnitsBy, ChunksBy, HasBy, Has, Below, AtMost, Past
  <2>7. AtSave'
    BY <1>1 DEF AtSave, SaveStates
  <2> QED BY <2>1, <2>5, <2>6, <2>7 DEF BackInv
<1> QED BY <1>1, <1>3, <1>4

LEMMA BackStep ==
  ASSUME Handled, TInv, TInv', HealInv, NewestInv, BackInv, [Next]_vars PROVE BackInv'
<1>1. CASE UNCHANGED vars
  BY <1>1, BackRests, BackAside
<1>2. CASE Refuse \/ LockLost \/ Stop \/ PowerCut \/ Damage
  BY <1>2, BackRests
<1>3. CASE Keep \/ Restore \/ LoadFresh \/ Load \/ Sweep \/ Prepare
  BY <1>3, BackKeeps, BackLoads, BackSweeps, BackPrepares
<1>4. CASE \E u \in Units : Capture(u) \/ CaptureFails(u) \/ Drop(u)
  <2>1. \A u \in Units : ~Drop(u)
    BY DEF Handled, Drop
  <2> QED BY <1>4, <2>1, BackCaptures
<1>5. CASE Seal \/ SealFails \/ Land \/ RenameFails \/ WriteTop
  BY <1>5, BackSeals, BackRenames, BackLists
<1>6. CASE ProveLock \/ HealEnvelope \/ WriteMirror \/ WriteShard
  <2>1. pc # "idle"
    BY <1>6 DEF ProveLock, HealEnvelope, WriteMirror, WriteShard
  <2> QED BY <1>6, <2>1, BackAside
<1>7. CASE Flush
  BY <1>7 DEF Handled, Flush
<1> QED BY <1>1, <1>2, <1>3, <1>4, <1>5, <1>6, <1>7 DEF Next

\* An old copy of the record put back at any moment between two runs is refused while
\* the file list tells, and complete when it does not: what a load goes on with is
\* whole, however many runs were killed, and whatever write or removal failed.
THEOREM PutBackIsWholeOrRefused == ASSUME Handled PROVE Spec => []AcceptedIsIntact
<1>1. TInv /\ HealInv /\ NewestInv /\ BackInv /\ [Next]_vars
      => (TInv /\ HealInv /\ NewestInv /\ BackInv)'
  <2> SUFFICES ASSUME TInv, HealInv, NewestInv, BackInv, [Next]_vars
               PROVE  (TInv /\ HealInv /\ NewestInv /\ BackInv)'
    OBVIOUS
  <2>1. TInv' /\ HealInv' /\ NewestInv'
    BY TypesStep, HealStep, NewestStep DEF Handled
  <2> QED BY <2>1, BackStep
<1>2. Init => TInv /\ HealInv /\ NewestInv /\ BackInv
  BY TypesInit, HealInit, NewestInit, BackInit
<1>3. TInv /\ BackInv => AcceptedIsIntact
  BY BackImpliesProperty
<1> QED BY <1>1, <1>2, <1>3, PTL DEF Spec
=============================================================================
