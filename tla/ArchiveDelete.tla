--------------------------- MODULE ArchiveDelete ---------------------------
(***************************************************************************)
(* Deleting an archive (internal/archdelete, internal/delmark, the last    *)
(* step in internal/keyring) beside backups into the same folder           *)
(* (internal/app).  The folder is shared by several computers, or user     *)
(* accounts of one: each has its own deletion log and its own record of    *)
(* encrypted archives, and only what lies in the folder travels with it.   *)
(* A delete or a backup may be killed between any two steps, and Delete    *)
(* again may be clicked on any computer.                                   *)
(***************************************************************************)
EXTENDS Integers, FiniteSets, Sequences, SequencesExt, FiniteSetsExt

CONSTANTS
  Computers,   \* a computer, or one user account of it
  Mail,        \* names the archive recorded, other than the last ones
  Kinds,       \* kinds of archive: "plain", "encrypted"
  MaxRuns,     \* bound: deletes begun
  MaxBackups,  \* bound: backups begun
  MaxFolders,  \* bound: identities the folder ever has
  Trouble      \* what may fail: "held" files, the "log", a "full" drive; a drive that
               \* is "away" while its folder is tidied

ASSUME BoundsAssumption ==
  MaxRuns \in Nat /\ MaxBackups \in Nat /\ MaxFolders \in Nat \ {0}
ASSUME KindsAssumption == Kinds \subseteq {"plain", "encrypted"}
ASSUME MailAssumption == Mail \cap {"late", "anchor", "copy", "mine"} = {}

\* The late state files, the anchor (a plain archive's manifest, an encrypted one's
\* vault), mail copies the archive did not record, and the person's own files.
Recorded == Mail \cup {"late", "anchor"}
Others   == {"copy", "mine"}
Names    == Recorded \cup Others

NoMarker == 0
Blank    == -1     \* a marker whose run cannot be read
Free     == <<>>
None     == [run |-> 0]

VARIABLES
  kind,       \* the archive's kind
  \* the folder
  folder,     \* its identity, 0 when it is gone
  shown,      \* its drive is plugged in
  files, marker, lock,
  arch,       \* which archive this is: a new one made in the folder is another
  rev,        \* changes with every backup's save
  \* each computer
  log,        \* the deletes its deletion log leaves open, oldest first
  keys,       \* the archive its record names at this folder, 0 for none
  \* the delete under way
  dpc, job,
  \* the backup under way
  bpc, attended, saw,
  \* history
  half,       \* a delete has begun to remove names of the archive, its anchor is there
  kept,       \* a delete finished and kept the folder for files that are not the archive's
  runs, backups, folders

place     == <<kind, folder, shown, files, marker, arch, rev>>
bounds    == <<runs, backups, folders>>
deleteV   == <<dpc, job>>
backupV   == <<bpc, attended, saw>>
historyV  == <<half, kept>>
vars == <<place, lock, log, keys, deleteV, backupV, historyV, bounds>>

NoPlan == [rerun |-> "none", ident |-> 0, names |-> {}, rev |-> 0, rec |-> 0,
           noteGone |-> FALSE, first |-> 0, forgotten |-> FALSE, arch |-> 0]
NoJob  == [plan |-> NoPlan, run |-> 0, todo |-> {}, left |-> FALSE,
           there |-> FALSE, markerGone |-> FALSE,
           folderGone |-> FALSE]

Init ==
  /\ kind \in Kinds
  /\ folder = 1 /\ shown = TRUE /\ marker = NoMarker /\ lock = Free /\ arch = 1 /\ rev = 0
  /\ files \in {Recorded \cup o : o \in IF kind = "plain" THEN SUBSET Others ELSE {{}}}
  /\ log = [c \in Computers |-> <<>>]
  /\ keys \in [Computers -> IF kind = "plain" THEN {0} ELSE {0, 1}]
  /\ dpc = [c \in Computers |-> "idle"] /\ job = [c \in Computers |-> NoJob]
  /\ bpc = [c \in Computers |-> "idle"] /\ attended = [c \in Computers |-> FALSE]
  /\ saw = [c \in Computers |-> FALSE]
  /\ half = FALSE /\ kept = FALSE
  /\ runs = 0 /\ backups = 0 /\ folders = 1

There == shown /\ folder # 0

-----------------------------------------------------------------------------
(* What a computer's log and the folder's marker say. *)

\* The marker names the delete of this line, or the one it finishes.
NamedByMarker(e) == There /\ marker \in {e.run, e.first}

\* A line is of this folder while the folder is not there, or is there, was not removed
\* by that delete, and is the very folder or holds that delete's marker.
OfFolder(e) == There => ~e.removed /\ (e.ident = folder \/ NamedByMarker(e))

Unfinished(c) ==
  LET mine == {i \in DOMAIN log[c] : OfFolder(log[c][i])}
  IN  IF mine = {} THEN None ELSE log[c][Max(mine)]

\* A run of that delete logged that its marker was in the folder.
Marked(c, u) == \E i \in DOMAIN log[c] : log[c][i].first = u.first /\ log[c][i].marked

NamesAnother(u) == marker \notin {NoMarker, Blank, u.run, u.first}

Disagrees(c, u) == Marked(c, u) /\ (marker = NoMarker \/ NamesAnother(u))

-----------------------------------------------------------------------------
(* The plan. *)

\* The folder's own anchor, or this computer's record of exactly this folder.
HoldsArchive(c) == There /\ ("anchor" \in files \/ keys[c] # 0)

\* An encrypted archive's folder with a name it never holds is refused as mixed.
Mixed == kind = "encrypted" /\ files \cap Others # {}

OrdinaryPlan(c) ==
  LET u == Unfinished(c)
      first == IF u = None THEN Max({0, marker}) ELSE IF Disagrees(c, u) THEN 0 ELSE u.first
  IN  [NoPlan EXCEPT !.ident = folder, !.names = files \ {"mine"}, !.rev = rev,
                     !.rec = keys[c], !.first = first, !.arch = arch]

\* No manifest or vault is there: only what can still be named goes.
NoAnchorPlan == [NoPlan EXCEPT !.rerun = "noAnchor", !.ident = folder,
                               !.names = files \cap {"late"}]

MarkerPlan == [NoAnchorPlan EXCEPT !.first = Max({0, marker}), !.arch = arch]

UnfinishedPlan(c, u) ==
  [NoAnchorPlan EXCEPT !.rec = u.rec, !.forgotten = u.forgotten, !.first = u.first,
                       !.arch = u.arch, !.noteGone = Marked(c, u) /\ marker = NoMarker]

GonePlan(u) == [NoPlan EXCEPT !.rerun = "gone", !.ident = u.ident, !.rec = u.rec,
                              !.forgotten = u.forgotten, !.first = u.first, !.arch = u.arch]

\* Mutant: a folder that is not there now is gone.
PlansMutant(c) ==
  LET u == Unfinished(c) IN
  IF HoldsArchive(c) THEN {p \in {OrdinaryPlan(c)} : ~Mixed}
  ELSE IF There
  THEN IF u = None \/ (Marked(c, u) /\ NamesAnother(u))
       THEN {p \in {MarkerPlan} : marker # NoMarker}
       ELSE {UnfinishedPlan(c, u)}
  ELSE {GonePlan(v) : v \in {u} \ {None}}

\* The plan a computer would show now, if it is not a refusal. The person answers the
\* question whether the delete was finished elsewhere with the truth.
Plans(c) ==
  LET u == Unfinished(c) IN
  IF HoldsArchive(c) THEN {p \in {OrdinaryPlan(c)} : ~Mixed}
  ELSE IF There
  THEN IF u = None \/ (Marked(c, u) /\ NamesAnother(u))
       THEN {p \in {MarkerPlan} : marker # NoMarker}
       ELSE {UnfinishedPlan(c, u)}
  ELSE {GonePlan(v) : v \in {w \in {u} : w # None /\ (w.removed \/ folder = 0)}}

\* Mutant: the names are compared, the manifest is not.
SamePlanMutant(p, q) ==
  /\ p.rerun = q.rerun /\ p.ident = q.ident /\ p.rec = q.rec /\ p.noteGone = q.noteGone
  /\ p.names = q.names

\* What the plan made again under the lock is compared by.
SamePlan(p, q) ==
  /\ p.rerun = q.rerun /\ p.ident = q.ident /\ p.rec = q.rec /\ p.noteGone = q.noteGone
  /\ p.rev = q.rev /\ p.names = q.names

-----------------------------------------------------------------------------
(* The delete.  Its run's line in the log is the last one of that run's number. *)

First(c) == IF job[c].plan.first = 0 THEN job[c].run ELSE job[c].plan.first

Note(c, Edit(_)) ==
  [log EXCEPT ![c] = [i \in DOMAIN @ |-> IF @[i].run = job[c].run THEN Edit(@[i]) ELSE @[i]]]

\* A line that could not be appended is said, and the delete goes on.
MayNote(c, Edit(_)) == log' \in {Note(c, Edit)} \cup {l \in {log} : "log" \in Trouble}

Locking(c) == lock = <<"delete", c>>
Unlock(c)  == lock' = IF Locking(c) THEN Free ELSE lock

\* The end of a run: the lock released, the finished line written (a run without one is
\* StopDelete). A refused run, whose line is the last one, is out of the log's open list, a
\* partial one stays, any other ends every open delete.
End(c, outcome) ==
  /\ Unlock(c)
  /\ log' = [log EXCEPT ![c] = CASE outcome = "refused" -> Front(@)
                                 [] outcome = "partial" -> @
                                 [] outcome = "ended"   -> <<>>]
  /\ dpc' = [dpc EXCEPT ![c] = "idle"] /\ job' = [job EXCEPT ![c] = NoJob]

To(c, pc) == dpc' = [dpc EXCEPT ![c] = pc]

ShowPlan(c) ==
  /\ dpc[c] = "idle" /\ runs < MaxRuns
  /\ \E p \in Plans(c) : job' = [job EXCEPT ![c] = [NoJob EXCEPT !.plan = p]]
  /\ To(c, "planned")
  /\ UNCHANGED <<place, lock, log, keys, backupV, historyV, bounds>>

\* The started line carries forward what the delete it finishes knew.  "arch" is history:
\* the archive a plan or a line is about.
StartedLine(c, p, run) ==
  [run |-> run, first |-> IF p.first = 0 THEN run ELSE p.first, ident |-> p.ident,
   removed |-> p.rerun = "gone" /\ (log[c] = <<>> \/ Last(log[c]).removed),
   marked |-> FALSE, forgotten |-> p.forgotten, rec |-> p.rec, arch |-> p.arch]

\* Step 0.
LogStarted(c) ==
  /\ dpc[c] = "planned" /\ runs < MaxRuns
  /\ runs' = runs + 1
  /\ job' = [job EXCEPT ![c].run = runs']
  /\ log' = [log EXCEPT ![c] = Append(@, StartedLine(c, job[c].plan, runs'))]
  /\ To(c, IF job[c].plan.rerun = "gone" THEN "look" ELSE "lock")
  /\ UNCHANGED <<place, lock, keys, backupV, historyV, backups, folders>>

\* Step 1: the lock, and the plan again under it.  Steps 2 to 5 (schedules, settings, working
\* folders of this computer) change nothing here: one of them may stop the delete.
LockAndRecheck(c) ==
  /\ dpc[c] = "lock"
  /\ UNCHANGED <<place, keys, backupV, historyV, bounds>>
  /\ IF lock = Free /\ \E q \in Plans(c) : SamePlan(job[c].plan, q)
     THEN lock' = <<"delete", c>> /\ To(c, "mark") /\ UNCHANGED <<log, job>>
     ELSE End(c, "refused")

\* With the folder gone there is nothing to lock; a folder there again refuses.
LookGone(c) ==
  /\ dpc[c] = "look"
  /\ UNCHANGED <<place, keys, backupV, historyV, bounds>>
  /\ IF There THEN End(c, "refused")
              ELSE To(c, "key") /\ UNCHANGED <<lock, log, job>>

-----------------------------------------------------------------------------
(* Step 6: the marker, the names, the late state files, the anchor, the marker. *)

\* The names removed first: not the late state files and the anchor, a copy if it was ticked.
Begin(c) ==
  \E ticked \in SUBSET {"copy"} :
    job' = [job EXCEPT ![c].todo = job[c].plan.names \cap (Mail \cup ticked),
                       ![c].there = marker' # NoMarker]

\* Mutant: a delete that finishes an earlier one takes it that the marker is there.
MarkFolderMutant(c) ==
  /\ dpc[c] = "mark"
  /\ IF marker # NoMarker \/ job[c].plan.rerun = "noAnchor" \/ First(c) # job[c].run THEN UNCHANGED marker
     ELSE marker' \in {First(c)} \cup {b \in {Blank} : "full" \in Trouble}
  /\ Begin(c)
  /\ To(c, IF marker' = First(c) \/ marker' # marker THEN "logMarked" ELSE "remove")
  /\ UNCHANGED <<kind, folder, shown, files, arch, rev, lock, log, keys, backupV, historyV, bounds>>

MarkFolder(c) ==
  /\ dpc[c] = "mark"
  /\ IF marker # NoMarker \/ job[c].plan.rerun = "noAnchor" THEN UNCHANGED marker
     ELSE marker' \in {First(c)} \cup {b \in {Blank} : "full" \in Trouble}
  /\ Begin(c)
  /\ To(c, IF marker' = First(c) \/ marker' # marker THEN "logMarked" ELSE "remove")
  /\ UNCHANGED <<kind, folder, shown, files, arch, rev, lock, log, keys, backupV, historyV, bounds>>

\* The `marked` line: without it the delete stops before its first removal.
LogMarked(c) ==
  /\ dpc[c] = "logMarked"
  /\ log' = Note(c, LAMBDA e : [e EXCEPT !.marked = TRUE])
  /\ To(c, "remove")
  /\ UNCHANGED <<place, lock, keys, job, backupV, historyV, bounds>>

\* One name: removed, or left because another program holds it.
RemoveName(c, n) ==
  /\ dpc[c] = "remove" /\ n \in job[c].todo
  /\ \/ /\ files' = files \ {n}
        /\ job' = [job EXCEPT ![c].todo = @ \ {n}]
     \/ /\ "held" \in Trouble /\ n \in files
        /\ job' = [job EXCEPT ![c].todo = @ \ {n}, ![c].left = @ \/ n \in Mail]
        /\ UNCHANGED files
  /\ half' = (half \/ (files' # files /\ n \in Mail /\ "anchor" \in files))
  /\ UNCHANGED <<kind, folder, shown, marker, arch, rev, lock, log, keys, dpc, backupV, kept, bounds>>

\* The last names, each only when nothing recorded is left before it.
NextLast(c) ==
  CASE dpc[c] = "remove" -> "late" [] dpc[c] = "late" -> "anchor" [] dpc[c] = "anchor" -> "unmark"

LastName(c) == IF dpc[c] = "late" THEN "late" ELSE "anchor"

BeginLast(c) ==
  /\ dpc[c] = "remove" /\ job[c].todo = {}
  /\ To(c, IF job[c].left THEN "release" ELSE "late")
  /\ UNCHANGED <<place, lock, log, keys, job, backupV, historyV, bounds>>

RemoveLast(c) ==
  /\ dpc[c] \in {"late", "anchor"}
  /\ \/ /\ files' = files \ ({LastName(c)} \cap job[c].plan.names)
        /\ To(c, NextLast(c))
        /\ UNCHANGED job
     \/ /\ "held" \in Trouble /\ LastName(c) \in files \cap job[c].plan.names
        /\ job' = [job EXCEPT ![c].left = TRUE]
        /\ To(c, "release")
        /\ UNCHANGED files
  /\ half' = ("anchor" \in files' /\ (half \/ files' # files))
  /\ UNCHANGED <<kind, folder, shown, marker, arch, rev, lock, log, keys, backupV, kept, bounds>>

RemoveMarker(c) ==
  /\ dpc[c] = "unmark"
  /\ \/ /\ marker' = IF job[c].there THEN NoMarker ELSE marker
        /\ job' = [job EXCEPT ![c].markerGone = job[c].there]
     \/ /\ "held" \in Trouble /\ job[c].there /\ marker # NoMarker
        /\ job' = [job EXCEPT ![c].left = TRUE]
        /\ UNCHANGED marker
  /\ To(c, "release")
  /\ UNCHANGED <<kind, folder, shown, files, arch, rev, lock, log, keys, backupV, historyV, bounds>>

-----------------------------------------------------------------------------
(* Steps 7 to 9. *)

Release(c) ==
  /\ dpc[c] = "release"
  /\ UNCHANGED <<place, keys, backupV, half, bounds>>
  /\ IF job[c].left THEN End(c, "partial") /\ UNCHANGED kept
     ELSE /\ Unlock(c) /\ To(c, "tidy")
          /\ kept' = (files \cap Others # {})
          /\ UNCHANGED <<log, job>>

\* The folder goes when it is the one planned and holds nothing but an unheld lock file.
CanGo(c) == folder = job[c].plan.ident /\ lock = Free /\ files = {} /\ marker = NoMarker

TidiedFolder(c) ==
  IF There /\ CanGo(c) THEN {0} \cup {f \in {folder} : "held" \in Trouble} ELSE {folder}

TidyFolder(c) ==
  /\ dpc[c] = "tidy"
  /\ UNCHANGED <<kind, shown, files, marker, arch, rev, lock, log, keys, backupV, historyV, bounds>>
  /\ folder' \in TidiedFolder(c)
  /\ job' = [job EXCEPT ![c].folderGone = ~There']
  /\ To(c, "logFolder")

\* Mutant: a plan that found no anchor proves that the archive is gone.
NoProofMutant(c) == job[c].plan.rerun = "noAnchor" /\ job[c].plan.first = 0

\* A re-run without an anchor is never complete, unless a marker proves that the removals
\* had ended: the one it removed, or the one this computer logged and no longer finds.
NoProof(c) == /\ job[c].plan.rerun = "noAnchor" /\ ~job[c].markerGone
              /\ ~(job[c].plan.noteGone /\ ~job[c].there)

LogFolder(c) ==
  /\ dpc[c] = "logFolder"
  /\ MayNote(c, LAMBDA e : [e EXCEPT !.removed = job[c].folderGone])
  /\ To(c, IF NoProof(c) THEN "partial" ELSE "key")
  /\ UNCHANGED <<place, lock, keys, job, backupV, historyV, bounds>>

StopNoAnchor(c) ==
  /\ dpc[c] = "partial" /\ End(c, "partial")
  /\ UNCHANGED <<place, keys, backupV, historyV, bounds>>

\* The folder gone, or only an unheld lock file left.
OnlyLock == ~There \/ (files = {} /\ marker = NoMarker /\ lock = Free)

\* Step 8: this computer's record of the archive, with its key. The folder is looked at
\* again, and the record must still be the archive's own.
ForgetKey(c) ==
  /\ dpc[c] = "key"
  /\ job[c].plan.rec # 0 /\ ~job[c].plan.forgotten
  /\ OnlyLock /\ keys[c] = job[c].plan.rec
  /\ keys' = [keys EXCEPT ![c] = 0]
  /\ To(c, "logForgotten")
  /\ UNCHANGED <<place, lock, log, job, backupV, historyV, bounds>>

SkipKey(c) ==
  /\ dpc[c] = "key"
  /\ ~(job[c].plan.rec # 0 /\ ~job[c].plan.forgotten /\ OnlyLock /\ keys[c] = job[c].plan.rec)
  /\ To(c, "finish")
  /\ UNCHANGED <<place, lock, log, keys, job, backupV, historyV, bounds>>

\* The `key forgotten` line, and the folder tried again.
LogForgotten(c) ==
  /\ dpc[c] = "logForgotten"
  /\ UNCHANGED <<kind, shown, files, marker, arch, rev, lock, keys, job, backupV, historyV, bounds>>
  /\ folder' \in IF job[c].folderGone THEN {folder} ELSE TidiedFolder(c)
  /\ LET goneNow == ~job[c].folderGone /\ ~There'
     IN  MayNote(c, LAMBDA e : [e EXCEPT !.forgotten = TRUE, !.removed = @ \/ goneNow])
  /\ To(c, "finish")

\* Complete, or partial with only ticked copies left: both end the delete.
Finish(c) ==
  /\ dpc[c] = "finish" /\ End(c, "ended")
  /\ UNCHANGED <<place, keys, backupV, historyV, bounds>>

-----------------------------------------------------------------------------
(* A backup into the folder: its checks, its lock, its checks again, its writes. *)

\* The log or the folder's marker says that a delete did not finish.
\* Mutant: only this computer's log is asked.
RefusesDeleteMutant(c) == Unfinished(c) # None

RefusesDelete(c) == (There /\ marker # NoMarker) \/ Unfinished(c) # None

\* The emptied-folder guard's archive: its anchor, a backup descriptor, or the record.
ArchiveHere(c) == files \cap {"anchor", "late"} # {} \/ keys[c] # 0

KeyOpens(c) == kind = "encrypted" => "anchor" \in files /\ keys[c] = arch

\* An unattended backup makes no archive among other files, nor where it saw one.
\* Mutant: what the backup saw before it waited is not asked.
GuardPassesMutant(c) == attended[c] \/ ArchiveHere(c) \/ files = {}

GuardPasses(c) == attended[c] \/ ArchiveHere(c) \/ (files = {} /\ ~saw[c])

BackupChecks(c, a) ==
  /\ bpc[c] = "idle" /\ backups < MaxBackups /\ shown
  /\ ~RefusesDelete(c) /\ KeyOpens(c)
  /\ a \/ (There /\ (ArchiveHere(c) \/ files = {}))
  /\ backups' = backups + 1
  /\ bpc' = [bpc EXCEPT ![c] = "checked"]
  /\ attended' = [attended EXCEPT ![c] = a]
  /\ saw' = [saw EXCEPT ![c] = ~a /\ ArchiveHere(c)]
  /\ UNCHANGED <<place, lock, log, keys, deleteV, historyV, runs, folders>>

\* A backup that is refused, or that ends, frees what it holds.
BackupEnds(c) ==
  /\ lock' = IF lock = <<"backup", c>> THEN Free ELSE lock
  /\ bpc' = [bpc EXCEPT ![c] = "idle"]
  /\ attended' = [attended EXCEPT ![c] = FALSE] /\ saw' = [saw EXCEPT ![c] = FALSE]

\* Started by a person, it makes the folder when there is none.
MakesFolder(c) == attended[c] /\ shown /\ folder = 0 /\ kind = "plain"

BackupLocks(c) ==
  /\ bpc[c] = "checked" /\ (MakesFolder(c) => folders < MaxFolders)
  /\ UNCHANGED <<kind, shown, files, marker, arch, rev, log, keys, deleteV, historyV, runs, backups>>
  /\ folders' = IF MakesFolder(c) THEN folders + 1 ELSE folders
  /\ folder' = IF MakesFolder(c) THEN folders' ELSE folder
  /\ IF There' /\ lock = Free /\ ~RefusesDelete(c)' /\ GuardPasses(c) /\ KeyOpens(c)
     THEN lock' = <<"backup", c>> /\ bpc' = [bpc EXCEPT ![c] = "writing"] /\ UNCHANGED <<attended, saw>>
     ELSE BackupEnds(c)

\* The run's save: its mail recorded, and where neither the manifest nor the
\* descriptor was there, another archive begun.
BackupSaves(c) ==
  /\ bpc[c] = "writing"
  /\ files' = files \cup Recorded
  /\ rev' = rev + 1
  /\ arch' = IF files \cap {"anchor", "late"} # {} THEN arch ELSE arch + 1
  /\ kept' = (kept /\ ~attended[c])
  /\ BackupEnds(c)
  /\ UNCHANGED <<kind, folder, shown, marker, log, keys, deleteV, half, bounds>>

-----------------------------------------------------------------------------
(* Kills, the person's files, the drive. *)

\* A delete killed between two steps, or stopped by an error before one of them: a setting,
\* the marker or its `marked` line that could not be written, a panic.  Its finished line, if
\* it comes to that, says that the delete is partial, which leaves it open in the log.
StopDelete(c) ==
  /\ dpc[c] # "idle"
  /\ Unlock(c)
  /\ dpc' = [dpc EXCEPT ![c] = "idle"] /\ job' = [job EXCEPT ![c] = NoJob]
  /\ UNCHANGED <<place, log, keys, backupV, historyV, bounds>>

\* A plain backup killed before its save leaves copies that the manifest does not name.
KillBackup(c) ==
  /\ bpc[c] = "writing"
  /\ files' \in {files} \cup {files \cup {"copy"} : k \in {kind} \cap {"plain"}}
  /\ BackupEnds(c)
  /\ UNCHANGED <<kind, folder, shown, marker, arch, rev, log, keys, deleteV, historyV, runs, backups, folders>>

PutMine ==
  /\ There /\ files' = files \cup {"mine"}
  /\ UNCHANGED <<kind, folder, shown, marker, arch, rev, lock, log, keys, deleteV, backupV, historyV, bounds>>

TakeOut ==
  /\ There /\ files' = files \ Others /\ kept' = FALSE
  /\ UNCHANGED <<kind, folder, shown, marker, arch, rev, lock, log, keys, deleteV, backupV, half, bounds>>

\* Something else than a delete removes or spoils the manifest, in a folder no delete marked.
LoseAnchor ==
  /\ There /\ kind = "plain" /\ lock = Free /\ marker = NoMarker
  /\ "anchor" \in files /\ files' = files \ {"anchor"}
  /\ UNCHANGED <<kind, folder, shown, marker, arch, rev, lock, log, keys, deleteV, backupV, historyV, bounds>>

\* A drive is unplugged between two steps that hold no lock in it, and unless it may be
\* "away" not between the release and the tidying, which takes a folder it does not find for
\* a removed one; plugged in again, the same folder may have another identity.
Unplug ==
  /\ shown /\ lock = Free /\ shown' = FALSE
  /\ "away" \in Trouble \/ \A c \in Computers : dpc[c] # "tidy"
  /\ UNCHANGED <<kind, folder, files, marker, arch, rev, lock, log, keys, deleteV, backupV, historyV, bounds>>

PlugIn ==
  /\ ~shown /\ shown' = TRUE
  /\ \/ UNCHANGED <<folder, folders>>
     \/ /\ folder # 0 /\ folders < MaxFolders
        /\ folders' = folders + 1 /\ folder' = folders'
  /\ UNCHANGED <<kind, files, marker, arch, rev, lock, log, keys, deleteV, backupV, historyV, runs, backups>>

-----------------------------------------------------------------------------
DeleteStep(c) ==
  \/ LogStarted(c) \/ LockAndRecheck(c) \/ LookGone(c)
  \/ MarkFolder(c) \/ LogMarked(c) \/ (\E n \in Names : RemoveName(c, n))
  \/ BeginLast(c) \/ RemoveLast(c) \/ RemoveMarker(c) \/ Release(c) \/ TidyFolder(c)
  \/ LogFolder(c) \/ StopNoAnchor(c) \/ ForgetKey(c) \/ SkipKey(c) \/ LogForgotten(c) \/ Finish(c)

BackupStep(c) == BackupLocks(c) \/ BackupSaves(c)

Next ==
  \/ \E c \in Computers :
       \/ ShowPlan(c) \/ DeleteStep(c) \/ StopDelete(c)
       \/ (\E a \in BOOLEAN : BackupChecks(c, a)) \/ BackupStep(c) \/ KillBackup(c)
  \/ PutMine \/ TakeOut \/ LoseAnchor \/ Unplug \/ PlugIn

Spec == Init /\ [][Next]_vars

-----------------------------------------------------------------------------
(* Properties. *)

\* Types.
Entries == [run : 1..MaxRuns, first : 1..MaxRuns, ident : 1..MaxFolders, removed : BOOLEAN,
            marked : BOOLEAN, forgotten : BOOLEAN, rec : 0..1, arch : 1..1 + MaxBackups]

TypeOK ==
  /\ kind \in Kinds /\ folder \in 0..MaxFolders /\ shown \in BOOLEAN /\ files \subseteq Names
  /\ marker \in Blank..MaxRuns /\ lock \in {Free} \cup ({"delete", "backup"} \X Computers)
  /\ arch \in Nat /\ rev \in 0..MaxBackups
  /\ \A c \in Computers : \A i \in DOMAIN log[c] : log[c][i] \in Entries
  /\ keys \in [Computers -> {0, 1}]
  /\ half \in BOOLEAN /\ kept \in BOOLEAN

\* While a delete has taken names of the archive and not its anchor, the folder carries the
\* marker, on whatever computer it is looked at (marker.go, "before the first removal").
HalfIsMarked == half => marker # NoMarker /\ "anchor" \in files

\* No backup, of any computer, attended or not, saves into a half-deleted archive.
BackupsKeepOut == [][rev' # rev => ~half /\ marker = NoMarker]_vars

\* While a delete removes names, no backup has saved since the plan the person was shown.
RemovesWhatItShowed ==
  \A c \in Computers : dpc[c] \in {"remove", "late", "anchor"} /\ job[c].plan.rerun = "none"
                          => rev = job[c].plan.rev

\* A computer forgets the key of an archive only once its vault is gone.
KeyOutlivesVault ==
  [][\A c \in Computers : keys[c] # 0 /\ keys'[c] = 0 => "anchor" \notin files]_vars

\* A delete that ends as complete, also one that only a marker or a log line lets finish,
\* has left in the folder no name the archive recorded (execute.go, steps).
CompleteIsTrue ==
  [][\A c \in Computers : Finish(c) /\ folder = job[c].plan.ident /\ arch = job[c].plan.arch
     => files \cap Recorded = {}]_vars

\* Where a delete kept the folder for files that are not the archive's, or a backup saw the
\* archive before it waited for the lock, no unattended backup begins another archive.
NoArchiveAmongTheirs ==
  [][arch' # arch => \A c \in Computers : lock = <<"backup", c>> => attended[c] \/ (~kept /\ ~saw[c])]_vars
=============================================================================
