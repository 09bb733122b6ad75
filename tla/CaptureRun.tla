----------------------------- MODULE CaptureRun -----------------------------
(* Runs of one plain archive over one local source: each item the reader     *)
(* delivers is skipped, kept, filled or captured (zip, page, record, index   *)
(* row), a fault costs its item or folder and is put down in the ledger of   *)
(* capture gaps, and checkpoints flush the index before they save the        *)
(* manifest.  A run may be killed or fail anywhere; the next one starts from *)
(* the saved manifest.                                                       *)
(*   src/internal/app/{run,localrun}.go   src/internal/state/gaps.go         *)
(*   src/internal/export/{exporter,attach,atomic}.go                         *)
(*   src/internal/index/index.go                                             *)
EXTENDS Integers, Sequences, FiniteSets, SequencesExt

CONSTANTS
    None,
    Walk,             \* the source's items in the reader's order, by folder
    Folder, MsgId,    \* of each item: its folder, its Message-ID,
    Body, Place,      \* its envelope (the fingerprint), its file's unique part
    Kinds,            \* "pst": items carry a locator; "maildir": a place
    Reads,            \* how badly an item may be read: "empty", "part"
    Troubles,         \* what else may go wrong
    MaxRuns,          \* runs
    MaxUpsets,        \* bad reads, failed writes, kills, re-namings...
    CheckpointEvery,  \* items captured or faulted between two checkpoints
    ProbeEvery,       \* write faults between two looks at the archive
    WriteBreaker      \* failed writes in a row that end the walk

Items == ToSet(Walk)
Folders == {Folder[i] : i \in Items}
Ids == {MsgId[i] : i \in Items}
Places == {Place[i] : i \in Items}
Names == {1, 2}                     \* file stems a message may be given
Runs == 1..MaxRuns
MaxCaps == MaxRuns * Len(Walk)

Plain(i) == <<Folder[i], MsgId[i], "plain">>
Qualified(i) == <<Folder[i], MsgId[i], Body[i]>>
Keys == UNION {{Plain(i), Qualified(i)} : i \in Items}

\* The ledger's locators: an item of a PST, a maildir file, a message by its
\* Message-ID, its copy in one folder, an output folder, a folder's table.
Locators ==
    ({"own"} \X Items) \union ({"place"} \X Places) \union ({"id"} \X Ids)
      \union ({"id"} \X Ids \X Folders) \union ({"folder", "table"} \X Folders)

ASSUME WalkAssumption ==
    /\ Walk \in Seq(Items) /\ Len(Walk) > 0
    /\ \A n, m \in DOMAIN Walk : Folder[Walk[n]] = Folder[Walk[m]] =>
         \A k \in n..m : Folder[Walk[k]] = Folder[Walk[n]]
    /\ Kinds \subseteq {"pst", "maildir"} /\ Reads \subseteq {"empty", "part"}
    /\ {MaxRuns, MaxUpsets, CheckpointEvery, ProbeEvery, WriteBreaker}
         \subseteq Nat \ {0}

\* A maildir file's locator has its folder in it, and a fingerprint is no word.
ASSUME PlaceAssumption ==
    \A i, j \in Items : Place[i] = Place[j] => Folder[i] = Folder[j]
ASSUME BodyAssumption == \A i \in Items : Body[i] /= "plain"

VARIABLES
    kind,      \* the reader of this source
    run,       \* this run's stamp
    mode,      \* incremental or full
    naming,    \* the stem this run gives
    pc, walk,  \* where the run is, and what its walk remembers
    cur,       \* the message being captured
    mem,       \* the manifest in memory: records and gaps
    pend,      \* index rows of the open batch: the capture each stands for
    held,      \* the lock file is still this run's
    saved,     \* the manifest on disk
    pages, zips, \* [key][stem]: the capture whose file is there, 0 for none
    rows,      \* the index on disk: the capture of each key's row
    unindexed, \* captures whose row was refused or lost: the index errors
    caps,      \* captures begun of each key
    outcome,   \* how the last run ended, and of one that completed its walk:
    missed,    \*   items it met whose message is not in the saved manifest,
    partly,    \*   items it met that are recorded as partly read,
    gone,      \*   maildir places a file of which vanished,
    calm,      \*   whether nothing went wrong in it
    left       \* upsets left

disk == <<saved, pages, zips, rows>>
about == <<kind, run, mode, naming>>
told == <<outcome, missed, partly, gone, calm>>
vars == <<about, pc, walk, cur, mem, pend, held, disk, unindexed, caps, told,
          left>>

NoWalk == [pos |-> 1, why |-> "walk", streak |-> 0, probes |-> 0, since |-> 0,
           late |-> {}, unwritable |-> {}, faulted |-> {}, unread |-> FALSE,
           saveErr |-> FALSE, final |-> FALSE, met |-> {}, gone |-> {},
           began |-> 0]
NoCapture == [item |-> None, key |-> None, read |-> "whole", zip |-> FALSE,
              old |-> 0]
Blank == [recs |-> [k \in Keys |-> None], gaps |-> [l \in Locators |-> None]]
Ends == {"walk", "cancelled", "source", "stopped", "fatal"}

Records == [name : Names, cap : 1..MaxCaps, zip : BOOLEAN,
            gap : SUBSET {"att", "part"}, body : {Body[i] : i \in Items}]
Reasons == {"unreadable", "vanished", "table", "unwritable", "export-failed",
            "export-panic", "refresh-failed"}
Gaps == [reason : Reasons, class : {"missing", "info"}, folder : Folders,
         run : Runs]
\* "None" is neither a record nor a gap, whatever their numbers.
ASSUME NoneAssumption ==
    /\ None \notin [name : Names, cap : Nat, zip : BOOLEAN,
                   gap : SUBSET {"att", "part"}, body : {Body[i] : i \in Items}]
    /\ None \notin [reason : Reasons, class : {"missing", "info"},
                   folder : Folders, run : Nat]

Manifests == [recs : [Keys -> Records \union {None}],
              gaps : [Locators -> Gaps \union {None}]]

TypeOK ==
    /\ kind \in Kinds /\ run \in 0..MaxRuns /\ naming \in Names
    /\ mode \in {"incremental", "full"}
    /\ pc \in {"idle", "next", "zip", "page", "oldpage", "oldzip", "check",
               "flush", "save", "finish", "report", "lost"}
    /\ walk.pos \in 1..(Len(Walk) + 1) /\ walk.why \in Ends
    /\ walk.late \subseteq Places /\ walk.met \subseteq Items
    /\ walk.unwritable \union walk.faulted \subseteq Folders
    /\ cur.key \in Keys \union {None} /\ cur.old \in Names \union {0}
    /\ \A m \in {mem, saved} :
         /\ \A k \in Keys : m.recs[k] \in Records \union {None}
         /\ \A l \in Locators : m.gaps[l] \in Gaps \union {None}
    /\ pages \in [Keys -> [Names -> 0..MaxCaps]]
    /\ zips \in [Keys -> [Names -> 0..MaxCaps]]
    /\ {pend, rows, caps} \subseteq [Keys -> 0..MaxCaps]
    /\ unindexed \subseteq Keys \X (1..MaxCaps) /\ gone \subseteq Places
    /\ missed \union partly \subseteq Items
    /\ outcome \in {"none", "ok", "partial", "failed", "cancelled", "killed"}
    /\ {held, calm} \subseteq BOOLEAN /\ left \in 0..MaxUpsets

Init ==
    /\ kind \in Kinds /\ run = 0 /\ mode = "incremental" /\ naming = 1
    /\ pc = "idle" /\ walk = NoWalk /\ cur = NoCapture /\ held = TRUE
    /\ mem = Blank /\ saved = Blank
    /\ pages = [k \in Keys |-> [n \in Names |-> 0]] /\ zips = pages
    /\ rows = [k \in Keys |-> 0] /\ pend = rows /\ caps = rows
    /\ unindexed = {} /\ outcome = "none" /\ missed = {} /\ partly = {}
    /\ gone = {} /\ calm = FALSE /\ left = MaxUpsets

Upset == left > 0 /\ left' = left - 1
May(trouble) == trouble \in Troubles /\ Upset

----------------------------------------------------------------------------
(* The ledger of capture gaps.                                               *)

Gap(i, reason, class) ==
    [reason |-> reason, class |-> class, folder |-> Folder[i], run |-> run]

(* Of two observations of one run the milder never replaces the other.       *)
ObserveGap(gaps, loc, g) ==
    LET old == gaps[loc]
        milder == old /= None /\ old.run = run /\ old.class = "missing"
                    /\ g.class = "info"
    IN  IF milder THEN gaps ELSE [gaps EXCEPT ![loc] = g]

(* Another folder's copy that this run lost already holds the plain locator. *)
IdLocator(gaps, i) ==
    LET held0 == gaps[<<"id", MsgId[i]>>]
    IN  IF held0 /= None /\ held0.run = run /\ held0.folder /= Folder[i]
        THEN <<"id", MsgId[i], Folder[i]>> ELSE <<"id", MsgId[i]>>

ItemLocator(gaps, i) ==
    IF kind = "pst" THEN <<"own", i>> ELSE IdLocator(gaps, i)

ReadLocator(i) == IF kind = "pst" THEN <<"own", i>> ELSE <<"place", Place[i]>>

Close(gaps, locs) ==
    [l \in Locators |-> IF l \in locs THEN None ELSE gaps[l]]

\* Mutant: one folder's success closes the gap of another's failure.
CloseGapInFolderMutant(gaps, locs, folder) == Close(gaps, locs)

CloseGapInFolder(gaps, locs, folder) ==
    Close(gaps, {l \in locs : gaps[l] /= None /\ gaps[l].folder = folder})

(* closeReadGap: a gap of this run at the place is answered only when it     *)
(* says the file vanished; one of an earlier run waits for the walk's end.   *)
VanishedNow(gaps, i) ==
    LET l == <<"place", Place[i]>>
    IN  IF gaps[l] /= None /\ gaps[l].run = run /\ gaps[l].reason = "vanished"
        THEN {l} ELSE {}

LateClose(gaps, i) ==
    LET g == gaps[<<"place", Place[i]>>]
    IN  IF kind = "maildir" /\ g /= None /\ g.run /= run
        THEN {Place[i]} ELSE {}

(* recovered: what the capture of an item answers.                           *)
Recovered(gaps, i) ==
    LET answered == IF kind = "pst" THEN {<<"own", i>>}
                    ELSE VanishedNow(gaps, i)
    IN  CloseGapInFolder(Close(gaps, answered),
          {<<"id", MsgId[i]>>, <<"id", MsgId[i], Folder[i]>>}, Folder[i])

SettleReadGaps(gaps) ==
    Close(gaps, {l \in {"place"} \X walk.late :
                   gaps[l] /= None /\ gaps[l].run /= run})

(* A completed walk closes what it did not observe and could have seen.      *)
CloseUnobserved(gaps) ==
    Close(gaps, {l \in Locators : /\ gaps[l] /= None /\ gaps[l].run /= run
                                  /\ gaps[l].folder \notin walk.faulted})

----------------------------------------------------------------------------
(* The exporter's decision for one item.                                     *)

(* The plain key is the first comer's; a different message takes its own.  A *)
(* degraded read is never split.                                             *)
Key(i, read) ==
    LET first == mem.recs[Plain(i)]
    IN  IF read /= "part" /\ first /= None /\ first.body /= Body[i]
        THEN Qualified(i) ELSE Plain(i)

KeepsDegraded(i, read) ==
    LET prev == mem.recs[Plain(i)]
    IN  read = "part" /\ prev /= None /\ "part" \notin prev.gap

\* Mutant: what the reader could not read is never asked for again.
ImprovesMutant(gap, read) == "att" \in gap /\ read = "whole"

(* probeImproves: something an earlier capture missed is there now.          *)
Improves(gap, read) ==
    \/ "att" \in gap /\ read = "whole"
    \/ "part" \in gap /\ read /= "part"

(* Nothing is written: complete, or still as incomplete as it was.           *)
Archived(i, read) ==
    LET prev == mem.recs[Key(i, read)]
    IN  mode = "incremental" /\ prev /= None /\ ~Improves(prev.gap, read)

(* A folder that could not be made: only what the archive already holds and  *)
(* an incremental run would skip is still looked at.                         *)
NotAttempted(i) ==
    /\ Folder[i] \in walk.unwritable
    /\ mode = "full" \/ mem.recs[Plain(i)] = None

----------------------------------------------------------------------------
(* The walk's steps.                                                         *)

Item == Walk[walk.pos]
AtItem == pc = "next" /\ walk.pos <= Len(Walk)

Onward(w) ==
    IF w.final THEN "report"
    ELSE IF w.why /= "walk" \/ w.pos > Len(Walk) THEN "finish" ELSE "next"

(* After an item: a checkpoint when enough was captured or faulted.          *)
Goto(w) ==
    /\ walk' = w
    /\ pc' = IF w.since >= CheckpointEvery THEN "check" ELSE Onward(w)

Met(i) == [walk EXCEPT !.pos = @ + 1, !.met = @ \union {i}]

(* observe: the gap goes into the ledger, a folder's fault is remembered,    *)
(* and the fault counts as processed.                                        *)
Observe(w, loc, g) ==
    /\ mem' = [mem EXCEPT !.gaps = ObserveGap(@, loc, g)]
    /\ Goto([w EXCEPT !.since = @ + 1,
                      !.faulted = IF loc[1] \in {"folder", "table"}
                                  THEN @ \union {g.folder} ELSE @])

Unfinished(how) ==
    /\ outcome' = how /\ missed' = {} /\ partly' = {} /\ gone' = {}
    /\ calm' = FALSE

Begin ==
    /\ pc = "idle" /\ run < MaxRuns
    /\ run' = run + 1 /\ mode' \in {"incremental", "full"}
    /\ naming' \in Names
    /\ IF naming' = naming THEN UNCHANGED left ELSE May("rename")
    /\ pc' = "next" /\ walk' = [NoWalk EXCEPT !.began = left] /\ mem' = saved
    /\ held' = TRUE /\ Unfinished("none")
    /\ zips' = [k \in Keys |-> [n \in Names |->        \* SweepOrphanZips
                  IF pages[k][n] = 0 THEN 0 ELSE zips[k][n]]]
    /\ UNCHANGED <<kind, cur, pend, saved, pages, rows, unindexed, caps>>

(* The walk ends early: a cancel, or a fault of the source itself.           *)
Stops ==
    /\ AtItem
    /\ \E why \in {"cancelled", "source"} :
         May(why) /\ walk' = [walk EXCEPT !.why = why]
    /\ pc' = "finish"
    /\ UNCHANGED <<about, cur, mem, pend, held, disk, unindexed, caps, told>>

Absent ==
    /\ AtItem /\ May("absent")
    /\ Goto([walk EXCEPT !.pos = @ + 1])
    /\ UNCHANGED <<about, cur, mem, pend, held, disk, unindexed, caps, told>>

(* A file or a node the reader cannot read costs that item.                  *)
ReaderFault ==
    /\ AtItem /\ May("unreadable")
    /\ Observe(Met(Item), ReadLocator(Item),
               Gap(Item, "unreadable", "missing"))
    /\ UNCHANGED <<about, cur, pend, held, disk, unindexed, caps, told>>

(* A maildir file that a mail client took away between listing and reading.  *)
Vanishes ==
    /\ AtItem /\ kind = "maildir" /\ May("vanished")
    /\ Observe([walk EXCEPT !.pos = @ + 1, !.gone = @ \union {Place[Item]}],
               ReadLocator(Item), Gap(Item, "vanished", "missing"))
    /\ UNCHANGED <<about, cur, pend, held, disk, unindexed, caps, told>>

(* The rest of the folder's table cannot be read.                            *)
TableFault ==
    LET rest == {n \in walk.pos..Len(Walk) : Folder[Walk[n]] = Folder[Item]}
    IN  /\ AtItem /\ May("table")
        /\ Observe([walk EXCEPT !.pos = @ + Cardinality(rest),
                                !.met = @ \union {Walk[n] : n \in rest}],
                   <<"table", Folder[Item]>>, Gap(Item, "table", "missing"))
        /\ UNCHANGED <<about, cur, pend, held, disk, unindexed, caps, told>>

(* How the reader delivers the item: whole, with attachments that hold no    *)
(* bytes, or without the attachments it could not read (a PST only).         *)
Delivered(read) ==
    \/ read = "whole" /\ UNCHANGED left
    \/ read \in Reads /\ (read = "part" => kind = "pst") /\ Upset

LeaveUnwritable(read) ==
    /\ AtItem /\ Delivered(read) /\ NotAttempted(Item)
    /\ Observe(Met(Item), <<"folder", Folder[Item]>>,
               Gap(Item, "unwritable", "missing"))
    /\ UNCHANGED <<about, cur, pend, held, disk, unindexed, caps, told>>

(* keepDegraded: a worse read never replaces an archived copy.               *)
Keep(read) ==
    /\ AtItem /\ Delivered(read) /\ ~NotAttempted(Item)
    /\ KeepsDegraded(Item, read)
    /\ mem' = [mem EXCEPT !.gaps =
                 LET noted == ObserveGap(@, <<"id", MsgId[Item]>>,
                                Gap(Item, "refresh-failed", "info"))
                 IN  Close(noted, VanishedNow(noted, Item))]
    /\ Goto(Met(Item))
    /\ UNCHANGED <<about, cur, pend, held, disk, unindexed, caps, told>>

Skip(read) ==
    /\ AtItem /\ Delivered(read) /\ ~NotAttempted(Item)
    /\ ~KeepsDegraded(Item, read) /\ Archived(Item, read)
    /\ mem' = [mem EXCEPT !.gaps = Close(@, VanishedNow(@, Item))]
    /\ Goto([Met(Item) EXCEPT !.unread = @ \/ read = "part"])
    /\ UNCHANGED <<about, cur, pend, held, disk, unindexed, caps, told>>

\* Mutant: the record's files go even when the new ones took their names.
OldStemMutant(prev) == IF prev = None THEN 0 ELSE prev.name

(* The files to remove once a record of another stem is replaced.            *)
OldStem(prev) == IF prev = None \/ prev.name = naming THEN 0 ELSE prev.name

StartCapture(read) ==
    LET k == Key(Item, read)
    IN  /\ AtItem /\ Delivered(read) /\ ~NotAttempted(Item)
        /\ ~KeepsDegraded(Item, read) /\ ~Archived(Item, read)
        /\ cur' = [item |-> Item, key |-> k, read |-> read, zip |-> FALSE,
                   old |-> OldStem(mem.recs[k])]
        /\ walk' = Met(Item) /\ pc' = "zip"
        /\ UNCHANGED <<about, mem, pend, held, disk, unindexed, caps, told>>

(* The first write fault and every 50th ask whether the archive is there and *)
(* the lock still held, before the fault is put down as the item's own.      *)
ProbeDue == walk.probes % ProbeEvery = 0
Probed(w) ==
    [w EXCEPT !.probes = (@ + 1) % ProbeEvery, !.streak = @ + 1,
              !.why = IF walk.streak + 1 >= WriteBreaker THEN "stopped" ELSE @]

WriteFault(w, loc, g) ==
    IF ProbeDue /\ ~held
    THEN pc' = "lost" /\ UNCHANGED <<walk, mem>>
    ELSE Observe(Probed(w), loc, g)

(* The folder cannot be made: every later item of it is left this run.       *)
FolderFails ==
    /\ pc = "zip" /\ May("folder")
    /\ WriteFault([walk EXCEPT !.unwritable = @ \union {Folder[cur.item]}],
                  <<"folder", Folder[cur.item]>>,
                  Gap(cur.item, "unwritable", "missing"))
    /\ UNCHANGED <<about, cur, pend, held, disk, unindexed, caps, told>>

(* The message cannot be rendered or a write of its page fails: its own      *)
(* fault.                                                                    *)
ItemFails ==
    /\ pc \in {"zip", "page"} /\ May("item")
    /\ WriteFault(walk, ItemLocator(mem.gaps, cur.item),
                  Gap(cur.item, "export-failed", "missing"))
    /\ UNCHANGED <<about, cur, pend, held, disk, unindexed, caps, told>>

(* A panic on a crafted message is a gap; no probe, no word to the breaker.  *)
Panics ==
    /\ pc \in {"zip", "page"} /\ May("panic")
    /\ Observe(walk, ItemLocator(mem.gaps, cur.item),
               Gap(cur.item, "export-panic", "missing"))
    /\ UNCHANGED <<about, cur, pend, held, disk, unindexed, caps, told>>

(* The archive's own fault: full, read-only or gone.                         *)
ArchiveFails ==
    /\ pc \in {"zip", "page"} /\ May("fatal")
    /\ walk' = [walk EXCEPT !.why = "fatal"] /\ pc' = "finish"
    /\ UNCHANGED <<about, cur, mem, pend, held, disk, unindexed, caps, told>>

(* Attachments first.  A failed zip leaves the one that is there and makes   *)
(* every attachment a gap; none with bytes removes it.                       *)
WriteZip ==
    /\ pc = "zip" /\ pc' = "page"
    /\ caps' = [caps EXCEPT ![cur.key] = @ + 1]
    /\ \/ /\ cur.read = "whole" /\ UNCHANGED left
          /\ zips' = [zips EXCEPT ![cur.key][naming] = caps'[cur.key]]
          /\ cur' = [cur EXCEPT !.zip = TRUE]
       \/ /\ cur.read = "whole" /\ May("zip")
          /\ UNCHANGED <<zips, cur>>
       \/ /\ cur.read /= "whole" /\ UNCHANGED <<left, cur>>
          /\ zips' = [zips EXCEPT ![cur.key][naming] = 0]
    /\ UNCHANGED <<about, walk, mem, pend, held, saved, pages, rows, unindexed,
                   told>>

LostBatch == {<<k, pend[k]>> : k \in {j \in Keys : pend[j] /= 0}}

(* Index.Add: the row joins the batch, is refused, or takes the batch along. *)
AddRow(k) ==
    \/ pend' = [pend EXCEPT ![k] = caps[k]] /\ UNCHANGED <<unindexed, left>>
    \/ /\ May("row")
       /\ \/ pend' = pend /\ unindexed' = unindexed \union {<<k, caps[k]>>}
          \/ /\ pend' = [j \in Keys |-> 0]
             /\ unindexed' = unindexed \union {<<k, caps[k]>>} \union LostBatch

NewRecord ==
    [name |-> naming, cap |-> caps[cur.key], zip |-> cur.zip,
     gap |-> IF cur.read = "part" THEN {"part"}
             ELSE IF cur.zip THEN {} ELSE {"att"},
     body |-> Body[cur.item]]

Written(f, n) == [f EXCEPT ![cur.key][n] = caps[cur.key]]

(* The page, then the record and the index row in memory, then the capture's *)
(* answers to the ledger.  The old stem's files go after it.                 *)
WritePage ==
    /\ pc = "page"
    /\ pages' = Written(pages, naming)
    /\ AddRow(cur.key)
    /\ mem' = [recs |-> [mem.recs EXCEPT ![cur.key] = NewRecord],
               gaps |-> Recovered(mem.gaps, cur.item)]
    /\ LET w == [walk EXCEPT !.streak = 0, !.since = @ + 1,
                   !.unread = @ \/ cur.read = "part",
                   !.late = @ \union LateClose(mem.gaps, cur.item)]
       IN  IF cur.old /= 0 THEN walk' = w /\ pc' = "oldpage" ELSE Goto(w)
    /\ UNCHANGED <<about, cur, held, saved, zips, rows, caps, told>>

RemoveOldPage ==
    /\ pc = "oldpage" /\ pc' = "oldzip"
    /\ pages' = [pages EXCEPT ![cur.key][cur.old] = 0]
    /\ UNCHANGED <<about, walk, cur, mem, pend, held, saved, zips, rows,
                   unindexed, caps, told, left>>

RemoveOldZip ==
    /\ pc = "oldzip" /\ Goto(walk)
    /\ zips' = [zips EXCEPT ![cur.key][cur.old] = 0]
    /\ UNCHANGED <<about, cur, mem, pend, held, saved, pages, rows, unindexed,
                   caps, told, left>>

----------------------------------------------------------------------------
(* Checkpoints and the run's end.                                            *)

\* Mutant: the manifest is saved and the index left for the run's end.
CheckpointMutant ==
    /\ pc = "check"
    /\ walk' = [walk EXCEPT !.since = 0]
    /\ pc' = IF held THEN "save" ELSE "lost"
    /\ UNCHANGED <<about, cur, mem, pend, held, disk, unindexed, caps, told,
                   left>>

Checkpoint ==
    /\ pc = "check"
    /\ walk' = [walk EXCEPT !.since = 0]
    /\ pc' = IF held THEN "flush" ELSE "lost"
    /\ UNCHANGED <<about, cur, mem, pend, held, disk, unindexed, caps, told,
                   left>>

Committed == [k \in Keys |-> IF pend[k] /= 0 THEN pend[k] ELSE rows[k]]

FlushIndex ==
    \/ rows' = Committed /\ UNCHANGED <<unindexed, left>>
    \/ /\ May("flush") /\ LostBatch /= {}
       /\ unindexed' = unindexed \union LostBatch /\ UNCHANGED rows

Flush ==
    /\ pc = "flush" /\ pc' = "save"
    /\ FlushIndex /\ pend' = [k \in Keys |-> 0]
    /\ UNCHANGED <<about, walk, cur, mem, held, saved, pages, zips, caps, told>>

Save ==
    /\ pc = "save"
    /\ \/ /\ saved' = mem /\ UNCHANGED left
          /\ walk' = [walk EXCEPT !.saveErr = FALSE]
       \/ /\ May("save") /\ UNCHANGED saved
          /\ walk' = [walk EXCEPT !.saveErr = TRUE]
    /\ pc' = Onward(walk)
    /\ UNCHANGED <<about, cur, mem, pend, held, pages, zips, rows, unindexed,
                   caps, told>>

\* Mutant: a walk that was cut short closes what it did not come to.
FinishMutant ==
    /\ pc = "finish" /\ pc' = "flush"
    /\ mem' = [mem EXCEPT !.gaps = CloseUnobserved(SettleReadGaps(@))]
    /\ walk' = [walk EXCEPT !.final = TRUE]
    /\ UNCHANGED <<about, cur, pend, held, disk, unindexed, caps, told, left>>

(* The walk is over.  Whatever ended it, the places a capture answered are   *)
(* settled; only a completed walk closes what it no longer finds.  Then the  *)
(* last commit, with no look at the lock.                                    *)
Finish ==
    /\ pc = "finish" /\ pc' = "flush"
    /\ mem' = [mem EXCEPT !.gaps =
                 IF walk.why = "walk" THEN CloseUnobserved(SettleReadGaps(@))
                 ELSE SettleReadGaps(@)]
    /\ walk' = [walk EXCEPT !.final = TRUE]
    /\ UNCHANGED <<about, cur, pend, held, disk, unindexed, caps, told, left>>

(* Cleared at a run's end: what the next one does not see.                   *)
Ended == walk' = NoWalk /\ cur' = NoCapture /\ mem' = saved /\ pc' = "idle"

Captured(m, i) == \E k \in {Plain(i), Qualified(i)} :
                    m.recs[k] /= None /\ m.recs[k].body = Body[i]
CapturedWhole(m, i) == \E k \in {Plain(i), Qualified(i)} :
                         /\ m.recs[k] /= None /\ m.recs[k].body = Body[i]
                         /\ m.recs[k].gap = {}
PartlyRead(m, i) == \E k \in {Plain(i), Qualified(i)} :
                      /\ m.recs[k] /= None /\ m.recs[k].body = Body[i]
                      /\ "part" \in m.recs[k].gap

Observed == {l \in Locators : /\ mem.gaps[l] /= None /\ mem.gaps[l].run = run
                               /\ mem.gaps[l].class = "missing"}

(* A failure before a cancel before a partial run before a complete one.     *)
Report ==
    /\ pc = "report" /\ Ended
    /\ outcome' = IF walk.saveErr THEN "failed"
                  ELSE IF walk.why \in {"fatal", "stopped", "source"}
                  THEN "failed"
                  ELSE IF walk.why = "cancelled" THEN "cancelled"
                  ELSE IF walk.unread \/ Observed /= {} THEN "partial" ELSE "ok"
    /\ missed' = {i \in walk.met : ~Captured(saved, i)}
    /\ partly' = {i \in walk.met : PartlyRead(saved, i)}
    /\ gone' = walk.gone /\ calm' = (left = walk.began)
    /\ UNCHANGED <<about, pend, held, disk, unindexed, caps, left>>

(* The lock went: neither manifest nor pages are written.  The index, closed *)
(* on the way out, commits its open batch all the same.                      *)
Lost ==
    /\ pc = "lost" /\ Ended /\ Unfinished("failed")
    /\ FlushIndex /\ pend' = [k \in Keys |-> 0]
    /\ UNCHANGED <<about, held, saved, pages, zips, caps>>

LoseLock ==
    /\ pc /= "idle" /\ held /\ May("lock") /\ held' = FALSE
    /\ UNCHANGED <<about, pc, walk, cur, mem, pend, disk, unindexed, caps, told>>

Kill ==
    /\ pc /= "idle" /\ May("kill") /\ Ended /\ Unfinished("killed")
    /\ pend' = [k \in Keys |-> 0]
    /\ UNCHANGED <<about, held, disk, unindexed, caps>>

Next ==
    \/ Begin \/ Stops \/ Absent \/ ReaderFault \/ Vanishes \/ TableFault
    \/ \E read \in Reads \union {"whole"} :
         LeaveUnwritable(read) \/ Keep(read) \/ Skip(read) \/ StartCapture(read)
    \/ FolderFails \/ ItemFails \/ Panics \/ ArchiveFails
    \/ WriteZip \/ WritePage \/ RemoveOldPage \/ RemoveOldZip
    \/ Checkpoint \/ Flush \/ Save \/ Finish \/ Report \/ Lost
    \/ LoseLock \/ Kill

Spec == Init /\ [][Next]_vars

----------------------------------------------------------------------------
(* What the runs promise.                                                    *)

(* Two cases in which a lost message may go unnamed: another message that    *)
(* bears its Message-ID in its folder is archived; a second file of its      *)
(* place vanished, and a third one's capture answered for both.              *)
Shadowed(m, i) ==
    \E j \in Items : /\ Folder[j] = Folder[i] /\ MsgId[j] = MsgId[i]
                     /\ Body[j] /= Body[i] /\ Captured(m, j)
Excused(i) == Shadowed(saved, i) \/ Place[i] \in gone

NamedBy(i) == {<<"own", i>>, <<"place", Place[i]>>, <<"id", MsgId[i]>>,
               <<"id", MsgId[i], Folder[i]>>, <<"folder", Folder[i]>>,
               <<"table", Folder[i]>>}
Named(m, i) == \E l \in NamedBy(i) :
                 /\ m.gaps[l] /= None /\ m.gaps[l].class = "missing"
                 /\ m.gaps[l].folder = Folder[i]

(* A run that walked its source to the end passes over nothing in silence:   *)
(* each message it met is in the saved manifest, or a saved gap names it.    *)
(* It says "ok" only when none is missing or partly read and the saved       *)
(* ledger lists nothing that is.                                             *)
OutcomeIsTrue ==
    /\ outcome \in {"ok", "partial"} =>
         \A i \in missed : Named(saved, i) \/ Excused(i)
    /\ outcome = "ok" =>
         /\ partly = {} /\ \A i \in missed : Excused(i)
         /\ \A l \in Locators :
              saved.gaps[l] = None \/ saved.gaps[l].class = "info"

(* Whatever happened before, a run in which nothing goes wrong ends ok with  *)
(* every message of the source captured whole.                               *)
CalmRunHeals ==
    calm => outcome = "ok" /\ \A i \in Items : CapturedWhole(saved, i)

(* A gap of a PST is not forgotten: the saved ledger stops naming a message  *)
(* that is not captured only when a completed walk no longer met it.         *)
GapsAreKept ==
    [][kind = "pst" => \A i \in Items :
         Named(saved, i) /\ ~Named(saved', i) =>
           \/ Captured(saved', i) \/ Shadowed(saved', i)
           \/ /\ pc = "save" /\ walk.why = "walk" /\ walk.final
              /\ i \notin walk.met]_vars

(* A saved record's capture has its page, and the zip it claims, unless a    *)
(* later capture of the message was begun; a page of it there always is.     *)
RecordedIsWritten ==
    \A k \in Keys : LET r == saved.recs[k] IN r /= None =>
      /\ \E n \in Names : pages[k][n] /= 0
      /\ caps[k] = r.cap => /\ pages[k][r.name] = r.cap
                            /\ r.zip => zips[k][r.name] = r.cap

(* The index never falls behind the saved manifest but by rows the run that  *)
(* lost them counted.                                                        *)
IndexIsSuperset ==
    \A k \in Keys : saved.recs[k] /= None =>
      rows[k] >= saved.recs[k].cap \/ <<k, saved.recs[k].cap>> \in unindexed
=============================================================================
