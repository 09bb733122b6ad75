--------------------------- MODULE CaptureRunProofs ---------------------------
(***************************************************************************)
(* Proofs that the index keeps up with the saved manifest, that what it    *)
(* records is written, that what a finished run says of its source is      *)
(* true, that a gap stays until its own close, and that a run with no      *)
(* trouble heals the archive: for any source, any reader, and any number   *)
(* of runs, faults and checkpoints.                                        *)
(***************************************************************************)
EXTENDS CaptureRun, TLAPS, FiniteSetTheorems

(* The captures begun, the rows on disk and the rows of the open batch. *)
BatchInv ==
  /\ caps \in [Keys -> Nat] /\ rows \in [Keys -> Nat] /\ pend \in [Keys -> Nat]
  /\ \A k \in Keys :
       /\ pend[k] <= caps[k] /\ rows[k] <= caps[k]
       /\ pend[k] = 0 \/ rows[k] <= pend[k]

(* A manifest whose every record has its row, a counted loss, or a row in the
   batch b still open. *)
Covered(m, b) ==
  /\ "recs" \in DOMAIN m /\ "gaps" \in DOMAIN m
  /\ DOMAIN m.recs = Keys
  /\ \A k \in Keys : m.recs[k] # None =>
       /\ m.recs[k].cap \in Nat
       /\ \/ rows[k] >= m.recs[k].cap
          \/ b[k] = m.recs[k].cap
          \/ <<k, m.recs[k].cap>> \in unindexed

NoBatch == [k \in Keys |-> 0]

(* The manifest in memory may count on the open batch, the one on disk may
   not; what lies between is that the batch is empty when the manifest is
   saved. *)
IndexInv ==
  /\ BatchInv
  /\ Covered(mem, pend)
  /\ Covered(saved, NoBatch)
  /\ pc = "save" => pend = NoBatch

(* The steps of a capture, from its decision to its last removal. *)
Capturing == {"zip", "page", "oldpage", "oldzip"}

(* A manifest whose every record has a page, and its own files unless a later
   capture of the message was begun. *)
WrittenNow(r, k) ==
  /\ r.cap \in Nat \ {0} /\ r.cap <= caps[k] /\ r.name \in Names
  /\ \E n \in Names : pages[k][n] # 0
  /\ caps[k] = r.cap => /\ pages[k][r.name] = r.cap
                        /\ r.zip => zips[k][r.name] = r.cap

AllWritten(m) ==
  /\ "recs" \in DOMAIN m /\ "gaps" \in DOMAIN m
  /\ DOMAIN m.recs = Keys
  /\ \A k \in Keys : m.recs[k] # None => WrittenNow(m.recs[k], k)

(* A manifest that does not know the capture in hand. *)
Behind(m) == m.recs[cur.key] # None => m.recs[cur.key].cap < caps[cur.key]

(* What holds of the capture in hand: its old stem is not its new one; its
   zip carries its number; once its page is there the manifest on disk is
   still behind, so that the old files may go. *)
CaptureInv ==
  /\ {"key", "old", "zip"} \subseteq DOMAIN cur
  /\ pc \in Capturing => cur.old # naming
  /\ pc = "zip" => ~cur.zip
  /\ cur.key \in Keys =>
       /\ pc = "page" =>
            /\ caps[cur.key] # 0 /\ Behind(mem) /\ Behind(saved)
            /\ cur.zip => zips[cur.key][naming] = caps[cur.key]
       /\ pc \in {"oldpage", "oldzip"} =>
            /\ pages[cur.key][naming] # 0 /\ Behind(saved)
            /\ mem.recs[cur.key] # None => mem.recs[cur.key].name = naming

FilesInv ==
  /\ naming \in Names /\ caps \in [Keys -> Nat]
  /\ pages \in [Keys -> [Names -> Nat]] /\ zips \in [Keys -> [Names -> Nat]]
  /\ AllWritten(mem) /\ AllWritten(saved) /\ CaptureInv

(***************************************************************************)
(* The kinds of step the two invariants can tell apart.  A step aside      *)
(* leaves the records, the files and the index alone and leads into no     *)
(* capture; a quiet one leaves the records and the index alone; one that   *)
(* goes back drops what is in memory for what is on disk.  The rest are    *)
(* actions of their own.                                                   *)
(***************************************************************************)
RecordsKept == /\ "recs" \in DOMAIN mem' /\ "gaps" \in DOMAIN mem'
               /\ mem'.recs = mem.recs

Quiet ==
  /\ RecordsKept
  /\ UNCHANGED <<pend, rows, saved, unindexed, caps>>
  /\ pc' = "save" => pc = "save"

Aside ==
  /\ Quiet
  /\ UNCHANGED <<naming, pages, zips, cur>>
  /\ pc' \in Capturing => pc' = pc

Back ==
  /\ mem' = saved /\ pc' \in {"idle", "next"}
  /\ UNCHANGED <<rows, saved, unindexed, caps>>
  /\ pend' = pend \/ pend' = NoBatch

LEMMA GapsOnly ==
  ASSUME "recs" \in DOMAIN mem, "gaps" \in DOMAIN mem, NEW g,
         mem' = [mem EXCEPT !.gaps = g]
  PROVE  RecordsKept
BY DEF RecordsKept

(* A step of the walk leads straight to no save and into no capture. *)
Between == {"next", "check", "flush", "finish", "report", "lost"}

LEMMA BetweenIsOutside == pc' \in Between => pc' # "save" /\ pc' \notin Capturing
BY DEF Between, Capturing

LEMMA OnwardIsBetween == ASSUME NEW w PROVE Onward(w) \in Between
BY DEF Onward, Between

LEMMA GotoIsBetween == ASSUME NEW w, Goto(w) PROVE pc' \in Between
BY OnwardIsBetween DEF Goto, Between

LEMMA ObserveIsAside ==
  ASSUME "recs" \in DOMAIN mem, "gaps" \in DOMAIN mem,
         NEW w, NEW loc, NEW g, Observe(w, loc, g)
  PROVE  RecordsKept /\ pc' \in Between
<1>1. mem' = [mem EXCEPT !.gaps = ObserveGap(mem.gaps, loc, g)]
  BY DEF Observe
<1>2. RecordsKept
  BY <1>1, GapsOnly
<1>3. pc' \in Between
  BY GotoIsBetween DEF Observe
<1> QED
  BY <1>2, <1>3

LEMMA WriteFaultIsAside ==
  ASSUME "recs" \in DOMAIN mem, "gaps" \in DOMAIN mem,
         NEW w, NEW loc, NEW g, WriteFault(w, loc, g)
  PROVE  RecordsKept /\ pc' \in Between
<1>1. CASE ProbeDue /\ ~held
  BY <1>1 DEF WriteFault, RecordsKept, Between
<1>2. CASE ~(ProbeDue /\ ~held)
  <2>1. Observe(Probed(w), loc, g)
    BY <1>2 DEF WriteFault
  <2> QED
    BY <2>1, ObserveIsAside
<1> QED
  BY <1>1, <1>2

(* What makes a step one aside. *)
LEMMA AsideIf ==
  ASSUME RecordsKept, pc' \in Between,
         UNCHANGED <<naming, disk, pend, unindexed, caps, cur>>
  PROVE  Aside
BY BetweenIsOutside DEF Aside, Quiet, disk

(* Reading the source and answering for an item without writing it. *)
LEMMA WalkIsAside ==
  ASSUME "recs" \in DOMAIN mem, "gaps" \in DOMAIN mem,
         \/ Stops \/ Absent \/ ReaderFault \/ Vanishes \/ TableFault
         \/ \E read \in Reads \union {"whole"} :
              LeaveUnwritable(read) \/ Keep(read) \/ Skip(read)
  PROVE  Aside
<1>1. CASE Stops
  BY <1>1, AsideIf DEF Stops, RecordsKept, Between, about
<1>2. CASE Absent
  BY <1>2, AsideIf, GotoIsBetween DEF Absent, RecordsKept, about
<1>3. CASE ReaderFault
  BY <1>3, AsideIf, ObserveIsAside DEF ReaderFault, about
<1>4. CASE Vanishes
  BY <1>4, AsideIf, ObserveIsAside DEF Vanishes, about
<1>5. CASE TableFault
  BY <1>5, AsideIf, ObserveIsAside DEF TableFault, about
<1>6. ASSUME NEW read \in Reads \union {"whole"}, LeaveUnwritable(read) PROVE Aside
  BY <1>6, AsideIf, ObserveIsAside DEF LeaveUnwritable, about
<1>7. ASSUME NEW read \in Reads \union {"whole"}, Keep(read) PROVE Aside
  <2>1. RecordsKept
    BY <1>7, GapsOnly DEF Keep
  <2> QED
    BY <2>1, <1>7, AsideIf, GotoIsBetween DEF Keep, about
<1>8. ASSUME NEW read \in Reads \union {"whole"}, Skip(read) PROVE Aside
  <2>1. RecordsKept
    BY <1>8, GapsOnly DEF Skip
  <2> QED
    BY <2>1, <1>8, AsideIf, GotoIsBetween DEF Skip, about
<1> QED
  BY <1>1, <1>2, <1>3, <1>4, <1>5, <1>6, <1>7, <1>8

(* What goes wrong in a capture, and the steps around a checkpoint. *)
LEMMA FaultIsAside ==
  ASSUME "recs" \in DOMAIN mem, "gaps" \in DOMAIN mem,
         \/ FolderFails \/ ItemFails \/ Panics \/ ArchiveFails
         \/ Checkpoint \/ Finish \/ LoseLock
  PROVE  Aside
<1>1. CASE FolderFails
  BY <1>1, AsideIf, WriteFaultIsAside DEF FolderFails, about
<1>2. CASE ItemFails
  BY <1>2, AsideIf, WriteFaultIsAside DEF ItemFails, about
<1>3. CASE Panics
  BY <1>3, AsideIf, ObserveIsAside DEF Panics, about
<1>4. CASE ArchiveFails
  BY <1>4, AsideIf DEF ArchiveFails, RecordsKept, Between, about
<1>5. CASE Checkpoint
  BY <1>5, AsideIf DEF Checkpoint, RecordsKept, Between, about
<1>6. CASE Finish
  <2>1. RecordsKept
    BY <1>6, GapsOnly DEF Finish
  <2> QED
    BY <2>1, <1>6, AsideIf DEF Finish, Between, about
<1>7. CASE LoseLock
  BY <1>7 DEF LoseLock, Aside, Quiet, RecordsKept, disk, about
<1> QED
  BY <1>1, <1>2, <1>3, <1>4, <1>5, <1>6, <1>7

(* The decision to capture and the removal of what it replaced. *)
LEMMA CaptureIsQuiet ==
  ASSUME "recs" \in DOMAIN mem, "gaps" \in DOMAIN mem,
         \/ \E read \in Reads \union {"whole"} : StartCapture(read)
         \/ RemoveOldPage \/ RemoveOldZip
  PROVE  Quiet
<1>1. ASSUME NEW read \in Reads \union {"whole"}, StartCapture(read) PROVE Quiet
  BY <1>1 DEF StartCapture, Quiet, RecordsKept, disk
<1>2. CASE RemoveOldPage
  BY <1>2 DEF RemoveOldPage, Quiet, RecordsKept
<1>3. CASE RemoveOldZip
  <2>1. pc' \in Between
    BY <1>3, GotoIsBetween DEF RemoveOldZip
  <2> QED
    BY <2>1, <1>3, BetweenIsOutside DEF RemoveOldZip, Quiet, RecordsKept
<1> QED
  BY <1>1, <1>2, <1>3

LEMMA RunEndsGoBack == ASSUME Begin \/ Report \/ Kill PROVE Back
<1>1. CASE Begin
  BY <1>1 DEF Begin, Back
<1>2. CASE Report
  BY <1>2 DEF Report, Ended, Back, disk
<1>3. CASE Kill
  BY <1>3 DEF Kill, Ended, Back, NoBatch, disk
<1> QED
  BY <1>1, <1>2, <1>3

(***************************************************************************)
(* The index.                                                              *)
(***************************************************************************)
(* A larger index and more counted losses cover what was covered. *)
LEMMA CoveredStays ==
  ASSUME NEW m, NEW b, Covered(m, b), BatchInv,
         rows' \in [Keys -> Nat], \A k \in Keys : rows'[k] >= rows[k],
         unindexed \subseteq unindexed'
  PROVE  /\ "recs" \in DOMAIN m /\ "gaps" \in DOMAIN m
         /\ DOMAIN m.recs = Keys
         /\ \A k \in Keys : m.recs[k] # None =>
              /\ m.recs[k].cap \in Nat
              /\ \/ rows'[k] >= m.recs[k].cap
                 \/ b[k] = m.recs[k].cap
                 \/ <<k, m.recs[k].cap>> \in unindexed'
<1> SUFFICES ASSUME NEW k \in Keys, m.recs[k] # None
             PROVE  /\ m.recs[k].cap \in Nat
                    /\ \/ rows'[k] >= m.recs[k].cap
                       \/ b[k] = m.recs[k].cap
                       \/ <<k, m.recs[k].cap>> \in unindexed'
  BY DEF Covered
<1> DEFINE c == m.recs[k].cap
<1>1. c \in Nat /\ (rows[k] >= c \/ b[k] = c \/ <<k, c>> \in unindexed)
  BY DEF Covered
<1>2. rows[k] \in Nat /\ rows'[k] \in Nat /\ rows'[k] >= rows[k]
  BY DEF BatchInv
<1>3. rows[k] >= c => rows'[k] >= c
  <2> HIDE DEF c
  <2> QED
    BY <1>1, <1>2
<1> QED
  BY <1>1, <1>3

LEMMA InitIndex == Init => IndexInv
BY DEF Init, IndexInv, BatchInv, Covered, Blank, NoBatch

LEMMA QuietStep == IndexInv /\ Quiet => IndexInv'
BY DEF IndexInv, BatchInv, Covered, Quiet, RecordsKept, NoBatch

LEMMA BackStep == IndexInv /\ Back => IndexInv'
<1> SUFFICES ASSUME IndexInv, Back PROVE IndexInv'
  OBVIOUS
<1>1. BatchInv'
  BY DEF IndexInv, BatchInv, Back, NoBatch
<1>2. Covered(saved, NoBatch)'
  BY DEF IndexInv, Covered, Back, NoBatch
<1>3. Covered(mem, pend)'
  <2> SUFFICES ASSUME NEW k \in Keys, saved.recs[k] # None
               PROVE  /\ saved.recs[k].cap \in Nat
                      /\ \/ rows[k] >= saved.recs[k].cap
                         \/ <<k, saved.recs[k].cap>> \in unindexed
    BY DEF IndexInv, Covered, Back
  <2>1. saved.recs[k].cap \in Nat /\ NoBatch[k] = 0 /\ rows[k] \in Nat
    BY DEF IndexInv, BatchInv, Covered, NoBatch
  <2>2. \/ rows[k] >= saved.recs[k].cap
        \/ NoBatch[k] = saved.recs[k].cap
        \/ <<k, saved.recs[k].cap>> \in unindexed
    BY DEF IndexInv, Covered
  <2> QED
    BY <2>1, <2>2
<1> QED
  BY <1>1, <1>2, <1>3 DEF IndexInv, Back

(* A capture is begun: its number is new, no record has it yet. *)
LEMMA WriteZipStep == IndexInv /\ WriteZip => IndexInv'
<1> SUFFICES ASSUME IndexInv, WriteZip PROVE IndexInv'
  OBVIOUS
<1>1. UNCHANGED <<mem, pend, saved, rows, unindexed>> /\ pc' = "page"
  BY DEF WriteZip
<1>2. caps' = [caps EXCEPT ![cur.key] = caps[cur.key] + 1]
  BY DEF WriteZip
<1>3. caps' \in [Keys -> Nat] /\ \A k \in Keys : caps'[k] >= caps[k]
  <2>1. caps \in [Keys -> Nat]
    BY DEF IndexInv, BatchInv
  <2>2. CASE cur.key \in Keys
    <3>1. caps[cur.key] + 1 \in Nat
      BY <2>1, <2>2
    <3> QED
      BY <1>2, <2>1, <2>2, <3>1
  <2>3. CASE cur.key \notin Keys
    <3>1. caps' = caps
      BY <1>2, <2>1, <2>3
    <3> QED
      BY <2>1, <3>1
  <2> QED
    BY <2>2, <2>3
<1>4. BatchInv'
  BY <1>1, <1>3 DEF IndexInv, BatchInv
<1>5. Covered(mem, pend)' /\ Covered(saved, NoBatch)'
  BY <1>1 DEF IndexInv, Covered, NoBatch
<1> QED
  BY <1>1, <1>4, <1>5 DEF IndexInv

(* The page is written: the row joins the batch, or its loss is counted. *)
LEMMA WritePageStep == IndexInv /\ WritePage => IndexInv'
<1> SUFFICES ASSUME IndexInv, WritePage PROVE IndexInv'
  OBVIOUS
<1> DEFINE K == cur.key
<1>1. UNCHANGED <<saved, rows, caps>> /\ AddRow(K)
  BY DEF WritePage
<1>2. pc' # "save"
  BY GotoIsBetween, BetweenIsOutside DEF WritePage
<1>3. /\ "recs" \in DOMAIN mem' /\ "gaps" \in DOMAIN mem'
      /\ mem'.recs = [mem.recs EXCEPT ![K] = NewRecord]
  BY DEF WritePage
<1>4. NewRecord.cap = caps[K]
  BY DEF NewRecord
<1>5. \/ pend' = [pend EXCEPT ![K] = caps[K]] /\ unindexed' = unindexed
      \/ pend' = pend /\ unindexed' = unindexed \union {<<K, caps[K]>>}
      \/ pend' = NoBatch /\ unindexed' = unindexed \union {<<K, caps[K]>>} \union LostBatch
  BY <1>1 DEF AddRow, NoBatch
<1>6. unindexed \subseteq unindexed'
  BY <1>5
<1>7. BatchInv'
  BY <1>1, <1>5 DEF IndexInv, BatchInv, NoBatch
<1>8. Covered(saved, NoBatch)'
  BY <1>1, <1>6 DEF IndexInv, Covered, NoBatch
<1>9. Covered(mem, pend)'
  <2>1. DOMAIN mem'.recs = Keys
    BY <1>3 DEF IndexInv, Covered
  <2>2. ASSUME NEW k \in Keys, mem'.recs[k] # None
        PROVE  /\ mem'.recs[k].cap \in Nat
               /\ \/ rows[k] >= mem'.recs[k].cap
                  \/ pend'[k] = mem'.recs[k].cap
                  \/ <<k, mem'.recs[k].cap>> \in unindexed'
    <3>1. CASE k = K
      <4>1. mem'.recs[k] = NewRecord
        BY <1>3, <3>1 DEF IndexInv, Covered
      <4>2. mem'.recs[k].cap = caps[k] /\ caps[k] \in Nat
        BY <4>1, <1>4, <3>1 DEF IndexInv, BatchInv
      <4>3. pend'[k] = caps[k] \/ <<k, caps[k]>> \in unindexed'
        BY <1>5, <3>1 DEF IndexInv, BatchInv
      <4> QED
        BY <4>2, <4>3
    <3>2. CASE k # K
      <4> DEFINE c == mem.recs[k].cap
      <4>1. mem'.recs[k] = mem.recs[k]
        BY <1>3, <3>2 DEF IndexInv, Covered
      <4>2. c \in Nat /\ (rows[k] >= c \/ pend[k] = c \/ <<k, c>> \in unindexed)
        BY <4>1, <2>2 DEF IndexInv, Covered
      <4>3. pend[k] = c => rows[k] >= c \/ pend'[k] = c \/ <<k, c>> \in unindexed'
        <5>1. CASE pend' = [pend EXCEPT ![K] = caps[K]] \/ pend' = pend
          BY <5>1, <3>2 DEF IndexInv, BatchInv
        <5>2. CASE unindexed' = unindexed \union {<<K, caps[K]>>} \union LostBatch
          <6>1. pend[k] # 0 => <<k, pend[k]>> \in LostBatch
            BY DEF LostBatch
          <6>2. rows[k] \in Nat
            BY DEF IndexInv, BatchInv
          <6> QED
            BY <6>1, <6>2, <5>2, <4>2
        <5> QED
          BY <5>1, <5>2, <1>5
      <4> QED
        BY <4>1, <4>2, <4>3, <1>6
    <3> QED
      BY <3>1, <3>2
  <2> QED
    BY <1>1, <1>3, <2>1, <2>2 DEF Covered
<1> QED
  BY <1>2, <1>7, <1>8, <1>9 DEF IndexInv

(* The batch is committed or its rows are counted as lost: either way what
   the manifests record no longer depends on it. *)
LEMMA FlushCovers ==
  ASSUME IndexInv, FlushIndex, pend' = NoBatch, caps' = caps
  PROVE  /\ BatchInv'
         /\ rows' \in [Keys -> Nat] /\ \A k \in Keys : rows'[k] >= rows[k]
         /\ unindexed \subseteq unindexed'
         /\ \A k \in Keys : pend[k] # 0 =>
              rows'[k] = pend[k] \/ <<k, pend[k]>> \in unindexed'
<1>1. CASE rows' = Committed /\ unindexed' = unindexed
  <2>1. \A k \in Keys : rows'[k] = IF pend[k] # 0 THEN pend[k] ELSE rows[k]
    BY <1>1 DEF Committed
  <2>2. rows' \in [Keys -> Nat]
    BY <1>1 DEF Committed, IndexInv, BatchInv
  <2>3. \A k \in Keys : rows'[k] >= rows[k] /\ rows'[k] <= caps[k]
    BY <2>1 DEF IndexInv, BatchInv
  <2> QED
    BY <1>1, <2>1, <2>2, <2>3 DEF IndexInv, BatchInv, NoBatch
<1>2. CASE rows' = rows /\ unindexed' = unindexed \union LostBatch
  <2>1. \A k \in Keys : pend[k] # 0 => <<k, pend[k]>> \in LostBatch
    BY DEF LostBatch
  <2> QED
    BY <1>2, <2>1 DEF IndexInv, BatchInv, NoBatch
<1> QED
  BY <1>1, <1>2 DEF FlushIndex

LEMMA FlushStep == IndexInv /\ Flush => IndexInv'
<1> SUFFICES ASSUME IndexInv, Flush PROVE IndexInv'
  OBVIOUS
<1>1. FlushIndex /\ pend' = NoBatch /\ caps' = caps /\ mem' = mem /\ saved' = saved
  BY DEF Flush, NoBatch
<1>2. /\ BatchInv'
      /\ rows' \in [Keys -> Nat] /\ \A k \in Keys : rows'[k] >= rows[k]
      /\ unindexed \subseteq unindexed'
      /\ \A k \in Keys : pend[k] # 0 =>
           rows'[k] = pend[k] \/ <<k, pend[k]>> \in unindexed'
  BY <1>1, FlushCovers
<1>3. Covered(saved, NoBatch)'
  <2>1. Covered(saved, NoBatch) /\ BatchInv
    BY DEF IndexInv
  <2> QED
    BY <2>1, <1>1, <1>2, CoveredStays DEF Covered, NoBatch
<1>4. Covered(mem, pend)'
  <2>1. Covered(mem, pend) /\ BatchInv
    BY DEF IndexInv
  <2>2. ASSUME NEW k \in Keys, mem.recs[k] # None
        PROVE  /\ mem.recs[k].cap \in Nat
               /\ \/ rows'[k] >= mem.recs[k].cap
                  \/ <<k, mem.recs[k].cap>> \in unindexed'
    <3> DEFINE c == mem.recs[k].cap
    <3>1. c \in Nat /\ (rows'[k] >= c \/ pend[k] = c \/ <<k, c>> \in unindexed')
      BY <2>1, <2>2, <1>2, CoveredStays
    <3>2. rows'[k] \in Nat
      BY <1>2
    <3>3. pend[k] = c => rows'[k] >= c \/ <<k, c>> \in unindexed'
      <4>1. CASE c = 0
        BY <4>1, <3>2
      <4>2. CASE c # 0
        <5> HIDE DEF c
        <5> QED
          BY <4>2, <3>1, <3>2, <1>2
      <4> QED
        BY <4>1, <4>2
    <3> QED
      BY <3>1, <3>3
  <2>3. /\ "recs" \in DOMAIN mem' /\ "gaps" \in DOMAIN mem'
        /\ mem.recs = mem'.recs /\ DOMAIN mem'.recs = Keys
    BY <1>1, <2>1 DEF Covered
  <2> QED
    BY <2>2, <2>3 DEF Covered
<1> QED
  BY <1>1, <1>2, <1>3, <1>4 DEF IndexInv

(* The manifest goes to disk while the batch is empty. *)
LEMMA SaveStep == IndexInv /\ Save => IndexInv'
<1> SUFFICES ASSUME IndexInv, Save PROVE IndexInv'
  OBVIOUS
<1>1. UNCHANGED <<mem, pend, rows, unindexed, caps>> /\ pend = NoBatch
  BY DEF Save, IndexInv
<1>2. saved' = mem \/ saved' = saved
  BY DEF Save
<1>3. pc' # "save"
  BY OnwardIsBetween, BetweenIsOutside DEF Save
<1>4. BatchInv' /\ Covered(mem, pend)'
  BY <1>1 DEF IndexInv, BatchInv, Covered
<1>5. Covered(saved, NoBatch)'
  <2>1. CASE saved' = mem
    <3>1. Covered(mem, NoBatch)
      BY <1>1 DEF IndexInv
    <3> QED
      BY <2>1, <3>1, <1>1 DEF Covered, NoBatch
  <2>2. CASE saved' = saved
    BY <2>2, <1>1 DEF IndexInv, Covered, NoBatch
  <2> QED
    BY <1>2, <2>1, <2>2
<1> QED
  BY <1>3, <1>4, <1>5 DEF IndexInv

(* Without the lock nothing is saved, but the open batch is committed. *)
LEMMA LostStep == IndexInv /\ Lost => IndexInv'
<1> SUFFICES ASSUME IndexInv, Lost PROVE IndexInv'
  OBVIOUS
<1>1. /\ FlushIndex /\ pend' = NoBatch
      /\ caps' = caps /\ mem' = saved /\ saved' = saved /\ pc' = "idle"
  BY DEF Lost, Ended, NoBatch
<1>2. /\ BatchInv'
      /\ rows' \in [Keys -> Nat] /\ \A k \in Keys : rows'[k] >= rows[k]
      /\ unindexed \subseteq unindexed'
  BY <1>1, FlushCovers
<1>3. Covered(saved, NoBatch)'
  <2>1. Covered(saved, NoBatch) /\ BatchInv
    BY DEF IndexInv
  <2> QED
    BY <2>1, <1>1, <1>2, CoveredStays DEF Covered, NoBatch
<1>4. Covered(mem, pend)'
  BY <1>1, <1>3 DEF Covered, NoBatch
<1> QED
  BY <1>1, <1>2, <1>3, <1>4 DEF IndexInv

LEMMA IndexStep == IndexInv /\ [Next]_vars => IndexInv'
<1> SUFFICES ASSUME IndexInv, [Next]_vars PROVE IndexInv'
  OBVIOUS
<1>1. "recs" \in DOMAIN mem /\ "gaps" \in DOMAIN mem
  BY DEF IndexInv, Covered
<1>2. CASE \/ Stops \/ Absent \/ ReaderFault \/ Vanishes \/ TableFault
           \/ \E read \in Reads \union {"whole"} :
                LeaveUnwritable(read) \/ Keep(read) \/ Skip(read)
           \/ FolderFails \/ ItemFails \/ Panics \/ ArchiveFails
           \/ Checkpoint \/ Finish \/ LoseLock
  BY <1>1, <1>2, WalkIsAside, FaultIsAside, QuietStep DEF Aside
<1>3. CASE \/ \E read \in Reads \union {"whole"} : StartCapture(read)
           \/ RemoveOldPage \/ RemoveOldZip
  BY <1>1, <1>3, CaptureIsQuiet, QuietStep
<1>4. CASE Begin \/ Report \/ Kill
  BY <1>4, RunEndsGoBack, BackStep
<1>5. CASE WriteZip \/ WritePage \/ Flush \/ Save \/ Lost
  BY <1>5, WriteZipStep, WritePageStep, FlushStep, SaveStep, LostStep
<1>6. CASE UNCHANGED vars
  BY <1>6, QuietStep DEF vars, disk, Quiet, RecordsKept, IndexInv, Covered
<1> QED
  BY <1>2, <1>3, <1>4, <1>5, <1>6 DEF Next

LEMMA CoveredIsSuperset == IndexInv => IndexIsSuperset
<1> SUFFICES ASSUME IndexInv, NEW k \in Keys, saved.recs[k] # None
             PROVE  \/ rows[k] >= saved.recs[k].cap
                    \/ <<k, saved.recs[k].cap>> \in unindexed
  BY DEF IndexIsSuperset
<1>1. NoBatch[k] = 0 /\ rows[k] \in Nat
  BY DEF IndexInv, BatchInv, NoBatch
<1> QED
  BY <1>1 DEF IndexInv, Covered

(* The index never falls behind the saved manifest but by rows the run that
   lost them counted: checkpoints commit the index before they save the
   manifest, and the way out of a run that lost its lock saves nothing
   (app/run.go, index/index.go). *)
THEOREM SupersetAlways == Spec => []IndexIsSuperset
<1>1. Spec => []IndexInv
  BY InitIndex, IndexStep, PTL DEF Spec
<1> QED
  BY <1>1, CoveredIsSuperset, PTL

(***************************************************************************)
(* The files.                                                              *)
(***************************************************************************)
(* One file written or removed, whether or not it was in the table. *)
Put(f, k, n, v) == [f EXCEPT ![k][n] = v]

LEMMA OnePut ==
  ASSUME NEW f \in [Keys -> [Names -> Nat]], NEW k, NEW n, NEW v \in Nat,
         NEW g, g = Put(f, k, n, v)
  PROVE  /\ g \in [Keys -> [Names -> Nat]]
         /\ \A j \in Keys, m \in Names :
              /\ j = k /\ m = n => g[j][m] = v
              /\ j # k \/ m # n => g[j][m] = f[j][m]
<1>1. CASE k \in Keys
  <2> DEFINE h == [f[k] EXCEPT ![n] = v]
  <2>1. f[k] \in [Names -> Nat]
    BY <1>1
  <2>2. h \in [Names -> Nat] /\ \A m \in Names : h[m] = IF m = n THEN v ELSE f[k][m]
    BY <2>1
  <2>3. g = [f EXCEPT ![k] = h]
    BY DEF Put
  <2> HIDE DEF h
  <2> QED
    BY <1>1, <2>1, <2>2, <2>3
<1>2. CASE k \notin Keys
  BY <1>2 DEF Put
<1> QED
  BY <1>1, <1>2

(* What is written after the step, for a record given by its value. *)
WrittenNext(r, k) ==
  /\ r.cap \in Nat \ {0} /\ r.cap <= caps'[k] /\ r.name \in Names
  /\ \E n \in Names : pages'[k][n] # 0
  /\ caps'[k] = r.cap => /\ pages'[k][r.name] = r.cap
                         /\ r.zip => zips'[k][r.name] = r.cap

(* A record stays written when its files stay, or a later capture began. *)
LEMMA StaysWritten ==
  ASSUME NEW r, NEW k \in Keys, WrittenNow(r, k), FilesInv,
         caps' \in [Keys -> Nat], caps'[k] >= caps[k],
         \E n \in Names : pages'[k][n] # 0,
         caps'[k] = r.cap =>
           /\ pages'[k][r.name] = pages[k][r.name]
           /\ zips'[k][r.name] = zips[k][r.name]
  PROVE  WrittenNext(r, k)
<1>1. /\ r.cap \in Nat \ {0} /\ r.cap <= caps[k] /\ r.name \in Names
      /\ caps[k] \in Nat /\ caps'[k] \in Nat
  BY DEF WrittenNow, FilesInv
<1>2. r.cap <= caps'[k]
  BY <1>1
<1>3. caps'[k] = r.cap => caps[k] = r.cap
  BY <1>1
<1>4. caps[k] = r.cap => /\ pages[k][r.name] = r.cap
                         /\ r.zip => zips[k][r.name] = r.cap
  BY DEF WrittenNow
<1> QED
  BY <1>1, <1>2, <1>3, <1>4, Zenon DEF WrittenNext

LEMMA InitFiles == Init => FilesInv
<1> SUFFICES ASSUME Init PROVE FilesInv
  OBVIOUS
<1>1. naming \in Names /\ caps \in [Keys -> Nat]
  BY DEF Init, Names
<1>2. pages \in [Keys -> [Names -> Nat]] /\ zips \in [Keys -> [Names -> Nat]]
  BY DEF Init
<1>3. AllWritten(mem) /\ AllWritten(saved)
  BY DEF Init, AllWritten, Blank
<1>4. CaptureInv
  BY DEF Init, CaptureInv, Capturing, NoCapture
<1> QED
  BY <1>1, <1>2, <1>3, <1>4 DEF FilesInv

LEMMA AsideFiles == FilesInv /\ Aside => FilesInv'
<1> SUFFICES ASSUME FilesInv, Aside PROVE FilesInv'
  OBVIOUS
<1>1. /\ UNCHANGED <<naming, pages, zips, saved, caps>>
      /\ mem'.recs = mem.recs /\ "recs" \in DOMAIN mem' /\ "gaps" \in DOMAIN mem'
  BY DEF Aside, Quiet, RecordsKept
<1>2. AllWritten(mem)' /\ AllWritten(saved)'
  BY <1>1 DEF FilesInv, AllWritten, WrittenNow
<1>3. CaptureInv'
  <2>1. CASE pc' \in Capturing
    BY <1>1, <2>1 DEF FilesInv, CaptureInv, Behind, Aside
  <2>2. CASE pc' \notin Capturing
    BY <2>2 DEF CaptureInv, Capturing, FilesInv, Aside
  <2> QED
    BY <2>1, <2>2
<1> QED
  BY <1>1, <1>2, <1>3 DEF FilesInv

(* A run that ends drops what it has in memory and touches no file. *)
LEMMA EndFiles ==
  ASSUME FilesInv, UNCHANGED <<naming, pages, zips, saved, caps>>,
         mem' = saved, pc' = "idle", cur' = NoCapture
  PROVE  FilesInv'
<1>1. AllWritten(mem)' /\ AllWritten(saved)'
  BY DEF FilesInv, AllWritten, WrittenNow
<1>2. CaptureInv'
  BY DEF CaptureInv, Capturing, NoCapture
<1> QED
  BY <1>1, <1>2 DEF FilesInv

(* The sweep at a run's beginning removes only zips without a page, which no
   record's last capture has. *)
LEMMA BeginFiles == FilesInv /\ Begin => FilesInv'
<1> SUFFICES ASSUME FilesInv, Begin PROVE FilesInv'
  OBVIOUS
<1>1. /\ UNCHANGED <<pages, saved, caps, cur>> /\ mem' = saved
      /\ pc' = "next" /\ naming' \in Names
  BY DEF Begin
<1>2. zips' = [k \in Keys |-> [n \in Names |-> IF pages[k][n] = 0 THEN 0 ELSE zips[k][n]]]
  BY DEF Begin
<1>3. zips' \in [Keys -> [Names -> Nat]]
  BY <1>2 DEF FilesInv
<1>4. \A k \in Keys, n \in Names : pages[k][n] # 0 => zips'[k][n] = zips[k][n]
  BY <1>2
<1>5. ASSUME NEW k \in Keys, saved.recs[k] # None
      PROVE  WrittenNext(saved.recs[k], k)
  <2>1. WrittenNow(saved.recs[k], k)
    BY <1>5 DEF FilesInv, AllWritten
  <2>2. saved.recs[k].cap \in Nat \ {0} /\ saved.recs[k].name \in Names
    BY <2>1 DEF WrittenNow
  <2>3. caps[k] = saved.recs[k].cap =>
          zips'[k][saved.recs[k].name] = zips[k][saved.recs[k].name]
    BY <2>1, <2>2, <1>4 DEF WrittenNow
  <2> QED
    BY <2>1, <2>3, <1>1 DEF WrittenNow, WrittenNext
<1>6. AllWritten(mem)' /\ AllWritten(saved)'
  BY <1>1, <1>5 DEF FilesInv, AllWritten, WrittenNow, WrittenNext
<1>7. CaptureInv'
  BY <1>1 DEF CaptureInv, Capturing, FilesInv
<1> QED
  BY <1>1, <1>3, <1>6, <1>7 DEF FilesInv

(* A capture is decided: the stem it will remove is not the one it writes. *)
LEMMA StartFiles ==
  ASSUME NEW read, FilesInv, StartCapture(read)
  PROVE  FilesInv'
<1>1. UNCHANGED <<naming, pages, zips, saved, caps, mem>> /\ pc' = "zip"
  BY DEF StartCapture, disk, about
<1>2. AllWritten(mem)' /\ AllWritten(saved)'
  BY <1>1 DEF FilesInv, AllWritten, WrittenNow
<1>3. cur'.old # naming
  <2>1. cur'.old = OldStem(mem.recs[Key(Item, read)])
    BY DEF StartCapture
  <2> QED
    BY <2>1 DEF OldStem, FilesInv, Names
<1>4. ~cur'.zip /\ {"key", "old", "zip"} \subseteq DOMAIN cur'
  BY DEF StartCapture
<1>5. CaptureInv'
  BY <1>1, <1>3, <1>4 DEF CaptureInv
<1> QED
  BY <1>1, <1>2, <1>5 DEF FilesInv

(* The zip is written under a number no record has. *)
LEMMA ZipFiles == FilesInv /\ WriteZip => FilesInv'
<1> SUFFICES ASSUME FilesInv, WriteZip PROVE FilesInv'
  OBVIOUS
<1> DEFINE K == cur.key
<1>1. /\ UNCHANGED <<naming, pages, saved, mem>> /\ pc = "zip" /\ pc' = "page"
      /\ caps' = [caps EXCEPT ![K] = caps[K] + 1]
  BY DEF WriteZip, about
<1>2. /\ caps' \in [Keys -> Nat]
      /\ \A k \in Keys : caps'[k] = IF k = K THEN caps[k] + 1 ELSE caps[k]
  <2>1. caps \in [Keys -> Nat]
    BY DEF FilesInv
  <2>2. CASE K \in Keys
    <3>1. caps[K] \in Nat /\ caps[K] + 1 \in Nat
      BY <2>1, <2>2
    <3> QED
      BY <1>1, <2>1, <2>2, <3>1
  <2>3. CASE K \notin Keys
    <3>1. caps' = caps
      BY <1>1, <2>1, <2>3
    <3> QED
      BY <2>1, <2>3, <3>1
  <2> QED
    BY <2>2, <2>3
<1>3. K \in Keys => caps[K] \in Nat /\ caps'[K] \in Nat /\ caps[K] < caps'[K]
  BY <1>2 DEF FilesInv
<1>4. {"key", "old", "zip"} \subseteq DOMAIN cur /\ ~cur.zip /\ cur.old # naming
  BY <1>1 DEF FilesInv, CaptureInv, Capturing
<1>5. \/ zips' = [zips EXCEPT ![K][naming] = caps'[K]] /\ cur' = [cur EXCEPT !.zip = TRUE]
      \/ zips' = zips /\ cur' = cur
      \/ zips' = [zips EXCEPT ![K][naming] = 0] /\ cur' = cur
  BY DEF WriteZip
<1>6. /\ {"key", "old", "zip"} \subseteq DOMAIN cur'
      /\ cur'.key = K /\ cur'.old = cur.old
  BY <1>4, <1>5
<1>7. /\ zips' \in [Keys -> [Names -> Nat]]
      /\ \A k \in Keys, n \in Names : k # K => zips'[k][n] = zips[k][n]
      /\ K \in Keys /\ cur'.zip => zips'[K][naming] = caps'[K]
  <2>1. zips \in [Keys -> [Names -> Nat]] /\ naming \in Names
    BY DEF FilesInv
  <2>2. CASE K \in Keys
    <3>1. CASE zips' = [zips EXCEPT ![K][naming] = caps'[K]]
      BY <2>1, <2>2, <1>3, <3>1, OnePut DEF Put
    <3>2. CASE zips' = [zips EXCEPT ![K][naming] = 0] /\ cur' = cur
      <4>1. zips' \in [Keys -> [Names -> Nat]]
            /\ \A k \in Keys, n \in Names : k # K => zips'[k][n] = zips[k][n]
        BY <2>1, <2>2, <3>2, OnePut DEF Put
      <4> QED
        BY <4>1, <3>2, <1>4
    <3>3. CASE zips' = zips /\ cur' = cur
      BY <3>3, <2>1, <1>4
    <3> QED
      BY <3>1, <3>2, <3>3, <1>5
  <2>3. CASE K \notin Keys
    <3>1. zips' = zips
      BY <2>1, <2>3, <1>5
    <3> QED
      BY <2>1, <2>3, <3>1
  <2> QED
    BY <2>2, <2>3
<1>8. ASSUME NEW m, AllWritten(m), NEW k \in Keys, m.recs[k] # None
      PROVE  /\ WrittenNext(m.recs[k], k)
             /\ k = K => m.recs[k].cap < caps'[k]
  <2>1. WrittenNow(m.recs[k], k)
    BY <1>8 DEF AllWritten
  <2>2. /\ m.recs[k].cap \in Nat /\ m.recs[k].cap <= caps[k] /\ m.recs[k].name \in Names
        /\ caps[k] \in Nat /\ caps'[k] \in Nat /\ caps'[k] >= caps[k]
    BY <2>1, <1>2 DEF WrittenNow, FilesInv
  <2>3. k = K => m.recs[k].cap < caps'[k]
    BY <2>2, <1>3
  <2>4. caps'[k] = m.recs[k].cap => zips'[k][m.recs[k].name] = zips[k][m.recs[k].name]
    BY <2>2, <2>3, <1>7
  <2>5. \E n \in Names : pages'[k][n] # 0
    BY <2>1, <1>1 DEF WrittenNow
  <2> QED
    BY <2>1, <2>2, <2>3, <2>4, <2>5, <1>1, <1>2, StaysWritten
<1>9. AllWritten(mem)' /\ AllWritten(saved)'
  BY <1>1, <1>8 DEF FilesInv, AllWritten, WrittenNow, WrittenNext
<1>10. K \in Keys => Behind(mem)' /\ Behind(saved)'
  BY <1>1, <1>6, <1>8 DEF FilesInv, Behind
<1>11. CaptureInv'
  BY <1>1, <1>3, <1>4, <1>6, <1>7, <1>10 DEF CaptureInv
<1> QED
  BY <1>1, <1>2, <1>7, <1>9, <1>11 DEF FilesInv

(* The page and its record carry the capture's number; the manifest on disk
   stays behind until it is saved. *)
LEMMA PageFiles == FilesInv /\ WritePage => FilesInv'
<1> SUFFICES ASSUME FilesInv, WritePage PROVE FilesInv'
  OBVIOUS
<1> DEFINE K == cur.key
<1>1. /\ UNCHANGED <<naming, cur, saved, zips, caps>> /\ pc = "page"
      /\ pages' = [pages EXCEPT ![K][naming] = caps[K]]
  BY DEF WritePage, Written, about
<1>2. /\ "recs" \in DOMAIN mem' /\ "gaps" \in DOMAIN mem'
      /\ mem'.recs = [mem.recs EXCEPT ![K] = NewRecord]
  BY DEF WritePage
<1>3. /\ NewRecord.cap = caps[K] /\ NewRecord.name = naming
      /\ NewRecord.zip = cur.zip
  BY DEF NewRecord
<1>4. pc' \in Between \/ pc' = "oldpage"
  BY GotoIsBetween DEF WritePage
<1>5. K \in Keys =>
        /\ caps[K] \in Nat \ {0} /\ Behind(saved)
        /\ cur.zip => zips[K][naming] = caps[K]
  BY <1>1 DEF FilesInv, CaptureInv
<1>6. /\ pages' \in [Keys -> [Names -> Nat]]
      /\ \A k \in Keys, n \in Names :
           /\ k = K /\ n = naming => pages'[k][n] = caps[K]
           /\ k # K \/ n # naming => pages'[k][n] = pages[k][n]
  <2>1. pages \in [Keys -> [Names -> Nat]]
    BY DEF FilesInv
  <2>2. CASE K \in Keys
    <3>1. caps[K] \in Nat
      BY <2>2, <1>5
    <3>2. pages' = Put(pages, K, naming, caps[K])
      BY <1>1 DEF Put
    <3> QED
      BY <2>1, <3>1, <3>2, OnePut
  <2>3. CASE K \notin Keys
    <3>1. pages' = pages
      BY <1>1, <2>1, <2>3
    <3> QED
      BY <2>1, <2>3, <3>1
  <2> QED
    BY <2>2, <2>3
<1>7. ASSUME NEW m, AllWritten(m), NEW k \in Keys, m.recs[k] # None,
             k = K => m.recs[k].cap < caps[k]
      PROVE  WrittenNext(m.recs[k], k)
  <2>1. WrittenNow(m.recs[k], k)
    BY <1>7 DEF AllWritten
  <2>2. /\ m.recs[k].cap \in Nat /\ m.recs[k].name \in Names /\ naming \in Names
        /\ caps[k] \in Nat
    BY <2>1 DEF WrittenNow, FilesInv
  <2>3. caps'[k] = m.recs[k].cap => pages'[k][m.recs[k].name] = pages[k][m.recs[k].name]
    <3>1. caps'[k] = m.recs[k].cap => k # K
      BY <1>1, <1>7, <2>2
    <3> QED
      BY <3>1, <2>2, <1>6
  <2>4. \E n \in Names : pages'[k][n] # 0
    BY <2>1, <2>2, <1>5, <1>6 DEF WrittenNow
  <2>5. caps' \in [Keys -> Nat] /\ caps'[k] >= caps[k]
    BY <1>1, <2>2 DEF FilesInv
  <2> QED
    BY <2>1, <2>3, <2>4, <2>5, <1>1, StaysWritten
<1>8. AllWritten(saved)'
  <2>1. ASSUME NEW k \in Keys, saved.recs[k] # None PROVE WrittenNext(saved.recs[k], k)
    BY <2>1, <1>5, <1>7 DEF FilesInv, Behind
  <2> QED
    BY <2>1, <1>1 DEF FilesInv, AllWritten, WrittenNow, WrittenNext
<1>9. AllWritten(mem)'
  <2>1. DOMAIN mem'.recs = Keys
    BY <1>2 DEF FilesInv, AllWritten
  <2>2. ASSUME NEW k \in Keys, mem'.recs[k] # None PROVE WrittenNext(mem'.recs[k], k)
    <3>1. CASE k = K
      <4>1. mem'.recs[k] = NewRecord
        BY <1>2, <3>1 DEF FilesInv, AllWritten
      <4>2. /\ pages'[k][naming] = caps[k] /\ caps[k] \in Nat \ {0} /\ naming \in Names
            /\ NewRecord.cap = caps[k] /\ NewRecord.name = naming
        BY <1>3, <1>5, <1>6, <3>1 DEF FilesInv
      <4>3. NewRecord.zip => zips'[k][naming] = caps[k]
        BY <1>1, <1>3, <1>5, <3>1, Zenon
      <4>4. /\ caps[k] \in Nat \ {0} /\ caps[k] <= caps'[k]
            /\ \E n \in Names : pages'[k][n] # 0
        BY <1>1, <4>2
      <4> QED
        BY <4>1, <4>2, <4>3, <4>4, <1>1 DEF WrittenNext
    <3>2. CASE k # K
      <4>1. mem'.recs[k] = mem.recs[k]
        BY <1>2, <3>2 DEF FilesInv, AllWritten
      <4>2. WrittenNext(mem.recs[k], k)
        <5>1. AllWritten(mem)
          BY DEF FilesInv
        <5> QED
          BY <5>1, <4>1, <2>2, <3>2, <1>7
      <4> QED
        BY <4>1, <4>2
    <3> QED
      BY <3>1, <3>2
  <2> QED
    BY <1>2, <2>1, <2>2 DEF AllWritten, WrittenNow, WrittenNext
<1>10. CaptureInv'
  <2>1. /\ {"key", "old", "zip"} \subseteq DOMAIN cur' /\ cur'.old # naming'
    BY <1>1 DEF FilesInv, CaptureInv, Capturing
  <2>2. CASE pc' \in Between
    BY <2>1, <2>2 DEF CaptureInv, Capturing, Between
  <2>3. CASE pc' = "oldpage"
    <3>1. cur'.key \in Keys =>
            /\ pages'[cur'.key][naming'] # 0 /\ Behind(saved)'
            /\ mem'.recs[cur'.key] = NewRecord
      BY <1>1, <1>2, <1>5, <1>6 DEF FilesInv, AllWritten, Behind
    <3> QED
      BY <2>1, <2>3, <3>1, <1>1, <1>3 DEF CaptureInv
  <2> QED
    BY <1>4, <2>2, <2>3
<1> QED
  BY <1>1, <1>6, <1>8, <1>9, <1>10 DEF FilesInv

(* The old page goes: the record in memory names the new one, the one on disk
   is behind. *)
LEMMA OldPageFiles == FilesInv /\ RemoveOldPage => FilesInv'
<1> SUFFICES ASSUME FilesInv, RemoveOldPage PROVE FilesInv'
  OBVIOUS
<1>1. /\ UNCHANGED <<naming, cur, mem, saved, zips, caps>> /\ pc = "oldpage"
      /\ pc' = "oldzip" /\ pages' = [pages EXCEPT ![cur.key][cur.old] = 0]
  BY DEF RemoveOldPage, about
<1>2. /\ pages' \in [Keys -> [Names -> Nat]]
      /\ \A k \in Keys, n \in Names :
           k # cur.key \/ n # cur.old => pages'[k][n] = pages[k][n]
  <2>1. pages' = Put(pages, cur.key, cur.old, 0) /\ pages \in [Keys -> [Names -> Nat]]
    BY <1>1 DEF FilesInv, Put
  <2> QED
    BY <2>1, OnePut
<1>3. /\ cur.old # naming /\ naming \in Names
      /\ cur.key \in Keys =>
           /\ pages[cur.key][naming] # 0 /\ Behind(saved)
           /\ mem.recs[cur.key] # None => mem.recs[cur.key].name = naming
  BY <1>1 DEF FilesInv, CaptureInv, Capturing
<1>4. ASSUME NEW m, AllWritten(m), NEW k \in Keys, m.recs[k] # None,
             k = cur.key => m.recs[k].cap < caps[k] \/ m.recs[k].name = naming
      PROVE  WrittenNext(m.recs[k], k)
  <2>1. WrittenNow(m.recs[k], k)
    BY <1>4 DEF AllWritten
  <2>2. m.recs[k].cap \in Nat /\ m.recs[k].name \in Names /\ caps[k] \in Nat
    BY <2>1 DEF WrittenNow, FilesInv
  <2>3. caps'[k] = m.recs[k].cap => pages'[k][m.recs[k].name] = pages[k][m.recs[k].name]
    <3>1. caps'[k] = m.recs[k].cap => k # cur.key \/ m.recs[k].name # cur.old
      BY <1>1, <1>3, <1>4, <2>2
    <3> QED
      BY <3>1, <2>2, <1>2
  <2>4. \E n \in Names : pages'[k][n] # 0
    BY <2>1, <1>2, <1>3 DEF WrittenNow
  <2>5. caps' \in [Keys -> Nat] /\ caps'[k] >= caps[k]
    BY <1>1, <2>2 DEF FilesInv
  <2> QED
    BY <2>1, <2>3, <2>4, <2>5, <1>1, StaysWritten
<1>5. AllWritten(saved)' /\ AllWritten(mem)'
  <2>1. ASSUME NEW k \in Keys, saved.recs[k] # None PROVE WrittenNext(saved.recs[k], k)
    BY <2>1, <1>3, <1>4 DEF FilesInv, Behind
  <2>2. ASSUME NEW k \in Keys, mem.recs[k] # None PROVE WrittenNext(mem.recs[k], k)
    BY <2>2, <1>3, <1>4 DEF FilesInv
  <2> QED
    BY <2>1, <2>2, <1>1 DEF FilesInv, AllWritten, WrittenNow, WrittenNext
<1>6. CaptureInv'
  <2>1. cur.key \in Keys => pages'[cur.key][naming] # 0
    BY <1>2, <1>3
  <2> QED
    BY <2>1, <1>1, <1>3 DEF FilesInv, CaptureInv, Behind, Capturing
<1> QED
  BY <1>1, <1>2, <1>5, <1>6 DEF FilesInv

LEMMA OldZipFiles == FilesInv /\ RemoveOldZip => FilesInv'
<1> SUFFICES ASSUME FilesInv, RemoveOldZip PROVE FilesInv'
  OBVIOUS
<1>1. /\ UNCHANGED <<naming, cur, mem, saved, pages, caps>> /\ pc = "oldzip"
      /\ zips' = [zips EXCEPT ![cur.key][cur.old] = 0]
  BY DEF RemoveOldZip, about
<1>2. /\ zips' \in [Keys -> [Names -> Nat]]
      /\ \A k \in Keys, n \in Names :
           k # cur.key \/ n # cur.old => zips'[k][n] = zips[k][n]
  <2>1. zips' = Put(zips, cur.key, cur.old, 0) /\ zips \in [Keys -> [Names -> Nat]]
    BY <1>1 DEF FilesInv, Put
  <2> QED
    BY <2>1, OnePut
<1>3. /\ cur.old # naming /\ naming \in Names
      /\ cur.key \in Keys =>
           /\ Behind(saved)
           /\ mem.recs[cur.key] # None => mem.recs[cur.key].name = naming
  BY <1>1 DEF FilesInv, CaptureInv, Capturing
<1>4. ASSUME NEW m, AllWritten(m), NEW k \in Keys, m.recs[k] # None,
             k = cur.key => m.recs[k].cap < caps[k] \/ m.recs[k].name = naming
      PROVE  WrittenNext(m.recs[k], k)
  <2>1. WrittenNow(m.recs[k], k)
    BY <1>4 DEF AllWritten
  <2>2. m.recs[k].cap \in Nat /\ m.recs[k].name \in Names /\ caps[k] \in Nat
    BY <2>1 DEF WrittenNow, FilesInv
  <2>3. caps'[k] = m.recs[k].cap => zips'[k][m.recs[k].name] = zips[k][m.recs[k].name]
    <3>1. caps'[k] = m.recs[k].cap => k # cur.key \/ m.recs[k].name # cur.old
      BY <1>1, <1>3, <1>4, <2>2
    <3> QED
      BY <3>1, <2>2, <1>2
  <2>4. \E n \in Names : pages'[k][n] # 0
    BY <2>1, <1>1 DEF WrittenNow
  <2>5. caps' \in [Keys -> Nat] /\ caps'[k] >= caps[k]
    BY <1>1, <2>2 DEF FilesInv
  <2> QED
    BY <2>1, <2>3, <2>4, <2>5, <1>1, StaysWritten
<1>5. AllWritten(saved)' /\ AllWritten(mem)'
  <2>1. ASSUME NEW k \in Keys, saved.recs[k] # None PROVE WrittenNext(saved.recs[k], k)
    BY <2>1, <1>3, <1>4 DEF FilesInv, Behind
  <2>2. ASSUME NEW k \in Keys, mem.recs[k] # None PROVE WrittenNext(mem.recs[k], k)
    BY <2>2, <1>3, <1>4 DEF FilesInv
  <2> QED
    BY <2>1, <2>2, <1>1 DEF FilesInv, AllWritten, WrittenNow, WrittenNext
<1>6. CaptureInv'
  <2>1. pc' \in Between
    BY GotoIsBetween DEF RemoveOldZip
  <2> QED
    BY <2>1, <1>1 DEF FilesInv, CaptureInv, Capturing, Between
<1> QED
  BY <1>1, <1>2, <1>5, <1>6 DEF FilesInv

LEMMA CommitFiles == FilesInv /\ (Flush \/ Save) => FilesInv'
<1> SUFFICES ASSUME FilesInv, Flush \/ Save PROVE FilesInv'
  OBVIOUS
<1>1. UNCHANGED <<naming, cur, mem, pages, zips, caps>> /\ (saved' = mem \/ saved' = saved)
  BY DEF Flush, Save, about
<1>2. pc' \in {"save", "report", "finish", "next"}
  BY DEF Flush, Save, Onward
<1>3. AllWritten(mem)' /\ AllWritten(saved)'
  BY <1>1 DEF FilesInv, AllWritten, WrittenNow
<1>4. CaptureInv'
  BY <1>1, <1>2 DEF FilesInv, CaptureInv, Capturing
<1> QED
  BY <1>1, <1>3, <1>4 DEF FilesInv

LEMMA FilesStep == FilesInv /\ [Next]_vars => FilesInv'
<1> SUFFICES ASSUME FilesInv, [Next]_vars PROVE FilesInv'
  OBVIOUS
<1>1. "recs" \in DOMAIN mem /\ "gaps" \in DOMAIN mem
  BY DEF FilesInv, AllWritten
<1>2. CASE \/ Stops \/ Absent \/ ReaderFault \/ Vanishes \/ TableFault
           \/ \E read \in Reads \union {"whole"} :
                LeaveUnwritable(read) \/ Keep(read) \/ Skip(read)
           \/ FolderFails \/ ItemFails \/ Panics \/ ArchiveFails
           \/ Checkpoint \/ Finish \/ LoseLock
  BY <1>1, <1>2, WalkIsAside, FaultIsAside, AsideFiles
<1>3. CASE \E read \in Reads \union {"whole"} : StartCapture(read)
  BY <1>3, StartFiles
<1>4. CASE WriteZip \/ WritePage \/ RemoveOldPage \/ RemoveOldZip
  BY <1>4, ZipFiles, PageFiles, OldPageFiles, OldZipFiles
<1>5. CASE Begin \/ Flush \/ Save
  BY <1>5, BeginFiles, CommitFiles
<1>6. CASE Report \/ Kill \/ Lost
  <2>1. /\ UNCHANGED <<naming, pages, zips, saved, caps>>
        /\ mem' = saved /\ pc' = "idle" /\ cur' = NoCapture
    BY <1>6 DEF Report, Kill, Lost, Ended, disk, about
  <2> QED
    BY <2>1, EndFiles
<1>7. CASE UNCHANGED vars
  <2>1. Aside
    BY <1>7, <1>1 DEF vars, disk, about, Aside, Quiet, RecordsKept
  <2> QED
    BY <2>1, AsideFiles
<1> QED
  BY <1>2, <1>3, <1>4, <1>5, <1>6, <1>7 DEF Next

LEMMA FilesAreWritten == FilesInv => RecordedIsWritten
BY DEF FilesInv, AllWritten, WrittenNow, RecordedIsWritten

(* A message the manifest on disk records has a page, and as long as no later
   capture of it was begun its own page and the zip it claims: the zip comes
   before the page, the page before the record, and the old stem's files go
   after the new ones are there (export/{exporter,attach}.go). *)
THEOREM WrittenAlways == Spec => []RecordedIsWritten
<1>1. Spec => []FilesInv
  BY InitFiles, FilesStep, PTL DEF Spec
<1> QED
  BY <1>1, FilesAreWritten, PTL

(***************************************************************************)
(* What a run that completes its walk may claim: definitions.              *)
(***************************************************************************)
WalkFields == {"pos", "why", "streak", "probes", "since", "late", "unwritable",
               "faulted", "unread", "saveErr", "final", "met", "gone", "began"}

(* The walk's position is in the source or just past it. *)
WalkTyped ==
  /\ DOMAIN walk = WalkFields
  /\ walk.pos \in Nat \ {0} /\ walk.began \in Nat /\ walk.why \in Ends
  /\ walk.met \subseteq Items /\ walk.faulted \subseteq Folders

InHand(i) == pc \in {"zip", "page"} /\ i = cur.item

(* The message in hand, and the key the exporter chose for it. *)
HandTyped ==
  /\ DOMAIN cur = {"item", "key", "read", "zip", "old"} /\ cur.zip \in BOOLEAN
  /\ pc \in {"zip", "page"} =>
       /\ cur.item \in Items /\ cur.read \in Reads \union {"whole"}
       /\ cur.key = Key(cur.item, cur.read)
       /\ cur.read = "part" => kind = "pst"

(* The plain key's record is of some message of that folder and Message-ID; a
   different message's own record comes after it and never is a partly read
   one. *)
Kept(m, i) == m.recs[Plain(i)] # None

RecsOK(m) ==
  /\ DOMAIN m = {"recs", "gaps"} /\ DOMAIN m.recs = Keys
  /\ \A i \in Items :
       /\ Kept(m, i) =>
            /\ \E j \in Items : Plain(j) = Plain(i) /\ m.recs[Plain(i)].body = Body[j]
            /\ m.recs[Plain(i)].gap \subseteq {"att", "part"}
            /\ "part" \in m.recs[Plain(i)].gap => kind = "pst"
       /\ m.recs[Qualified(i)] # None =>
            /\ Kept(m, i) /\ m.recs[Qualified(i)].body = Body[i]
            /\ m.recs[Qualified(i)].gap \subseteq {"att"}

GapsOK(m) ==
  /\ DOMAIN m = {"recs", "gaps"} /\ DOMAIN m.gaps = Locators
  /\ \A l \in Locators : m.gaps[l] # None =>
       /\ m.gaps[l].run \in Nat /\ m.gaps[l].run <= run
       /\ m.gaps[l].class \in {"missing", "info"}

(* A gap this run put down that says a message is missing. *)
GapNow(l) == /\ mem.gaps[l] # None /\ mem.gaps[l].run = run
             /\ mem.gaps[l].class = "missing"

NamedNow(i) == \E l \in NamedBy(i) : GapNow(l) /\ mem.gaps[l].folder = Folder[i]

(* Where the run can be once its walk is over. *)
EndsOK ==
  /\ walk.final => pc \in {"flush", "save", "report"}
  /\ pc = "report" => walk.final
  /\ walk.why = "fatal" => pc = "finish" \/ walk.final
  /\ pc = "report" /\ ~walk.saveErr => saved = mem
  /\ pc = "idle" => walk = NoWalk /\ mem = saved

(* Walking means that what is met is answered for: no end of the archive cut
   the item in hand off. *)
Walking == walk.why # "fatal" /\ pc # "lost"

MetInv ==
  Walking => \A i \in walk.met : \/ InHand(i) \/ Kept(mem, i) \/ NamedNow(i)
                                 \/ Place[i] \in walk.gone

GoneInv ==
  pc # "idle" => \A p \in Places :
    LET g == mem.gaps[<<"place", p>>]
    IN  g # None /\ g.run = run /\ g.reason = "vanished" => p \in walk.gone

(* The locators no capture of another item answers. *)
Sticky(i) == {<<"own", i>>, <<"folder", Folder[i]>>, <<"table", Folder[i]>>}

NotPartly(i) == Kept(mem, i) /\ mem.recs[Plain(i)].body = Body[i]
                  => "part" \notin mem.recs[Plain(i)].gap

PartInv ==
  Walking /\ kind = "pst" /\ ~walk.unread =>
    \A i \in walk.met : InHand(i) \/ NotPartly(i) \/ \E l \in Sticky(i) : GapNow(l)

FaultedInv ==
  \A f \in walk.faulted : GapNow(<<"folder", f>>) \/ GapNow(<<"table", f>>)

EndInv ==
  walk.final /\ walk.why = "walk" =>
    \A l \in Locators : \/ mem.gaps[l] = None \/ mem.gaps[l].run = run
                        \/ mem.gaps[l].folder \in walk.faulted

PstInv == kind = "pst" =>
  /\ walk.gone = {}
  /\ \A l \in Locators :
       /\ mem.gaps[l] # None /\ mem.gaps[l].class = "missing"
            => l[1] \in {"own", "folder", "table"}
       /\ saved.gaps[l] # None /\ saved.gaps[l].class = "missing"
            => l[1] \in {"own", "folder", "table"}

OldInv == kind = "pst" =>
  \A i \in Items : Named(saved, i) =>
    \/ Named(mem, i) \/ Kept(mem, i)
    \/ walk.final /\ walk.why = "walk" /\ i \notin walk.met

RunInv ==
  /\ run \in Nat /\ left \in Nat /\ WalkTyped /\ HandTyped
  /\ RecsOK(mem) /\ RecsOK(saved) /\ GapsOK(mem) /\ GapsOK(saved)
  /\ EndsOK /\ MetInv /\ GoneInv /\ PartInv /\ FaultedInv /\ EndInv
  /\ PstInv /\ OldInv

(***************************************************************************)
(* Operators.                                                              *)
(***************************************************************************)
LEMMA NamesAreLocators ==
  ASSUME NEW i \in Items
  PROVE  NamedBy(i) \subseteq Locators /\ Sticky(i) \subseteq NamedBy(i)
<1>1. Folder[i] \in Folders /\ MsgId[i] \in Ids /\ Place[i] \in Places
  BY DEF Folders, Ids, Places
<1> QED
  BY <1>1 DEF NamedBy, Sticky, Locators

LEMMA PlaceIsLocator == ASSUME NEW p \in Places PROVE <<"place", p>> \in Locators
BY DEF Locators

LEMMA FolderIsLocator ==
  ASSUME NEW f \in Folders
  PROVE  <<"folder", f>> \in Locators /\ <<"table", f>> \in Locators
BY DEF Locators

LEMMA KeysOf == ASSUME NEW i \in Items
                PROVE  Plain(i) \in Keys /\ Qualified(i) \in Keys /\ Plain(i) # Qualified(i)
BY BodyAssumption DEF Keys, Plain, Qualified

(* The locators of a kind. *)
LEMMA NamesApart ==
  ASSUME NEW i \in Items, NEW l \in NamedBy(i)
  PROVE  /\ l[1] = "own" => l = <<"own", i>>
         /\ l[1] = "place" => l = <<"place", Place[i]>>
         /\ l[1] = "folder" => l = <<"folder", Folder[i]>>
         /\ l[1] = "table" => l = <<"table", Folder[i]>>
         /\ l[1] = "id" => l \in {<<"id", MsgId[i]>>, <<"id", MsgId[i], Folder[i]>>}
         /\ l[1] \in {"own", "place", "folder", "table", "id"}
BY DEF NamedBy

LEMMA StickyApart ==
  ASSUME NEW i \in Items, NEW l \in Sticky(i)
  PROVE  l \in Locators /\ l[1] # "id" /\ \A p : l # <<"place", p>>
<1>1. l \in Locators
  BY NamesAreLocators
<1>2. l[1] # "id" /\ \A p : l # <<"place", p>>
  BY DEF Sticky
<1> QED
  BY <1>1, <1>2

LEMMA ShortIsNotLong == ASSUME NEW a, NEW b, NEW c, NEW d, NEW e
                        PROVE  <<a, b>> # <<c, d, e>>
OBVIOUS

(* What an observation changes: nothing but its locator, and there only to
   the gap observed; a gap of this run that says missing gives way only to
   another that does. *)
LEMMA ObservedGaps ==
  ASSUME NEW gaps, DOMAIN gaps = Locators, NEW loc \in Locators, NEW g
  PROVE  /\ DOMAIN ObserveGap(gaps, loc, g) = Locators
         /\ \A l \in Locators : l # loc => ObserveGap(gaps, loc, g)[l] = gaps[l]
         /\ ObserveGap(gaps, loc, g)[loc] \in {g, gaps[loc]}
         /\ ObserveGap(gaps, loc, g)[loc] # g => g.class = "info"
         /\ gaps[loc] # None /\ gaps[loc].run = run /\ gaps[loc].class = "missing"
              /\ g.class = "info" => ObserveGap(gaps, loc, g)[loc] = gaps[loc]
BY DEF ObserveGap

LEMMA ClosedGaps ==
  ASSUME NEW gaps, NEW locs
  PROVE  /\ DOMAIN Close(gaps, locs) = Locators
         /\ \A l \in Locators :
              /\ l \in locs => Close(gaps, locs)[l] = None
              /\ l \notin locs => Close(gaps, locs)[l] = gaps[l]
BY DEF Close

LEMMA GapIsGap ==
  ASSUME NEW i \in Items, NEW reason \in Reasons, NEW class \in {"missing", "info"},
         run \in Nat
  PROVE  LET g == Gap(i, reason, class)
         IN  /\ g # None /\ g.run = run /\ g.class = class /\ g.folder = Folder[i]
             /\ g.reason = reason /\ g.folder \in Folders
<1>1. Folder[i] \in Folders
  BY DEF Folders
<1>2. Gap(i, reason, class) \in [reason : Reasons, class : {"missing", "info"},
                                 folder : Folders, run : Nat]
  BY <1>1 DEF Gap
<1> QED
  BY <1>1, <1>2, NoneAssumption DEF Gap

(* What a capture answers: its own locators, in its folder, or a file of its
   place that vanished in this run. *)
LEMMA RecoveredGaps ==
  ASSUME NEW gaps, DOMAIN gaps = Locators, NEW i \in Items
  PROVE  LET h == Recovered(gaps, i)
         IN  /\ DOMAIN h = Locators
             /\ \A l \in Locators : h[l] = gaps[l] \/ h[l] = None
             /\ \A l \in Locators : h[l] # gaps[l] =>
                  \/ kind = "pst" /\ l = <<"own", i>>
                  \/ kind # "pst" /\ l \in VanishedNow(gaps, i)
                  \/ /\ l \in {<<"id", MsgId[i]>>, <<"id", MsgId[i], Folder[i]>>}
                     /\ gaps[l].folder = Folder[i]
<1> DEFINE answered == IF kind = "pst" THEN {<<"own", i>>} ELSE VanishedNow(gaps, i)
           first == Close(gaps, answered)
           ids == {<<"id", MsgId[i]>>, <<"id", MsgId[i], Folder[i]>>}
           locs == {l \in ids : first[l] # None /\ first[l].folder = Folder[i]}
<1>1. Recovered(gaps, i) = Close(first, locs)
  BY DEF Recovered, CloseGapInFolder
<1>2. DOMAIN first = Locators /\ \A l \in Locators :
        (l \in answered => first[l] = None) /\ (l \notin answered => first[l] = gaps[l])
  BY ClosedGaps
<1>3. /\ DOMAIN Close(first, locs) = Locators
      /\ \A l \in Locators : (l \in locs => Close(first, locs)[l] = None)
                          /\ (l \notin locs => Close(first, locs)[l] = first[l])
  BY ClosedGaps
<1>4. \A l \in locs : l \in ids /\ first[l] # None /\ first[l].folder = Folder[i]
  OBVIOUS
<1>5. \A l \in answered : \/ kind = "pst" /\ l = <<"own", i>>
                          \/ kind # "pst" /\ l \in VanishedNow(gaps, i)
  OBVIOUS
<1> HIDE DEF locs, answered, first, ids
<1>6. ASSUME NEW l \in Locators PROVE
        /\ Close(first, locs)[l] = gaps[l] \/ Close(first, locs)[l] = None
        /\ Close(first, locs)[l] # gaps[l] =>
             l \in answered \/ (l \in ids /\ gaps[l].folder = Folder[i])
  BY <1>2, <1>3, <1>4
<1> QED
  BY <1>1, <1>3, <1>5, <1>6 DEF ids

LEMMA VanishedIsGone ==
  ASSUME NEW i \in Items, NEW l \in VanishedNow(mem.gaps, i), GoneInv, pc # "idle"
  PROVE  l = <<"place", Place[i]>> /\ Place[i] \in walk.gone
BY DEF VanishedNow, GoneInv, Places

(***************************************************************************)
(* The kinds of step.                                                      *)
(***************************************************************************)
(* Where a walk goes after an item. *)
LEMMA GotoFacts ==
  ASSUME NEW w, Goto(w)
  PROVE  /\ walk' = w /\ pc' \in {"check", "report", "finish", "next"}
         /\ ~w.final => pc' # "report"
         /\ pc' = "next" => w.why = "walk" /\ ~w.final
         /\ pc' = "finish" => w.why # "walk" \/ w.pos > Len(Walk)
BY DEF Goto, Onward

LEMMA ObserveFacts ==
  ASSUME NEW w, NEW loc, NEW g, Observe(w, loc, g), DOMAIN w = WalkFields
  PROVE  /\ mem' = [mem EXCEPT !.gaps = ObserveGap(mem.gaps, loc, g)]
         /\ DOMAIN walk' = WalkFields
         /\ walk'.pos = w.pos /\ walk'.why = w.why /\ walk'.began = w.began
         /\ walk'.met = w.met /\ walk'.gone = w.gone /\ walk'.unread = w.unread
         /\ walk'.final = w.final /\ walk'.saveErr = w.saveErr
         /\ walk'.faulted = IF loc[1] \in {"folder", "table"}
                            THEN w.faulted \union {g.folder} ELSE w.faulted
         /\ pc' \in {"check", "report", "finish", "next"}
         /\ ~w.final => pc' # "report"
<1> DEFINE v == [w EXCEPT !.since = @ + 1,
                      !.faulted = IF loc[1] \in {"folder", "table"}
                                  THEN @ \union {g.folder} ELSE @]
<1>1. mem' = [mem EXCEPT !.gaps = ObserveGap(mem.gaps, loc, g)] /\ Goto(v)
  BY DEF Observe
<1>2. /\ DOMAIN v = WalkFields /\ v.pos = w.pos /\ v.why = w.why /\ v.began = w.began
      /\ v.met = w.met /\ v.gone = w.gone /\ v.unread = w.unread
      /\ v.final = w.final /\ v.saveErr = w.saveErr
      /\ v.faulted = IF loc[1] \in {"folder", "table"}
                     THEN w.faulted \union {g.folder} ELSE w.faulted
  BY DEF WalkFields
<1> HIDE DEF v
<1>3. /\ walk' = v /\ pc' \in {"check", "report", "finish", "next"}
      /\ ~v.final => pc' # "report"
  BY <1>1, GotoFacts
<1> QED
  BY <1>1, <1>2, <1>3

(* A fault is put down at loc, against message j, and names the items M. *)
Notes(loc, g, j, M) ==
  /\ UNCHANGED <<kind, run, saved, cur, told>>
  /\ j \in Items /\ loc \in NamedBy(j)
  /\ loc = <<"id", MsgId[j]>> /\ GapNow(loc) => mem.gaps[loc].folder = Folder[j]
  /\ g # None /\ g.run = run /\ g.class = "missing" /\ g.folder = Folder[j]
  /\ g.reason = "vanished" => loc = <<"place", Place[j]>> /\ Place[j] \in walk'.gone
  /\ kind = "pst" => /\ loc[1] \in {"own", "folder", "table"}
                     /\ walk'.gone = walk.gone
  /\ \A i \in M : i \in Items /\ loc \in NamedBy(i) /\ Folder[i] = Folder[j]
  /\ mem' = [mem EXCEPT !.gaps = ObserveGap(mem.gaps, loc, g)]
  /\ ~walk.final /\ ~walk'.final /\ walk.why # "fatal" /\ walk'.why # "fatal"
  /\ pc \in {"next", "zip", "page"} /\ pc' \in {"check", "finish", "next"}
  /\ pc # "next" => cur.item \in M
  /\ WalkTyped' /\ walk'.began = walk.began /\ walk'.met \subseteq walk.met \union M
  /\ walk.gone \subseteq walk'.gone /\ walk'.unread = walk.unread
  /\ \A f \in walk'.faulted : f \in walk.faulted \/ loc \in {<<"folder", f>>, <<"table", f>>}

(* A step that leaves both manifests alone; what it adds to the items met is
   in hand after it. *)
Stands ==
  /\ UNCHANGED <<kind, run, mem, saved, told>>
  /\ pc # "idle" /\ pc' # "idle"
  /\ pc' = "report" => pc = "report" /\ walk' = walk
  /\ WalkTyped' /\ HandTyped' /\ walk'.began = walk.began
  /\ walk'.final = walk.final /\ walk'.gone = walk.gone
  /\ walk'.faulted = walk.faulted /\ walk'.unread = walk.unread
  /\ walk'.why = walk.why \/ (pc' = "finish" /\ walk.why # "fatal")
  /\ walk.final => pc' \in {"flush", "save", "report"}
                   /\ walk'.why = walk.why /\ walk'.met = walk.met
  /\ walk.why = "fatal" => pc' = "finish" \/ walk.final
  /\ \/ walk'.why = "fatal" \/ pc' = "lost"
     \/ /\ pc # "lost" /\ \A i \in Items : InHand(i) => InHand(i)'
        /\ \A i \in walk'.met : i \in walk.met \/ InHand(i)'

LEMMA ItemIsItem == ASSUME WalkTyped, walk.pos <= Len(Walk)
                    PROVE  /\ Item \in Items /\ walk.pos \in DOMAIN Walk
                           /\ walk.pos + 1 \in Nat \ {0}
<1>1. walk.pos \in 1..Len(Walk) /\ DOMAIN Walk = 1..Len(Walk)
  BY WalkAssumption DEF WalkTyped
<1> QED
  BY <1>1 DEF Item, Items, ToSet, WalkTyped

LEMMA ItemIsIn == ASSUME NEW n \in DOMAIN Walk PROVE Walk[n] \in Items
BY DEF Items, ToSet

LEMMA UpsetFacts == ASSUME left \in Nat, Upset
                    PROVE  left' \in Nat /\ left' < left
BY DEF Upset

LEMMA MetFacts ==
  ASSUME WalkTyped, NEW i
  PROVE  /\ DOMAIN Met(i) = WalkFields
         /\ Met(i).pos = walk.pos + 1 /\ Met(i).met = walk.met \union {i}
         /\ Met(i).why = walk.why /\ Met(i).began = walk.began
         /\ Met(i).gone = walk.gone /\ Met(i).unread = walk.unread
         /\ Met(i).final = walk.final /\ Met(i).saveErr = walk.saveErr
         /\ Met(i).faulted = walk.faulted
BY DEF Met, WalkTyped, WalkFields

LEMMA ProbedFacts ==
  ASSUME NEW w, DOMAIN w = WalkFields, w.why \in Ends
  PROVE  LET v == Probed(w)
         IN  /\ DOMAIN v = WalkFields
             /\ v.pos = w.pos /\ v.met = w.met /\ v.began = w.began
             /\ v.gone = w.gone /\ v.unread = w.unread /\ v.final = w.final
             /\ v.saveErr = w.saveErr /\ v.faulted = w.faulted
             /\ v.why \in {w.why, "stopped"} /\ v.why \in Ends
BY DEF Probed, WalkFields, Ends

(* What a step of the walk may rely on. *)
LEMMA AtItemFacts ==
  ASSUME RunInv, AtItem
  PROVE  /\ Item \in Items /\ walk.pos \in DOMAIN Walk /\ pc = "next"
         /\ walk.pos + 1 \in Nat \ {0} /\ ~walk.final /\ walk.why # "fatal"
BY ItemIsItem DEF AtItem, RunInv, EndsOK

LEMMA HandFacts ==
  ASSUME RunInv, pc \in {"zip", "page"}
  PROVE  /\ cur.item \in Items /\ ~walk.final /\ walk.why # "fatal"
BY DEF RunInv, EndsOK, HandTyped

(* An observation that goes with the walk w. *)
Fits(w, loc, j, reason, M) ==
  /\ DOMAIN w = WalkFields /\ w.pos \in Nat \ {0} /\ w.began = walk.began
  /\ w.why \in Ends \ {"fatal"} /\ w.met \subseteq Items
  /\ w.met \subseteq walk.met \union M /\ w.faulted = walk.faulted
  /\ walk.gone \subseteq w.gone /\ w.unread = walk.unread /\ w.final = walk.final
  /\ loc \in NamedBy(j)
  /\ loc = <<"id", MsgId[j]>> /\ GapNow(loc) => mem.gaps[loc].folder = Folder[j]
  /\ reason = "vanished" => loc = <<"place", Place[j]>> /\ Place[j] \in w.gone
  /\ kind = "pst" => loc[1] \in {"own", "folder", "table"} /\ w.gone = walk.gone
  /\ \A i \in M : i \in Items /\ loc \in NamedBy(i) /\ Folder[i] = Folder[j]

LEMMA NotesIf ==
  ASSUME RunInv, NEW w, NEW loc, NEW j \in Items, NEW reason \in Reasons, NEW M,
         Observe(w, loc, Gap(j, reason, "missing")), Fits(w, loc, j, reason, M),
         ~walk.final, walk.why # "fatal", pc \in {"next", "zip", "page"},
         pc # "next" => cur.item \in M,
         UNCHANGED <<kind, run, saved, cur, told>>
  PROVE  Notes(loc, Gap(j, reason, "missing"), j, M)
<1> DEFINE g == Gap(j, reason, "missing")
<1>1. /\ g # None /\ g.run = run /\ g.class = "missing" /\ g.folder = Folder[j]
      /\ g.reason = reason /\ g.folder \in Folders
  BY GapIsGap DEF RunInv
<1> HIDE DEF g
<1>2. /\ mem' = [mem EXCEPT !.gaps = ObserveGap(mem.gaps, loc, g)]
      /\ DOMAIN walk' = WalkFields
      /\ walk'.pos = w.pos /\ walk'.why = w.why /\ walk'.began = w.began
      /\ walk'.met = w.met /\ walk'.gone = w.gone /\ walk'.unread = w.unread
      /\ walk'.final = w.final
      /\ walk'.faulted = IF loc[1] \in {"folder", "table"}
                         THEN w.faulted \union {g.folder} ELSE w.faulted
      /\ pc' \in {"check", "report", "finish", "next"}
      /\ ~w.final => pc' # "report"
  <2>1. DOMAIN w = WalkFields
    BY DEF Fits
  <2>2. Observe(w, loc, g)
    BY DEF g
  <2> QED
    BY <2>1, <2>2, ObserveFacts
<1>3. walk.faulted \subseteq Folders /\ walk.began \in Nat
  BY DEF RunInv, WalkTyped
<1>4. WalkTyped'
  BY <1>1, <1>2, <1>3 DEF WalkTyped, Fits
<1>5. \A f \in walk'.faulted : f \in walk.faulted \/ loc \in {<<"folder", f>>, <<"table", f>>}
  <2>1. loc[1] \in {"folder", "table"} => loc \in {<<"folder", g.folder>>, <<"table", g.folder>>}
    BY <1>1, NamesApart DEF Fits
  <2> QED
    BY <1>2, <2>1 DEF Fits
<1>6. Notes(loc, g, j, M)
  BY <1>1, <1>2, <1>4, <1>5 DEF Notes, Fits
<1> QED
  BY <1>6 DEF g

LEMMA RunWalk == ASSUME RunInv
                 PROVE  /\ DOMAIN walk = WalkFields /\ walk.pos \in Nat \ {0}
                        /\ walk.why \in Ends /\ walk.met \subseteq Items
BY DEF RunInv, WalkTyped

LEMMA ReadLocatorFacts ==
  ASSUME NEW i \in Items
  PROVE  /\ ReadLocator(i) \in NamedBy(i) /\ ReadLocator(i) # <<"id", MsgId[i]>>
         /\ kind = "pst" => ReadLocator(i)[1] = "own"
         /\ kind # "pst" => ReadLocator(i) = <<"place", Place[i]>>
BY DEF ReadLocator, NamedBy

LEMMA ItemLocatorFacts ==
  ASSUME NEW i \in Items
  PROVE  LET loc == ItemLocator(mem.gaps, i)
         IN  /\ loc \in NamedBy(i)
             /\ loc = <<"id", MsgId[i]>> /\ GapNow(loc) => mem.gaps[loc].folder = Folder[i]
             /\ kind = "pst" => loc[1] = "own"
<1>1. CASE kind = "pst"
  BY <1>1 DEF ItemLocator, NamedBy
<1>2. CASE kind # "pst"
  BY <1>2, ShortIsNotLong DEF ItemLocator, IdLocator, NamedBy, GapNow
<1> QED
  BY <1>1, <1>2

LEMMA ReaderFaultNotes ==
  ASSUME RunInv, ReaderFault PROVE \E loc, g, j, M : Notes(loc, g, j, M)
<1>1. AtItem /\ UNCHANGED <<kind, run, saved, cur, told>>
      /\ Observe(Met(Item), ReadLocator(Item), Gap(Item, "unreadable", "missing"))
  BY DEF ReaderFault, about, disk
<1>2. /\ Item \in Items /\ walk.pos \in DOMAIN Walk /\ pc = "next"
      /\ walk.pos + 1 \in Nat \ {0} /\ ~walk.final /\ walk.why # "fatal"
  BY <1>1, AtItemFacts
<1>3. Fits(Met(Item), ReadLocator(Item), Item, "unreadable", {Item})
  BY <1>2, MetFacts, RunWalk, ReadLocatorFacts DEF RunInv, Fits
<1>4. "unreadable" \in Reasons
  BY DEF Reasons
<1>5. Notes(ReadLocator(Item), Gap(Item, "unreadable", "missing"), Item, {Item})
  BY <1>1, <1>2, <1>3, <1>4, NotesIf
<1> QED
  BY <1>5

LEMMA VanishesNotes ==
  ASSUME RunInv, Vanishes PROVE \E loc, g, j, M : Notes(loc, g, j, M)
<1> DEFINE w == [walk EXCEPT !.pos = @ + 1, !.gone = @ \union {Place[Item]}]
<1>1. AtItem /\ UNCHANGED <<kind, run, saved, cur, told>> /\ kind = "maildir"
      /\ Observe(w, ReadLocator(Item), Gap(Item, "vanished", "missing"))
  BY DEF Vanishes, about, disk
<1>2. /\ Item \in Items /\ walk.pos \in DOMAIN Walk /\ pc = "next"
      /\ walk.pos + 1 \in Nat \ {0} /\ ~walk.final /\ walk.why # "fatal"
  BY <1>1, AtItemFacts
<1>3. /\ DOMAIN w = WalkFields
      /\ w.pos = walk.pos + 1 /\ w.met = walk.met
      /\ w.why = walk.why /\ w.began = walk.began
      /\ w.gone = walk.gone \union {Place[Item]} /\ w.unread = walk.unread
      /\ w.final = walk.final /\ w.faulted = walk.faulted
  BY RunWalk DEF WalkFields
<1> HIDE DEF w
<1>4. ReadLocator(Item) = <<"place", Place[Item]>> /\ kind # "pst"
  BY <1>1, <1>2, ReadLocatorFacts
<1>5. Fits(w, ReadLocator(Item), Item, "vanished", {})
  BY <1>2, <1>3, <1>4, RunWalk, ReadLocatorFacts DEF Fits
<1>6. "vanished" \in Reasons
  BY DEF Reasons
<1>7. Notes(ReadLocator(Item), Gap(Item, "vanished", "missing"), Item, {})
  BY <1>1, <1>2, <1>5, <1>6, NotesIf
<1> QED
  BY <1>7

LEMMA TableFaultNotes ==
  ASSUME RunInv, TableFault PROVE \E loc, g, j, M : Notes(loc, g, j, M)
<1> DEFINE rest == {n \in walk.pos..Len(Walk) : Folder[Walk[n]] = Folder[Item]}
           M == {Walk[n] : n \in rest}
           w == [walk EXCEPT !.pos = @ + Cardinality(rest), !.met = @ \union M]
           loc == <<"table", Folder[Item]>>
<1>1. AtItem /\ UNCHANGED <<kind, run, saved, cur, told>>
      /\ Observe(w, loc, Gap(Item, "table", "missing"))
  BY DEF TableFault, about, disk
<1>2. /\ Item \in Items /\ walk.pos \in DOMAIN Walk /\ pc = "next"
      /\ walk.pos + 1 \in Nat \ {0} /\ ~walk.final /\ walk.why # "fatal"
  BY <1>1, AtItemFacts
<1>3. Cardinality(rest) \in Nat
  <2>1. IsFiniteSet(walk.pos..Len(Walk))
    BY <1>2, FS_Interval, WalkAssumption, RunWalk
  <2> QED
    BY <2>1, FS_Subset, FS_CardinalityType
<1>4. \A i \in M : i \in Items /\ Folder[i] = Folder[Item]
  <2>1. \A n \in rest : n \in DOMAIN Walk
    BY WalkAssumption, RunWalk
  <2> QED
    BY <2>1, ItemIsIn
<1>5. \A i \in M : i \in Items /\ loc \in NamedBy(i) /\ Folder[i] = Folder[Item]
  BY <1>4 DEF NamedBy
<1>6. loc \in NamedBy(Item) /\ loc # <<"id", MsgId[Item]>> /\ loc[1] = "table"
  BY <1>2 DEF NamedBy
<1> HIDE DEF rest, M, loc
<1>7. /\ DOMAIN w = WalkFields
      /\ w.pos = walk.pos + Cardinality(rest) /\ w.met = walk.met \union M
      /\ w.why = walk.why /\ w.began = walk.began
      /\ w.gone = walk.gone /\ w.unread = walk.unread
      /\ w.final = walk.final /\ w.faulted = walk.faulted
  BY RunWalk DEF WalkFields
<1> HIDE DEF w
<1>8. w.pos \in Nat \ {0} /\ w.met \subseteq Items
  BY <1>3, <1>4, <1>7, RunWalk
<1>9. Fits(w, loc, Item, "table", M)
  BY <1>2, <1>5, <1>6, <1>7, <1>8, RunWalk DEF Fits
<1>10. "table" \in Reasons
  BY DEF Reasons
<1>11. Notes(loc, Gap(Item, "table", "missing"), Item, M)
  BY <1>1, <1>2, <1>9, <1>10, NotesIf
<1> QED
  BY <1>11

LEMMA LeaveNotes ==
  ASSUME RunInv, NEW read, LeaveUnwritable(read)
  PROVE  \E loc, g, j, M : Notes(loc, g, j, M)
<1> DEFINE loc == <<"folder", Folder[Item]>>
<1>1. AtItem /\ UNCHANGED <<kind, run, saved, cur, told>>
      /\ Observe(Met(Item), loc, Gap(Item, "unwritable", "missing"))
  BY DEF LeaveUnwritable, about, disk
<1>2. /\ Item \in Items /\ walk.pos \in DOMAIN Walk /\ pc = "next"
      /\ walk.pos + 1 \in Nat \ {0} /\ ~walk.final /\ walk.why # "fatal"
  BY <1>1, AtItemFacts
<1>3. loc \in NamedBy(Item) /\ loc # <<"id", MsgId[Item]>> /\ loc[1] = "folder"
  BY <1>2 DEF NamedBy
<1> HIDE DEF loc
<1>4. Fits(Met(Item), loc, Item, "unwritable", {Item})
  BY <1>2, <1>3, MetFacts, RunWalk DEF RunInv, Fits
<1>5. "unwritable" \in Reasons
  BY DEF Reasons
<1>6. Notes(loc, Gap(Item, "unwritable", "missing"), Item, {Item})
  BY <1>1, <1>2, <1>4, <1>5, NotesIf
<1> QED
  BY <1>6

(* A step that leaves the walk alone too, but for where it goes. *)
LEMMA StandsStill ==
  ASSUME RunInv, UNCHANGED <<kind, run, mem, saved, told, walk, cur>>,
         pc # "idle", pc' = "lost", ~walk.final, walk.why # "fatal"
  PROVE  Stands
<1>1. WalkTyped' /\ HandTyped'
  BY DEF RunInv, WalkTyped, HandTyped, Key
<1> QED
  BY <1>1 DEF Stands, InHand

LEMMA WriteFaultNotes ==
  ASSUME RunInv, pc \in {"zip", "page"}, NEW w, NEW loc, NEW reason \in Reasons,
         WriteFault(w, loc, Gap(cur.item, reason, "missing")),
         DOMAIN w = WalkFields, w.pos = walk.pos, w.met = walk.met,
         w.why = walk.why, w.began = walk.began, w.gone = walk.gone,
         w.unread = walk.unread, w.final = walk.final, w.faulted = walk.faulted,
         UNCHANGED <<kind, run, saved, cur, told>>,
         loc \in NamedBy(cur.item), reason # "vanished",
         loc = <<"id", MsgId[cur.item]>> /\ GapNow(loc)
           => mem.gaps[loc].folder = Folder[cur.item],
         kind = "pst" => loc[1] \in {"own", "folder", "table"}
  PROVE  Stands \/ \E l, g, j, M : Notes(l, g, j, M)
<1>1. cur.item \in Items /\ ~walk.final /\ walk.why # "fatal"
  BY HandFacts
<1>2. CASE ProbeDue /\ ~held
  BY <1>1, <1>2, StandsStill DEF WriteFault
<1>3. CASE ~(ProbeDue /\ ~held)
  <2>1. Observe(Probed(w), loc, Gap(cur.item, reason, "missing"))
    BY <1>3 DEF WriteFault
  <2> DEFINE v == Probed(w)
  <2>2. /\ DOMAIN v = WalkFields
        /\ v.pos = w.pos /\ v.met = w.met /\ v.began = w.began
        /\ v.gone = w.gone /\ v.unread = w.unread /\ v.final = w.final
        /\ v.faulted = w.faulted
        /\ v.why \in {w.why, "stopped"} /\ v.why \in Ends
    BY ProbedFacts, RunWalk
  <2> HIDE DEF v
  <2>3. Fits(v, loc, cur.item, reason, {cur.item})
    BY <1>1, <2>2, RunWalk DEF Fits
  <2>4. Notes(loc, Gap(cur.item, reason, "missing"), cur.item, {cur.item})
    BY <1>1, <2>1, <2>3, NotesIf DEF v
  <2> QED
    BY <2>4
<1> QED
  BY <1>2, <1>3

LEMMA FolderFailsNotes ==
  ASSUME RunInv, FolderFails
  PROVE  Stands \/ \E l, g, j, M : Notes(l, g, j, M)
<1> DEFINE w == [walk EXCEPT !.unwritable = @ \union {Folder[cur.item]}]
           loc == <<"folder", Folder[cur.item]>>
<1>1. /\ pc \in {"zip", "page"} /\ UNCHANGED <<kind, run, saved, cur, told>>
      /\ WriteFault(w, loc, Gap(cur.item, "unwritable", "missing"))
  BY DEF FolderFails, about, disk
<1>2. /\ DOMAIN w = WalkFields /\ w.pos = walk.pos /\ w.met = walk.met
      /\ w.why = walk.why /\ w.began = walk.began /\ w.gone = walk.gone
      /\ w.unread = walk.unread /\ w.final = walk.final /\ w.faulted = walk.faulted
  BY RunWalk DEF WalkFields
<1>3. loc \in NamedBy(cur.item) /\ loc # <<"id", MsgId[cur.item]>> /\ loc[1] = "folder"
  BY DEF NamedBy
<1>4. "unwritable" \in Reasons
  BY DEF Reasons
<1> HIDE DEF w, loc
<1> QED
  BY <1>1, <1>2, <1>3, <1>4, WriteFaultNotes

LEMMA ItemFailsNotes ==
  ASSUME RunInv, ItemFails
  PROVE  Stands \/ \E l, g, j, M : Notes(l, g, j, M)
<1> DEFINE loc == ItemLocator(mem.gaps, cur.item)
<1>1. /\ pc \in {"zip", "page"} /\ UNCHANGED <<kind, run, saved, cur, told>>
      /\ WriteFault(walk, loc, Gap(cur.item, "export-failed", "missing"))
  BY DEF ItemFails, about, disk
<1>2. cur.item \in Items
  BY <1>1, HandFacts
<1>3. /\ loc \in NamedBy(cur.item)
      /\ loc = <<"id", MsgId[cur.item]>> /\ GapNow(loc)
           => mem.gaps[loc].folder = Folder[cur.item]
      /\ kind = "pst" => loc[1] = "own"
  BY <1>2, ItemLocatorFacts
<1>4. "export-failed" \in Reasons
  BY DEF Reasons
<1> HIDE DEF loc
<1> QED
  BY <1>1, <1>3, <1>4, RunWalk, WriteFaultNotes

LEMMA PanicsNotes ==
  ASSUME RunInv, Panics PROVE \E l, g, j, M : Notes(l, g, j, M)
<1> DEFINE loc == ItemLocator(mem.gaps, cur.item)
<1>1. /\ pc \in {"zip", "page"} /\ UNCHANGED <<kind, run, saved, cur, told>>
      /\ Observe(walk, loc, Gap(cur.item, "export-panic", "missing"))
  BY DEF Panics, about, disk
<1>2. cur.item \in Items /\ ~walk.final /\ walk.why # "fatal"
  BY <1>1, HandFacts
<1>3. /\ loc \in NamedBy(cur.item)
      /\ loc = <<"id", MsgId[cur.item]>> /\ GapNow(loc)
           => mem.gaps[loc].folder = Folder[cur.item]
      /\ kind = "pst" => loc[1] = "own"
  BY <1>2, ItemLocatorFacts
<1>4. "export-panic" \in Reasons
  BY DEF Reasons
<1> HIDE DEF loc
<1>5. Fits(walk, loc, cur.item, "export-panic", {cur.item})
  BY <1>2, <1>3, RunWalk DEF Fits, RunInv, WalkTyped
<1>6. Notes(loc, Gap(cur.item, "export-panic", "missing"), cur.item, {cur.item})
  BY <1>1, <1>2, <1>4, <1>5, NotesIf
<1> QED
  BY <1>6

(***************************************************************************)
(* Steps that leave both manifests alone.                                  *)
(***************************************************************************)
LEMMA StopsStands == ASSUME RunInv, Stops PROVE Stands
<1>1. /\ AtItem /\ UNCHANGED <<kind, run, mem, saved, told, cur>> /\ pc' = "finish"
  BY DEF Stops, about, disk
<1>2. PICK why \in {"cancelled", "source"} : walk' = [walk EXCEPT !.why = why]
  BY DEF Stops
<1>3. pc = "next" /\ ~walk.final /\ walk.why # "fatal"
  BY <1>1, AtItemFacts
<1>4. /\ DOMAIN walk' = WalkFields /\ walk'.pos = walk.pos /\ walk'.met = walk.met
      /\ walk'.why = why /\ walk'.began = walk.began /\ walk'.gone = walk.gone
      /\ walk'.unread = walk.unread /\ walk'.final = walk.final
      /\ walk'.faulted = walk.faulted
  BY <1>2, RunWalk DEF WalkFields
<1>5. WalkTyped' /\ HandTyped'
  BY <1>1, <1>4 DEF RunInv, WalkTyped, HandTyped, Ends
<1> QED
  BY <1>1, <1>3, <1>4, <1>5 DEF Stands, InHand

LEMMA AbsentStands == ASSUME RunInv, Absent PROVE Stands
<1> DEFINE w == [walk EXCEPT !.pos = @ + 1]
<1>1. AtItem /\ UNCHANGED <<kind, run, mem, saved, told, cur>> /\ Goto(w)
  BY DEF Absent, about, disk
<1>2. pc = "next" /\ ~walk.final /\ walk.why # "fatal" /\ walk.pos + 1 \in Nat \ {0}
  BY <1>1, AtItemFacts
<1>3. /\ DOMAIN w = WalkFields /\ w.pos = walk.pos + 1 /\ w.met = walk.met
      /\ w.why = walk.why /\ w.began = walk.began /\ w.gone = walk.gone
      /\ w.unread = walk.unread /\ w.final = walk.final
      /\ w.faulted = walk.faulted
  BY RunWalk DEF WalkFields
<1> HIDE DEF w
<1>4. walk' = w /\ pc' \in {"check", "finish", "next"}
  BY <1>1, <1>2, <1>3, GotoFacts
<1>5. WalkTyped' /\ HandTyped'
  BY <1>1, <1>2, <1>3, <1>4 DEF RunInv, WalkTyped, HandTyped
<1> QED
  BY <1>1, <1>2, <1>3, <1>4, <1>5 DEF Stands, InHand

LEMMA StartStands ==
  ASSUME RunInv, NEW read \in Reads \union {"whole"}, StartCapture(read) PROVE Stands
<1>1. /\ AtItem /\ Delivered(read) /\ UNCHANGED <<kind, run, mem, saved, told>>
      /\ cur' = [item |-> Item, key |-> Key(Item, read), read |-> read, zip |-> FALSE,
                 old |-> OldStem(mem.recs[Key(Item, read)])]
      /\ walk' = Met(Item) /\ pc' = "zip"
  BY DEF StartCapture, about, disk
<1>2. /\ Item \in Items /\ pc = "next" /\ ~walk.final /\ walk.why # "fatal"
      /\ walk.pos + 1 \in Nat \ {0}
  BY <1>1, AtItemFacts
<1>3. /\ DOMAIN walk' = WalkFields
      /\ walk'.pos = walk.pos + 1 /\ walk'.met = walk.met \union {Item}
      /\ walk'.why = walk.why /\ walk'.began = walk.began
      /\ walk'.gone = walk.gone /\ walk'.unread = walk.unread
      /\ walk'.final = walk.final /\ walk'.faulted = walk.faulted
  BY <1>1, MetFacts DEF RunInv
<1>4. WalkTyped'
  BY <1>2, <1>3 DEF RunInv, WalkTyped
<1>5. HandTyped'
  <2>1. read = "part" => kind = "pst"
    BY <1>1 DEF Delivered
  <2> QED
    BY <1>1, <1>2, <2>1 DEF HandTyped, Key
<1> QED
  BY <1>1, <1>2, <1>3, <1>4, <1>5 DEF Stands, InHand

LEMMA ArchiveFailsStands == ASSUME RunInv, ArchiveFails PROVE Stands
<1>1. /\ pc \in {"zip", "page"} /\ UNCHANGED <<kind, run, mem, saved, told, cur>>
      /\ walk' = [walk EXCEPT !.why = "fatal"] /\ pc' = "finish"
  BY DEF ArchiveFails, about, disk
<1>2. ~walk.final /\ walk.why # "fatal"
  BY <1>1, HandFacts
<1>4. /\ DOMAIN walk' = WalkFields /\ walk'.pos = walk.pos /\ walk'.met = walk.met
      /\ walk'.why = "fatal" /\ walk'.began = walk.began /\ walk'.gone = walk.gone
      /\ walk'.unread = walk.unread /\ walk'.final = walk.final
      /\ walk'.faulted = walk.faulted
  BY <1>1, RunWalk DEF WalkFields
<1>5. WalkTyped' /\ HandTyped'
  BY <1>1, <1>4 DEF RunInv, WalkTyped, HandTyped, Ends
<1> QED
  BY <1>1, <1>2, <1>4, <1>5 DEF Stands

LEMMA WriteZipStands == ASSUME RunInv, WriteZip PROVE Stands
<1>1. /\ pc = "zip" /\ pc' = "page" /\ UNCHANGED <<kind, run, mem, saved, told, walk>>
      /\ cur' = [cur EXCEPT !.zip = TRUE] \/ cur' = cur
  BY DEF WriteZip, about
<1>2. ~walk.final /\ walk.why # "fatal"
  BY <1>1, HandFacts
<1>3. /\ DOMAIN cur' = {"item", "key", "read", "zip", "old"} /\ cur'.zip \in BOOLEAN
      /\ cur'.item = cur.item /\ cur'.key = cur.key /\ cur'.read = cur.read
  BY <1>1 DEF RunInv, HandTyped
<1>4. WalkTyped'
  BY <1>1 DEF RunInv, WalkTyped
<1>5. HandTyped'
  BY <1>1, <1>3 DEF RunInv, HandTyped, Key
<1> QED
  BY <1>1, <1>2, <1>3, <1>4, <1>5 DEF Stands, InHand

LEMMA RemovesStand == ASSUME RunInv, RemoveOldPage \/ RemoveOldZip PROVE Stands
<1>1. /\ pc \in {"oldpage", "oldzip"}
      /\ UNCHANGED <<kind, run, mem, saved, told, walk, cur>>
      /\ pc' = "oldzip" \/ Goto(walk)
  BY DEF RemoveOldPage, RemoveOldZip, about, Goto
<1>2. ~walk.final /\ walk.why # "fatal"
  BY <1>1 DEF RunInv, EndsOK
<1>3. pc' \in {"oldzip", "check", "finish", "next"}
  BY <1>1, <1>2, GotoFacts
<1>4. WalkTyped' /\ HandTyped'
  BY <1>1, <1>3 DEF RunInv, WalkTyped, HandTyped
<1> QED
  BY <1>1, <1>2, <1>3, <1>4 DEF Stands, InHand

LEMMA CheckpointStands == ASSUME RunInv, Checkpoint PROVE Stands
<1>1. /\ pc = "check" /\ UNCHANGED <<kind, run, mem, saved, told, cur>>
      /\ walk' = [walk EXCEPT !.since = 0] /\ pc' \in {"flush", "lost"}
  BY DEF Checkpoint, about, disk
<1>2. ~walk.final /\ walk.why # "fatal"
  BY <1>1 DEF RunInv, EndsOK
<1>4. /\ DOMAIN walk' = WalkFields /\ walk'.pos = walk.pos /\ walk'.met = walk.met
      /\ walk'.why = walk.why /\ walk'.began = walk.began /\ walk'.gone = walk.gone
      /\ walk'.unread = walk.unread /\ walk'.final = walk.final
      /\ walk'.faulted = walk.faulted
  BY <1>1, RunWalk DEF WalkFields
<1>5. WalkTyped' /\ HandTyped'
  BY <1>1, <1>4 DEF RunInv, WalkTyped, HandTyped
<1> QED
  BY <1>1, <1>2, <1>4, <1>5 DEF Stands, InHand

LEMMA FlushStands == ASSUME RunInv, Flush PROVE Stands
<1>1. /\ pc = "flush" /\ UNCHANGED <<kind, run, mem, saved, told, walk, cur>>
      /\ pc' = "save"
  BY DEF Flush, about
<1>2. walk.why = "fatal" => walk.final
  BY <1>1 DEF RunInv, EndsOK
<1>4. WalkTyped' /\ HandTyped'
  BY <1>1 DEF RunInv, WalkTyped, HandTyped
<1> QED
  BY <1>1, <1>2, <1>4 DEF Stands, InHand

LEMMA LoseLockStands == ASSUME RunInv, LoseLock PROVE Stands
<1>1. /\ pc # "idle" /\ UNCHANGED <<kind, run, mem, saved, told, walk, cur, pc>>
  BY DEF LoseLock, about, disk
<1>2. /\ walk.why = "fatal" => pc = "finish" \/ walk.final
      /\ walk.final => pc \in {"flush", "save", "report"}
  BY <1>1 DEF RunInv, EndsOK
<1>4. WalkTyped' /\ HandTyped'
  BY <1>1 DEF RunInv, WalkTyped, HandTyped, Key
<1> QED
  BY <1>1, <1>2, <1>4 DEF Stands, InHand

LEMMA StandsStep == ASSUME RunInv, Stands, left' \in Nat PROVE RunInv'
<1>1. /\ UNCHANGED <<kind, run, mem, saved>> /\ WalkTyped' /\ HandTyped'
      /\ walk'.gone = walk.gone /\ walk'.faulted = walk.faulted /\ walk'.final = walk.final
      /\ pc # "idle" /\ pc' # "idle"
  BY DEF Stands
<1>2. /\ RecsOK(mem)' /\ RecsOK(saved)' /\ GapsOK(mem)' /\ GapsOK(saved)'
      /\ FaultedInv' /\ GoneInv' /\ PstInv'
  BY <1>1 DEF RunInv, RecsOK, Kept, GapsOK, FaultedInv, GapNow, GoneInv, PstInv
<1>3. EndsOK'
  BY <1>1 DEF RunInv, EndsOK, Stands
<1>4. Walking' => /\ Walking
                  /\ \A i \in Items : InHand(i) => InHand(i)'
                  /\ \A i \in walk'.met : i \in walk.met \/ InHand(i)'
  BY DEF Walking, Stands
<1>5. MetInv'
  <2> SUFFICES ASSUME Walking', NEW i \in walk'.met
               PROVE  InHand(i)' \/ Kept(mem, i)' \/ NamedNow(i)' \/ Place[i] \in walk'.gone
    BY DEF MetInv
  <2>1. CASE InHand(i)'
    BY <2>1
  <2>2. CASE i \in walk.met
    BY <2>2, <1>1, <1>4 DEF RunInv, MetInv, WalkTyped, Kept, NamedNow, GapNow
  <2> QED
    BY <2>1, <2>2, <1>4
<1>6. PartInv'
  <2> SUFFICES ASSUME Walking', kind' = "pst", ~walk'.unread, NEW i \in walk'.met
               PROVE  InHand(i)' \/ NotPartly(i)' \/ \E l \in Sticky(i) : GapNow(l)'
    BY DEF PartInv
  <2>1. CASE InHand(i)'
    BY <2>1
  <2>2. CASE i \in walk.met
    <3>1. InHand(i) \/ NotPartly(i) \/ \E l \in Sticky(i) : GapNow(l)
      BY <2>2, <1>4, <1>1 DEF Stands, RunInv, PartInv
    <3>2. i \in Items
      BY <2>2 DEF RunInv, WalkTyped
    <3> QED
      BY <3>1, <3>2, <1>1, <1>4 DEF NotPartly, Kept, GapNow
  <2> QED
    BY <2>1, <2>2, <1>4
<1>7. EndInv'
  BY <1>1 DEF RunInv, EndInv, Stands
<1>8. OldInv'
  <2>1. walk.final => walk'.why = walk.why /\ walk'.met = walk.met
    BY DEF Stands
  <2> QED
    BY <1>1, <2>1 DEF RunInv, OldInv, Named, Kept
<1> QED
  BY <1>1, <1>2, <1>3, <1>5, <1>6, <1>7, <1>8 DEF RunInv

(* What a fault that is put down changes in the ledger. *)
LEMMA NotedGaps ==
  ASSUME RunInv, NEW loc, NEW g, NEW j, NEW M, Notes(loc, g, j, M)
  PROVE  /\ mem'.recs = mem.recs /\ DOMAIN mem' = {"recs", "gaps"}
         /\ DOMAIN mem'.gaps = Locators /\ loc \in Locators
         /\ mem'.gaps[loc] = g
         /\ \A l \in Locators : l # loc => mem'.gaps[l] = mem.gaps[l]
<1>1. mem' = [mem EXCEPT !.gaps = ObserveGap(mem.gaps, loc, g)] /\ g.class = "missing"
      /\ j \in Items /\ loc \in NamedBy(j)
  BY DEF Notes
<1>2. loc \in Locators
  BY <1>1, NamesAreLocators
<1>3. DOMAIN mem = {"recs", "gaps"} /\ DOMAIN mem.gaps = Locators
  BY DEF RunInv, GapsOK
<1>4. /\ mem'.recs = mem.recs /\ DOMAIN mem' = {"recs", "gaps"}
      /\ mem'.gaps = ObserveGap(mem.gaps, loc, g)
  BY <1>1, <1>3
<1> DEFINE h == ObserveGap(mem.gaps, loc, g)
<1>5. /\ DOMAIN h = Locators
      /\ \A l \in Locators : l # loc => h[l] = mem.gaps[l]
      /\ h[loc] # g => g.class = "info"
  BY <1>2, <1>3 DEF ObserveGap
<1> HIDE DEF h
<1>6. mem'.gaps = h
  BY <1>4 DEF h
<1> QED
  BY <1>1, <1>2, <1>4, <1>5, <1>6

LEMMA NotesStep ==
  ASSUME RunInv, NEW loc, NEW g, NEW j, NEW M, Notes(loc, g, j, M), left' \in Nat
  PROVE  RunInv'
<1>1. /\ mem'.recs = mem.recs /\ DOMAIN mem' = {"recs", "gaps"}
      /\ DOMAIN mem'.gaps = Locators /\ loc \in Locators
      /\ mem'.gaps[loc] = g
      /\ \A l \in Locators : l # loc => mem'.gaps[l] = mem.gaps[l]
  BY NotedGaps
<1>2. /\ UNCHANGED <<kind, run, saved, cur>> /\ j \in Items /\ loc \in NamedBy(j)
      /\ g # None /\ g.run = run /\ g.class = "missing" /\ g.folder = Folder[j]
      /\ WalkTyped' /\ ~walk.final /\ ~walk'.final /\ walk.why # "fatal"
      /\ walk'.why # "fatal" /\ pc \in {"next", "zip", "page"}
      /\ pc' \in {"check", "finish", "next"}
  BY DEF Notes
<1>3. GapNow(loc)' /\ \A l \in Locators : GapNow(l) => GapNow(l)'
  BY <1>1, <1>2 DEF GapNow
<1>4. HandTyped'
  BY <1>2 DEF RunInv, HandTyped
<1>5. RecsOK(mem)' /\ RecsOK(saved)'
  BY <1>1, <1>2 DEF RunInv, RecsOK, Kept
<1>6. GapsOK(mem)' /\ GapsOK(saved)'
  BY <1>1, <1>2 DEF RunInv, GapsOK
<1>7. EndsOK'
  BY <1>2 DEF EndsOK
<1>8. \A i \in M : /\ i \in Items /\ loc \in NamedBy(i) /\ Folder[i] = Folder[j]
                   /\ NamedNow(i)'
  BY <1>1, <1>2, <1>3 DEF Notes, NamedNow
<1>9. ASSUME NEW i \in Items, NamedNow(i) PROVE NamedNow(i)'
  <2>1. PICK l \in NamedBy(i) : GapNow(l) /\ mem.gaps[l].folder = Folder[i]
    BY <1>9 DEF NamedNow
  <2>2. l \in Locators /\ GapNow(l)'
    BY <2>1, <1>3, NamesAreLocators
  <2>3. CASE l # loc
    BY <1>1, <2>1, <2>2, <2>3 DEF NamedNow
  <2>4. CASE l = loc
    <3>1. Folder[j] = Folder[i]
      <4>1. CASE loc[1] = "own"
        BY <4>1, <1>2, <2>1, <2>4, NamesApart
      <4>2. CASE loc[1] = "place"
        <5>1. <<"place", Place[i]>> = <<"place", Place[j]>>
          BY <4>2, <1>2, <2>1, <2>4, NamesApart
        <5> QED
          BY <5>1, <1>2, PlaceAssumption
      <4>3. CASE loc[1] \in {"folder", "table"}
        <5>1. \/ <<"folder", Folder[i]>> = <<"folder", Folder[j]>>
              \/ <<"table", Folder[i]>> = <<"table", Folder[j]>>
          BY <4>3, <1>2, <2>1, <2>4, NamesApart
        <5> QED
          BY <5>1
      <4>4. CASE loc = <<"id", MsgId[j]>>
        BY <4>4, <2>1, <2>4 DEF Notes
      <4>5. CASE loc[1] = "id" /\ loc # <<"id", MsgId[j]>>
        <5>1. loc = <<"id", MsgId[j], Folder[j]>>
          BY <4>5, <1>2, NamesApart
        <5>2. loc \in {<<"id", MsgId[i]>>, <<"id", MsgId[i], Folder[i]>>}
          BY <4>5, <2>1, <2>4, NamesApart
        <5>3. <<"id", MsgId[i]>> # <<"id", MsgId[j], Folder[j]>>
          BY ShortIsNotLong
        <5> QED
          BY <5>1, <5>2, <5>3
      <4> QED
        BY <4>1, <4>2, <4>3, <4>4, <4>5, <1>2, NamesApart
    <3> QED
      BY <1>1, <1>2, <1>3, <2>1, <2>4, <3>1 DEF NamedNow
  <2> QED
    BY <2>3, <2>4
<1>10. MetInv'
  <2> SUFFICES ASSUME NEW i \in walk'.met
               PROVE  Kept(mem, i)' \/ NamedNow(i)' \/ Place[i] \in walk'.gone
    BY DEF MetInv
  <2>1. CASE i \in M
    BY <2>1, <1>8
  <2>2. CASE i \notin M
    <3>1. i \in walk.met /\ i \in Items /\ ~InHand(i)
      BY <2>2, <1>2 DEF Notes, RunInv, WalkTyped, InHand
    <3>2. Kept(mem, i) \/ NamedNow(i) \/ Place[i] \in walk.gone
      BY <3>1, <1>2 DEF RunInv, MetInv, Walking
    <3>3. walk.gone \subseteq walk'.gone /\ (Kept(mem, i) => Kept(mem, i)')
      BY <1>1 DEF Notes, Kept
    <3> QED
      BY <3>1, <3>2, <3>3, <1>9
  <2> QED
    BY <2>1, <2>2
<1>11. GoneInv'
  <2> SUFFICES ASSUME NEW p \in Places, mem'.gaps[<<"place", p>>] # None,
                      mem'.gaps[<<"place", p>>].run = run,
                      mem'.gaps[<<"place", p>>].reason = "vanished"
               PROVE  p \in walk'.gone
    BY <1>2 DEF GoneInv
  <2>1. CASE loc = <<"place", p>>
    <3>1. loc = <<"place", Place[j]>> /\ Place[j] \in walk'.gone
      BY <1>1, <2>1 DEF Notes
    <3> QED
      BY <2>1, <3>1
  <2>2. CASE loc # <<"place", p>>
    <3>1. mem'.gaps[<<"place", p>>] = mem.gaps[<<"place", p>>]
      BY <1>1, <2>2, PlaceIsLocator
    <3> QED
      BY <1>2, <3>1 DEF RunInv, GoneInv, Notes
  <2> QED
    BY <2>1, <2>2
<1>12. PartInv'
  <2> SUFFICES ASSUME kind = "pst", ~walk'.unread, NEW i \in walk'.met
               PROVE  NotPartly(i)' \/ \E l \in Sticky(i) : GapNow(l)'
    BY <1>2 DEF PartInv
  <2>1. CASE i \in M
    <3>1. loc \in NamedBy(i) /\ loc[1] \in {"own", "folder", "table"} /\ i \in Items
      BY <2>1, <1>8 DEF Notes
    <3>2. loc \in Sticky(i)
      BY <3>1, NamesApart DEF Sticky
    <3> QED
      BY <3>2, <1>3
  <2>2. CASE i \notin M
    <3>1. i \in walk.met /\ i \in Items /\ ~InHand(i) /\ ~walk.unread
      BY <2>2, <1>2 DEF Notes, RunInv, WalkTyped, InHand
    <3>2. NotPartly(i) \/ \E l \in Sticky(i) : GapNow(l)
      BY <3>1, <1>2 DEF RunInv, PartInv, Walking
    <3>3. NotPartly(i) => NotPartly(i)'
      BY <1>1 DEF NotPartly, Kept
    <3> QED
      BY <3>1, <3>2, <3>3, <1>3, NamesAreLocators
  <2> QED
    BY <2>1, <2>2
<1>13. FaultedInv'
  <2> SUFFICES ASSUME NEW f \in walk'.faulted
               PROVE  GapNow(<<"folder", f>>)' \/ GapNow(<<"table", f>>)'
    BY DEF FaultedInv
  <2>1. f \in walk.faulted \/ loc \in {<<"folder", f>>, <<"table", f>>}
    BY DEF Notes
  <2>2. f \in Folders
    BY <1>2 DEF WalkTyped
  <2> QED
    BY <1>3, <2>1, <2>2, FolderIsLocator DEF RunInv, FaultedInv
<1>14. EndInv'
  BY <1>2 DEF EndInv
<1>15. PstInv'
  BY <1>1, <1>2 DEF RunInv, PstInv, Notes
<1>16. OldInv'
  <2> SUFFICES ASSUME kind = "pst", NEW i \in Items, Named(saved, i)
               PROVE  Named(mem, i)' \/ Kept(mem, i)'
    BY <1>2 DEF OldInv, Named
  <2>1. CASE Kept(mem, i)
    BY <2>1, <1>1 DEF Kept
  <2>2. CASE Named(mem, i)
    <3>1. PICK l \in NamedBy(i) : /\ mem.gaps[l] # None /\ mem.gaps[l].class = "missing"
                                  /\ mem.gaps[l].folder = Folder[i]
      BY <2>2 DEF Named
    <3>2. l \in Locators
      BY <3>1, NamesAreLocators
    <3>3. CASE l # loc
      BY <1>1, <3>1, <3>2, <3>3 DEF Named
    <3>4. CASE l = loc
      <4>1. loc[1] \in {"own", "folder", "table"}
        BY DEF Notes
      <4>2. Folder[j] = Folder[i]
        <5>1. \/ <<"own", i>> = <<"own", j>>
              \/ <<"folder", Folder[i]>> = <<"folder", Folder[j]>>
              \/ <<"table", Folder[i]>> = <<"table", Folder[j]>>
          BY <4>1, <1>2, <3>1, <3>4, NamesApart
        <5> QED
          BY <5>1
      <4> QED
        BY <1>1, <1>2, <3>1, <3>4, <4>2 DEF Named
    <3> QED
      BY <3>3, <3>4
  <2> QED
    BY <2>1, <2>2, <1>2 DEF RunInv, OldInv
<1>17. run' \in Nat
  BY <1>2 DEF RunInv
<1> QED
  BY <1>2, <1>4, <1>5, <1>6, <1>7, <1>10, <1>11, <1>12, <1>13, <1>14, <1>15, <1>16,
     <1>17 DEF RunInv

(***************************************************************************)
(* An item that is already archived.                                       *)
(***************************************************************************)
(* The ledger with what an item's presence answers, and at most a note that
   its own copy was not refreshed. *)
Lighter(gaps, i) ==
  /\ DOMAIN gaps = Locators
  /\ \A l \in Locators :
       \/ gaps[l] = mem.gaps[l]
       \/ gaps[l] = None /\ l \in VanishedNow(mem.gaps, i)
       \/ /\ gaps[l] # None /\ gaps[l].run = run /\ gaps[l].class = "info"
          /\ gaps[l].reason # "vanished" /\ l[1] = "id" /\ ~GapNow(l)

Answers(i) ==
  /\ UNCHANGED <<kind, run, saved, cur, told>>
  /\ i \in Items /\ mem'.recs = mem.recs /\ DOMAIN mem' = {"recs", "gaps"}
  /\ Lighter(mem'.gaps, i)
  /\ pc = "next" /\ pc' \in {"check", "finish", "next"}
  /\ ~walk.final /\ ~walk'.final /\ walk.why # "fatal" /\ walk'.why # "fatal"
  /\ WalkTyped' /\ walk'.began = walk.began /\ walk'.met = walk.met \union {i}
  /\ walk'.gone = walk.gone /\ walk'.faulted = walk.faulted
  /\ walk.unread => walk'.unread
  /\ Kept(mem, i) /\ (walk'.unread \/ NotPartly(i))

LEMMA LighterClose ==
  ASSUME RunInv, NEW i \in Items, NEW gaps, DOMAIN gaps = Locators,
         \A l \in Locators :
           \/ gaps[l] = mem.gaps[l]
           \/ /\ gaps[l] # None /\ gaps[l].run = run /\ gaps[l].class = "info"
              /\ gaps[l].reason # "vanished" /\ l[1] = "id" /\ ~GapNow(l)
  PROVE  Lighter(Close(gaps, VanishedNow(gaps, i)), i)
<1>1. \A l \in VanishedNow(gaps, i) : l \in VanishedNow(mem.gaps, i)
  <2>1. <<"place", Place[i]>> \in Locators /\ <<"place", Place[i]>>[1] # "id"
    BY PlaceIsLocator DEF Places
  <2> QED
    BY <2>1 DEF VanishedNow
<1>2. /\ DOMAIN Close(gaps, VanishedNow(gaps, i)) = Locators
      /\ \A l \in Locators :
           /\ l \in VanishedNow(gaps, i) => Close(gaps, VanishedNow(gaps, i))[l] = None
           /\ l \notin VanishedNow(gaps, i)
                => Close(gaps, VanishedNow(gaps, i))[l] = gaps[l]
  BY ClosedGaps
<1> DEFINE h == Close(gaps, VanishedNow(gaps, i))
<1> HIDE DEF h
<1>3. \A l \in Locators : \/ h[l] = None /\ l \in VanishedNow(mem.gaps, i)
                          \/ h[l] = gaps[l]
  BY <1>1, <1>2 DEF h
<1>4. Lighter(h, i)
  BY <1>2, <1>3 DEF Lighter, h
<1> QED
  BY <1>4 DEF h

LEMMA KeepAnswers ==
  ASSUME RunInv, NEW read, Keep(read) PROVE Answers(Item)
<1> DEFINE loc == <<"id", MsgId[Item]>>
           g == Gap(Item, "refresh-failed", "info")
           noted == ObserveGap(mem.gaps, loc, g)
<1>1. /\ AtItem /\ UNCHANGED <<kind, run, saved, cur, told>> /\ Goto(Met(Item))
      /\ mem' = [mem EXCEPT !.gaps = Close(noted, VanishedNow(noted, Item))]
      /\ KeepsDegraded(Item, read)
  BY DEF Keep, about, disk
<1>2. /\ Item \in Items /\ pc = "next" /\ walk.pos + 1 \in Nat \ {0}
      /\ ~walk.final /\ walk.why # "fatal"
  BY <1>1, AtItemFacts
<1>3. /\ DOMAIN mem = {"recs", "gaps"} /\ DOMAIN mem.gaps = Locators
      /\ loc \in Locators
  BY <1>2 DEF RunInv, GapsOK, Locators, Ids
<1>4. /\ g # None /\ g.run = run /\ g.class = "info" /\ g.reason = "refresh-failed"
  <2>1. "refresh-failed" \in Reasons /\ run \in Nat
    BY DEF Reasons, RunInv
  <2> QED
    BY <1>2, <2>1, GapIsGap
<1>5. loc[1] = "id"
  OBVIOUS
<1> HIDE DEF g, loc
<1>6. /\ DOMAIN noted = Locators
      /\ \A l \in Locators : l # loc => noted[l] = mem.gaps[l]
      /\ noted[loc] = mem.gaps[loc] \/ (noted[loc] = g /\ ~GapNow(loc))
  BY <1>3, <1>4 DEF ObserveGap, GapNow
<1> HIDE DEF noted
<1>7. \A l \in Locators :
           \/ noted[l] = mem.gaps[l]
           \/ /\ noted[l] # None /\ noted[l].run = run /\ noted[l].class = "info"
              /\ noted[l].reason # "vanished" /\ l[1] = "id" /\ ~GapNow(l)
  BY <1>4, <1>5, <1>6
<1>8. Lighter(Close(noted, VanishedNow(noted, Item)), Item)
  BY <1>2, <1>6, <1>7, LighterClose
<1>9. /\ walk' = Met(Item) /\ pc' \in {"check", "finish", "next"}
  BY <1>1, <1>2, GotoFacts, MetFacts DEF RunInv
<1>10. WalkTyped' /\ walk'.met = walk.met \union {Item} /\ walk'.began = walk.began
       /\ walk'.gone = walk.gone /\ walk'.faulted = walk.faulted
       /\ walk'.unread = walk.unread /\ walk'.final = walk.final /\ walk'.why = walk.why
  BY <1>2, <1>9, MetFacts DEF RunInv, WalkTyped
<1>11. Kept(mem, Item) /\ NotPartly(Item)
  BY <1>1 DEF KeepsDegraded, Kept, NotPartly
<1>12. /\ mem'.recs = mem.recs /\ DOMAIN mem' = {"recs", "gaps"}
       /\ mem'.gaps = Close(noted, VanishedNow(noted, Item))
  BY <1>1, <1>3
<1> QED
  BY <1>1, <1>2, <1>8, <1>9, <1>10, <1>11, <1>12 DEF Answers

(* What an incremental run skips is archived, and what is skipped as whole is
   not recorded as partly read. *)
LEMMA ArchivedIsKept ==
  ASSUME RunInv, NEW i \in Items, NEW read, Archived(i, read)
  PROVE  Kept(mem, i) /\ (read # "part" => NotPartly(i))
BY DEF Archived, Key, Improves, Kept, NotPartly

LEMMA SkipAnswers ==
  ASSUME RunInv, NEW read, Skip(read) PROVE Answers(Item)
<1> DEFINE w == [Met(Item) EXCEPT !.unread = @ \/ read = "part"]
<1>1. /\ AtItem /\ UNCHANGED <<kind, run, saved, cur, told>> /\ Goto(w)
      /\ mem' = [mem EXCEPT !.gaps = Close(mem.gaps, VanishedNow(mem.gaps, Item))]
      /\ Archived(Item, read)
  BY DEF Skip, about, disk
<1>2. /\ Item \in Items /\ pc = "next" /\ walk.pos + 1 \in Nat \ {0}
      /\ ~walk.final /\ walk.why # "fatal"
  BY <1>1, AtItemFacts
<1>3. DOMAIN mem = {"recs", "gaps"} /\ DOMAIN mem.gaps = Locators
  BY DEF RunInv, GapsOK
<1>4. Lighter(Close(mem.gaps, VanishedNow(mem.gaps, Item)), Item)
  BY <1>2, <1>3, LighterClose
<1>5. /\ DOMAIN Met(Item) = WalkFields
      /\ Met(Item).pos = walk.pos + 1 /\ Met(Item).met = walk.met \union {Item}
      /\ Met(Item).why = walk.why /\ Met(Item).began = walk.began
      /\ Met(Item).gone = walk.gone /\ Met(Item).unread = walk.unread
      /\ Met(Item).final = walk.final /\ Met(Item).saveErr = walk.saveErr
      /\ Met(Item).faulted = walk.faulted
  BY MetFacts DEF RunInv
<1>6. /\ DOMAIN w = WalkFields
      /\ w.pos = walk.pos + 1 /\ w.met = walk.met \union {Item}
      /\ w.why = walk.why /\ w.began = walk.began
      /\ w.gone = walk.gone /\ w.unread = (walk.unread \/ read = "part")
      /\ w.final = walk.final /\ w.faulted = walk.faulted
  BY <1>5 DEF WalkFields
<1> HIDE DEF w
<1>7. walk' = w /\ pc' \in {"check", "finish", "next"}
  BY <1>1, <1>2, <1>6, GotoFacts
<1>8. WalkTyped'
  BY <1>2, <1>6, <1>7 DEF RunInv, WalkTyped
<1>9. Kept(mem, Item) /\ (walk'.unread \/ NotPartly(Item))
  BY <1>1, <1>2, <1>6, <1>7, ArchivedIsKept
<1>10. /\ mem'.recs = mem.recs /\ DOMAIN mem' = {"recs", "gaps"}
       /\ mem'.gaps = Close(mem.gaps, VanishedNow(mem.gaps, Item))
  BY <1>1, <1>3
<1> QED
  BY <1>1, <1>2, <1>4, <1>6, <1>7, <1>8, <1>9, <1>10 DEF Answers

LEMMA AnswersStep == ASSUME RunInv, NEW n, Answers(n), left' \in Nat PROVE RunInv'
<1>1. /\ UNCHANGED <<kind, run, saved, cur>> /\ n \in Items
      /\ mem'.recs = mem.recs /\ DOMAIN mem' = {"recs", "gaps"}
      /\ pc = "next" /\ pc' \in {"check", "finish", "next"}
      /\ ~walk.final /\ ~walk'.final /\ walk.why # "fatal" /\ walk'.why # "fatal"
      /\ WalkTyped' /\ walk'.met = walk.met \union {n}
      /\ walk'.gone = walk.gone /\ walk'.faulted = walk.faulted
  BY DEF Answers
<1>2. /\ DOMAIN mem'.gaps = Locators
      /\ \A l \in Locators :
           \/ mem'.gaps[l] = mem.gaps[l]
           \/ /\ mem'.gaps[l] = None
              /\ l = <<"place", Place[n]>> /\ Place[n] \in walk.gone
           \/ /\ mem'.gaps[l] # None /\ mem'.gaps[l].run = run
              /\ mem'.gaps[l].class = "info" /\ mem'.gaps[l].reason # "vanished"
              /\ l[1] = "id" /\ ~GapNow(l)
  <2>1. \A l \in VanishedNow(mem.gaps, n) :
          l = <<"place", Place[n]>> /\ Place[n] \in walk.gone
    BY <1>1, VanishedIsGone DEF RunInv
  <2> QED
    BY <2>1 DEF Answers, Lighter
<1>3. \A l \in Locators : GapNow(l) =>
        \/ GapNow(l)' /\ mem'.gaps[l] = mem.gaps[l]
        \/ l = <<"place", Place[n]>> /\ Place[n] \in walk.gone
  <2> SUFFICES ASSUME NEW l \in Locators, GapNow(l), mem'.gaps[l] = mem.gaps[l]
               PROVE  GapNow(l)'
    BY <1>2
  <2> QED
    BY <1>1 DEF GapNow
<1>4. HandTyped' /\ EndsOK' /\ EndInv'
  BY <1>1 DEF RunInv, HandTyped, EndsOK, EndInv
<1>5. RecsOK(mem)' /\ RecsOK(saved)'
  BY <1>1 DEF RunInv, RecsOK, Kept
<1>6. GapsOK(mem)' /\ GapsOK(saved)'
  BY <1>1, <1>2 DEF RunInv, GapsOK
<1>7. MetInv'
  <2> SUFFICES ASSUME NEW i \in walk'.met
               PROVE  Kept(mem, i)' \/ NamedNow(i)' \/ Place[i] \in walk'.gone
    BY DEF MetInv
  <2>1. CASE i = n
    BY <2>1, <1>1 DEF Answers, Kept
  <2>2. CASE i # n
    <3>1. i \in walk.met /\ i \in Items /\ ~InHand(i)
      BY <2>2, <1>1 DEF WalkTyped, InHand
    <3>2. Kept(mem, i) \/ NamedNow(i) \/ Place[i] \in walk.gone
      BY <3>1, <1>1 DEF RunInv, MetInv, Walking
    <3>3. CASE NamedNow(i)
      <4>1. PICK l \in NamedBy(i) : GapNow(l) /\ mem.gaps[l].folder = Folder[i]
        BY <3>3 DEF NamedNow
      <4>2. l \in Locators
        BY <3>1, <4>1, NamesAreLocators
      <4>3. CASE GapNow(l)' /\ mem'.gaps[l] = mem.gaps[l]
        BY <4>1, <4>3 DEF NamedNow
      <4>4. CASE l = <<"place", Place[n]>> /\ Place[n] \in walk.gone
        <5>1. <<"place", Place[n]>> = <<"place", Place[i]>>
          BY <3>1, <4>1, <4>4, NamesApart
        <5> QED
          BY <5>1, <4>4, <1>1
      <4> QED
        BY <4>1, <4>2, <4>3, <4>4, <1>3
    <3> QED
      BY <1>1, <3>2, <3>3 DEF Kept
  <2> QED
    BY <2>1, <2>2
<1>8. GoneInv'
  <2> SUFFICES ASSUME NEW p \in Places, mem'.gaps[<<"place", p>>] # None,
                      mem'.gaps[<<"place", p>>].run = run,
                      mem'.gaps[<<"place", p>>].reason = "vanished"
               PROVE  p \in walk.gone
    BY <1>1 DEF GoneInv
  <2>1. mem'.gaps[<<"place", p>>] = mem.gaps[<<"place", p>>]
    BY <1>2, PlaceIsLocator
  <2> QED
    BY <1>1, <2>1 DEF RunInv, GoneInv
<1>9. PartInv'
  <2> SUFFICES ASSUME kind = "pst", ~walk'.unread, NEW i \in walk'.met
               PROVE  NotPartly(i)' \/ \E l \in Sticky(i) : GapNow(l)'
    BY <1>1 DEF PartInv
  <2>1. NotPartly(i) => NotPartly(i)'
    BY <1>1 DEF NotPartly, Kept
  <2>2. CASE i = n
    BY <2>1, <2>2 DEF Answers
  <2>3. CASE i # n
    <3>1. i \in walk.met /\ i \in Items /\ ~InHand(i) /\ ~walk.unread
      BY <2>3, <1>1 DEF WalkTyped, InHand, Answers
    <3>2. NotPartly(i) \/ \E l \in Sticky(i) : GapNow(l)
      BY <3>1, <1>1 DEF RunInv, PartInv, Walking
    <3>3. \A l \in Sticky(i) : l \in Locators /\ l # <<"place", Place[n]>>
      BY <3>1, StickyApart
    <3> QED
      BY <2>1, <3>2, <3>3, <1>3
  <2> QED
    BY <2>2, <2>3
<1>10. FaultedInv'
  <2> SUFFICES ASSUME NEW f \in walk.faulted
               PROVE  GapNow(<<"folder", f>>)' \/ GapNow(<<"table", f>>)'
    BY <1>1 DEF FaultedInv
  <2>1. f \in Folders
    BY DEF RunInv, WalkTyped
  <2>2. /\ <<"folder", f>> \in Locators /\ <<"folder", f>> # <<"place", Place[n]>>
        /\ <<"table", f>> \in Locators /\ <<"table", f>> # <<"place", Place[n]>>
    BY <2>1, FolderIsLocator
  <2> QED
    BY <2>2, <1>3 DEF RunInv, FaultedInv
<1>11. PstInv'
  BY <1>1, <1>2 DEF RunInv, PstInv
<1>12. OldInv'
  <2> SUFFICES ASSUME kind = "pst", NEW i \in Items, Named(saved, i)
               PROVE  Named(mem, i)' \/ Kept(mem, i)'
    BY <1>1 DEF OldInv, Named
  <2>1. CASE Kept(mem, i)
    BY <2>1, <1>1 DEF Kept
  <2>2. CASE Named(mem, i)
    <3>1. PICK l \in NamedBy(i) : /\ mem.gaps[l] # None /\ mem.gaps[l].class = "missing"
                                  /\ mem.gaps[l].folder = Folder[i]
      BY <2>2 DEF Named
    <3>2. l \in Locators
      BY <3>1, NamesAreLocators
    <3>3. l[1] \in {"own", "folder", "table"} /\ walk.gone = {}
      BY <3>1, <3>2 DEF RunInv, PstInv
    <3>4. mem'.gaps[l] = mem.gaps[l]
      BY <1>2, <3>2, <3>3
    <3> QED
      BY <3>1, <3>4 DEF Named
  <2> QED
    BY <2>1, <2>2, <1>1 DEF RunInv, OldInv
<1>13. run' \in Nat
  BY <1>1 DEF RunInv
<1> QED
  BY <1>1, <1>4, <1>5, <1>6, <1>7, <1>8, <1>9, <1>10, <1>11, <1>12, <1>13 DEF RunInv

(***************************************************************************)
(* An item that is captured.                                               *)
(***************************************************************************)
Captures(n) ==
  /\ UNCHANGED <<kind, run, saved, cur, told>>
  /\ n = cur.item /\ n \in Items /\ DOMAIN mem' = {"recs", "gaps"}
  /\ mem'.recs = [mem.recs EXCEPT ![cur.key] = NewRecord]
  /\ mem'.gaps = Recovered(mem.gaps, n)
  /\ pc = "page" /\ pc' \in {"oldpage", "check", "finish", "next"}
  /\ ~walk.final /\ ~walk'.final /\ walk.why # "fatal" /\ walk'.why # "fatal"
  /\ WalkTyped' /\ walk'.began = walk.began /\ walk'.met = walk.met
  /\ walk'.gone = walk.gone /\ walk'.faulted = walk.faulted
  /\ walk'.unread = (walk.unread \/ cur.read = "part")

LEMMA PageCaptures == ASSUME RunInv, WritePage PROVE Captures(cur.item)
<1> DEFINE w == [walk EXCEPT !.streak = 0, !.since = @ + 1,
                   !.unread = @ \/ cur.read = "part",
                   !.late = @ \union LateClose(mem.gaps, cur.item)]
<1>1. /\ UNCHANGED <<kind, run, saved, cur, told>> /\ pc = "page"
      /\ mem' = [recs |-> [mem.recs EXCEPT ![cur.key] = NewRecord],
                 gaps |-> Recovered(mem.gaps, cur.item)]
      /\ (walk' = w /\ pc' = "oldpage") \/ Goto(w)
  BY DEF WritePage, about
<1>2. cur.item \in Items /\ ~walk.final /\ walk.why # "fatal"
  BY <1>1, HandFacts
<1>3. /\ DOMAIN w = WalkFields /\ w.pos = walk.pos /\ w.met = walk.met
      /\ w.why = walk.why /\ w.began = walk.began
      /\ w.gone = walk.gone /\ w.unread = (walk.unread \/ cur.read = "part")
      /\ w.final = walk.final /\ w.faulted = walk.faulted
  BY RunWalk DEF WalkFields
<1> HIDE DEF w
<1>4. walk' = w /\ pc' \in {"oldpage", "check", "finish", "next"}
  BY <1>1, <1>2, <1>3, GotoFacts
<1>5. WalkTyped'
  BY <1>3, <1>4 DEF RunInv, WalkTyped
<1> QED
  BY <1>1, <1>2, <1>3, <1>4, <1>5 DEF Captures

(* The record a capture leaves. *)
LEMMA NewRecordFacts ==
  ASSUME RunInv, FilesInv, pc = "page"
  PROVE  /\ NewRecord # None /\ NewRecord.body = Body[cur.item]
         /\ NewRecord.gap \subseteq {"att", "part"}
         /\ "part" \in NewRecord.gap => cur.read = "part"
         /\ cur.read = "whole" /\ cur.zip => NewRecord.gap = {}
<1>1. /\ cur.item \in Items /\ cur.zip \in BOOLEAN /\ cur.key = Key(cur.item, cur.read)
  BY DEF RunInv, HandTyped
<1>2. cur.key \in Keys
  BY <1>1, KeysOf DEF Key
<1>3. naming \in Names /\ caps[cur.key] \in Nat
  BY <1>2 DEF FilesInv
<1>4. Body[cur.item] \in {Body[i] : i \in Items}
  BY <1>1
<1> DEFINE gap == IF cur.read = "part" THEN {"part"}
                  ELSE IF cur.zip THEN {} ELSE {"att"}
<1>5. /\ gap \in SUBSET {"att", "part"} /\ ("part" \in gap => cur.read = "part")
      /\ cur.read = "whole" /\ cur.zip => gap = {}
  OBVIOUS
<1>6. NewRecord = [name |-> naming, cap |-> caps[cur.key], zip |-> cur.zip,
                   gap |-> gap, body |-> Body[cur.item]]
  BY DEF NewRecord
<1> HIDE DEF gap
<1>7. NewRecord \in [name : Names, cap : Nat, zip : BOOLEAN,
                     gap : SUBSET {"att", "part"}, body : {Body[i] : i \in Items}]
  BY <1>1, <1>3, <1>4, <1>5, <1>6
<1> QED
  BY <1>5, <1>6, <1>7, NoneAssumption

LEMMA KeyApart ==
  ASSUME NEW i \in Items, NEW k \in Items
  PROVE  /\ Plain(i) # Qualified(k)
         /\ Plain(i) = Plain(k) <=> Folder[i] = Folder[k] /\ MsgId[i] = MsgId[k]
         /\ Qualified(i) = Qualified(k) => Plain(i) = Plain(k) /\ Body[i] = Body[k]
BY BodyAssumption DEF Plain, Qualified

(* The two kinds of capture: of the first comer or of a degraded read, and of
   a different message. *)
LEMMA CaptureKey ==
  ASSUME RunInv, pc \in {"zip", "page"}
  PROVE  /\ cur.item \in Items /\ cur.key \in Keys
         /\ \/ /\ cur.key = Plain(cur.item)
               /\ \/ cur.read = "part" \/ ~Kept(mem, cur.item)
                  \/ mem.recs[Plain(cur.item)].body = Body[cur.item]
            \/ /\ cur.key = Qualified(cur.item) /\ cur.read # "part"
               /\ Kept(mem, cur.item)
               /\ mem.recs[Plain(cur.item)].body # Body[cur.item]
<1>1. cur.item \in Items /\ cur.key = Key(cur.item, cur.read)
  BY DEF RunInv, HandTyped
<1> QED
  BY <1>1, KeysOf DEF Key, Kept

LEMMA CapturedRecs ==
  ASSUME RunInv, FilesInv, NEW n, Captures(n)
  PROVE  /\ RecsOK(mem)' /\ Kept(mem, n)'
         /\ \A i \in Items : Kept(mem, i) => Kept(mem, i)'
         /\ DOMAIN mem.recs = Keys
         /\ \A k \in Keys : k # cur.key => mem'.recs[k] = mem.recs[k]
         /\ mem'.recs[cur.key] = NewRecord
<1>1. /\ n = cur.item /\ n \in Items /\ pc = "page" /\ UNCHANGED kind
      /\ DOMAIN mem' = {"recs", "gaps"}
      /\ mem'.recs = [mem.recs EXCEPT ![cur.key] = NewRecord]
  BY DEF Captures
<1>2. /\ cur.key \in Keys
      /\ \/ /\ cur.key = Plain(n)
         \/ /\ cur.key = Qualified(n) /\ cur.read # "part" /\ Kept(mem, n)
  BY <1>1, CaptureKey
<1>3. /\ NewRecord # None /\ NewRecord.body = Body[n]
      /\ NewRecord.gap \subseteq {"att", "part"}
      /\ "part" \in NewRecord.gap => cur.read = "part"
  BY <1>1, NewRecordFacts
<1>4. cur.read = "part" => kind = "pst"
  BY <1>1 DEF RunInv, HandTyped
<1>5. DOMAIN mem.recs = Keys
  BY DEF RunInv, RecsOK
<1>6. /\ DOMAIN mem'.recs = Keys /\ mem'.recs[cur.key] = NewRecord
      /\ \A k \in Keys : k # cur.key => mem'.recs[k] = mem.recs[k]
  BY <1>1, <1>2, <1>5
<1>7. \A i \in Items : Kept(mem, i) => Kept(mem, i)'
  BY <1>3, <1>6, KeysOf DEF Kept
<1>8. Kept(mem, n)'
  BY <1>1, <1>2, <1>3, <1>6, <1>7 DEF Kept
<1>9. ASSUME NEW i \in Items, Kept(mem, i)'
      PROVE  /\ \E j \in Items : Plain(j) = Plain(i) /\ mem'.recs[Plain(i)].body = Body[j]
             /\ mem'.recs[Plain(i)].gap \subseteq {"att", "part"}
             /\ "part" \in mem'.recs[Plain(i)].gap => kind' = "pst"
  <2>1. CASE Plain(i) = cur.key
    <3>1. Plain(n) = Plain(i)
      BY <1>1, <1>2, <2>1, KeyApart
    <3> QED
      BY <1>1, <1>3, <1>4, <1>6, <2>1, <3>1
  <2>2. CASE Plain(i) # cur.key
    <3>1. mem'.recs[Plain(i)] = mem.recs[Plain(i)]
      BY <1>6, <2>2, KeysOf
    <3> QED
      BY <1>1, <1>9, <3>1 DEF RunInv, RecsOK, Kept
  <2> QED
    BY <2>1, <2>2
<1>10. ASSUME NEW i \in Items, mem'.recs[Qualified(i)] # None
       PROVE  /\ Kept(mem, i)' /\ mem'.recs[Qualified(i)].body = Body[i]
              /\ mem'.recs[Qualified(i)].gap \subseteq {"att"}
  <2>1. CASE Qualified(i) = cur.key
    <3>1. cur.key = Qualified(n) /\ cur.read # "part" /\ Kept(mem, n)
      BY <1>1, <1>2, <2>1, KeyApart
    <3>2. Plain(i) = Plain(n) /\ Body[i] = Body[n]
      BY <1>1, <2>1, <3>1, KeyApart
    <3>3. Kept(mem, i)'
      BY <1>8, <3>2 DEF Kept
    <3> QED
      BY <1>3, <1>6, <2>1, <3>1, <3>2, <3>3
  <2>2. CASE Qualified(i) # cur.key
    <3>1. mem'.recs[Qualified(i)] = mem.recs[Qualified(i)]
      BY <1>6, <2>2, KeysOf
    <3>2. Kept(mem, i)
      BY <1>10, <3>1 DEF RunInv, RecsOK
    <3> QED
      BY <1>7, <1>10, <3>1, <3>2 DEF RunInv, RecsOK
  <2> QED
    BY <2>1, <2>2
<1>11. RecsOK(mem)'
  BY <1>1, <1>6, <1>9, <1>10 DEF RecsOK
<1> QED
  BY <1>5, <1>6, <1>7, <1>8, <1>11

LEMMA CapturesStep ==
  ASSUME RunInv, FilesInv, NEW n, Captures(n), left' \in Nat PROVE RunInv'
<1>1. /\ UNCHANGED <<kind, run, saved, cur>> /\ n = cur.item /\ n \in Items
      /\ mem'.gaps = Recovered(mem.gaps, n) /\ DOMAIN mem' = {"recs", "gaps"}
      /\ pc = "page" /\ pc' \in {"oldpage", "check", "finish", "next"}
      /\ ~walk.final /\ ~walk'.final /\ walk.why # "fatal" /\ walk'.why # "fatal"
      /\ WalkTyped' /\ walk'.met = walk.met
      /\ walk'.gone = walk.gone /\ walk'.faulted = walk.faulted
      /\ walk'.unread = (walk.unread \/ cur.read = "part")
  BY DEF Captures
<1>2. /\ RecsOK(mem)' /\ Kept(mem, n)' /\ \A i \in Items : Kept(mem, i) => Kept(mem, i)'
      /\ \A k \in Keys : k # cur.key => mem'.recs[k] = mem.recs[k]
      /\ mem'.recs[cur.key] = NewRecord
  BY CapturedRecs
<1>3. DOMAIN mem.gaps = Locators
  BY DEF RunInv, GapsOK
<1>4. /\ DOMAIN mem'.gaps = Locators
      /\ \A l \in Locators : mem'.gaps[l] = mem.gaps[l] \/ mem'.gaps[l] = None
      /\ \A l \in Locators : mem'.gaps[l] # mem.gaps[l] =>
           \/ kind = "pst" /\ l = <<"own", n>>
           \/ l = <<"place", Place[n]>> /\ Place[n] \in walk.gone
           \/ /\ l \in {<<"id", MsgId[n]>>, <<"id", MsgId[n], Folder[n]>>}
              /\ mem.gaps[l].folder = Folder[n]
  <2>1. \A l \in VanishedNow(mem.gaps, n) :
          l = <<"place", Place[n]>> /\ Place[n] \in walk.gone
    BY <1>1, VanishedIsGone DEF RunInv
  <2> DEFINE h == Recovered(mem.gaps, n)
  <2>2. /\ DOMAIN h = Locators
        /\ \A l \in Locators : h[l] = mem.gaps[l] \/ h[l] = None
        /\ \A l \in Locators : h[l] # mem.gaps[l] =>
             \/ kind = "pst" /\ l = <<"own", n>>
             \/ kind # "pst" /\ l \in VanishedNow(mem.gaps, n)
             \/ /\ l \in {<<"id", MsgId[n]>>, <<"id", MsgId[n], Folder[n]>>}
                /\ mem.gaps[l].folder = Folder[n]
    BY <1>1, <1>3, RecoveredGaps
  <2> HIDE DEF h
  <2>3. mem'.gaps = h
    BY <1>1 DEF h
  <2> QED
    BY <2>1, <2>2, <2>3
<1>5. \A l \in Locators : GapNow(l) =>
        \/ GapNow(l)' /\ mem'.gaps[l] = mem.gaps[l]
        \/ mem'.gaps[l] # mem.gaps[l]
  BY <1>1 DEF GapNow
<1>6. HandTyped' /\ EndsOK' /\ EndInv'
  BY <1>1 DEF RunInv, HandTyped, EndsOK, EndInv
<1>7. RecsOK(saved)'
  BY <1>1 DEF RunInv, RecsOK, Kept
<1>8. GapsOK(mem)' /\ GapsOK(saved)'
  BY <1>1, <1>4 DEF RunInv, GapsOK
<1>9. MetInv'
  <2> SUFFICES ASSUME NEW i \in walk'.met
               PROVE  Kept(mem, i)' \/ NamedNow(i)' \/ Place[i] \in walk'.gone
    BY DEF MetInv
  <2>1. i \in walk.met /\ i \in Items
    BY <1>1 DEF WalkTyped
  <2>2. CASE i = n
    BY <2>2, <1>2
  <2>3. CASE i # n
    <3>1. Kept(mem, i) \/ NamedNow(i) \/ Place[i] \in walk.gone
      BY <2>1, <2>3, <1>1 DEF RunInv, MetInv, Walking, InHand
    <3>2. CASE NamedNow(i)
      <4>1. PICK l \in NamedBy(i) : GapNow(l) /\ mem.gaps[l].folder = Folder[i]
        BY <3>2 DEF NamedNow
      <4>2. l \in Locators
        BY <2>1, <4>1, NamesAreLocators
      <4>3. CASE mem'.gaps[l] = mem.gaps[l]
        BY <4>1, <4>2, <4>3, <1>5 DEF NamedNow
      <4>4. CASE l = <<"own", n>>
        <5>1. <<"own", n>> = <<"own", i>>
          BY <2>1, <4>1, <4>4, NamesApart
        <5> QED
          BY <5>1, <2>3
      <4>5. CASE l = <<"place", Place[n]>> /\ Place[n] \in walk.gone
        <5>1. <<"place", Place[n]>> = <<"place", Place[i]>>
          BY <2>1, <4>1, <4>5, NamesApart
        <5> QED
          BY <5>1, <4>5, <1>1
      <4>6. CASE /\ l \in {<<"id", MsgId[n]>>, <<"id", MsgId[n], Folder[n]>>}
                 /\ mem.gaps[l].folder = Folder[n]
        <5>1. Folder[i] = Folder[n]
          BY <4>1, <4>6
        <5>2. l \in {<<"id", MsgId[i]>>, <<"id", MsgId[i], Folder[i]>>}
          BY <2>1, <4>1, <4>6, NamesApart
        <5>3. /\ <<"id", MsgId[i]>> # <<"id", MsgId[n], Folder[n]>>
              /\ <<"id", MsgId[n]>> # <<"id", MsgId[i], Folder[i]>>
          BY ShortIsNotLong
        <5>4. MsgId[i] = MsgId[n]
          BY <4>6, <5>2, <5>3
        <5>5. Plain(i) = Plain(n)
          BY <5>1, <5>4 DEF Plain
        <5> QED
          BY <1>2, <5>5 DEF Kept
      <4> QED
        BY <4>2, <4>3, <4>4, <4>5, <4>6, <1>4
    <3> QED
      BY <1>1, <1>2, <2>1, <3>1, <3>2
  <2> QED
    BY <2>2, <2>3
<1>10. GoneInv'
  BY <1>1, <1>4, PlaceIsLocator DEF RunInv, GoneInv
<1>11. PartInv'
  <2> SUFFICES ASSUME kind = "pst", ~walk'.unread, NEW i \in walk'.met
               PROVE  NotPartly(i)' \/ \E l \in Sticky(i) : GapNow(l)'
    BY <1>1 DEF PartInv
  <2>1. i \in walk.met /\ i \in Items /\ ~walk.unread /\ cur.read # "part"
    BY <1>1 DEF WalkTyped
  <2>2. /\ "part" \notin NewRecord.gap
    BY <1>1, <2>1, NewRecordFacts
  <2>3. CASE Plain(i) = cur.key
    BY <1>2, <2>2, <2>3 DEF NotPartly
  <2>4. CASE Plain(i) # cur.key
    <3>1. mem'.recs[Plain(i)] = mem.recs[Plain(i)]
      BY <1>2, <2>1, <2>4, KeysOf
    <3>2. NotPartly(i) => NotPartly(i)'
      BY <3>1 DEF NotPartly, Kept
    <3>3. CASE i = n
      <4>1. mem.recs[Plain(i)].body # Body[i]
        BY <1>1, <2>1, <2>4, <3>3, CaptureKey
      <4> QED
        BY <3>2, <4>1 DEF NotPartly
    <3>4. CASE i # n
      <4>1. NotPartly(i) \/ \E l \in Sticky(i) : GapNow(l)
        BY <1>1, <2>1, <3>4 DEF RunInv, PartInv, Walking, InHand
      <4>2. \A l \in Sticky(i) : /\ l \in Locators /\ l[1] # "id" /\ l # <<"own", n>>
                                 /\ l # <<"place", Place[n]>>
        <5>1. \A l \in Sticky(i) : l # <<"own", n>>
          BY <3>4 DEF Sticky
        <5> QED
          BY <2>1, <5>1, StickyApart
      <4>3. \A l \in Sticky(i) : mem'.gaps[l] = mem.gaps[l]
        BY <1>4, <4>2
      <4> QED
        BY <3>2, <4>1, <4>2, <4>3, <1>5
    <3> QED
      BY <3>3, <3>4
  <2> QED
    BY <2>3, <2>4
<1>12. FaultedInv'
  <2> SUFFICES ASSUME NEW f \in walk.faulted
               PROVE  GapNow(<<"folder", f>>)' \/ GapNow(<<"table", f>>)'
    BY <1>1 DEF FaultedInv
  <2>1. <<"folder", f>> \in Locators /\ <<"table", f>> \in Locators
    BY FolderIsLocator DEF RunInv, WalkTyped
  <2>2. /\ mem'.gaps[<<"folder", f>>] = mem.gaps[<<"folder", f>>]
        /\ mem'.gaps[<<"table", f>>] = mem.gaps[<<"table", f>>]
    BY <1>4, <2>1
  <2> QED
    BY <2>1, <2>2, <1>5 DEF RunInv, FaultedInv
<1>13. PstInv'
  BY <1>1, <1>4 DEF RunInv, PstInv
<1>14. OldInv'
  <2> SUFFICES ASSUME kind = "pst", NEW i \in Items, Named(saved, i)
               PROVE  Named(mem, i)' \/ Kept(mem, i)'
    BY <1>1 DEF OldInv, Named
  <2>1. CASE Kept(mem, i)
    BY <2>1, <1>2
  <2>2. CASE Named(mem, i)
    <3>1. PICK l \in NamedBy(i) : /\ mem.gaps[l] # None /\ mem.gaps[l].class = "missing"
                                  /\ mem.gaps[l].folder = Folder[i]
      BY <2>2 DEF Named
    <3>2. l \in Locators
      BY <3>1, NamesAreLocators
    <3>3. l[1] \in {"own", "folder", "table"}
      BY <3>1, <3>2 DEF RunInv, PstInv
    <3>4. CASE l = <<"own", n>>
      <4>1. <<"own", n>> = <<"own", i>>
        BY <3>1, <3>4, NamesApart
      <4> QED
        BY <4>1, <1>2
    <3>5. CASE l # <<"own", n>>
      <4>1. mem'.gaps[l] = mem.gaps[l]
        BY <1>4, <3>2, <3>3, <3>5
      <4> QED
        BY <3>1, <4>1 DEF Named
    <3> QED
      BY <3>4, <3>5
  <2> QED
    BY <2>1, <2>2, <1>1 DEF RunInv, OldInv
<1>15. run' \in Nat
  BY <1>1 DEF RunInv
<1> QED
  BY <1>1, <1>2, <1>6, <1>7, <1>8, <1>9, <1>10, <1>11, <1>12, <1>13, <1>14, <1>15 DEF RunInv

(***************************************************************************)
(* The run's beginning, its saves and its end.                             *)
(***************************************************************************)
LEMMA NoWalkFacts ==
  ASSUME NEW v, v \in Nat, walk' = [NoWalk EXCEPT !.began = v]
  PROVE  /\ WalkTyped' /\ walk'.final = FALSE /\ walk'.why = "walk"
         /\ walk'.met = {} /\ walk'.gone = {} /\ walk'.faulted = {}
         /\ walk'.pos = 1 /\ walk'.began = v /\ walk'.unread = FALSE
         /\ walk'.saveErr = FALSE /\ walk'.unwritable = {}
BY DEF NoWalk, WalkTyped, WalkFields, Ends

LEMMA NoWalkIsTyped ==
  ASSUME walk' = NoWalk
  PROVE  /\ WalkTyped' /\ walk'.final = FALSE /\ walk'.why = "walk"
         /\ walk'.met = {} /\ walk'.gone = {} /\ walk'.faulted = {}
BY DEF NoWalk, WalkTyped, WalkFields, Ends

(* Going back to what is saved, with an empty walk. *)
LEMMA FreshStep ==
  ASSUME RunInv, UNCHANGED <<kind, saved>>, mem' = saved, WalkTyped', HandTyped',
         run' \in Nat, left' \in Nat, run' >= run,
         walk'.final = FALSE, walk'.why = "walk",
         walk'.met = {}, walk'.gone = {}, walk'.faulted = {},
         pc' = "idle" => walk' = NoWalk, pc' # "report",
         pc' # "idle" => run' > run
  PROVE  RunInv'
<1>1. RecsOK(mem)' /\ RecsOK(saved)'
  BY DEF RunInv, RecsOK, Kept
<1>2. GapsOK(mem)' /\ GapsOK(saved)'
  <2>1. ASSUME NEW l \in Locators, saved.gaps[l] # None
        PROVE  /\ saved.gaps[l].run \in Nat /\ saved.gaps[l].run <= run'
               /\ saved.gaps[l].class \in {"missing", "info"}
    <3>1. saved.gaps[l].run \in Nat /\ saved.gaps[l].run <= run /\ run \in Nat
      BY <2>1 DEF RunInv, GapsOK
    <3> QED
      BY <2>1, <3>1 DEF RunInv, GapsOK
  <2> QED
    BY <2>1 DEF RunInv, GapsOK
<1>3. GoneInv'
  <2> SUFFICES ASSUME NEW p \in Places, pc' # "idle", saved.gaps[<<"place", p>>] # None
               PROVE  saved.gaps[<<"place", p>>].run # run'
    BY DEF GoneInv
  <2>1. /\ saved.gaps[<<"place", p>>].run \in Nat
        /\ saved.gaps[<<"place", p>>].run <= run /\ run \in Nat
    BY PlaceIsLocator DEF RunInv, GapsOK
  <2> QED
    BY <2>1
<1>4. EndsOK' /\ MetInv' /\ PartInv' /\ FaultedInv' /\ EndInv'
  BY DEF EndsOK, MetInv, PartInv, FaultedInv, EndInv
<1>5. PstInv' /\ OldInv'
  BY DEF RunInv, PstInv, OldInv, Named
<1> QED
  BY <1>1, <1>2, <1>3, <1>4, <1>5 DEF RunInv

LEMMA BeginRun == ASSUME RunInv, Begin, left' \in Nat PROVE RunInv'
<1>1. /\ run' = run + 1 /\ pc' = "next" /\ walk' = [NoWalk EXCEPT !.began = left]
      /\ mem' = saved /\ UNCHANGED <<kind, cur, saved>> /\ pc = "idle"
  BY DEF Begin
<1>2. left \in Nat /\ run \in Nat
  BY DEF RunInv
<1>3. /\ WalkTyped' /\ walk'.final = FALSE /\ walk'.why = "walk"
      /\ walk'.met = {} /\ walk'.gone = {} /\ walk'.faulted = {}
  BY <1>1, <1>2, NoWalkFacts
<1>4. HandTyped'
  BY <1>1 DEF RunInv, HandTyped
<1>5. run' \in Nat /\ run' >= run /\ run' > run /\ pc' # "idle" /\ pc' # "report"
  BY <1>1, <1>2
<1>6. UNCHANGED <<kind, saved>> /\ mem' = saved
  BY <1>1
<1> QED
  BY <1>3, <1>4, <1>5, <1>6, FreshStep

LEMMA EndRun == ASSUME RunInv, Report \/ Lost \/ Kill, left' \in Nat PROVE RunInv'
<1>1. /\ UNCHANGED <<kind, run, saved>> /\ Ended
  BY DEF Report, Lost, Kill, about, disk
<1>2. walk' = NoWalk /\ cur' = NoCapture /\ mem' = saved /\ pc' = "idle"
  BY <1>1 DEF Ended
<1>3. /\ WalkTyped' /\ walk'.final = FALSE /\ walk'.why = "walk"
      /\ walk'.met = {} /\ walk'.gone = {} /\ walk'.faulted = {}
  BY <1>2, NoWalkIsTyped
<1>4. HandTyped'
  BY <1>2 DEF HandTyped, NoCapture
<1>5. run' \in Nat /\ run' >= run
  BY <1>1 DEF RunInv
<1>6. UNCHANGED <<kind, saved>>
  BY <1>1
<1> QED
  BY <1>2, <1>3, <1>4, <1>5, <1>6, FreshStep

LEMMA SaveRun == ASSUME RunInv, Save, left' \in Nat PROVE RunInv'
<1>1. /\ pc = "save" /\ pc' = Onward(walk) /\ UNCHANGED <<kind, run, mem, cur>>
      /\ saved' = mem \/ saved' = saved
      /\ \/ saved' = mem /\ walk' = [walk EXCEPT !.saveErr = FALSE]
         \/ saved' = saved /\ walk' = [walk EXCEPT !.saveErr = TRUE]
  BY DEF Save, about
<1>2. /\ DOMAIN walk' = WalkFields /\ walk'.pos = walk.pos /\ walk'.met = walk.met
      /\ walk'.why = walk.why /\ walk'.began = walk.began /\ walk'.gone = walk.gone
      /\ walk'.unread = walk.unread /\ walk'.final = walk.final
      /\ walk'.faulted = walk.faulted
      /\ saved' = mem \/ walk'.saveErr
  BY <1>1, RunWalk DEF WalkFields
<1>3. /\ walk.final => pc' = "report"
      /\ ~walk.final => pc' \in {"finish", "next"} /\ walk.why # "fatal"
  BY <1>1 DEF RunInv, EndsOK, Onward
<1>4. WalkTyped' /\ HandTyped'
  BY <1>1, <1>2, <1>3 DEF RunInv, WalkTyped, HandTyped
<1>5. RecsOK(mem)' /\ RecsOK(saved)' /\ GapsOK(mem)' /\ GapsOK(saved)'
  BY <1>1 DEF RunInv, RecsOK, Kept, GapsOK
<1>6. EndsOK'
  BY <1>1, <1>2, <1>3 DEF EndsOK
<1>7. MetInv'
  <2> SUFFICES ASSUME Walking', NEW i \in walk.met
               PROVE  Kept(mem, i)' \/ NamedNow(i)' \/ Place[i] \in walk'.gone
    BY <1>2 DEF MetInv
  <2>1. Kept(mem, i) \/ NamedNow(i) \/ Place[i] \in walk.gone
    BY <1>1, <1>2 DEF RunInv, MetInv, Walking, InHand
  <2> QED
    BY <2>1, <1>1, <1>2 DEF Kept, NamedNow, GapNow
<1>8. PartInv'
  <2> SUFFICES ASSUME Walking', kind = "pst", ~walk.unread, NEW i \in walk.met
               PROVE  NotPartly(i)' \/ \E l \in Sticky(i) : GapNow(l)'
    BY <1>1, <1>2 DEF PartInv
  <2>1. NotPartly(i) \/ \E l \in Sticky(i) : GapNow(l)
    BY <1>1, <1>2 DEF RunInv, PartInv, Walking, InHand
  <2> QED
    BY <2>1, <1>1 DEF NotPartly, Kept, GapNow
<1>9. GoneInv' /\ FaultedInv' /\ EndInv'
  BY <1>1, <1>2 DEF RunInv, GoneInv, FaultedInv, GapNow, EndInv
<1>10. PstInv'
  BY <1>1, <1>2 DEF RunInv, PstInv
<1>11. OldInv'
  BY <1>1, <1>2 DEF RunInv, OldInv, Named, Kept
<1> QED
  BY <1>1, <1>4, <1>5, <1>6, <1>7, <1>8, <1>9, <1>10, <1>11 DEF RunInv

(* The walk's end closes nothing this run put down, and of a completed walk
   leaves only what its folder's fault excuses. *)
LEMMA FinishedGaps ==
  ASSUME RunInv, Finish
  PROVE  /\ mem'.recs = mem.recs /\ DOMAIN mem' = {"recs", "gaps"}
         /\ DOMAIN mem'.gaps = Locators
         /\ \A l \in Locators : mem'.gaps[l] = mem.gaps[l] \/ mem'.gaps[l] = None
         /\ \A l \in Locators : mem.gaps[l] # None /\ mem.gaps[l].run = run
                                  => mem'.gaps[l] = mem.gaps[l]
         /\ walk.why = "walk" => \A l \in Locators :
              \/ mem'.gaps[l] = None \/ mem'.gaps[l].run = run
              \/ mem'.gaps[l].folder \in walk.faulted
         /\ walk.why # "walk" => \A l \in Locators :
              l[1] # "place" => mem'.gaps[l] = mem.gaps[l]
<1> DEFINE A == {l \in {"place"} \X walk.late :
                   mem.gaps[l] # None /\ mem.gaps[l].run # run}
           G == SettleReadGaps(mem.gaps)
           B == {l \in Locators : /\ G[l] # None /\ G[l].run # run
                                  /\ G[l].folder \notin walk.faulted}
<1>1. /\ mem' = [mem EXCEPT !.gaps = IF walk.why = "walk" THEN CloseUnobserved(G) ELSE G]
      /\ G = Close(mem.gaps, A) /\ CloseUnobserved(G) = Close(G, B)
  BY DEF Finish, SettleReadGaps, CloseUnobserved
<1>2. DOMAIN mem = {"recs", "gaps"}
  BY DEF RunInv, GapsOK
<1>3. \A l \in A : /\ mem.gaps[l] # None /\ mem.gaps[l].run # run /\ l[1] = "place"
  OBVIOUS
<1>4. \A l \in Locators : l \in B <=> /\ G[l] # None /\ G[l].run # run
                                      /\ G[l].folder \notin walk.faulted
  OBVIOUS
<1>5. /\ DOMAIN Close(mem.gaps, A) = Locators
      /\ \A l \in Locators : /\ l \in A => Close(mem.gaps, A)[l] = None
                             /\ l \notin A => Close(mem.gaps, A)[l] = mem.gaps[l]
  BY ClosedGaps
<1>6. /\ DOMAIN Close(G, B) = Locators
      /\ \A l \in Locators : /\ l \in B => Close(G, B)[l] = None
                             /\ l \notin B => Close(G, B)[l] = G[l]
  BY ClosedGaps
<1> DEFINE H == IF walk.why = "walk" THEN Close(G, B) ELSE G
<1>7. mem'.recs = mem.recs /\ DOMAIN mem' = {"recs", "gaps"} /\ mem'.gaps = H
  BY <1>1, <1>2
<1>8. /\ DOMAIN G = Locators
      /\ \A l \in Locators : /\ l \in A => G[l] = None
                             /\ l \notin A => G[l] = mem.gaps[l]
  BY <1>1, <1>5
<1> HIDE DEF A, B, G
<1>9. CASE walk.why = "walk"
  <2>1. mem'.gaps = Close(G, B)
    BY <1>7, <1>9
  <2> DEFINE C == Close(G, B)
  <2> HIDE DEF C
  <2>2. DOMAIN C = Locators /\ \A l \in Locators : /\ l \in B => C[l] = None
                                                   /\ l \notin B => C[l] = G[l]
    BY <1>6 DEF C
  <2>3. mem'.gaps = C
    BY <2>1 DEF C
  <2> QED
    BY <1>3, <1>4, <1>7, <1>8, <1>9, <2>2, <2>3
<1>10. CASE walk.why # "walk"
  <2>1. mem'.gaps = G
    BY <1>7, <1>10
  <2> QED
    BY <1>3, <1>7, <1>8, <1>10, <2>1
<1> QED
  BY <1>9, <1>10

LEMMA FinishRun == ASSUME RunInv, Finish, left' \in Nat PROVE RunInv'
<1>1. /\ pc = "finish" /\ pc' = "flush" /\ UNCHANGED <<kind, run, saved, cur>>
      /\ walk' = [walk EXCEPT !.final = TRUE]
  BY DEF Finish, about, disk
<1>2. /\ DOMAIN walk' = WalkFields /\ walk'.pos = walk.pos /\ walk'.met = walk.met
      /\ walk'.why = walk.why /\ walk'.began = walk.began /\ walk'.gone = walk.gone
      /\ walk'.unread = walk.unread /\ walk'.final = TRUE
      /\ walk'.faulted = walk.faulted
  BY <1>1, RunWalk DEF WalkFields
<1>3. /\ mem'.recs = mem.recs /\ DOMAIN mem' = {"recs", "gaps"}
      /\ DOMAIN mem'.gaps = Locators
      /\ \A l \in Locators : mem'.gaps[l] = mem.gaps[l] \/ mem'.gaps[l] = None
      /\ \A l \in Locators : mem.gaps[l] # None /\ mem.gaps[l].run = run
                               => mem'.gaps[l] = mem.gaps[l]
      /\ walk.why = "walk" => \A l \in Locators :
           \/ mem'.gaps[l] = None \/ mem'.gaps[l].run = run
           \/ mem'.gaps[l].folder \in walk.faulted
      /\ walk.why # "walk" => \A l \in Locators :
           l[1] # "place" => mem'.gaps[l] = mem.gaps[l]
  BY FinishedGaps
<1>4. WalkTyped' /\ HandTyped'
  BY <1>1, <1>2 DEF RunInv, WalkTyped, HandTyped
<1>5. RecsOK(mem)' /\ RecsOK(saved)'
  BY <1>1, <1>3 DEF RunInv, RecsOK, Kept
<1>6. GapsOK(mem)' /\ GapsOK(saved)'
  BY <1>1, <1>3 DEF RunInv, GapsOK
<1>7. EndsOK'
  BY <1>1, <1>2 DEF EndsOK
<1>8. \A l \in Locators : GapNow(l) => GapNow(l)' /\ mem'.gaps[l] = mem.gaps[l]
  BY <1>1, <1>3 DEF GapNow
<1>9. \A i \in Items : NamedNow(i) => NamedNow(i)' /\ Named(mem, i)'
  BY <1>8, NamesAreLocators DEF NamedNow, Named, GapNow
<1>10. ASSUME NEW i \in walk.met, walk.why # "fatal"
       PROVE  i \in Items /\ (Kept(mem, i) \/ NamedNow(i) \/ Place[i] \in walk.gone)
  BY <1>1, <1>10 DEF RunInv, MetInv, Walking, InHand, WalkTyped
<1>11. MetInv'
  BY <1>2, <1>3, <1>9, <1>10 DEF MetInv, Walking, Kept
<1>12. PartInv'
  <2> SUFFICES ASSUME Walking', kind = "pst", ~walk.unread, NEW i \in walk.met
               PROVE  NotPartly(i)' \/ \E l \in Sticky(i) : GapNow(l)'
    BY <1>1, <1>2 DEF PartInv
  <2>1. i \in Items /\ (NotPartly(i) \/ \E l \in Sticky(i) : GapNow(l))
    BY <1>1, <1>2 DEF RunInv, PartInv, Walking, InHand, WalkTyped
  <2>2. \A l \in Sticky(i) : l \in Locators
    BY <2>1, StickyApart
  <2> QED
    BY <2>1, <2>2, <1>3, <1>8 DEF NotPartly, Kept
<1>13. GoneInv'
  BY <1>1, <1>2, <1>3, PlaceIsLocator DEF RunInv, GoneInv
<1>14. FaultedInv'
  BY <1>2, <1>8, FolderIsLocator DEF RunInv, FaultedInv, WalkTyped
<1>15. EndInv'
  BY <1>1, <1>2, <1>3 DEF EndInv
<1>16. PstInv'
  BY <1>1, <1>2, <1>3 DEF RunInv, PstInv
<1>17. OldInv'
  <2> SUFFICES ASSUME kind = "pst", NEW i \in Items, Named(saved, i),
                      walk.why = "walk" => i \in walk.met
               PROVE  Named(mem, i)' \/ Kept(mem, i)'
    BY <1>1, <1>2 DEF OldInv, Named
  <2>1. Kept(mem, i) => Kept(mem, i)'
    BY <1>3 DEF Kept
  <2>2. CASE walk.why = "walk"
    <3>1. walk.gone = {}
      BY DEF RunInv, PstInv
    <3> QED
      BY <2>1, <2>2, <3>1, <1>9, <1>10
  <2>3. CASE walk.why # "walk" /\ Named(mem, i)
    <3>1. PICK l \in NamedBy(i) : /\ mem.gaps[l] # None /\ mem.gaps[l].class = "missing"
                                  /\ mem.gaps[l].folder = Folder[i]
      BY <2>3 DEF Named
    <3>2. l \in Locators
      BY <3>1, NamesAreLocators
    <3>3. l[1] # "place"
      BY <3>1, <3>2 DEF RunInv, PstInv
    <3>4. mem'.gaps[l] = mem.gaps[l]
      BY <1>3, <2>3, <3>2, <3>3
    <3> QED
      BY <3>1, <3>4 DEF Named
  <2>4. Named(mem, i) \/ Kept(mem, i)
    BY <1>1 DEF RunInv, OldInv, EndsOK
  <2> QED
    BY <2>1, <2>2, <2>3, <2>4
<1>18. run' \in Nat
  BY <1>1 DEF RunInv
<1> QED
  BY <1>1, <1>4, <1>5, <1>6, <1>7, <1>11, <1>12, <1>13, <1>14, <1>15, <1>16, <1>17,
     <1>18 DEF RunInv

(***************************************************************************)
(* The invariant.                                                          *)
(***************************************************************************)
LEMMA InitRun == Init => RunInv
<1> SUFFICES ASSUME Init PROVE RunInv
  OBVIOUS
<1>1. /\ run = 0 /\ pc = "idle" /\ walk = NoWalk /\ cur = NoCapture
      /\ mem = Blank /\ saved = Blank /\ left = MaxUpsets
  BY DEF Init
<1>2. left \in Nat /\ run \in Nat
  BY <1>1, WalkAssumption
<1>3. WalkTyped /\ walk.met = {} /\ walk.faulted = {} /\ walk.gone = {} /\ ~walk.final
      /\ walk.why = "walk"
  BY <1>1 DEF NoWalk, WalkTyped, WalkFields, Ends
<1>4. HandTyped
  BY <1>1 DEF HandTyped, NoCapture
<1>5. RecsOK(mem) /\ RecsOK(saved)
  BY <1>1, KeysOf DEF RecsOK, Blank, Kept
<1>6. /\ GapsOK(mem) /\ GapsOK(saved) /\ mem = saved
      /\ \A l \in Locators : mem.gaps[l] = None
  BY <1>1 DEF GapsOK, Blank
<1>7. EndsOK /\ MetInv /\ GoneInv /\ PartInv /\ FaultedInv /\ EndInv
  BY <1>1, <1>3 DEF EndsOK, MetInv, GoneInv, PartInv, FaultedInv, EndInv
<1>8. PstInv
  BY <1>3, <1>6 DEF PstInv
<1>9. OldInv
  BY <1>6 DEF OldInv
<1> QED
  BY <1>2, <1>3, <1>4, <1>5, <1>6, <1>7, <1>8, <1>9 DEF RunInv

(* The upsets left only go down. *)
LEMMA LeftFalls ==
  ASSUME left \in Nat, [Next]_vars
  PROVE  left' \in Nat /\ left' <= left
<1>1. ASSUME UNCHANGED left \/ Upset PROVE left' \in Nat /\ left' <= left
  BY <1>1 DEF Upset
<1> USE <1>1
<1>2. CASE Begin \/ Stops \/ Absent \/ ReaderFault \/ Vanishes \/ TableFault
  BY <1>2 DEF Begin, Stops, Absent, ReaderFault, Vanishes, TableFault, May
<1>3. CASE \E read \in Reads \union {"whole"} :
             LeaveUnwritable(read) \/ Keep(read) \/ Skip(read) \/ StartCapture(read)
  BY <1>3 DEF LeaveUnwritable, Keep, Skip, StartCapture, Delivered
<1>4. CASE FolderFails \/ ItemFails \/ Panics \/ ArchiveFails
  BY <1>4 DEF FolderFails, ItemFails, Panics, ArchiveFails, May
<1>5. CASE WriteZip \/ WritePage \/ RemoveOldPage \/ RemoveOldZip
  BY <1>5 DEF WriteZip, WritePage, AddRow, RemoveOldPage, RemoveOldZip, May
<1>6. CASE Checkpoint \/ Flush \/ Save \/ Finish \/ Report \/ Lost
  BY <1>6 DEF Checkpoint, Flush, FlushIndex, Save, Finish, Report, Lost, May
<1>7. CASE LoseLock \/ Kill
  BY <1>7 DEF LoseLock, Kill, May
<1>8. CASE UNCHANGED vars
  BY <1>8 DEF vars
<1> QED
  BY <1>2, <1>3, <1>4, <1>5, <1>6, <1>7, <1>8 DEF Next

LEMMA StutterRun == ASSUME RunInv, UNCHANGED vars PROVE RunInv'
<1>1. UNCHANGED <<kind, run, pc, walk, cur, mem, saved, left>>
  BY DEF vars, about, disk
<1>2. WalkTyped' /\ HandTyped' /\ EndsOK' /\ run' \in Nat /\ left' \in Nat
  BY <1>1 DEF RunInv, WalkTyped, HandTyped, EndsOK, Key
<1>3. /\ RecsOK(mem)' /\ RecsOK(saved)' /\ GapsOK(mem)' /\ GapsOK(saved)'
  BY <1>1 DEF RunInv, RecsOK, Kept, GapsOK
<1>4. MetInv' /\ GoneInv' /\ FaultedInv' /\ EndInv'
  BY <1>1 DEF RunInv, MetInv, Walking, InHand, Kept, NamedNow, GapNow, GoneInv,
              FaultedInv, EndInv
<1>5. PartInv'
  BY <1>1 DEF RunInv, PartInv, Walking, InHand, NotPartly, Kept, GapNow
<1>6. PstInv' /\ OldInv'
  BY <1>1 DEF RunInv, PstInv, OldInv, Named, Kept
<1> QED
  BY <1>2, <1>3, <1>4, <1>5, <1>6 DEF RunInv

LEMMA RunStep == RunInv /\ FilesInv /\ [Next]_vars => RunInv'
<1> SUFFICES ASSUME RunInv, FilesInv, [Next]_vars PROVE RunInv'
  OBVIOUS
<1>1. left' \in Nat
  BY LeftFalls DEF RunInv
<1>2. CASE Stops \/ Absent
  BY <1>1, <1>2, StopsStands, AbsentStands, StandsStep
<1>3. CASE ReaderFault \/ Vanishes \/ TableFault
  BY <1>1, <1>3, ReaderFaultNotes, VanishesNotes, TableFaultNotes, NotesStep
<1>4. CASE \E read \in Reads \union {"whole"} :
             LeaveUnwritable(read) \/ Keep(read) \/ Skip(read) \/ StartCapture(read)
  BY <1>1, <1>4, LeaveNotes, NotesStep, KeepAnswers, SkipAnswers, AnswersStep,
     StartStands, StandsStep
<1>5. CASE FolderFails \/ ItemFails \/ Panics
  BY <1>1, <1>5, FolderFailsNotes, ItemFailsNotes, PanicsNotes, NotesStep, StandsStep
<1>6. CASE ArchiveFails \/ WriteZip \/ RemoveOldPage \/ RemoveOldZip
  BY <1>1, <1>6, ArchiveFailsStands, WriteZipStands, RemovesStand, StandsStep
<1>7. CASE Checkpoint \/ Flush \/ LoseLock
  BY <1>1, <1>7, CheckpointStands, FlushStands, LoseLockStands, StandsStep
<1>8. CASE WritePage
  BY <1>1, <1>8, PageCaptures, CapturesStep
<1>9. CASE Save \/ Finish \/ Begin
  BY <1>1, <1>9, SaveRun, FinishRun, BeginRun
<1>10. CASE Report \/ Lost \/ Kill
  BY <1>1, <1>10, EndRun
<1>11. CASE UNCHANGED vars
  BY <1>11, StutterRun
<1> QED
  BY <1>2, <1>3, <1>4, <1>5, <1>6, <1>7, <1>8, <1>9, <1>10, <1>11 DEF Next

(***************************************************************************)
(* What is told of a run that ended.                                       *)
(***************************************************************************)
ToldInv == /\ pc # "idle" => outcome = "none" /\ calm = FALSE
           /\ OutcomeIsTrue

(* Only a beginning and an end say anything; only a save writes. *)
LEMMA StepsTell ==
  ASSUME [Next]_vars
  PROVE  \/ Begin \/ Report \/ Lost \/ Kill
         \/ pc # "idle" /\ UNCHANGED told
         \/ UNCHANGED <<told, pc, saved>>
<1>1. CASE Stops \/ Absent \/ ReaderFault \/ Vanishes \/ TableFault
  BY <1>1 DEF Stops, Absent, ReaderFault, Vanishes, TableFault, AtItem
<1>2. CASE \E read \in Reads \union {"whole"} :
             LeaveUnwritable(read) \/ Keep(read) \/ Skip(read) \/ StartCapture(read)
  BY <1>2 DEF LeaveUnwritable, Keep, Skip, StartCapture, AtItem
<1>3. CASE FolderFails \/ ItemFails \/ Panics \/ ArchiveFails
  BY <1>3 DEF FolderFails, ItemFails, Panics, ArchiveFails
<1>4. CASE WriteZip \/ WritePage \/ RemoveOldPage \/ RemoveOldZip
  BY <1>4 DEF WriteZip, WritePage, RemoveOldPage, RemoveOldZip
<1>5. CASE Checkpoint \/ Flush \/ Save \/ Finish \/ LoseLock
  BY <1>5 DEF Checkpoint, Flush, Save, Finish, LoseLock
<1>6. CASE UNCHANGED vars
  BY <1>6 DEF vars, disk
<1> QED
  BY <1>1, <1>2, <1>3, <1>4, <1>5, <1>6 DEF Next

LEMMA StepsSave == ASSUME [Next]_vars PROVE Save \/ UNCHANGED saved
<1>1. CASE Begin \/ Stops \/ Absent \/ ReaderFault \/ Vanishes \/ TableFault
  BY <1>1 DEF Begin, Stops, Absent, ReaderFault, Vanishes, TableFault, disk
<1>2. CASE \E read \in Reads \union {"whole"} :
             LeaveUnwritable(read) \/ Keep(read) \/ Skip(read) \/ StartCapture(read)
  BY <1>2 DEF LeaveUnwritable, Keep, Skip, StartCapture, disk
<1>3. CASE FolderFails \/ ItemFails \/ Panics \/ ArchiveFails
  BY <1>3 DEF FolderFails, ItemFails, Panics, ArchiveFails, disk
<1>4. CASE WriteZip \/ WritePage \/ RemoveOldPage \/ RemoveOldZip
  BY <1>4 DEF WriteZip, WritePage, RemoveOldPage, RemoveOldZip
<1>5. CASE Checkpoint \/ Flush \/ Finish \/ LoseLock \/ Report \/ Lost \/ Kill
  BY <1>5 DEF Checkpoint, Flush, Finish, LoseLock, Report, Lost, Kill, disk
<1>6. CASE UNCHANGED vars
  BY <1>6 DEF vars, disk
<1> QED
  BY <1>1, <1>2, <1>3, <1>4, <1>5, <1>6 DEF Next

(* A kept message is captured, or another one that bears its Message-ID in
   its folder is. *)
LEMMA KeptIsCaptured ==
  ASSUME NEW m, RecsOK(m), NEW i \in Items, Kept(m, i)
  PROVE  Captured(m, i) \/ Shadowed(m, i)
<1>1. PICK j \in Items : Plain(j) = Plain(i) /\ m.recs[Plain(i)].body = Body[j]
  BY DEF RecsOK
<1>2. CASE Body[j] = Body[i]
  BY <1>1, <1>2 DEF Captured, Kept
<1>3. CASE Body[j] # Body[i]
  <2>1. Folder[j] = Folder[i] /\ MsgId[j] = MsgId[i]
    BY <1>1, KeyApart
  <2>2. Captured(m, j)
    BY <1>1 DEF Captured, Kept
  <2> QED
    BY <1>3, <2>1, <2>2 DEF Shadowed
<1> QED
  BY <1>2, <1>3

LEMMA NamedNowIsNamed == ASSUME NEW i \in Items, NamedNow(i)
                         PROVE  Named(mem, i) /\ Observed # {}
<1>1. PICK l \in NamedBy(i) : GapNow(l) /\ mem.gaps[l].folder = Folder[i]
  BY DEF NamedNow
<1>2. l \in Observed
  BY <1>1, NamesAreLocators DEF Observed, GapNow
<1> QED
  BY <1>1, <1>2 DEF Named, GapNow

(* A run that completed its walk and saved: what it met is in the manifest,
   or named there, or excused. *)
LEMMA ReportedMet ==
  ASSUME RunInv, pc = "report", ~walk.saveErr, walk.why # "fatal", NEW i \in walk.met
  PROVE  /\ i \in Items /\ saved = mem
         /\ Captured(saved, i) \/ Shadowed(saved, i) \/ NamedNow(i)
              \/ Place[i] \in walk.gone
<1>1. i \in Items /\ saved = mem /\ RecsOK(mem)
  BY DEF RunInv, WalkTyped, EndsOK
<1>2. Kept(mem, i) \/ NamedNow(i) \/ Place[i] \in walk.gone
  BY DEF RunInv, MetInv, Walking, InHand
<1> QED
  BY <1>1, <1>2, KeptIsCaptured

LEMMA ReportedPartly ==
  ASSUME RunInv, pc = "report", ~walk.saveErr, walk.why # "fatal", ~walk.unread,
         Observed = {}, NEW i \in walk.met
  PROVE  ~PartlyRead(saved, i)
<1>1. i \in Items /\ saved = mem /\ RecsOK(mem)
  BY DEF RunInv, WalkTyped, EndsOK
<1>2. "part" \in mem.recs[Qualified(i)].gap => mem.recs[Qualified(i)] = None
  BY <1>1 DEF RecsOK
<1>3. NotPartly(i)
  <2>1. CASE kind # "pst"
    BY <1>1, <2>1 DEF RecsOK, NotPartly
  <2>2. CASE kind = "pst"
    <3>1. NotPartly(i) \/ \E l \in Sticky(i) : GapNow(l)
      BY <2>2 DEF RunInv, PartInv, Walking, InHand
    <3>2. ASSUME NEW l \in Sticky(i), GapNow(l) PROVE FALSE
      <4>1. l \in Observed
        BY <1>1, <3>2, StickyApart DEF Observed, GapNow
      <4> QED
        BY <4>1
    <3> QED
      BY <3>1, <3>2
  <2> QED
    BY <2>1, <2>2
<1> QED
  BY <1>1, <1>2, <1>3 DEF PartlyRead, NotPartly, Kept

LEMMA ReportedLedger ==
  ASSUME RunInv, pc = "report", ~walk.saveErr, walk.why = "walk", Observed = {},
         NEW l \in Locators
  PROVE  saved.gaps[l] = None \/ saved.gaps[l].class = "info"
<1>1. saved = mem /\ walk.final
  BY DEF RunInv, EndsOK
<1>2. walk.faulted = {}
  <2> SUFFICES ASSUME NEW f \in walk.faulted PROVE FALSE
    OBVIOUS
  <2>1. GapNow(<<"folder", f>>) \/ GapNow(<<"table", f>>)
    BY DEF RunInv, FaultedInv
  <2>2. <<"folder", f>> \in Locators /\ <<"table", f>> \in Locators
    BY FolderIsLocator DEF RunInv, WalkTyped
  <2>3. <<"folder", f>> \in Observed \/ <<"table", f>> \in Observed
    BY <2>1, <2>2 DEF Observed, GapNow
  <2> QED
    BY <2>3
<1>3. mem.gaps[l] = None \/ mem.gaps[l].run = run
  BY <1>1, <1>2 DEF RunInv, EndInv
<1>4. l \notin Observed
  OBVIOUS
<1>5. mem.gaps[l] # None => mem.gaps[l].class \in {"missing", "info"}
  BY DEF RunInv, GapsOK
<1> QED
  BY <1>1, <1>3, <1>4, <1>5 DEF Observed

LEMMA ReportIsTrue == ASSUME RunInv, Report PROVE ToldInv'
<1>1. /\ pc = "report" /\ pc' = "idle" /\ UNCHANGED saved
      /\ missed' = {i \in walk.met : ~Captured(saved, i)}
      /\ partly' = {i \in walk.met : PartlyRead(saved, i)} /\ gone' = walk.gone
  BY DEF Report, Ended, disk
<1>2. /\ outcome' \in {"ok", "partial"} => /\ ~walk.saveErr
                                           /\ walk.why \notin {"fatal", "stopped", "source",
                                                               "cancelled"}
      /\ outcome' = "ok" => ~walk.unread /\ Observed = {}
  BY DEF Report
<1>3. outcome' \in {"ok", "partial"} => walk.why = "walk"
  BY <1>2 DEF RunInv, WalkTyped, Ends
<1>4. ASSUME outcome' \in {"ok", "partial"}, NEW i \in missed'
      PROVE  /\ i \in Items /\ i \in walk.met /\ saved = mem
             /\ Excused(i)' \/ NamedNow(i)
  <2>1. i \in walk.met /\ ~Captured(saved, i)
    BY <1>1, <1>4
  <2>2. /\ i \in Items /\ saved = mem
        /\ Captured(saved, i) \/ Shadowed(saved, i) \/ NamedNow(i) \/ Place[i] \in walk.gone
    BY <1>1, <1>2, <1>3, <1>4, <2>1, ReportedMet
  <2>3. Shadowed(saved, i) => Shadowed(saved, i)'
    BY <1>1 DEF Shadowed, Captured
  <2> QED
    BY <1>1, <2>1, <2>2, <2>3 DEF Excused
<1>5. ASSUME outcome' \in {"ok", "partial"}, NEW i \in missed'
      PROVE  Named(saved, i)' \/ Excused(i)'
  <2>1. NamedNow(i) => Named(saved, i)'
    BY <1>1, <1>4, <1>5, NamedNowIsNamed DEF Named
  <2> QED
    BY <1>4, <1>5, <2>1
<1>6. ASSUME outcome' = "ok", NEW i \in missed' PROVE Excused(i)'
  <2>1. Observed = {}
    BY <1>2, <1>6
  <2>2. ~NamedNow(i)
    BY <1>4, <1>6, <2>1, NamedNowIsNamed
  <2> QED
    BY <1>4, <1>6, <2>2
<1>7. ASSUME outcome' = "ok" PROVE partly' = {}
  BY <1>1, <1>2, <1>3, <1>7, ReportedPartly
<1>8. ASSUME outcome' = "ok", NEW l \in Locators
      PROVE  saved'.gaps[l] = None \/ saved'.gaps[l].class = "info"
  BY <1>1, <1>2, <1>3, <1>8, ReportedLedger
<1> QED
  BY <1>1, <1>5, <1>6, <1>7, <1>8 DEF ToldInv, OutcomeIsTrue

LEMMA ToldStep == RunInv /\ ToldInv /\ [Next]_vars => ToldInv'
<1> SUFFICES ASSUME RunInv, ToldInv, [Next]_vars PROVE ToldInv'
  OBVIOUS
<1>1. CASE Begin \/ Lost \/ Kill
  <2>1. /\ outcome' \in {"none", "failed", "killed"} /\ calm' = FALSE
        /\ pc' # "idle" => outcome' = "none"
    BY <1>1 DEF Begin, Lost, Kill, Unfinished, Ended
  <2> QED
    BY <2>1 DEF ToldInv, OutcomeIsTrue
<1>2. CASE Report
  BY <1>2, ReportIsTrue
<1>3. CASE pc # "idle" /\ UNCHANGED told
  BY <1>3 DEF ToldInv, OutcomeIsTrue, told
<1>4. CASE UNCHANGED <<told, pc, saved>>
  BY <1>4 DEF ToldInv, told, OutcomeIsTrue, Named, Excused, Shadowed, Captured
<1> QED
  BY <1>1, <1>2, <1>3, <1>4, StepsTell

LEMMA InitTold == Init => ToldInv
BY DEF Init, ToldInv, OutcomeIsTrue

(* A run that walked its source to the end passes over nothing in silence:
   what it met is archived, or a saved gap names it, or it is one of the two
   cases excused; and "ok" is said only of a run with nothing missing, nothing
   partly read and a saved ledger that lists no message (app/localrun.go,
   state/gaps.go). *)
THEOREM OutcomeIsTrueHolds == Spec => []OutcomeIsTrue
<1>1. Init => RunInv /\ FilesInv /\ ToldInv
  BY InitRun, InitFiles, InitTold
<1>2. RunInv /\ FilesInv /\ ToldInv /\ [Next]_vars => RunInv' /\ FilesInv' /\ ToldInv'
  BY RunStep, FilesStep, ToldStep
<1>3. ToldInv => OutcomeIsTrue
  BY DEF ToldInv
<1> QED
  BY <1>1, <1>2, <1>3, PTL DEF Spec

(* A step under which a gap of a PST goes from the saved ledger. *)
LEMMA GapsStep ==
  ASSUME RunInv, [Next]_vars, kind = "pst", NEW i \in Items,
         Named(saved, i), ~Named(saved', i)
  PROVE  \/ Captured(saved', i) \/ Shadowed(saved', i)
         \/ /\ pc = "save" /\ walk.why = "walk" /\ walk.final
            /\ i \notin walk.met
<1>1. Save
  <2>1. UNCHANGED saved => FALSE
    BY DEF Named
  <2> QED
    BY <2>1, StepsSave
<1>2. pc = "save" /\ saved' = mem
  <2>1. pc = "save" /\ (saved' = mem \/ saved' = saved)
    BY <1>1 DEF Save
  <2>2. saved' # saved
    BY DEF Named
  <2> QED
    BY <2>1, <2>2
<1>3. ~Named(mem, i) /\ RecsOK(mem)
  BY <1>2 DEF RunInv, Named
<1>4. Kept(mem, i) \/ (walk.final /\ walk.why = "walk" /\ i \notin walk.met)
  BY <1>3 DEF RunInv, OldInv
<1>5. Kept(mem, i) => Captured(saved', i) \/ Shadowed(saved', i)
  <2>1. Kept(mem, i) => Captured(mem, i) \/ Shadowed(mem, i)
    BY <1>3, KeptIsCaptured
  <2> QED
    BY <1>2, <2>1 DEF Captured, Shadowed
<1> QED
  BY <1>2, <1>4, <1>5

(* The saved ledger stops naming a message of a PST only when it is archived,
   or a completed walk no longer met it (state/gaps.go). *)
THEOREM GapsAreKeptHolds == Spec => GapsAreKept
<1>1. Init => RunInv /\ FilesInv
  BY InitRun, InitFiles
<1>2. RunInv /\ FilesInv /\ [Next]_vars => RunInv' /\ FilesInv'
  BY RunStep, FilesStep
<1>3. RunInv /\ [Next]_vars =>
        [kind = "pst" => \A i \in Items :
         Named(saved, i) /\ ~Named(saved', i) =>
           \/ Captured(saved', i) \/ Shadowed(saved', i)
           \/ /\ pc = "save" /\ walk.why = "walk" /\ walk.final
              /\ i \notin walk.met]_vars
  BY GapsStep
<1> QED
  BY <1>1, <1>2, <1>3, PTL DEF Spec, GapsAreKept

(***************************************************************************)
(* A run in which nothing goes wrong.                                      *)
(***************************************************************************)
Healed(m, i) ==
  /\ Kept(m, i)
  /\ IF m.recs[Plain(i)].body = Body[i] THEN m.recs[Plain(i)].gap = {}
     ELSE m.recs[Qualified(i)] # None /\ m.recs[Qualified(i)].gap = {}

AllWell ==
  /\ held /\ walk.why = "walk" /\ walk.unwritable = {}
  /\ ~walk.unread /\ ~walk.saveErr /\ pc # "lost"
  /\ \A n \in 1..(walk.pos - 1) : Walk[n] \in walk.met
  /\ \A l \in Locators : ~GapNow(l)
  /\ \A i \in walk.met : InHand(i) \/ Healed(mem, i)
  /\ pc \in {"zip", "page"} => cur.read = "whole"
  /\ pc = "page" => cur.zip
  /\ pc = "finish" \/ walk.final => walk.pos > Len(Walk)

CalmInv ==
  pc # "idle" => /\ left <= walk.began
                 /\ left = walk.began => AllWell

LEMMA HealedIsWhole ==
  ASSUME NEW m, RecsOK(m), NEW i \in Items, Healed(m, i)
  PROVE  CapturedWhole(m, i)
BY DEF RecsOK, Healed, CapturedWhole, Kept

LEMMA CalmBegin == ASSUME RunInv, Begin PROVE CalmInv'
<1>1. /\ run' = run + 1 /\ pc' = "next" /\ walk' = [NoWalk EXCEPT !.began = left]
      /\ mem' = saved /\ held' = TRUE /\ left \in Nat /\ run \in Nat
      /\ left' = left \/ Upset
  BY DEF Begin, May, RunInv
<1>2. /\ walk'.why = "walk" /\ walk'.unwritable = {} /\ walk'.unread = FALSE
      /\ walk'.saveErr = FALSE /\ walk'.pos = 1 /\ walk'.met = {} /\ walk'.began = left
      /\ walk'.final = FALSE
  BY <1>1, NoWalkFacts
<1>3. left' <= left
  BY <1>1 DEF Upset
<1>4. \A l \in Locators : ~GapNow(l)'
  <2> SUFFICES ASSUME NEW l \in Locators, saved.gaps[l] # None
               PROVE  saved.gaps[l].run # run'
    BY <1>1 DEF GapNow
  <2>1. saved.gaps[l].run \in Nat /\ saved.gaps[l].run <= run
    BY DEF RunInv, GapsOK
  <2> QED
    BY <1>1, <2>1
<1>5. AllWell'
  BY <1>1, <1>2, <1>4 DEF AllWell
<1> QED
  BY <1>1, <1>2, <1>3, <1>5 DEF CalmInv

(* Under way, and nothing goes wrong in this step. *)
LEMMA CalmWalkOn ==
  ASSUME RunInv, AllWell, [Next]_vars, left' = left, pc # "idle"
  PROVE  \/ \E read \in Reads \union {"whole"} :
              read = "whole" /\ (Skip(read) \/ StartCapture(read))
         \/ WriteZip \/ WritePage \/ RemoveOldPage \/ RemoveOldZip
         \/ Checkpoint \/ Flush \/ Save \/ Finish \/ UNCHANGED vars
         \/ pc' = "idle"
<1>1. ~Upset
  BY DEF Upset, RunInv
<1>2. \A trouble : ~May(trouble)
  BY <1>1 DEF May
<1>3. ~(Stops \/ Absent \/ ReaderFault \/ Vanishes \/ TableFault \/ Begin)
  BY <1>2 DEF Stops, Absent, ReaderFault, Vanishes, TableFault, Begin
<1>4. ~(FolderFails \/ ItemFails \/ Panics \/ ArchiveFails \/ LoseLock \/ Kill)
  BY <1>2 DEF FolderFails, ItemFails, Panics, ArchiveFails, LoseLock, Kill
<1>5. ASSUME NEW read, LeaveUnwritable(read) PROVE FALSE
  BY <1>5 DEF LeaveUnwritable, NotAttempted, AllWell
<1>6. ASSUME NEW read, Delivered(read) PROVE read = "whole"
  BY <1>1, <1>6 DEF Delivered
<1>7. ASSUME NEW read, Keep(read) PROVE FALSE
  BY <1>6, <1>7 DEF Keep, KeepsDegraded
<1>8. ASSUME NEW read, Skip(read) \/ StartCapture(read) PROVE read = "whole"
  BY <1>6, <1>8 DEF Skip, StartCapture
<1>9. CASE Report \/ Lost
  BY <1>9 DEF Report, Lost, Ended
<1> QED
  BY <1>3, <1>4, <1>5, <1>7, <1>8, <1>9 DEF Next

(* Walking past an item that is healed, or taken in hand. *)
LEMMA MetMore ==
  ASSUME RunInv, AllWell, AtItem, walk'.pos = walk.pos + 1,
         walk'.met = walk.met \union {Item}
  PROVE  \A n \in 1..(walk'.pos - 1) : Walk[n] \in walk'.met
<1>1. walk.pos \in Nat \ {0}
  BY RunWalk
<1> SUFFICES ASSUME NEW n \in 1..walk.pos PROVE Walk[n] \in walk'.met
  BY <1>1
<1>2. CASE n = walk.pos
  BY <1>2 DEF Item
<1>3. CASE n # walk.pos
  BY <1>1, <1>3 DEF AllWell
<1> QED
  BY <1>2, <1>3

LEMMA CalmSkip ==
  ASSUME RunInv, AllWell, Skip("whole") PROVE AllWell'
<1> DEFINE w == [Met(Item) EXCEPT !.unread = @ \/ "whole" = "part"]
<1>1. /\ AtItem /\ UNCHANGED <<run, cur, held>> /\ Goto(w) /\ Archived(Item, "whole")
  BY DEF Skip, about
<1>2. Answers(Item)
  BY SkipAnswers
<1>3. /\ w.pos = walk.pos + 1 /\ w.met = walk.met \union {Item} /\ w.why = walk.why
      /\ (w.unread => walk.unread) /\ w.final = walk.final /\ w.saveErr = walk.saveErr
      /\ w.unwritable = walk.unwritable
  BY RunWalk DEF Met, WalkFields
<1> HIDE DEF w
<1>4. /\ walk' = w /\ pc' \in {"check", "finish", "next"}
      /\ pc' = "finish" => w.why # "walk" \/ w.pos > Len(Walk)
  BY <1>1, <1>2, GotoFacts DEF Answers
<1>5. \A n \in 1..(walk'.pos - 1) : Walk[n] \in walk'.met
  BY <1>1, <1>3, <1>4, MetMore
<1>6. \A l \in Locators : ~GapNow(l)'
  BY <1>1, <1>2 DEF AllWell, Answers, Lighter, GapNow
<1>7. \A i \in walk.met : Healed(mem, i)
  BY <1>2 DEF AllWell, Answers, InHand
<1>8. Healed(mem, Item)
  <2>1. Item \in Items
    BY <1>2 DEF Answers
  <2>2. RecsOK(mem)
    BY DEF RunInv
  <2>3. Archived(Item, "whole")
    BY <1>1
  <2>4. CASE Kept(mem, Item) /\ mem.recs[Plain(Item)].body # Body[Item]
    <3>1. mem.recs[Qualified(Item)] # None /\ "att" \notin mem.recs[Qualified(Item)].gap
      BY <2>3, <2>4 DEF Archived, Key, Improves, Kept
    <3>2. mem.recs[Qualified(Item)].gap \subseteq {"att"}
      BY <2>1, <2>2, <3>1 DEF RecsOK
    <3> QED
      BY <2>4, <3>1, <3>2 DEF Healed
  <2>5. CASE ~(Kept(mem, Item) /\ mem.recs[Plain(Item)].body # Body[Item])
    <3>1. /\ mem.recs[Plain(Item)] # None /\ "att" \notin mem.recs[Plain(Item)].gap
          /\ "part" \notin mem.recs[Plain(Item)].gap
      BY <2>3, <2>5 DEF Archived, Key, Improves, Kept
    <3>2. mem.recs[Plain(Item)].gap \subseteq {"att", "part"}
      BY <2>1, <2>2, <3>1 DEF RecsOK, Kept
    <3> QED
      BY <2>5, <3>1, <3>2 DEF Healed, Kept
  <2> QED
    BY <2>4, <2>5
<1>9. \A i \in walk'.met : Healed(mem, i)'
  <2>1. \A i : Healed(mem, i) => Healed(mem, i)'
    BY <1>2 DEF Answers, Healed, Kept
  <2> QED
    BY <1>3, <1>4, <1>7, <1>8, <2>1
<1> QED
  BY <1>1, <1>2, <1>3, <1>4, <1>5, <1>6, <1>9 DEF AllWell, Answers

LEMMA CalmStart ==
  ASSUME RunInv, AllWell, StartCapture("whole") PROVE AllWell'
<1>1. /\ AtItem /\ UNCHANGED <<run, mem, held>> /\ walk' = Met(Item) /\ pc' = "zip"
      /\ cur'.item = Item /\ cur'.read = "whole" /\ pc = "next"
  BY DEF StartCapture, about, AtItem
<1>2. /\ walk'.pos = walk.pos + 1 /\ walk'.met = walk.met \union {Item}
      /\ walk'.why = walk.why /\ walk'.unread = walk.unread /\ walk'.final = walk.final
      /\ walk'.saveErr = walk.saveErr /\ walk'.unwritable = walk.unwritable
  BY <1>1, RunWalk DEF Met, WalkFields
<1>3. \A n \in 1..(walk'.pos - 1) : Walk[n] \in walk'.met
  BY <1>1, <1>2, MetMore
<1>4. \A l \in Locators : ~GapNow(l)'
  BY <1>1 DEF AllWell, GapNow
<1>5. \A i \in walk'.met : InHand(i)' \/ Healed(mem, i)'
  BY <1>1, <1>2 DEF AllWell, InHand, Healed, Kept
<1>6. ~walk.final
  BY <1>1 DEF RunInv, EndsOK
<1> QED
  BY <1>1, <1>2, <1>3, <1>4, <1>5, <1>6 DEF AllWell

LEMMA CalmZip ==
  ASSUME RunInv, AllWell, WriteZip, left' = left PROVE AllWell'
<1>1. /\ pc = "zip" /\ pc' = "page" /\ UNCHANGED <<run, mem, walk, held>>
      /\ cur.read = "whole" /\ ~Upset
  BY DEF WriteZip, AllWell, about, Upset, RunInv
<1>2. cur' = [cur EXCEPT !.zip = TRUE]
  BY <1>1 DEF WriteZip, May
<1>3. cur'.item = cur.item /\ cur'.read = "whole" /\ cur'.zip = TRUE
  BY <1>1, <1>2 DEF RunInv, HandTyped
<1>4. \A l \in Locators : ~GapNow(l)'
  BY <1>1 DEF AllWell, GapNow
<1>5. \A i \in walk'.met : InHand(i)' \/ Healed(mem, i)'
  BY <1>1, <1>3 DEF AllWell, InHand, Healed, Kept
<1> QED
  BY <1>1, <1>3, <1>4, <1>5 DEF AllWell

(* A whole capture heals its message, and what was healed stays so. *)
LEMMA CaptureHeals ==
  ASSUME RunInv, FilesInv, NEW n, Captures(n), cur.read = "whole", cur.zip
  PROVE  /\ Healed(mem, n)'
         /\ \A i \in Items : Healed(mem, i) => Healed(mem, i)'
<1>1. /\ n = cur.item /\ n \in Items /\ pc = "page"
  BY DEF Captures
<1>2. /\ cur.key \in Keys
      /\ \/ /\ cur.key = Plain(n)
            /\ ~Kept(mem, n) \/ mem.recs[Plain(n)].body = Body[n]
         \/ /\ cur.key = Qualified(n) /\ Kept(mem, n)
            /\ mem.recs[Plain(n)].body # Body[n]
  BY <1>1, CaptureKey
<1>3. NewRecord # None /\ NewRecord.body = Body[n] /\ NewRecord.gap = {}
  BY <1>1, NewRecordFacts
<1>4. /\ \A k \in Keys : k # cur.key => mem'.recs[k] = mem.recs[k]
      /\ mem'.recs[cur.key] = NewRecord
  BY CapturedRecs
<1>5. Healed(mem, n)'
  <2>1. CASE cur.key = Plain(n)
    BY <1>3, <1>4, <2>1 DEF Healed, Kept
  <2>2. CASE cur.key = Qualified(n) /\ Kept(mem, n) /\ mem.recs[Plain(n)].body # Body[n]
    <3>1. mem'.recs[Plain(n)] = mem.recs[Plain(n)]
      BY <1>1, <1>4, <2>2, KeysOf, KeyApart
    <3> QED
      BY <1>3, <1>4, <2>2, <3>1 DEF Healed, Kept
  <2> QED
    BY <1>2, <2>1, <2>2
<1>6. ASSUME NEW i \in Items, Healed(mem, i) PROVE Healed(mem, i)'
  <2>1. Plain(i) \in Keys /\ Qualified(i) \in Keys /\ Plain(i) # Qualified(i)
    BY KeysOf
  <2>2. CASE cur.key = Plain(i)
    <3>1. cur.key = Plain(n) /\ Plain(n) = Plain(i)
      BY <1>1, <1>2, <2>2, KeyApart
    <3>2. mem.recs[Plain(i)].body = Body[n]
      BY <1>1, <1>2, <1>6, <3>1, KeyApart DEF Healed, Kept
    <3>3. mem'.recs[Qualified(i)] = mem.recs[Qualified(i)]
      BY <1>4, <2>1, <2>2
    <3> QED
      BY <1>3, <1>4, <1>6, <2>2, <3>2, <3>3 DEF Healed, Kept
  <2>3. CASE cur.key = Qualified(i)
    <3>1. mem'.recs[Plain(i)] = mem.recs[Plain(i)]
      BY <1>4, <2>1, <2>3
    <3> QED
      BY <1>3, <1>4, <1>6, <2>3, <3>1 DEF Healed, Kept
  <2>4. CASE cur.key \notin {Plain(i), Qualified(i)}
    BY <1>4, <1>6, <2>1, <2>4 DEF Healed, Kept
  <2> QED
    BY <2>2, <2>3, <2>4
<1> QED
  BY <1>5, <1>6

LEMMA CalmPage ==
  ASSUME RunInv, FilesInv, AllWell, WritePage PROVE AllWell'
<1> DEFINE w == [walk EXCEPT !.streak = 0, !.since = @ + 1,
                   !.unread = @ \/ cur.read = "part",
                   !.late = @ \union LateClose(mem.gaps, cur.item)]
<1>1. /\ UNCHANGED <<run, held>> /\ pc = "page"
      /\ (walk' = w /\ pc' = "oldpage") \/ Goto(w)
  BY DEF WritePage, about
<1>2. Captures(cur.item) /\ cur.read = "whole" /\ cur.zip
  BY <1>1, PageCaptures DEF AllWell
<1>3. /\ w.pos = walk.pos /\ w.met = walk.met /\ w.why = walk.why
      /\ (w.unread => walk.unread) /\ w.final = walk.final /\ w.saveErr = walk.saveErr
      /\ w.unwritable = walk.unwritable
  BY <1>2, RunWalk DEF WalkFields
<1> HIDE DEF w
<1>4. /\ walk' = w /\ pc' \in {"oldpage", "check", "finish", "next"} /\ ~walk'.final
      /\ pc' = "finish" => w.why # "walk" \/ w.pos > Len(Walk)
  BY <1>1, <1>2, GotoFacts DEF Captures
<1>5. \A l \in Locators : ~GapNow(l)'
  <2>1. DOMAIN mem.gaps = Locators /\ mem'.gaps = Recovered(mem.gaps, cur.item)
        /\ cur.item \in Items
    BY <1>2 DEF Captures, RunInv, GapsOK
  <2>2. \A l \in Locators : mem'.gaps[l] = mem.gaps[l] \/ mem'.gaps[l] = None
    BY <2>1, RecoveredGaps
  <2> QED
    BY <1>1, <2>2 DEF AllWell, GapNow
<1>6. \A i \in walk'.met : Healed(mem, i)'
  <2> SUFFICES ASSUME NEW i \in walk.met PROVE Healed(mem, i)'
    BY <1>3, <1>4
  <2>1. i \in Items /\ (i = cur.item \/ Healed(mem, i))
    BY DEF AllWell, InHand, RunInv, WalkTyped
  <2> QED
    BY <1>2, <2>1, CaptureHeals
<1> QED
  BY <1>1, <1>3, <1>4, <1>5, <1>6 DEF AllWell

LEMMA CalmRest ==
  ASSUME RunInv, AllWell, left' = left, pc # "idle",
         \/ RemoveOldPage \/ RemoveOldZip \/ Checkpoint \/ Flush \/ Save
         \/ UNCHANGED vars
  PROVE  AllWell'
<1>1. ~Upset
  BY DEF Upset, RunInv
<1>2. UNCHANGED <<run, mem, held, cur>>
  BY DEF RemoveOldPage, RemoveOldZip, Checkpoint, Flush, Save, vars, about
<1>3. /\ walk'.pos = walk.pos /\ walk'.met = walk.met /\ walk'.why = walk.why
      /\ walk'.unread = walk.unread /\ walk'.final = walk.final
      /\ walk'.unwritable = walk.unwritable
      /\ walk'.saveErr = walk.saveErr \/ walk'.saveErr = FALSE
  <2>1. \/ walk' = walk \/ walk' = [walk EXCEPT !.since = 0]
        \/ walk' = [walk EXCEPT !.saveErr = FALSE]
    BY <1>1 DEF RemoveOldPage, RemoveOldZip, Goto, Checkpoint, Flush, Save, May, vars
  <2> QED
    BY <2>1, RunWalk DEF WalkFields
<1>4. /\ pc' # "lost" /\ (pc' \in {"zip", "page"} => pc' = pc)
      /\ pc' = "finish" => pc = "finish" \/ walk.why # "walk" \/ walk.pos > Len(Walk)
      /\ pc \in {"zip", "page"} => pc' = pc
  BY DEF RemoveOldPage, RemoveOldZip, Goto, Onward, Checkpoint, Flush, Save, vars, AllWell
<1>5. \A l \in Locators : ~GapNow(l)'
  BY <1>2 DEF AllWell, GapNow
<1>6. \A i \in walk'.met : InHand(i)' \/ Healed(mem, i)'
  BY <1>2, <1>3, <1>4 DEF AllWell, InHand, Healed, Kept
<1> QED
  BY <1>2, <1>3, <1>4, <1>5, <1>6 DEF AllWell

LEMMA CalmFinish == ASSUME RunInv, AllWell, Finish PROVE AllWell'
<1>1. /\ pc = "finish" /\ pc' = "flush" /\ UNCHANGED <<run, held, cur>>
      /\ walk' = [walk EXCEPT !.final = TRUE]
  BY DEF Finish, about
<1>2. /\ walk'.pos = walk.pos /\ walk'.met = walk.met /\ walk'.why = walk.why
      /\ walk'.unread = walk.unread /\ walk'.saveErr = walk.saveErr
      /\ walk'.unwritable = walk.unwritable
  BY <1>1, RunWalk DEF WalkFields
<1>3. /\ mem'.recs = mem.recs
      /\ \A l \in Locators : mem'.gaps[l] = mem.gaps[l] \/ mem'.gaps[l] = None
  BY FinishedGaps
<1>4. \A l \in Locators : ~GapNow(l)'
  BY <1>1, <1>3 DEF AllWell, GapNow
<1>5. \A i \in walk'.met : InHand(i)' \/ Healed(mem, i)'
  BY <1>1, <1>2, <1>3 DEF AllWell, InHand, Healed, Kept
<1> QED
  BY <1>1, <1>2, <1>4, <1>5 DEF AllWell

(* A run's start is remembered until it ends. *)
LEMMA BeganStays ==
  ASSUME RunInv, FilesInv, [Next]_vars, pc # "idle", pc' # "idle"
  PROVE  walk'.began = walk.began
<1>1. ASSUME Stands PROVE walk'.began = walk.began
  BY <1>1 DEF Stands
<1>2. ASSUME \E l, g, j, M : Notes(l, g, j, M) PROVE walk'.began = walk.began
  BY <1>2 DEF Notes
<1>3. ASSUME NEW n, Answers(n) \/ Captures(n) PROVE walk'.began = walk.began
  BY <1>3 DEF Answers, Captures
<1>4. CASE Stops \/ Absent
  BY <1>1, <1>4, StopsStands, AbsentStands
<1>5. CASE ReaderFault \/ Vanishes \/ TableFault
  BY <1>2, <1>5, ReaderFaultNotes, VanishesNotes, TableFaultNotes
<1>6. CASE \E read \in Reads \union {"whole"} :
             LeaveUnwritable(read) \/ Keep(read) \/ Skip(read) \/ StartCapture(read)
  BY <1>1, <1>2, <1>3, <1>6, LeaveNotes, KeepAnswers, SkipAnswers, StartStands
<1>7. CASE FolderFails \/ ItemFails \/ Panics
  BY <1>1, <1>2, <1>7, FolderFailsNotes, ItemFailsNotes, PanicsNotes
<1>8. CASE ArchiveFails \/ WriteZip \/ RemoveOldPage \/ RemoveOldZip
  BY <1>1, <1>8, ArchiveFailsStands, WriteZipStands, RemovesStand
<1>9. CASE Checkpoint \/ Flush \/ LoseLock
  BY <1>1, <1>9, CheckpointStands, FlushStands, LoseLockStands
<1>10. CASE WritePage
  BY <1>3, <1>10, PageCaptures
<1>11. CASE Save \/ Finish
  <2>1. \/ walk' = [walk EXCEPT !.saveErr = FALSE] \/ walk' = [walk EXCEPT !.saveErr = TRUE]
        \/ walk' = [walk EXCEPT !.final = TRUE]
    BY <1>11 DEF Save, Finish
  <2> QED
    BY <2>1, RunWalk DEF WalkFields
<1>12. CASE Begin \/ Report \/ Lost \/ Kill
  BY <1>12 DEF Begin, Report, Lost, Kill, Ended
<1>13. CASE UNCHANGED vars
  BY <1>13 DEF vars
<1> QED
  BY <1>4, <1>5, <1>6, <1>7, <1>8, <1>9, <1>10, <1>11, <1>12, <1>13 DEF Next

LEMMA CalmStep == RunInv /\ FilesInv /\ CalmInv /\ [Next]_vars => CalmInv'
<1> SUFFICES ASSUME RunInv, FilesInv, CalmInv, [Next]_vars PROVE CalmInv'
  OBVIOUS
<1>1. left \in Nat /\ left' \in Nat /\ left' <= left /\ walk.began \in Nat
  BY LeftFalls DEF RunInv, WalkTyped
<1>2. CASE Begin
  BY <1>2, CalmBegin
<1>3. CASE pc' = "idle"
  BY <1>3 DEF CalmInv
<1>4. CASE pc = "idle" /\ ~Begin
  <2>1. pc' = "idle"
    BY <1>4, StepsTell DEF Report, Lost, Kill, Ended
  <2> QED
    BY <1>3, <2>1
<1>5. CASE pc # "idle" /\ pc' # "idle"
  <2>1. walk'.began = walk.began /\ left <= walk.began
    BY <1>5, BeganStays DEF CalmInv
  <2>2. ASSUME left' = walk'.began PROVE AllWell'
    <3>1. left' = left /\ AllWell
      BY <1>1, <1>5, <2>1, <2>2 DEF CalmInv
    <3>2. \/ Skip("whole") \/ StartCapture("whole")
          \/ WriteZip \/ WritePage \/ RemoveOldPage \/ RemoveOldZip
          \/ Checkpoint \/ Flush \/ Save \/ Finish \/ UNCHANGED vars
      BY <1>5, <3>1, CalmWalkOn
    <3> QED
      BY <1>5, <3>1, <3>2, CalmSkip, CalmStart, CalmZip, CalmPage, CalmRest, CalmFinish
  <2> QED
    BY <1>1, <2>1, <2>2 DEF CalmInv
<1> QED
  BY <1>2, <1>3, <1>4, <1>5

LEMMA InitCalm == Init => CalmInv
BY DEF Init, CalmInv

LEMMA CalmReport == ASSUME RunInv, CalmInv, Report PROVE CalmRunHeals'
<1> SUFFICES ASSUME calm', NEW i \in Items
             PROVE  outcome' = "ok" /\ CapturedWhole(saved, i)'
  <2>1. ASSUME calm' PROVE outcome' = "ok" /\ \A i \in Items : CapturedWhole(saved, i)'
    <3>1. Items # {}
      BY ItemIsIn, WalkAssumption
    <3> QED
      BY <2>1, <3>1
  <2> QED
    BY <2>1 DEF CalmRunHeals
<1>1. /\ pc = "report" /\ UNCHANGED saved /\ left = walk.began
  BY DEF Report, disk
<1>2. AllWell /\ walk.final /\ saved = mem /\ RecsOK(mem)
  BY <1>1 DEF CalmInv, RunInv, EndsOK, AllWell
<1>3. Observed = {}
  BY <1>2 DEF AllWell, GapNow, Observed
<1>4. outcome' = "ok"
  BY <1>2, <1>3 DEF Report, AllWell
<1>5. i \in walk.met
  <2>1. PICK n \in DOMAIN Walk : i = Walk[n]
    BY DEF Items, ToSet
  <2>2. n \in 1..Len(Walk) /\ walk.pos > Len(Walk) /\ walk.pos \in Nat
    BY <1>2, WalkAssumption, RunWalk DEF AllWell
  <2>3. n \in 1..(walk.pos - 1)
    BY <2>2, WalkAssumption
  <2> QED
    BY <1>2, <2>1, <2>3 DEF AllWell
<1>6. Healed(mem, i)
  BY <1>1, <1>2, <1>5 DEF AllWell, InHand
<1>7. CapturedWhole(mem, i)
  BY <1>2, <1>6, HealedIsWhole
<1> QED
  BY <1>1, <1>2, <1>4, <1>7 DEF CapturedWhole

LEMMA HealsStep ==
  RunInv /\ ToldInv /\ CalmInv /\ CalmRunHeals /\ [Next]_vars => CalmRunHeals'
<1> SUFFICES ASSUME RunInv, ToldInv, CalmInv, CalmRunHeals, [Next]_vars
             PROVE  CalmRunHeals'
  OBVIOUS
<1>1. CASE Begin \/ Lost \/ Kill
  BY <1>1 DEF Begin, Lost, Kill, Unfinished, CalmRunHeals
<1>2. CASE Report
  BY <1>2, CalmReport
<1>3. CASE pc # "idle" /\ UNCHANGED told
  BY <1>3 DEF ToldInv, CalmRunHeals, told
<1>4. CASE UNCHANGED <<told, pc, saved>>
  BY <1>4 DEF told, CalmRunHeals, CapturedWhole
<1> QED
  BY <1>1, <1>2, <1>3, <1>4, StepsTell

(* Whatever happened before, a run in which nothing goes wrong ends ok with
   every message of the source captured whole: what an earlier run missed or
   read in part is asked for again (export/exporter.go, probeImproves). *)
THEOREM CalmRunHealsAlways == Spec => []CalmRunHeals
<1>1. Init => RunInv /\ FilesInv /\ ToldInv /\ CalmInv /\ CalmRunHeals
  <2>1. Init => CalmRunHeals
    BY DEF Init, CalmRunHeals
  <2> QED
    BY <2>1, InitRun, InitFiles, InitTold, InitCalm
<1>2. RunInv /\ FilesInv /\ ToldInv /\ CalmInv /\ CalmRunHeals /\ [Next]_vars
        => RunInv' /\ FilesInv' /\ ToldInv' /\ CalmInv' /\ CalmRunHeals'
  BY RunStep, FilesStep, ToldStep, CalmStep, HealsStep
<1> QED
  BY <1>1, <1>2, PTL DEF Spec
===============================================================================
