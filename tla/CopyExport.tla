----------------------------- MODULE CopyExport -----------------------------
(* One chain of copy exports: a run copies the planned messages into a       *)
(* folder of its own, finalizes the folder (README, manifest, SHA256SUMS)    *)
(* and seals it (sealed line, ledger line, marker action, journal end); what *)
(* it left over is exported by a retry, the chain's next run.  A run that    *)
(* was killed, stopped or wedged is finished from its run record alone.      *)
(*   src/internal/app/copyexport_{run,final,reconcile,record,history}.go     *)
(*   src/internal/desktop/exports.go                                         *)
EXTENDS Integers, Sequences, FiniteSets, SequencesExt

CONSTANTS
    MaxRuns,    \* runs of the chain: the first export and its retries
    NMsgs,      \* messages selected for the first export
    MaxUpsets,  \* kills, failed writes, panics, lost files, unplugged drives
                \* and compactions
    MaxTries,   \* finalizations of one run: its own and Finish as partial's
    WedgeAt,    \* the steps in which a call may hang for 30 s after Cancel
    Torn        \* "refused", "removal": what may fail or be cut short by a kill

Runs == 1..MaxRuns
Msgs == 1..NMsgs
Finisher == 0                  \* the handler of the Finish button
Writers == Runs \union {Finisher}
NoOne == -1

Starting == {"record", "journal", "marker", "refused", "remove"}
Copying == {"msg", "fetch", "place", "line"}
Finalizing == {"presence", "readme", "manifest", "sums"}
Sealing == {"ledger", "action", "end"}
Steps == {"idle", "check", "seal", "over"} \union Starting \union Copying
           \union Finalizing \union Sealing
Statuses == {"complete", "partial", "cancelled", "failed", "finished"}
Lines == {"none", "exported", "retry", "terminal", "notatt"}

ASSUME BoundsAssumption ==
    /\ MaxRuns \in Nat \ {0} /\ NMsgs \in Nat \ {0}
    /\ MaxUpsets \in Nat /\ MaxTries \in Nat \ {0}
    /\ WedgeAt \subseteq Steps /\ Torn \subseteq {"refused", "removal"}

VARIABLES
    up,       \* the program runs
    live,     \* the run in the export slot, NoOne when it is free
    asked,    \* asked[r]: what was asked of run r: no, cancelled or abandoned
    job,      \* job[w]: where run w, or the finisher, is
    mutex,    \* who holds ledgerMu across a seal
    away,     \* the destination's drive is unplugged
    folder,   \* folder[r]: the export folder of run r
    rec,      \* rec[r]: its run record; plan and line outlive the file here
    seal,     \* seal[r]: the record's sealed line, status "none" before it
    journal,  \* journal[r]: the lines of desktop-exports.jsonl that decide
    ledger,   \* export-fingerprints.jsonl, the chain's lines
    tries,    \* tries[r]: finalizations begun
    left      \* upsets left

vars == <<up, live, asked, job, mutex, away, folder, rec, seal, journal,
          ledger, tries, left>>
disk == <<away, folder, rec, seal, journal, ledger>>

Idle == [at |-> "idle", run |-> NoOne, next |-> 1, got |-> "none",
         stop |-> FALSE, status |-> "complete", try |-> 0]
NoFolder == [made |-> FALSE, marker |-> "none",
             file |-> [m \in Msgs |-> "none"], readme |-> 0, manifest |-> 0,
             sums |-> 0, listed |-> {}]
NoRecord == [kept |-> FALSE, plan |-> {}, line |-> [m \in Msgs |-> "none"],
             gone |-> FALSE]
Unsealed == [status |-> "none", try |-> 0, parts |-> <<>>]

TypeOK ==
    /\ up \in BOOLEAN /\ away \in BOOLEAN
    /\ live \in Runs \union {NoOne}
    /\ asked \in [Runs -> {"no", "cancelled", "abandoned"}]
    /\ job \in [Writers ->
         [at : Steps, run : Runs \union {NoOne}, next : 1..(NMsgs + 1),
          got : Lines, stop : BOOLEAN, status : Statuses, try : 0..MaxTries]]
    /\ mutex \in Writers \union {NoOne}
    /\ folder \in [Runs ->
         [made : BOOLEAN,
          marker : {"none", "unfinished", "stopped"},
          file : [Msgs -> {"none", "good", "bad"}], readme : 0..MaxTries,
          manifest : 0..MaxTries, sums : 0..MaxTries, listed : SUBSET Msgs]]
    /\ rec \in [Runs -> [kept : BOOLEAN, plan : SUBSET Msgs,
                         line : [Msgs -> Lines], gone : BOOLEAN]]
    /\ \A r \in Runs : /\ seal[r].status \in Statuses \union {"none"}
                       /\ seal[r].try \in 0..MaxTries
                       /\ seal[r].parts \in Seq(Runs)
    /\ journal \in [Runs -> SUBSET {"start", "end", "finishing"}]
    /\ \A i \in DOMAIN ledger :
         /\ ledger[i].run \in Runs
         /\ ledger[i].kind \in {"sealed", "gone", "refused"}
         /\ ledger[i].parts \in Seq(Runs)
    /\ tries \in [Runs -> 0..MaxTries]
    /\ left \in 0..MaxUpsets

Init ==
    /\ up = TRUE /\ away = FALSE /\ live = NoOne /\ mutex = NoOne
    /\ asked = [r \in Runs |-> "no"]
    /\ job = [w \in Writers |-> Idle]
    /\ folder = [r \in Runs |-> NoFolder]
    /\ rec = [r \in Runs |-> NoRecord]
    /\ seal = [r \in Runs |-> Unsealed]
    /\ journal = [r \in Runs |-> {}]
    /\ ledger = <<>>
    /\ tries = [r \in Runs |-> 0]
    /\ left = MaxUpsets

----------------------------------------------------------------------------
(* What the records, the ledger and the folders say.                        *)

IsSealed(r) == seal[r].status /= "none"
LedgerHas(lines, r) == \E i \in DOMAIN lines : lines[i].run = r
Kept == {r \in Runs : rec[r].kept}
Exported(r) == {m \in rec[r].plan : rec[r].line[m] = "exported"}
Terminal(r) == {m \in rec[r].plan : rec[r].line[m] = "terminal"}
Retryable(r) == {m \in rec[r].plan : rec[r].line[m] = "retry"}

(* A cancelled, failed or finished-as-partial folder keeps its marker.      *)
MarkerStays(status) == status \in {"cancelled", "failed", "finished"}

\* Mutant: a run that went through every message is complete, whatever failed.
FinalStatusMutant(proposed, r) == proposed

FinalStatus(proposed, r) ==
    IF proposed = "complete" /\ Exported(r) /= rec[r].plan
    THEN "partial" ELSE proposed

(* exportedElsewhere: what the chain's other sealed parts, not marked gone,  *)
(* exported or listed for good.                                              *)
Elsewhere(r) ==
    UNION {Exported(p) \union Terminal(p) :
             p \in {q \in Kept \ {r} : IsSealed(q) /\ ~rec[q].gone}}

RunRemaining(r) ==
    IF rec[r].gone THEN rec[r].plan \ Elsewhere(r)
    ELSE {m \in rec[r].plan \ Elsewhere(r) :
            \/ rec[r].line[m] \in {"none", "notatt"}
            \/ rec[r].line[m] = "retry" /\ seal[r].status /= "cancelled"}

RunFailed(r) == Retryable(r) \ Elsewhere(r)

(* The retries a card offers: each is the set of messages it would export.   *)
(* A gone folder's card offers Export these; an ended run's, by its status.  *)
RetryOffers(r) ==
    IF rec[r].gone THEN {RunRemaining(r)} \ {{}}
    ELSE IF "end" \notin journal[r] THEN {}
    ELSE CASE seal[r].status = "partial" -> {RunFailed(r)} \ {{}}
           [] seal[r].status = "cancelled" ->
                {RunFailed(r), RunRemaining(r)} \ {{}}
           [] seal[r].status \in {"failed", "finished"} ->
                {RunRemaining(r)} \ {{}}
           [] OTHER -> {}

SealedLine(r) == [run |-> r, kind |-> "sealed", parts |-> seal[r].parts]
GoneLine(r) == [run |-> r, kind |-> "gone", parts |-> <<>>]

(* ledgerFromSealedLocked: a run's ledger line, once.  Of an unsealed run,   *)
(* that its folder is gone.                                                  *)
WithLine(lines, r) ==
    IF LedgerHas(lines, r) THEN lines
    ELSE Append(lines, IF IsSealed(r) THEN SealedLine(r) ELSE GoneLine(r))

(* The lines that runs still miss, in the order of the chain.                *)
WithLines(lines, rs) ==
    LET upto[n \in 0..MaxRuns] ==
          IF n = 0 THEN lines
          ELSE IF n \in rs THEN WithLine(upto[n - 1], n) ELSE upto[n - 1]
    IN  upto[MaxRuns]

(* appendMissingLedgerLocked: the lines that sealed parts still miss.        *)
WithMissing(lines, rs) == WithLines(lines, {r \in rs : IsSealed(r)})

(* The set state a seal resumes from: the latest line that carries one; a    *)
(* gone or refused line carries none.                                        *)
LastParts(lines) ==
    LET sealed == {i \in DOMAIN lines : lines[i].kind = "sealed"}
    IN  IF sealed = {} THEN <<>>
        ELSE lines[CHOOSE i \in sealed : \A j \in sealed : j <= i].parts

Settled(r, lines) ==
    /\ LedgerHas(lines, r)
    /\ rec[r].gone \/ (IsSealed(r) /\ "end" \in journal[r])

\* Mutant: a message of a gone folder still counts as exported.
CoveredMutant == UNION {Exported(p) : p \in {q \in Kept : IsSealed(q)}}

Covered == UNION {Exported(p) : p \in {q \in Kept : IsSealed(q) /\ ~rec[q].gone}}

(* recordDeletable, whose verdict is the chain's: every part is settled and  *)
(* no card offers an export any more.                                        *)
Deletable(lines) ==
    IF \A p \in Kept : /\ Settled(p, lines)
                       /\ rec[p].plan \subseteq Covered \union Terminal(p)
    THEN Kept ELSE {}

----------------------------------------------------------------------------
(* Steps of a writer: a run's goroutine, or the finisher.                   *)

At(w, step) == up /\ job[w].at = step
Spend == left > 0 /\ left' = left - 1

(* An append to the state directory, and a write to the destination: done,   *)
(* or failed.  Without its drive the destination takes no write.             *)
Appends(ok) == IF ok THEN UNCHANGED left ELSE Spend
Writes(ok) ==
    IF away THEN ~ok /\ UNCHANGED left ELSE Appends(ok)

Go(w, step) == job' = [job EXCEPT ![w].at = step] /\ UNCHANGED live

(* The writer is through: a run releases the export slot.                   *)
Leave(w) ==
    /\ job' = [job EXCEPT ![w] =
                 [Idle EXCEPT !.at = IF w = Finisher THEN "idle" ELSE "over"]]
    /\ live' = IF live = w THEN NoOne ELSE live

Proceed(w, ok, step) == IF ok THEN Go(w, step) ELSE Leave(w)

(* A run goes over to its finalization, unless it was abandoned.            *)
Conclude(r, status) ==
    IF asked[r] = "abandoned"
    THEN Leave(r) /\ UNCHANGED tries
    ELSE /\ tries[r] < MaxTries
         /\ tries' = [tries EXCEPT ![r] = @ + 1]
         /\ job' = [job EXCEPT ![r] =
                      [Idle EXCEPT !.at = "presence", !.run = r,
                         !.status = status, !.try = tries[r] + 1]]
         /\ UNCHANGED live

----------------------------------------------------------------------------
(* Start: the folder, the record with the plan, the journal, the marker.    *)

Start(r) ==
    /\ up /\ live = NoOne /\ ~away
    /\ ~folder[r].made /\ \A q \in 1..(r - 1) : folder[q].made
    /\ \E plan \in IF r = 1 THEN {Msgs}
                   ELSE UNION {RetryOffers(q) :
                                 q \in {p \in Kept : "start" \in journal[p]}} :
         rec' = [rec EXCEPT ![r].plan = plan]
    /\ folder' = [folder EXCEPT ![r].made = TRUE]
    /\ job' = [job EXCEPT ![r] = [Idle EXCEPT !.at = "record", !.run = r]]
    /\ live' = r
    /\ UNCHANGED <<up, asked, mutex, away, seal, journal, ledger, tries, left>>

CreateRecord(r) ==
    /\ At(r, "record")
    /\ \E ok \in BOOLEAN :
         /\ Appends(ok)
         /\ rec' = [rec EXCEPT ![r].kept = ok]
         /\ Proceed(r, ok, "journal")
    /\ UNCHANGED <<up, asked, mutex, away, folder, seal, journal, ledger, tries>>

JournalStart(r) ==
    /\ At(r, "journal")
    /\ \E ok \in BOOLEAN :
         /\ Appends(ok)
         /\ journal' = [journal EXCEPT ![r] = IF ok THEN @ \union {"start"} ELSE @]
         /\ Go(r, IF ok THEN "marker" ELSE "refused")
    /\ UNCHANGED <<up, asked, mutex, away, folder, rec, seal, ledger, tries>>

(* The directory sync after the rename may fail with the marker in place.   *)
WriteMarker(r) ==
    /\ At(r, "marker")
    /\ \E ok \in BOOLEAN, placed \in BOOLEAN :
         /\ ok => placed
         /\ placed => ~away
         /\ Writes(ok)
         /\ folder' = [folder EXCEPT ![r].marker =
                                        IF placed THEN "unfinished" ELSE @]
         /\ Go(r, IF ok THEN "msg" ELSE "refused")
    /\ UNCHANGED <<up, asked, mutex, away, rec, seal, journal, ledger, tries>>

(* A refused start is in the ledger before its record goes, so that the      *)
(* launch does not adopt it.                                                 *)
RefusedStart(r) ==
    /\ At(r, "refused")
    /\ \E ok \in BOOLEAN :
         /\ Appends(ok)
         /\ ledger' = IF ok THEN Append(ledger, [run |-> r, kind |-> "refused",
                                                 parts |-> <<>>])
                      ELSE ledger
         /\ Proceed(r, ok, "remove")
    /\ UNCHANGED <<up, asked, mutex, away, folder, rec, seal, journal, tries>>

(* The error of the removal is ignored.                                      *)
RemoveRefused(r) ==
    /\ At(r, "remove")
    /\ \E ok \in IF "refused" \in Torn THEN BOOLEAN ELSE {TRUE} :
         /\ Appends(ok)
         /\ rec' = [rec EXCEPT ![r].kept = ~ok]
    /\ Leave(r)
    /\ UNCHANGED <<up, asked, mutex, away, folder, seal, journal, ledger, tries>>

----------------------------------------------------------------------------
(* The loop over the messages.                                              *)

(* A stop (the space, the sign-in, the breaker) may come before any message; *)
(* past the last one a cancel no longer counts.                              *)
NextMessage(r) ==
    /\ At(r, "msg")
    /\ LET rest == {m \in rec[r].plan : m >= job[r].next}
       IN  \/ /\ rest = {}
              /\ Conclude(r, "complete")
           \/ /\ rest /= {}
              /\ Conclude(r, IF asked[r] = "no" THEN "failed" ELSE "cancelled")
           \/ /\ rest /= {} /\ asked[r] = "no"
              /\ job' = [job EXCEPT ![r].at = "fetch", ![r].next =
                           CHOOSE m \in rest : \A n \in rest : m <= n]
              /\ UNCHANGED <<live, tries>>
    /\ UNCHANGED <<up, asked, mutex, left, disk>>

(* The download into a temporary file ends: whole, also after the run was    *)
(* abandoned, failed (for good or not, with the stop of the run or without), *)
(* or cut by the cancel.                                                     *)
Fetch(r) ==
    /\ At(r, "fetch")
    /\ \/ /\ asked[r] /= "no"
          /\ Conclude(r, "cancelled")
       \/ /\ ~away
          /\ Go(r, "place") /\ UNCHANGED tries
       \/ /\ asked[r] /= "abandoned"
          /\ \E got \in {"retry", "terminal"}, stop \in BOOLEAN :
               /\ stop => got = "retry"
               /\ job' = [job EXCEPT ![r].at = "line", ![r].got = got,
                                     ![r].stop = stop]
          /\ UNCHANGED <<live, tries>>
    /\ UNCHANGED <<up, asked, mutex, left, disk>>

(* The sync of the temporary file and its rename; neither asks whether the   *)
(* run was abandoned.                                                        *)
Place(r) ==
    /\ At(r, "place")
    /\ \E ok \in BOOLEAN, stop \in BOOLEAN :
         /\ Writes(ok)
         /\ ok => ~stop
         /\ away => stop
         /\ folder' = [folder EXCEPT ![r].file[job[r].next] =
                                        IF ok THEN "good" ELSE @]
         /\ job' = [job EXCEPT ![r].at = "line", ![r].stop = stop,
                               ![r].got = IF ok THEN "exported" ELSE "retry"]
    /\ UNCHANGED <<up, live, asked, mutex, away, rec, seal, journal, ledger, tries>>

(* removedMayBeBack: a stop because the archive went away takes back that    *)
(* messages failed for good, as far as its appends succeed; a stop for       *)
(* another reason takes back none.                                           *)
RecordLine(r) ==
    /\ At(r, "line")
    /\ IF asked[r] = "abandoned"
       THEN Leave(r) /\ UNCHANGED <<rec, tries, left>>
       ELSE \E ok \in BOOLEAN, back \in SUBSET Terminal(r) :
              /\ Appends(ok)
              /\ (ok /\ job[r].stop) \/ back = {}
              /\ rec' = [rec EXCEPT ![r].line =
                           [m \in Msgs |-> IF m \in back THEN "retry"
                                           ELSE IF ok /\ m = job[r].next
                                                THEN job[r].got ELSE @[m]]]
              /\ IF ok /\ ~job[r].stop
                 THEN /\ job' = [job EXCEPT ![r].at = "msg", ![r].next = @ + 1,
                                            ![r].got = "none"]
                      /\ UNCHANGED <<live, tries>>
                 ELSE Conclude(r, "failed")
    /\ UNCHANGED <<up, asked, mutex, away, folder, seal, journal, ledger>>

----------------------------------------------------------------------------
(* Finalization, from the record, by the run or by Finish as partial: only   *)
(* the latter hashes the files again, and replaces what an earlier attempt   *)
(* wrote.  Any error leaves the marker and no seal.                          *)

Presence(w) ==
    /\ At(w, "presence")
    /\ LET r == job[w].run
           rehash == w = Finisher
           absent == {m \in Exported(r) : folder[r].file[m] = "none"}
           damaged == {m \in Exported(r) : folder[r].file[m] = "bad"}
           amend == IF rehash THEN absent \union damaged ELSE absent
       IN  IF away
           THEN Leave(w) /\ UNCHANGED <<rec, left>>
           ELSE \E upto \in Msgs \union {0} :
                  LET landed == {m \in amend : m <= upto}
                      ok == landed = amend
                  IN  /\ ok => upto = NMsgs
                      /\ Appends(ok)
                      /\ rec' = [rec EXCEPT ![r].line =
                           [m \in Msgs |->
                              IF m \notin landed THEN @[m]
                              ELSE IF rehash /\ m \in absent THEN "notatt"
                                   ELSE "retry"]]
                      /\ Proceed(w, ok, "readme")
    /\ UNCHANGED <<up, asked, mutex, away, folder, seal, journal, ledger, tries>>

(* README, manifest and sums in turn.  The sums list what the record holds   *)
(* as exported, and the two documents of the same attempt.                   *)
WriteDocument(w) ==
    /\ up /\ job[w].at \in {"readme", "manifest", "sums"}
    /\ LET r == job[w].run
           doc == job[w].at
       IN  \E ok \in BOOLEAN :
             /\ IF w /= Finisher /\ folder[r][doc] /= 0
                THEN ~ok /\ UNCHANGED left ELSE Writes(ok)
             /\ folder' = IF ~ok THEN folder
                          ELSE IF doc = "sums"
                          THEN [folder EXCEPT ![r].sums = job[w].try,
                                              ![r].listed = Exported(r)]
                          ELSE [folder EXCEPT ![r][doc] = job[w].try]
             /\ IF ok /\ doc = "readme"
                THEN /\ job' = [job EXCEPT ![w].at = "manifest",
                                  ![w].status = FinalStatus(job[w].status, r)]
                     /\ UNCHANGED live
                ELSE Proceed(w, ok, IF doc = "manifest" THEN "sums" ELSE "seal")
    /\ UNCHANGED <<up, asked, mutex, away, rec, seal, journal, ledger, tries>>

(* The seal takes ledgerMu for all its steps.  A record that is sealed       *)
(* already keeps its line.                                                   *)
Seal(w) ==
    /\ At(w, "seal") /\ mutex = NoOne
    /\ LET r == job[w].run
       IN  IF IsSealed(r)
           THEN /\ mutex' = w
                /\ Go(w, "ledger")
                /\ UNCHANGED <<seal, ledger, left>>
           ELSE \E ok \in BOOLEAN, missing \in BOOLEAN :
                  /\ ok => missing
                  /\ Appends(ok)
                  /\ ledger' = IF missing THEN WithMissing(ledger, Kept \ {r})
                               ELSE ledger
                  /\ seal' = IF ok
                             THEN [seal EXCEPT ![r] =
                                     [status |-> job[w].status,
                                      try |-> job[w].try,
                                      parts |-> Append(LastParts(ledger'), r)]]
                             ELSE seal
                  /\ mutex' = IF ok THEN w ELSE NoOne
                  /\ Proceed(w, ok, "ledger")
    /\ UNCHANGED <<up, asked, away, folder, rec, journal, tries>>

AppendLedger(w) ==
    /\ At(w, "ledger")
    /\ LET r == job[w].run
       IN  \E ok \in BOOLEAN :
             /\ LedgerHas(ledger, r) => ok
             /\ Appends(ok)
             /\ ledger' = IF ok THEN WithLine(ledger, r) ELSE ledger
             /\ mutex' = IF ok THEN w ELSE NoOne
             /\ Proceed(w, ok, "action")
    /\ UNCHANGED <<up, asked, away, folder, rec, seal, journal, tries>>

(* The marker goes, or is rewritten CANCELLED or STOPPED, as the sealed      *)
(* status says; the directory sync after it may fail.                        *)
MarkerAction(w) ==
    /\ At(w, "action")
    /\ LET r == job[w].run
       IN  \E ok \in BOOLEAN, done \in BOOLEAN :
             /\ ok => done
             /\ done => ~away
             /\ Writes(ok)
             /\ folder' = [folder EXCEPT ![r].marker =
                             IF ~done THEN @
                             ELSE IF MarkerStays(seal[r].status)
                                  THEN "stopped" ELSE "none"]
             /\ mutex' = IF ok THEN w ELSE NoOne
             /\ Proceed(w, ok, "end")
    /\ UNCHANGED <<up, asked, away, rec, seal, journal, ledger, tries>>

JournalEnd(w) ==
    /\ At(w, "end")
    /\ LET r == job[w].run
       IN  \E ok \in BOOLEAN :
             /\ "end" \in journal[r] => ok
             /\ Appends(ok)
             /\ journal' = [journal EXCEPT ![r] =
                              IF ok THEN @ \union {"end"} ELSE @]
    /\ mutex' = NoOne
    /\ Leave(w)
    /\ UNCHANGED <<up, asked, away, folder, rec, seal, ledger, tries>>

----------------------------------------------------------------------------
(* What the user does: Cancel, Finish, This folder is gone; and the slot's   *)
(* timer, 30 s after Cancel.                                                 *)

(* Before the loop and after it a cancel is only a flag nobody reads, unless *)
(* the slot's timer finds the run hanging: those cancels are left out.       *)
Cancel(r) ==
    /\ up /\ live = r /\ asked[r] = "no"
    /\ job[r].at \in Copying \union WedgeAt
    /\ asked' = [asked EXCEPT ![r] = "cancelled"]
    /\ UNCHANGED <<up, live, job, mutex, tries, left, disk>>

Wedged(r) ==
    /\ up /\ live = r /\ asked[r] = "cancelled"
    /\ job[r].at \in WedgeAt
    /\ asked' = [asked EXCEPT ![r] = "abandoned"]
    /\ live' = NoOne
    /\ UNCHANGED <<up, job, mutex, tries, left, disk>>

(* The card of run r is there and its run is not live.                      *)
HasCard(r) == up /\ rec[r].kept /\ "start" \in journal[r] /\ live /= r

(* Finish as partial for an unsealed run, Check and finish for a sealed one. *)
Finish(r) ==
    /\ HasCard(r) /\ job[Finisher].at = "idle"
    /\ ~rec[r].gone /\ "end" \notin journal[r]
    /\ ~away
    /\ IF IsSealed(r)
       THEN /\ job' = [job EXCEPT ![Finisher] =
                         [Idle EXCEPT !.at = "check", !.run = r]]
            /\ UNCHANGED tries
       ELSE /\ tries[r] < MaxTries
            /\ tries' = [tries EXCEPT ![r] = @ + 1]
            /\ job' = [job EXCEPT ![Finisher] =
                         [Idle EXCEPT !.at = "presence", !.run = r,
                            !.status = "finished", !.try = tries[r] + 1]]
    /\ UNCHANGED <<up, live, asked, mutex, left, disk>>

(* checkSums: the sums on disk are the sealed ones, and so is every file     *)
(* they list.                                                                *)
ChecksOut(r) ==
    /\ ~away
    /\ folder[r].sums = seal[r].try
    /\ folder[r].readme = folder[r].sums /\ folder[r].manifest = folder[r].sums
    /\ \A m \in folder[r].listed : folder[r].file[m] = "good"

CheckAndFinish(w) ==
    /\ At(w, "check")
    /\ Proceed(w, ChecksOut(job[w].run), "seal")
    /\ UNCHANGED <<up, asked, mutex, tries, left, disk>>

\* Mutant: offered before the sealed line is in the ledger.
MarkGoneMutant(r) ==
    /\ HasCard(r) /\ mutex = NoOne /\ job[Finisher].run /= r
    /\ ~rec[r].gone /\ away
    /\ rec' = [rec EXCEPT ![r].gone = TRUE]
    /\ \E ok \in BOOLEAN :
         /\ LedgerHas(ledger, r) => ok
         /\ Appends(ok)
         /\ ledger' = IF LedgerHas(ledger, r) \/ ~ok THEN ledger
                      ELSE Append(ledger, GoneLine(r))
    /\ UNCHANGED <<up, live, asked, job, mutex, away, folder, seal, journal, tries>>

(* Offered once a probe missed the folder; the reconcile that made the probe *)
(* has appended a sealed run's ledger line first.                            *)
MarkGone(r) ==
    /\ HasCard(r) /\ mutex = NoOne /\ job[Finisher].run /= r
    /\ ~rec[r].gone /\ away
    /\ IsSealed(r) => LedgerHas(ledger, r)
    /\ rec' = [rec EXCEPT ![r].gone = TRUE]
    /\ \E ok \in BOOLEAN :
         /\ LedgerHas(ledger, r) => ok
         /\ Appends(ok)
         /\ ledger' = IF LedgerHas(ledger, r) \/ ~ok THEN ledger
                      ELSE Append(ledger, GoneLine(r))
    /\ UNCHANGED <<up, live, asked, job, mutex, away, folder, seal, journal, tries>>

----------------------------------------------------------------------------
(* ReconcileRun: a sealed run's ledger line, then what its folder shows.     *)

RecoverLedger(r) ==
    /\ HasCard(r) /\ mutex = NoOne
    /\ IsSealed(r) /\ ~LedgerHas(ledger, r)
    /\ ledger' = WithLine(ledger, r)
    /\ UNCHANGED <<up, live, asked, job, mutex, away, folder, rec, seal, journal,
                   tries, left>>

(* "Finishing" is a terminal outcome: until the end is there, the folder is  *)
(* not probed again.                                                         *)
Observe(r) ==
    /\ HasCard(r) /\ ~rec[r].gone /\ ~away
    /\ IsSealed(r) /\ LedgerHas(ledger, r)
    /\ journal[r] \intersect {"end", "finishing"} = {}
    /\ journal' = [journal EXCEPT ![r] = @ \union
         {IF folder[r].marker = "none" THEN "end" ELSE "finishing"}]
    /\ UNCHANGED <<up, live, asked, job, mutex, away, folder, rec, seal, ledger,
                   tries, left>>

----------------------------------------------------------------------------
(* The ends of the program and of its calls, the launch, the world.          *)

Kill ==
    /\ up /\ Spend
    /\ (\E w \in Writers : job[w].at = "remove") => "refused" \in Torn
    /\ up' = FALSE
    /\ job' = [w \in Writers |->
                 [Idle EXCEPT !.at = IF w = Finisher \/ job[w].at = "idle"
                                     THEN "idle" ELSE "over"]]
    /\ live' = NoOne /\ mutex' = NoOne
    /\ asked' = [r \in Runs |-> "no"]
    /\ UNCHANGED <<tries, disk>>

(* A panic ends one writer; it is recovered and its lock released.           *)
Panic(w) ==
    /\ up /\ job[w].at \notin {"idle", "over", "remove"}
    /\ Spend
    /\ Leave(w)
    /\ mutex' = IF mutex = w THEN NoOne ELSE mutex
    /\ UNCHANGED <<up, asked, tries, disk>>

SweptLedger(rs) ==
    WithLines(ledger, {r \in rs : IsSealed(r) \/ rec[r].gone})

(* SweepRunRecords, before the slot opens: adopt the records the journal     *)
(* does not name, append the missing ledger lines, and only then remove      *)
(* the records of a chain that is complete, judged before any is removed.    *)
(* A failed append ends the sweep; a failed removal is passed over.          *)
Launch ==
    /\ ~up /\ up' = TRUE
    /\ \E upto \in Runs :
         LET swept == {r \in Kept : r <= upto}
             whole == upto = MaxRuns
         IN  /\ journal' = [r \in Runs |-> IF r \in swept
                              THEN journal[r] \union {"start"} ELSE journal[r]]
             /\ ledger' = SweptLedger(swept)
             /\ IF ~whole THEN Spend /\ UNCHANGED rec
                ELSE \E gone \in SUBSET Deletable(ledger') :
                       /\ IF gone = Deletable(ledger') THEN UNCHANGED left
                          ELSE "removal" \in Torn /\ Spend
                       /\ rec' = [r \in Runs |->
                                    [rec[r] EXCEPT !.kept = @ /\ r \notin gone]]
    /\ UNCHANGED <<live, asked, job, mutex, away, folder, seal, tries>>

(* CompactJournal: the journal drops the lines of old settled runs, r and     *)
(* those before it, and then the records of a complete chain among them; an  *)
(* unresolved run keeps both.  It happens as rarely as an upset.              *)
Compact(r) ==
    /\ up /\ mutex = NoOne /\ Spend
    /\ LET old == {q \in 1..r : "start" \in journal[q] /\ Settled(q, ledger)}
           gone == old \intersect Deletable(ledger)
       IN  /\ r \in old
           /\ journal' = [q \in Runs |-> IF q \in old THEN {} ELSE journal[q]]
           /\ rec' = [q \in Runs |->
                        [rec[q] EXCEPT !.kept = @ /\ q \notin gone]]
    /\ UNCHANGED <<up, live, asked, job, mutex, away, folder, seal, ledger,
                   tries>>

(* A file lost or damaged after the run's end is seen by no step any more.   *)
Damage(r) ==
    /\ Spend /\ "end" \notin journal[r]
    /\ \E m \in Msgs, to \in {"none", "bad"} :
         /\ folder[r].file[m] = "good"
         /\ folder' = [folder EXCEPT ![r].file[m] = to]
    /\ UNCHANGED <<up, live, asked, job, mutex, away, rec, seal, journal, ledger, tries>>

Unplug ==
    /\ ~away /\ away' = TRUE
    /\ Spend
    /\ UNCHANGED <<up, live, asked, job, mutex, folder, rec, seal, journal,
                   ledger, tries>>

Plug ==
    /\ away /\ away' = FALSE
    /\ UNCHANGED <<up, live, asked, job, mutex, folder, rec, seal, journal,
                   ledger, tries, left>>

Copy(r) ==
    \/ Start(r) \/ CreateRecord(r) \/ JournalStart(r) \/ WriteMarker(r)
    \/ RefusedStart(r) \/ RemoveRefused(r)
    \/ NextMessage(r) \/ Fetch(r) \/ Place(r) \/ RecordLine(r)

Write(w) ==
    \/ Presence(w) \/ WriteDocument(w) \/ Seal(w) \/ AppendLedger(w)
    \/ MarkerAction(w) \/ JournalEnd(w) \/ Panic(w)

User(r) ==
    \/ Cancel(r) \/ Wedged(r) \/ Finish(r) \/ MarkGone(r)
    \/ RecoverLedger(r) \/ Observe(r)

Next ==
    \/ \E r \in Runs : Copy(r) \/ User(r) \/ Compact(r) \/ Damage(r)
    \/ \E w \in Writers : Write(w)
    \/ CheckAndFinish(Finisher)
    \/ Kill \/ Launch \/ Unplug \/ Plug

Spec == Init /\ [][Next]_vars

----------------------------------------------------------------------------
(* What holds.                                                              *)

(* A folder with messages and without its marker is what its README says:    *)
(* its run is sealed complete or partial, README, manifest and SHA256SUMS    *)
(* are those of the sealed attempt, the sums list exactly the messages the   *)
(* record has as exported, and of a complete run every planned one.          *)
(* (copyexport_final.go:1140 markerAction, :155 run; the marker's text.)     *)
UnmarkedIsWhole ==
    \A r \in Runs :
        /\ folder[r].marker = "none"
        /\ \E m \in Msgs : folder[r].file[m] /= "none"
        => /\ seal[r].status \in {"complete", "partial"}
           /\ folder[r].readme = seal[r].try
           /\ folder[r].manifest = seal[r].try
           /\ folder[r].sums = seal[r].try
           /\ folder[r].listed = Exported(r)
           /\ seal[r].status = "complete" => folder[r].listed = rec[r].plan

(* The chain's set fingerprint never forks: whatever was killed, failed or   *)
(* raced between a sealed line and its ledger line, the ledger has one line  *)
(* per run, equal to the run's sealed line, every sealed line goes on from   *)
(* the one before, and so do the sealed lines of the records.                *)
(* (copyexport_final.go:1005 run, :1063 sealedLine, :1101, :1124.)           *)
SetNeverForks ==
    /\ \A i, j \in DOMAIN ledger :
         i < j => /\ ledger[i].run /= ledger[j].run
                  /\ ledger[i].kind = "sealed" /\ ledger[j].kind = "sealed"
                       => IsStrictPrefix(ledger[i].parts, ledger[j].parts)
    /\ \A i \in DOMAIN ledger :
         ledger[i].kind = "sealed" => ledger[i].parts = seal[ledger[i].run].parts
    /\ \A p, q \in Runs : \/ IsPrefix(seal[p].parts, seal[q].parts)
                          \/ IsPrefix(seal[q].parts, seal[p].parts)

(* No message of the chain is forgotten: it was exported by a sealed part    *)
(* that is not gone, or failed for good, or a kept record still plans it     *)
(* and its card offers to export it, or has not come to its end yet.         *)
(* (copyexport_reconcile.go:706 recordDeletable, :763 RunRemaining, :818.)   *)
NothingForgotten ==
    \A m \in UNION {rec[r].plan : r \in {q \in Runs : rec[q].kept \/ IsSealed(q)}} :
        \/ \E r \in Runs : m \in Exported(r) /\ IsSealed(r) /\ ~rec[r].gone
        \/ \E r \in Runs : m \in Terminal(r)
        \/ \E r \in Kept : /\ m \in rec[r].plan
                           /\ \/ ~Settled(r, ledger)
                              \/ m \in UNION RetryOffers(r)
=============================================================================
