------------------------- MODULE CopyExportProofs -------------------------
(* Proofs about the copy exports, for any number of runs, messages, upsets   *)
(* and attempts.  The inductive invariant has four parts, each proved from   *)
(* the ones before: ApartInv (no two writers share a run), DocumentsInv      *)
(* (what a folder says), LedgerInv (what the ledger says) and MessagesInv    *)
(* (which outcome each message has).                                         *)
EXTENDS CopyExport, TLAPS, WellFoundedInduction

(* A call hangs for good only in the loop over the messages. *)
LoopHangs == WedgeAt \subseteq Copying
(* The record of a refused start goes in the step after its ledger line: no kill comes
   between them, and the removal does not fail. *)
WholeRefusals == "refused" \notin Torn

Jobs == [at : Steps, run : Runs \union {NoOne}, next : 1..(NMsgs + 1),
         got : Lines, stop : BOOLEAN, status : Statuses, try : 0..MaxTries]
Folders == [made : BOOLEAN, marker : {"none", "unfinished", "stopped"},
            file : [Msgs -> {"none", "good", "bad"}], readme : 0..MaxTries,
            manifest : 0..MaxTries, sums : 0..MaxTries, listed : SUBSET Msgs]
Records == [kept : BOOLEAN, plan : SUBSET Msgs, line : [Msgs -> Lines],
            gone : BOOLEAN]
Seals == [status : Statuses \union {"none"}, try : 0..MaxTries, parts : Seq(Runs)]
LedgerLines == [run : Runs, kind : {"sealed", "gone", "refused"}, parts : Seq(Runs)]

Finished == job[Finisher].status = "finished"
FinishesUnsealed == job[Finisher].at \in Finalizing \union {"seal"} /\ Finished

(* A run that is not there yet is at nothing, and has no files, no record and no seal. *)
Fresh(r) ==
  /\ job[r].at = "idle" /\ ~rec[r].kept /\ ~IsSealed(r)
  /\ \A m \in Msgs : folder[r].file[m] = "none"

RunAlone(r) ==
  /\ job[r].at /= "check"
  /\ job[r].at \notin {"idle", "over"} =>
       job[r].run = r /\ (live = r \/ asked[r] = "abandoned")
  /\ asked[r] = "abandoned" => job[r].at \in Copying \union {"over"}
  /\ ~folder[r].made => Fresh(r)
  /\ job[r].at = "idle" => ~folder[r].made
  /\ job[r].at \in Finalizing \union {"seal"} => ~IsSealed(r)
  /\ job[r].at \in Sealing => IsSealed(r)
  /\ job[r].at \in Starting \union Copying =>
       ~IsSealed(r) \/ (seal[r].status = "finished" /\ asked[r] = "abandoned")

FinisherApart ==
  LET q == job[Finisher].run
  IN  /\ job[Finisher].at \in {"idle", "check", "seal"} \union Finalizing \union Sealing
      /\ job[Finisher].at /= "idle" => q \in Runs /\ folder[q].made
      /\ job[Finisher].at \in Finalizing => Finished
      /\ job[Finisher].at = "check" => ~Finished
      /\ job[Finisher].at \in {"check"} \union Sealing => IsSealed(q)
      /\ job[Finisher].at = "seal" /\ ~Finished => IsSealed(q)
      /\ FinishesUnsealed =>
           /\ ~IsSealed(q)
           /\ job[q].at \in Copying \union {"over"}
           /\ job[q].at \in Copying => asked[q] = "abandoned"

(* A run has its own writer only, or it was abandoned and the finisher has it. *)
ApartInv == (\A r \in Runs : RunAlone(r)) /\ FinisherApart

Complete(r) == Exported(r) = rec[r].plan

DocumentsAgree(r) ==
  /\ job[r].at \in Copying => folder[r].marker /= "none"
  /\ (\E m \in Msgs : folder[r].file[m] /= "none")
     => folder[r].marker /= "none" \/ seal[r].status \in {"complete", "partial"}
  /\ job[r].at \in {"manifest", "sums", "seal"} =>
       /\ folder[r].readme = job[r].try
       /\ job[r].status = "complete" => Complete(r)
  /\ job[r].at \in {"sums", "seal"} => folder[r].manifest = job[r].try
  /\ job[r].at = "seal" =>
       folder[r].sums = job[r].try /\ folder[r].listed = Exported(r)
  /\ seal[r].status \in {"complete", "partial"} =>
       /\ folder[r].readme = seal[r].try
       /\ folder[r].manifest = seal[r].try
       /\ folder[r].sums = seal[r].try
       /\ folder[r].listed = Exported(r)
       /\ seal[r].status = "complete" => Complete(r)

(* A folder loses its marker only to a seal, and a seal has the documents of its attempt. *)
DocumentsInv == \A r \in Runs : DocumentsAgree(r)

(* The ledger as the seals have it. *)
OneLineEach(lines) ==
  \A i, j \in DOMAIN lines : i /= j => lines[i].run /= lines[j].run
LinesMatch(lines) ==
  \A i \in DOMAIN lines :
    /\ lines[i].kind = "sealed" <=> IsSealed(lines[i].run)
    /\ lines[i].kind = "sealed" => lines[i].parts = seal[lines[i].run].parts
LinesGoOn(lines) ==
  \A i, j \in DOMAIN lines :
    i < j /\ lines[i].kind = "sealed" /\ lines[j].kind = "sealed"
    => IsStrictPrefix(lines[i].parts, lines[j].parts)
Pending(lines) == {r \in Runs : IsSealed(r) /\ ~LedgerHas(lines, r)}
PendingIsNext(lines) ==
  \A r \in Pending(lines) :
    /\ Pending(lines) = {r}
    /\ seal[r].parts = Append(LastParts(lines), r)
Good(lines) ==
  /\ lines \in Seq(LedgerLines)
  /\ OneLineEach(lines) /\ LinesMatch(lines) /\ LinesGoOn(lines)
  /\ PendingIsNext(lines)

(* What a run in hand has not come to. *)
HandSteps == {"journal", "marker", "refused", "seal"} \union Copying \union Finalizing
InHand(r) ==
  \/ job[r].at \in HandSteps /\ asked[r] /= "abandoned"
  \/ FinishesUnsealed /\ job[Finisher].run = r

LinesAwaited(r) ==
  /\ InHand(r) => rec[r].kept /\ ~rec[r].gone /\ ~LedgerHas(ledger, r)
  /\ job[r].at = "record" => ~rec[r].kept /\ ~rec[r].gone /\ ~LedgerHas(ledger, r)
  /\ job[r].at = "remove" => rec[r].kept /\ ~rec[r].gone
  /\ job[r].at = "idle" => ~rec[r].gone /\ ~LedgerHas(ledger, r)
  /\ rec[r].kept /\ ~IsSealed(r) /\ LedgerHas(ledger, r) =>
       rec[r].gone \/ job[r].at = "remove"
  /\ IsSealed(r) => rec[r].kept \/ LedgerHas(ledger, r)

Blank == \A r \in Runs : ~IsSealed(r) => seal[r].parts = <<>>

(* One sealed run at most waits for its line, and goes on from the last line there is. *)
LedgerInv == Good(ledger) /\ Blank /\ \A r \in Runs : LinesAwaited(r)

Outcomes == {"exported", "retry", "terminal"}
(* Every message of the plan has its outcome. *)
Through(r) == \A m \in rec[r].plan : rec[r].line[m] \in Outcomes

LinesInOrder(r) ==
  /\ job[r].at = "idle" => \A m \in Msgs : rec[r].line[m] = "none"
  /\ job[r].at \in Starting \union Copying =>
       \A m \in Msgs : m >= job[r].next => rec[r].line[m] = "none"
  /\ job[r].at \in Starting \union Copying /\ asked[r] /= "abandoned" =>
       \A m \in rec[r].plan : m < job[r].next => rec[r].line[m] \in Outcomes
  /\ job[r].at \in Starting => job[r].next = 1
  /\ job[r].at \in {"fetch", "place", "line"} => job[r].next \in rec[r].plan
  /\ job[r].at = "line" => job[r].got \in Outcomes
  /\ job[r].at \in Finalizing \union {"seal"}
     /\ job[r].status \in {"complete", "partial"} => Through(r)
  /\ seal[r].status \in {"complete", "partial"} => Through(r)

(* A stop may still take back what a run in its loop recorded as failed for good. *)
Looping(r) == job[r].at \in Copying /\ asked[r] /= "abandoned"
Lost(r) == IF Looping(r) THEN {} ELSE Terminal(r)

Provided(m) ==
  \/ \E r \in Runs : m \in Exported(r) /\ IsSealed(r) /\ ~rec[r].gone
  \/ \E r \in Runs : m \in Lost(r)

RemovedAreDone ==
  \A r \in Runs : IsSealed(r) =>
    \A m \in rec[r].plan :
      \/ Provided(m)
      \/ \E q \in Kept : IsSealed(q) /\ m \in rec[q].plan

(* The loop has an outcome for what it passed, and a record goes when it is not needed. *)
MessagesInv == (\A r \in Runs : LinesInOrder(r)) /\ RemovedAreDone

----------------------------------------------------------------------------
(* Numbers, and the lines that are appended run by run.                     *)

(* A set of numbers that is not empty has a least one. *)
LEMMA LeastNumber ==
  ASSUME NEW T \in SUBSET Nat, T # {}
  PROVE  \E n \in T : \A m \in T : n <= m
<1>1. PICK n \in T : \A m \in T : ~(<<m, n>> \in OpToRel(<, Nat))
  <2> DEFINE Less == OpToRel(<, Nat)
  <2>1. IsWellFoundedOn(Less, Nat)
    BY NatLessThanWellFounded, Zenon
  <2> HIDE DEF Less
  <2>2. \E n \in T : \A m \in T : ~(<<m, n>> \in Less)
    BY <2>1, WFMin, Zenon
  <2>3. QED BY <2>2 DEF Less
<1>2. \A m \in T : ~(m < n)
  BY <1>1, Zenon DEF OpToRel
<1>3. QED BY <1>2

(* One that is bounded has a greatest one. *)
LEMMA GreatestNumber ==
  ASSUME NEW N \in Nat, NEW T \in SUBSET (0..N), T # {}
  PROVE  \E n \in T : \A m \in T : m <= n
<1> DEFINE Over == {n \in 0..N : \A m \in T : m <= n}
<1>1. Over \in SUBSET Nat /\ N \in Over
  OBVIOUS
<1>2. PICK n \in Over : \A k \in Over : n <= k
  <2> HIDE DEF Over
  <2>1. QED BY <1>1, LeastNumber
<1>3. CASE n \in T
  BY <1>3
<1>4. CASE n \notin T
  <2>1. \A m \in T : m <= n - 1
    BY <1>4
  <2>2. n - 1 \in 0..N
    <3>1. PICK m \in T : TRUE
      OBVIOUS
    <3>2. m \in 0..N /\ m <= n - 1 /\ n \in 0..N
      BY <2>1, <3>1
    <3>3. QED BY <3>2
  <2>3. QED BY <1>2, <2>1, <2>2
<1>5. QED BY <1>3, <1>4

(* What holds of 0 and goes over from each number to the next holds of all up to N. *)
LEMMA UpTo ==
  ASSUME NEW N \in Nat, NEW T, 0 \in T,
         \A n \in 0..N : n /= 0 /\ n - 1 \in T => n \in T
  PROVE  0..N \subseteq T
<1> DEFINE Left == {n \in 0..N : n \notin T}
<1>1. SUFFICES ASSUME Left # {} PROVE FALSE
  OBVIOUS
<1>2. PICK n \in Left : \A m \in Left : n <= m
  <2>1. Left \in SUBSET Nat
    OBVIOUS
  <2> HIDE DEF Left
  <2>2. QED BY <1>1, <2>1, LeastNumber
<1>3. n \in 0..N /\ n /= 0 /\ n \notin T
  BY <1>2
<1>4. n - 1 \in 0..N /\ n - 1 \notin Left
  BY <1>2, <1>3
<1>5. n - 1 \in T
  BY <1>4
<1>6. QED BY <1>3, <1>5

Follows(lines, rs, f, N) ==
  f = [n \in 0..N |-> IF n = 0 THEN lines
                      ELSE IF n \in rs THEN WithLine(f[n - 1], n) ELSE f[n - 1]]

LEMMA FollowsLonger ==
  ASSUME NEW lines, NEW rs, NEW N \in Nat, N /= 0, NEW g, Follows(lines, rs, g, N - 1)
  PROVE  \E f : Follows(lines, rs, f, N)
<1> DEFINE last == IF N \in rs THEN WithLine(g[N - 1], N) ELSE g[N - 1]
<1> DEFINE f == [n \in 0..N |-> IF n = N THEN last ELSE g[n]]
<1> HIDE DEF last
<1>1. \A n \in 0..N : f[n] = IF n = 0 THEN lines
                      ELSE IF n \in rs THEN WithLine(f[n - 1], n) ELSE f[n - 1]
  <2> TAKE n \in 0..N
  <2>1. CASE n = N
    <3>1. f[n] = last /\ f[n - 1] = g[n - 1] /\ n /= 0
      BY <2>1
    <3>2. QED BY <3>1, <2>1 DEF last
  <2>2. CASE n /= N
    <3>1. n \in 0..(N - 1)
      BY <2>2
    <3>2. f[n] = g[n]
      BY <2>2
    <3>3. g[n] = IF n = 0 THEN lines
                      ELSE IF n \in rs THEN WithLine(g[n - 1], n) ELSE g[n - 1]
      BY <3>1, Zenon DEF Follows
    <3>4. n /= 0 => f[n - 1] = g[n - 1]
      BY <3>1
    <3>5. QED BY <3>2, <3>3, <3>4
  <2>3. QED BY <2>1, <2>2
<1>2. f = [n \in 0..N |-> f[n]]
  BY Zenon
<1> HIDE DEF f
<1>3. Follows(lines, rs, f, N)
  BY <1>1, <1>2, Zenon DEF Follows
<1>4. QED BY <1>3

LEMMA FollowsExists ==
  ASSUME NEW lines, NEW rs, NEW N \in Nat
  PROVE  \E f : Follows(lines, rs, f, N)
<1> DEFINE T == {n \in 0..N : \E f : Follows(lines, rs, f, n)}
<1>1. 0 \in T
  <2>1. 0..0 = {0}
    OBVIOUS
  <2> DEFINE f == [n \in {0} |-> lines]
  <2>2. Follows(lines, rs, f, 0)
    BY <2>1 DEF Follows
  <2>3. QED BY <2>2
<1>2. ASSUME NEW n \in 0..N, n /= 0, n - 1 \in T PROVE n \in T
  BY <1>2, FollowsLonger
<1>3. 0..N \subseteq T
  <2> HIDE DEF T
  <2>1. QED BY <1>1, <1>2, UpTo
<1>4. QED BY <1>3

LEMMA WithLinesSteps ==
  ASSUME NEW lines, NEW rs
  PROVE  \E f : /\ f[MaxRuns] = WithLines(lines, rs)
                /\ f[0] = lines
                /\ \A n \in Runs : f[n] = IF n \in rs THEN WithLine(f[n - 1], n) ELSE f[n - 1]
<1> DEFINE upto[n \in 0..MaxRuns] ==
          IF n = 0 THEN lines
          ELSE IF n \in rs THEN WithLine(upto[n - 1], n) ELSE upto[n - 1]
<1>1. WithLines(lines, rs) = upto[MaxRuns]
  BY DEF WithLines
<1>2. Follows(lines, rs, upto, MaxRuns)
  <2>1. \E f : Follows(lines, rs, f, MaxRuns)
    BY FollowsExists, BoundsAssumption
  <2>2. upto = CHOOSE f : Follows(lines, rs, f, MaxRuns)
    BY DEF Follows
  <2>3. QED BY <2>1, <2>2, Zenon
<1> HIDE DEF upto
<1>3. \A n \in 0..MaxRuns : upto[n] = IF n = 0 THEN lines
          ELSE IF n \in rs THEN WithLine(upto[n - 1], n) ELSE upto[n - 1]
  BY <1>2, Zenon DEF Follows
<1>4. upto[0] = lines
  BY <1>3, BoundsAssumption
<1>5. \A n \in Runs : upto[n] = IF n \in rs THEN WithLine(upto[n - 1], n) ELSE upto[n - 1]
  BY <1>3, BoundsAssumption DEF Runs
<1>6. QED BY <1>1, <1>4, <1>5

LEMMA WithLinesKeeps ==
  ASSUME NEW S, NEW lines \in S, NEW rs,
         \A l \in S : \A r \in rs \intersect Runs : WithLine(l, r) \in S
  PROVE  WithLines(lines, rs) \in S
<1>1. PICK f : /\ f[MaxRuns] = WithLines(lines, rs)
               /\ f[0] = lines
               /\ \A n \in Runs : f[n] = IF n \in rs THEN WithLine(f[n - 1], n) ELSE f[n - 1]
  BY WithLinesSteps
<1> DEFINE T == {n \in 0..MaxRuns : f[n] \in S}
<1>2. 0 \in T
  BY <1>1, BoundsAssumption
<1>3. ASSUME NEW n \in 0..MaxRuns, n /= 0, n - 1 \in T PROVE n \in T
  <2>1. n \in Runs /\ f[n - 1] \in S
    BY <1>3 DEF Runs
  <2>2. QED BY <1>1, <2>1
<1>4. 0..MaxRuns \subseteq T
  <2> HIDE DEF T
  <2>1. QED BY <1>2, <1>3, UpTo, BoundsAssumption
<1>5. QED BY <1>1, <1>4, BoundsAssumption

LEMMA LineIsThere ==
  ASSUME NEW L, NEW l \in Seq(L), NEW r, NEW e \in L, e.run = r
  PROVE  /\ Append(l, e) \in Seq(L)
         /\ LedgerHas(Append(l, e), r)
         /\ \A q : LedgerHas(l, q) => LedgerHas(Append(l, e), q)
<1>1. Append(l, e) \in Seq(L) /\ Len(Append(l, e)) = Len(l) + 1
  OBVIOUS
<1>2. Append(l, e)[Len(l) + 1] = e /\ \A i \in 1..Len(l) : Append(l, e)[i] = l[i]
  OBVIOUS
<1>3. DOMAIN l = 1..Len(l) /\ DOMAIN Append(l, e) = 1..(Len(l) + 1)
  BY <1>1
<1>4. QED BY <1>1, <1>2, <1>3 DEF LedgerHas

SealParts == \A r \in Runs : seal[r].parts \in Seq(Runs)

LEMMA WithLineTypes ==
  ASSUME SealParts, NEW l \in Seq(LedgerLines), NEW r \in Runs
  PROVE  /\ WithLine(l, r) \in Seq(LedgerLines)
         /\ LedgerHas(WithLine(l, r), r)
         /\ \A q : LedgerHas(l, q) => LedgerHas(WithLine(l, r), q)
<1>1. SealedLine(r) \in LedgerLines /\ GoneLine(r) \in LedgerLines
  BY DEF SealedLine, GoneLine, LedgerLines, SealParts
<1>2. SealedLine(r).run = r /\ GoneLine(r).run = r
  BY DEF SealedLine, GoneLine
<1>3. QED BY <1>1, <1>2, LineIsThere DEF WithLine

LEMMA WithLinesLists ==
  ASSUME SealParts, NEW lines \in Seq(LedgerLines), NEW rs
  PROVE  /\ WithLines(lines, rs) \in Seq(LedgerLines)
         /\ \A r \in rs \intersect Runs : LedgerHas(WithLines(lines, rs), r)
         /\ \A r : LedgerHas(lines, r) => LedgerHas(WithLines(lines, rs), r)
<1>1. PICK f : /\ f[MaxRuns] = WithLines(lines, rs)
               /\ f[0] = lines
               /\ \A n \in Runs : f[n] = IF n \in rs THEN WithLine(f[n - 1], n) ELSE f[n - 1]
  BY WithLinesSteps
<1> DEFINE T == {n \in 0..MaxRuns :
                   /\ f[n] \in Seq(LedgerLines)
                   /\ \A r \in rs \intersect (1..n) : LedgerHas(f[n], r)
                   /\ \A r : LedgerHas(lines, r) => LedgerHas(f[n], r)}
<1>2. 0 \in T
  <2>1. 1..0 = {}
    OBVIOUS
  <2>2. QED BY <1>1, <2>1, BoundsAssumption
<1>3. ASSUME NEW n \in 0..MaxRuns, n /= 0, n - 1 \in T PROVE n \in T
  <2>1. n \in Runs /\ 1..n = 1..(n - 1) \union {n}
    BY <1>3 DEF Runs
  <2>2. CASE n \in rs
    BY <1>1, <1>3, <2>1, <2>2, WithLineTypes
  <2>3. CASE n \notin rs
    BY <1>1, <1>3, <2>1, <2>3
  <2>4. QED BY <2>2, <2>3
<1>4. 0..MaxRuns \subseteq T
  <2> HIDE DEF T
  <2>1. QED BY <1>2, <1>3, UpTo, BoundsAssumption
<1>5. MaxRuns \in T
  BY <1>4, BoundsAssumption
<1>6. QED BY <1>1, <1>5 DEF Runs

----------------------------------------------------------------------------
(* Types.                                                                   *)

AtMessage == {"fetch", "place", "line"}
NextFits == \A r \in Runs : job[r].at \in AtMessage => job[r].next \in Msgs

TypeInv ==
  /\ up \in BOOLEAN /\ away \in BOOLEAN
  /\ live \in Runs \union {NoOne}
  /\ asked \in [Runs -> {"no", "cancelled", "abandoned"}]
  /\ job \in [Writers -> Jobs]
  /\ mutex \in Writers \union {NoOne}
  /\ folder \in [Runs -> Folders]
  /\ rec \in [Runs -> Records]
  /\ seal \in [Runs -> Seals]
  /\ journal \in [Runs -> SUBSET {"start", "end", "finishing"}]
  /\ ledger \in Seq(LedgerLines)
  /\ tries \in [Runs -> 0..MaxTries]
  /\ left \in 0..MaxUpsets
  /\ NextFits

LEMMA TypesOfInv == TypeInv => TypeOK
<1> SUFFICES ASSUME TypeInv PROVE TypeOK
  OBVIOUS
<1>1. \A i \in DOMAIN ledger : ledger[i] \in LedgerLines
  BY DEF TypeInv
<1>2. \A r \in Runs : seal[r] \in Seals
  BY DEF TypeInv
<1>3. /\ job \in [Writers -> Jobs] /\ folder \in [Runs -> Folders]
      /\ rec \in [Runs -> Records]
  BY DEF TypeInv
<1>4. QED BY <1>1, <1>2, <1>3, Zenon DEF TypeInv, TypeOK, Jobs, Folders, Records, Seals, LedgerLines

LEMMA IdleIsAJob == Idle \in Jobs
  BY BoundsAssumption DEF Idle, Jobs, Steps, Statuses, Lines, NoOne

LEMMA PutIn ==
  ASSUME NEW S, NEW T, NEW f \in [S -> T], NEW x \in S, NEW v \in T
  PROVE  [f EXCEPT ![x] = v] \in [S -> T]
  OBVIOUS

LEMMA WriterIs == Runs \subseteq Writers /\ Finisher \in Writers
  BY DEF Writers

\* The fields a step sets keep a job, a folder and a record what they are.
LEMMA JobSet ==
  ASSUME NEW x \in Jobs, NEW step \in Steps
  PROVE  /\ [x EXCEPT !.at = step] \in Jobs
         /\ \A got \in Lines, stop \in BOOLEAN :
              /\ [x EXCEPT !.at = step, !.got = got, !.stop = stop] \in Jobs
              /\ [x EXCEPT !.at = step, !.stop = stop, !.got = got] \in Jobs
         /\ \A next \in 1..(NMsgs + 1) :
              /\ [x EXCEPT !.at = step, !.next = next] \in Jobs
              /\ \A got \in Lines : [x EXCEPT !.at = step, !.next = next, !.got = got] \in Jobs
<1>1. [x EXCEPT !.at = step] \in Jobs
  BY DEF Jobs
<1>2. \A got \in Lines, stop \in BOOLEAN :
        /\ [x EXCEPT !.at = step, !.got = got, !.stop = stop] \in Jobs
        /\ [x EXCEPT !.at = step, !.stop = stop, !.got = got] \in Jobs
  BY DEF Jobs
<1>3. \A next \in 1..(NMsgs + 1) : [x EXCEPT !.at = step, !.next = next] \in Jobs
  BY DEF Jobs
<1>4. \A next \in 1..(NMsgs + 1) : \A got \in Lines :
        [x EXCEPT !.at = step, !.next = next, !.got = got] \in Jobs
  BY DEF Jobs
<1>5. QED BY <1>1, <1>2, <1>3, <1>4

LEMMA FolderSet ==
  ASSUME NEW x \in Folders
  PROVE  /\ [x EXCEPT !.made = TRUE] \in Folders
         /\ \A marker \in {"none", "unfinished", "stopped"} :
              [x EXCEPT !.marker = marker] \in Folders
         /\ \A k \in 0..MaxTries :
              /\ [x EXCEPT !.readme = k] \in Folders
              /\ [x EXCEPT !.manifest = k] \in Folders
              /\ \A listed \in SUBSET Msgs : [x EXCEPT !.sums = k, !.listed = listed] \in Folders
<1>1. [x EXCEPT !.made = TRUE] \in Folders
  BY DEF Folders
<1>2. \A marker \in {"none", "unfinished", "stopped"} : [x EXCEPT !.marker = marker] \in Folders
  BY DEF Folders
<1>3. \A k \in 0..MaxTries : [x EXCEPT !.readme = k] \in Folders
  BY DEF Folders
<1>4. \A k \in 0..MaxTries : [x EXCEPT !.manifest = k] \in Folders
  BY DEF Folders
<1>5. \A k \in 0..MaxTries, listed \in SUBSET Msgs :
        [x EXCEPT !.sums = k, !.listed = listed] \in Folders
  BY DEF Folders
<1>6. QED BY <1>1, <1>2, <1>3, <1>4, <1>5

LEMMA RecordSet ==
  ASSUME NEW x \in Records
  PROVE  /\ \A b \in BOOLEAN : [x EXCEPT !.kept = b] \in Records
         /\ \A plan \in SUBSET Msgs : [x EXCEPT !.plan = plan] \in Records
<1>1. \A b \in BOOLEAN : [x EXCEPT !.kept = b] \in Records
  BY DEF Records
<1>2. \A plan \in SUBSET Msgs : [x EXCEPT !.plan = plan] \in Records
  BY DEF Records
<1>3. QED BY <1>1, <1>2

\* What is a field of a job, a folder and a record.
LEMMA FieldsAre ==
  ASSUME TypeInv
  PROVE  /\ \A w \in Writers : DOMAIN job[w] = {"at", "run", "next", "got", "stop", "status", "try"}
         /\ \A r \in Runs : /\ DOMAIN folder[r] = {"made", "marker", "file", "readme", "manifest",
                                                   "sums", "listed"}
                            /\ DOMAIN folder[r].file = Msgs
         /\ \A r \in Runs : DOMAIN rec[r] = {"kept", "plan", "line", "gone"}
         /\ DOMAIN job = Writers /\ DOMAIN folder = Runs /\ DOMAIN rec = Runs
<1>1. \A w \in Writers : job[w] \in Jobs
  BY DEF TypeInv
<1>2. \A r \in Runs : folder[r] \in Folders
  BY DEF TypeInv
<1>3. \A r \in Runs : rec[r] \in Records
  BY DEF TypeInv
<1>4. \A x \in Jobs : DOMAIN x = {"at", "run", "next", "got", "stop", "status", "try"}
  BY DEF Jobs
<1>5. \A x \in Folders : /\ DOMAIN x = {"made", "marker", "file", "readme", "manifest", "sums",
                                        "listed"}
                         /\ DOMAIN x.file = Msgs
  BY DEF Folders
<1>6. \A x \in Records : DOMAIN x = {"kept", "plan", "line", "gone"}
  BY DEF Records
<1>7. DOMAIN job = Writers /\ DOMAIN folder = Runs /\ DOMAIN rec = Runs
  BY DEF TypeInv
<1>8. QED BY <1>1, <1>2, <1>3, <1>4, <1>5, <1>6, <1>7

LEMMA GoTypes ==
  ASSUME TypeInv, NEW w \in Writers, NEW step \in Steps, Go(w, step),
         step \in AtMessage => job[w].at \in AtMessage
  PROVE  job' \in [Writers -> Jobs] /\ live' \in Runs \union {NoOne} /\ NextFits'
<1>0. job[w] \in Jobs
  BY DEF TypeInv
<1>1. [job[w] EXCEPT !.at = step] \in Jobs
  BY <1>0, JobSet
<1>2. job' \in [Writers -> Jobs]
  BY <1>1, PutIn DEF TypeInv, Go
<1>3. \A r \in Runs : job'[r].at \in AtMessage => job[r].at \in AtMessage
  BY WriterIs DEF TypeInv, Jobs, Go
<1>4. \A r \in Runs : job'[r].next = job[r].next
  BY WriterIs DEF TypeInv, Jobs, Go
<1>5. QED BY <1>2, <1>3, <1>4 DEF TypeInv, Go, NextFits

LEMMA LeaveTypes ==
  ASSUME TypeInv, NEW w \in Writers, Leave(w)
  PROVE  job' \in [Writers -> Jobs] /\ live' \in Runs \union {NoOne} /\ NextFits'
<1>1. [Idle EXCEPT !.at = IF w = Finisher THEN "idle" ELSE "over"] \in Jobs
  BY IdleIsAJob DEF Jobs, Steps
<1>2. job' \in [Writers -> Jobs]
  BY <1>1, PutIn DEF TypeInv, Leave
<1>3. NextFits'
  BY WriterIs, IdleIsAJob DEF TypeInv, Leave, NextFits, AtMessage, Jobs
<1>4. QED BY <1>2, <1>3 DEF TypeInv, Leave

LEMMA ProceedTypes ==
  ASSUME TypeInv, NEW w \in Writers, NEW ok \in BOOLEAN, NEW step \in Steps,
         Proceed(w, ok, step), step \notin AtMessage
  PROVE  job' \in [Writers -> Jobs] /\ live' \in Runs \union {NoOne} /\ NextFits'
  BY GoTypes, LeaveTypes DEF Proceed

LEMMA ConcludeTypes ==
  ASSUME TypeInv, NEW r \in Runs, NEW status \in Statuses, Conclude(r, status)
  PROVE  /\ job' \in [Writers -> Jobs] /\ live' \in Runs \union {NoOne}
         /\ NextFits' /\ tries' \in [Runs -> 0..MaxTries]
<1>1. CASE asked[r] = "abandoned"
  BY <1>1, LeaveTypes, WriterIs DEF Conclude, TypeInv
<1>2. CASE asked[r] /= "abandoned"
  <2>1. tries[r] + 1 \in 0..MaxTries
    BY <1>2, BoundsAssumption DEF Conclude, TypeInv
  <2>2. [Idle EXCEPT !.at = "presence", !.run = r,
           !.status = status, !.try = tries[r] + 1] \in Jobs
    BY <2>1, IdleIsAJob DEF Jobs, Steps, Finalizing
  <2>3. job' \in [Writers -> Jobs]
    BY <1>2, <2>2, PutIn, WriterIs DEF Conclude, TypeInv
  <2>4. NextFits'
    <3>1. job'[r].at = "presence" /\ \A q \in Runs \ {r} : job'[q] = job[q]
      <4> DEFINE e == [Idle EXCEPT !.at = "presence", !.run = r,
                         !.status = status, !.try = tries[r] + 1]
      <4>1. e.at = "presence"
        BY DEF Idle
      <4> HIDE DEF e
      <4>2. job' = [job EXCEPT ![r] = e] /\ r \in Writers
        BY <1>2, WriterIs DEF Conclude, e
      <4>3. QED BY <4>1, <4>2, WriterIs DEF TypeInv
    <3>2. QED BY <3>1 DEF TypeInv, NextFits, AtMessage
  <2>5. QED BY <1>2, <2>1, <2>3, <2>4, PutIn DEF Conclude, TypeInv
<1>3. QED BY <1>1, <1>2

LEMMA SpendTypes ==
  ASSUME TypeInv
  PROVE  /\ Spend => left' \in 0..MaxUpsets
         /\ \A ok \in BOOLEAN : Appends(ok) \/ Writes(ok) => left' \in 0..MaxUpsets
  BY BoundsAssumption DEF TypeInv, Spend, Appends, Writes

LEMMA MarkerTypes ==
  ASSUME folder \in [Runs -> Folders], NEW r \in Runs,
         NEW marker \in {"none", "unfinished", "stopped"}
  PROVE  [folder EXCEPT ![r].marker = marker] \in [Runs -> Folders]
<1>0. folder[r] \in Folders
  OBVIOUS
<1>1. [folder[r] EXCEPT !.marker = marker] \in Folders
  BY <1>0, FolderSet
<1>2. QED BY <1>1, PutIn

LEMMA KeptTypes ==
  ASSUME NEW R \in Records, NEW b \in BOOLEAN
  PROVE  [R EXCEPT !.kept = @ /\ b] \in Records
  BY DEF Records

LEMMA FinisherIsNoRun == Finisher \notin Runs
  BY BoundsAssumption DEF Finisher, Runs

LEMMA GotTypes ==
  ASSUME job \in [Writers -> Jobs], NEW r \in Runs,
         NEW got \in Lines, NEW stop \in BOOLEAN
  PROVE  /\ [job EXCEPT ![r].at = "line", ![r].got = got, ![r].stop = stop]
              \in [Writers -> Jobs]
         /\ [job EXCEPT ![r].at = "line", ![r].stop = stop, ![r].got = got]
              \in [Writers -> Jobs]
<1>1. "line" \in Steps /\ r \in Writers
  BY WriterIs DEF Steps, Copying
<1> DEFINE x == [job[r] EXCEPT !.at = "line", !.got = got, !.stop = stop]
           y == [job[r] EXCEPT !.at = "line", !.stop = stop, !.got = got]
<1>0. job[r] \in Jobs
  BY <1>1
<1>5. x \in Jobs /\ y \in Jobs
  BY <1>0, <1>1, JobSet
<1>2. [job EXCEPT ![r].at = "line", ![r].got = got, ![r].stop = stop]
              \in [Writers -> Jobs]
  <2>1. [job EXCEPT ![r].at = "line", ![r].got = got, ![r].stop = stop] = [job EXCEPT ![r] = x]
    OBVIOUS
  <2> HIDE DEF x, y
  <2>2. QED BY <1>1, <1>5, <2>1, PutIn
<1>3. [job EXCEPT ![r].at = "line", ![r].stop = stop, ![r].got = got]
              \in [Writers -> Jobs]
  <2>1. [job EXCEPT ![r].at = "line", ![r].stop = stop, ![r].got = got] = [job EXCEPT ![r] = y]
    OBVIOUS
  <2> HIDE DEF x, y
  <2>2. QED BY <1>1, <1>5, <2>1, PutIn
<1>4. QED BY <1>2, <1>3, Zenon

LEMMA NextTypes ==
  ASSUME job \in [Writers -> Jobs], NEW r \in Runs, NEW next \in 1..(NMsgs + 1)
  PROVE  /\ [job EXCEPT ![r].at = "fetch", ![r].next = next] \in [Writers -> Jobs]
         /\ [job EXCEPT ![r].at = "msg", ![r].next = next, ![r].got = "none"]
              \in [Writers -> Jobs]
<1>1. {"msg", "fetch"} \subseteq Steps /\ "none" \in Lines /\ r \in Writers
  BY WriterIs DEF Steps, Copying, Lines
<1> DEFINE x == [job[r] EXCEPT !.at = "fetch", !.next = next]
           y == [job[r] EXCEPT !.at = "msg", !.next = next, !.got = "none"]
<1>0. job[r] \in Jobs
  BY <1>1
<1>5. x \in Jobs /\ y \in Jobs
  BY <1>0, <1>1, JobSet
<1>2. [job EXCEPT ![r].at = "fetch", ![r].next = next] \in [Writers -> Jobs]
  <2>1. [job EXCEPT ![r].at = "fetch", ![r].next = next] = [job EXCEPT ![r] = x]
    OBVIOUS
  <2> HIDE DEF x, y
  <2>2. QED BY <1>1, <1>5, <2>1, PutIn
<1>3. [job EXCEPT ![r].at = "msg", ![r].next = next, ![r].got = "none"]
              \in [Writers -> Jobs]
  <2>1. [job EXCEPT ![r].at = "msg", ![r].next = next, ![r].got = "none"] = [job EXCEPT ![r] = y]
    OBVIOUS
  <2> HIDE DEF x, y
  <2>2. QED BY <1>1, <1>5, <2>1, PutIn
<1>4. QED BY <1>2, <1>3, Zenon

LEMMA LinesTypes ==
  ASSUME rec \in [Runs -> Records], NEW r \in Runs, NEW line \in [Msgs -> Lines]
  PROVE  [rec EXCEPT ![r].line = line] \in [Runs -> Records]
  BY DEF Records

LEMMA FileTypes ==
  ASSUME folder \in [Runs -> Folders], NEW r \in Runs, NEW m \in Msgs,
         NEW ok \in BOOLEAN
  PROVE  [folder EXCEPT ![r].file[m] = IF ok THEN "good" ELSE @] \in [Runs -> Folders]
  BY DEF Folders

LEMMA DamageTypes ==
  ASSUME folder \in [Runs -> Folders], NEW r \in Runs, NEW m \in Msgs,
         NEW to \in {"none", "bad"}
  PROVE  [folder EXCEPT ![r].file[m] = to] \in [Runs -> Folders]
  BY DEF Folders

LEMMA StartTypes ==
  ASSUME TypeInv, NEW r \in Runs, Start(r)
  PROVE  TypeInv'
<1>1. PICK plan \in IF r = 1 THEN {Msgs}
                   ELSE UNION {RetryOffers(q) :
                                 q \in {p \in Kept : "start" \in journal[p]}} :
         rec' = [rec EXCEPT ![r].plan = plan]
  BY DEF Start
<1>2. \A q \in Runs : rec[q].plan \in SUBSET Msgs
  BY DEF TypeInv, Records
<1>3. \A q \in Runs : \A p \in RetryOffers(q) : p \in SUBSET Msgs
  BY <1>2 DEF RetryOffers, RunRemaining, RunFailed, Retryable
<1>4. plan \in SUBSET Msgs
  BY <1>1, <1>3 DEF Kept
<1>5. rec' \in [Runs -> Records]
  BY <1>1, <1>4, RecordSet, PutIn DEF TypeInv
<1>6. folder' \in [Runs -> Folders]
  <2>1. folder[r] \in Folders
    BY DEF TypeInv
  <2>2. [folder[r] EXCEPT !.made = TRUE] \in Folders
    BY <2>1, FolderSet
  <2>3. QED BY <2>2, PutIn DEF TypeInv, Start
<1>7. [Idle EXCEPT !.at = "record", !.run = r] \in Jobs
  BY IdleIsAJob DEF Jobs, Steps, Starting
<1>8. job' \in [Writers -> Jobs]
  BY <1>7, WriterIs, PutIn DEF TypeInv, Start
<1>9. NextFits'
  BY WriterIs, IdleIsAJob DEF TypeInv, Start, NextFits, AtMessage, Jobs
<1>10. QED BY <1>5, <1>6, <1>8, <1>9 DEF TypeInv, Start

LEMMA StartingTypes ==
  ASSUME TypeInv, NEW r \in Runs,
         \/ CreateRecord(r) \/ JournalStart(r) \/ WriteMarker(r)
         \/ RefusedStart(r) \/ RemoveRefused(r)
  PROVE  TypeInv'
<1> USE WriterIs
<1>1. CASE CreateRecord(r)
  <2>1. PICK ok \in BOOLEAN : Appends(ok) /\ rec' = [rec EXCEPT ![r].kept = ok]
                              /\ Proceed(r, ok, "journal")
    BY <1>1 DEF CreateRecord
  <2>2. rec' \in [Runs -> Records]
    BY <2>1, RecordSet, PutIn DEF TypeInv
  <2>3. "journal" \in Steps /\ "journal" \notin AtMessage
    BY DEF Steps, Starting, AtMessage
  <2>4. job' \in [Writers -> Jobs] /\ live' \in Runs \union {NoOne} /\ NextFits'
    BY <2>1, <2>3, ProceedTypes
  <2>5. left' \in 0..MaxUpsets
    BY <2>1, SpendTypes
  <2>6. QED BY <1>1, <2>2, <2>4, <2>5 DEF TypeInv, CreateRecord
<1>2. CASE JournalStart(r)
  BY <1>2, SpendTypes, GoTypes DEF TypeInv, JournalStart, Steps, Starting, AtMessage
<1>3. CASE WriteMarker(r)
  <2>1. PICK ok \in BOOLEAN, placed \in BOOLEAN :
         /\ Writes(ok)
         /\ folder' = [folder EXCEPT ![r].marker =
                                        IF placed THEN "unfinished" ELSE @]
         /\ Go(r, IF ok THEN "msg" ELSE "refused")
    BY <1>3 DEF WriteMarker
  <2>2. [folder[r] EXCEPT !.marker = IF placed THEN "unfinished" ELSE @] \in Folders
    <3>1. folder[r] \in Folders
      BY DEF TypeInv
    <3>2. folder[r].marker \in {"none", "unfinished", "stopped"}
      BY <3>1 DEF Folders
    <3> DEFINE marker == IF placed THEN "unfinished" ELSE folder[r].marker
    <3>3. marker \in {"none", "unfinished", "stopped"}
      BY <3>2
    <3> HIDE DEF marker
    <3>4. [folder[r] EXCEPT !.marker = marker] \in Folders
      BY <3>1, <3>3, FolderSet
    <3> USE DEF marker
    <3>5. QED BY <3>4
  <2>3. folder' \in [Runs -> Folders]
    BY <2>1, <2>2, PutIn DEF TypeInv
  <2>4. QED BY <1>3, <2>1, <2>3, SpendTypes, GoTypes
    DEF TypeInv, WriteMarker, Steps, Starting, Copying, AtMessage
<1>4. CASE RefusedStart(r)
  <2>1. [run |-> r, kind |-> "refused", parts |-> <<>>] \in LedgerLines
    BY DEF LedgerLines
  <2>2. QED BY <1>4, <2>1, SpendTypes, ProceedTypes
    DEF TypeInv, RefusedStart, Steps, Starting, AtMessage
<1>5. CASE RemoveRefused(r)
  <2>1. PICK ok \in BOOLEAN : Appends(ok) /\ rec' = [rec EXCEPT ![r].kept = ~ok]
    BY <1>5 DEF RemoveRefused
  <2>2. rec' \in [Runs -> Records]
    BY <2>1, RecordSet, PutIn DEF TypeInv
  <2>3. QED BY <1>5, <2>1, <2>2, SpendTypes, LeaveTypes DEF TypeInv, RemoveRefused
<1>6. QED BY <1>1, <1>2, <1>3, <1>4, <1>5

(* The lines after the loop's line: some taken back, this message's put in. *)
Lined(r, ok, back) ==
  [m \in Msgs |-> IF m \in back THEN "retry"
                  ELSE IF ok /\ m = job[r].next THEN job[r].got ELSE rec[r].line[m]]

LEMMA RecordLineLines ==
  ASSUME TypeInv, NEW r \in Runs, RecordLine(r), asked[r] /= "abandoned"
  PROVE  \E ok \in BOOLEAN, back \in SUBSET Terminal(r) :
           /\ Appends(ok)
           /\ (ok /\ job[r].stop) \/ back = {}
           /\ rec' = [rec EXCEPT ![r].line = Lined(r, ok, back)]
           /\ IF ok /\ ~job[r].stop
              THEN /\ job' = [job EXCEPT ![r].at = "msg", ![r].next = @ + 1,
                                         ![r].got = "none"]
                   /\ UNCHANGED <<live, tries>>
              ELSE Conclude(r, "failed")
<1>1. PICK ok \in BOOLEAN, back \in SUBSET Terminal(r) :
         /\ Appends(ok)
         /\ (ok /\ job[r].stop) \/ back = {}
         /\ rec' = [rec EXCEPT ![r].line =
                      [m \in Msgs |-> IF m \in back THEN "retry"
                                      ELSE IF ok /\ m = job[r].next
                                           THEN job[r].got ELSE @[m]]]
         /\ IF ok /\ ~job[r].stop
            THEN /\ job' = [job EXCEPT ![r].at = "msg", ![r].next = @ + 1,
                                       ![r].got = "none"]
                 /\ UNCHANGED <<live, tries>>
            ELSE Conclude(r, "failed")
  BY Zenon DEF RecordLine
<1>2. rec' = [rec EXCEPT ![r].line = Lined(r, ok, back)]
  BY <1>1, Zenon DEF Lined
<1>3. QED BY <1>1, <1>2, Zenon

LEMMA LoopTypes ==
  ASSUME TypeInv, NEW r \in Runs,
         NextMessage(r) \/ Fetch(r) \/ Place(r) \/ RecordLine(r)
  PROVE  TypeInv'
<1> USE WriterIs
<1>0. job[r] \in Jobs /\ job[r].next \in 1..(NMsgs + 1)
  BY DEF TypeInv, Jobs
<1>1. CASE NextMessage(r)
  <2> DEFINE rest == {m \in rec[r].plan : m >= job[r].next}
  <2>1. CASE \E status \in Statuses : Conclude(r, status)
    BY <1>1, <2>1, ConcludeTypes DEF TypeInv, NextMessage, disk
  <2>2. CASE /\ rest /= {} /\ asked[r] = "no"
             /\ job' = [job EXCEPT ![r].at = "fetch", ![r].next =
                           CHOOSE m \in rest : \A n \in rest : m <= n]
             /\ UNCHANGED <<live, tries>>
    <3>1. rest \subseteq 1..NMsgs
      BY DEF TypeInv, Records, Msgs
    <3>2. (CHOOSE m \in rest : \A n \in rest : m <= n) \in rest
      <4>1. rest \in SUBSET Nat
        BY <3>1
      <4> HIDE DEF rest
      <4>2. \E m \in rest : \A n \in rest : m <= n
        BY <2>2, <4>1, LeastNumber
      <4>3. QED BY <4>2
    <3> HIDE DEF rest
    <3>3. (CHOOSE m \in rest : \A n \in rest : m <= n) \in 1..(NMsgs + 1)
      <4>1. rest \subseteq 1..(NMsgs + 1)
        BY <3>1, BoundsAssumption
      <4>2. QED BY <3>2, <4>1
    <3>4. PICK next \in 1..(NMsgs + 1) :
             next \in Msgs /\ job' = [job EXCEPT ![r].at = "fetch", ![r].next = next]
      <4>1. (CHOOSE m \in rest : \A n \in rest : m <= n) \in Msgs
        BY <3>1, <3>2 DEF Msgs
      <4>2. QED BY <2>2, <3>3, <4>1
    <3>5. job' \in [Writers -> Jobs]
      BY <3>4, NextTypes DEF TypeInv
    <3>6. NextFits'
      BY <3>4, <1>0 DEF TypeInv, Jobs, NextFits
    <3>7. QED BY <1>1, <2>2, <3>5, <3>6 DEF TypeInv, NextMessage, disk
  <2>3. QED BY <1>1, <2>1, <2>2 DEF NextMessage, Statuses
<1>2. CASE Fetch(r)
  <2>1. CASE \E status \in Statuses : Conclude(r, status)
    BY <1>2, <2>1, ConcludeTypes DEF TypeInv, Fetch, disk
  <2>2. CASE Go(r, "place") /\ UNCHANGED tries
    BY <1>2, <2>2, GoTypes DEF TypeInv, Fetch, At, AtMessage, disk, Steps, Copying
  <2>3. CASE \E got \in {"retry", "terminal"}, stop \in BOOLEAN :
               /\ job' = [job EXCEPT ![r].at = "line", ![r].got = got,
                                     ![r].stop = stop]
               /\ UNCHANGED <<live, tries>>
    <3>1. PICK got \in {"retry", "terminal"}, stop \in BOOLEAN :
             job' = [job EXCEPT ![r].at = "line", ![r].got = got, ![r].stop = stop]
      BY <2>3
    <3>2. got \in Lines
      BY DEF Lines
    <3>3. job' \in [Writers -> Jobs]
      BY <1>0, <3>1, <3>2, GotTypes DEF TypeInv
    <3>4. NextFits'
      BY <1>2, <3>1, <1>0 DEF TypeInv, Jobs, Fetch, At, NextFits, AtMessage
    <3>5. QED BY <1>2, <2>3, <3>3, <3>4 DEF TypeInv, Fetch, disk
  <2>4. QED BY <1>2, <2>1, <2>2, <2>3 DEF Fetch, Statuses
<1>3. CASE Place(r)
  <2>1. PICK ok \in BOOLEAN, stop \in BOOLEAN :
         /\ Writes(ok)
         /\ folder' = [folder EXCEPT ![r].file[job[r].next] =
                                        IF ok THEN "good" ELSE @]
         /\ job' = [job EXCEPT ![r].at = "line", ![r].stop = stop,
                               ![r].got = IF ok THEN "exported" ELSE "retry"]
    BY <1>3 DEF Place
  <2>2. PICK got \in Lines :
           job' = [job EXCEPT ![r].at = "line", ![r].stop = stop, ![r].got = got]
    BY <2>1, Zenon DEF Lines
  <2>3. job' \in [Writers -> Jobs]
    BY <2>2, GotTypes DEF TypeInv
  <2>4. job[r].next \in Msgs
    BY <1>3 DEF TypeInv, Place, At, NextFits, AtMessage
  <2>5. folder' \in [Runs -> Folders]
    BY <2>1, <2>4, FileTypes DEF TypeInv
  <2>6. NextFits'
    BY <1>3, <2>1, <1>0 DEF TypeInv, Jobs, Place, At, NextFits, AtMessage
  <2>7. QED BY <1>3, <2>1, <2>3, <2>5, <2>6, SpendTypes DEF TypeInv, Place
<1>4. CASE RecordLine(r)
  <2>1. CASE asked[r] = "abandoned"
    BY <1>4, <2>1, LeaveTypes DEF TypeInv, RecordLine
  <2>2. CASE asked[r] /= "abandoned"
    <3>1. PICK ok \in BOOLEAN, back \in SUBSET Terminal(r) :
              /\ Appends(ok)
              /\ rec' = [rec EXCEPT ![r].line = Lined(r, ok, back)]
              /\ IF ok /\ ~job[r].stop
                 THEN /\ job' = [job EXCEPT ![r].at = "msg", ![r].next = @ + 1,
                                            ![r].got = "none"]
                      /\ UNCHANGED <<live, tries>>
                 ELSE Conclude(r, "failed")
      BY <1>4, <2>2, RecordLineLines
    <3>3. rec' \in [Runs -> Records]
      <4>1. job[r].got \in Lines /\ rec[r].line \in [Msgs -> Lines] /\ "retry" \in Lines
        BY <1>0 DEF TypeInv, Jobs, Records, Lines
      <4>2. Lined(r, ok, back) \in [Msgs -> Lines]
        BY <4>1 DEF Lined
      <4>3. QED BY <3>1, <4>2, LinesTypes DEF TypeInv
    <3>4. job[r].next + 1 \in 1..(NMsgs + 1)
      BY <1>4, BoundsAssumption DEF TypeInv, RecordLine, At, Msgs, NextFits, AtMessage
    <3>6. CASE Conclude(r, "failed")
      BY <1>4, <3>1, <3>3, <3>6, SpendTypes, ConcludeTypes DEF TypeInv, RecordLine, Statuses
    <3>7. CASE /\ job' = [job EXCEPT ![r].at = "msg", ![r].next = @ + 1,
                                            ![r].got = "none"]
               /\ UNCHANGED <<live, tries>>
      <4>1. job' \in [Writers -> Jobs]
        BY <1>0, <3>4, <3>7, NextTypes DEF TypeInv, Jobs
      <4>2. NextFits'
        BY <3>7, <1>0 DEF TypeInv, Jobs, NextFits, AtMessage
      <4>3. QED BY <1>4, <3>1, <3>3, <3>7, <4>1, <4>2, SpendTypes DEF TypeInv, RecordLine
    <3>8. QED BY <3>1, <3>6, <3>7
  <2>3. QED BY <2>1, <2>2
<1>5. QED BY <1>1, <1>2, <1>3, <1>4

LEMMA DocTypes ==
  ASSUME folder \in [Runs -> Folders], NEW r \in Runs, NEW k \in 0..MaxTries,
         NEW listed \in SUBSET Msgs
  PROVE  /\ [folder EXCEPT ![r].readme = k] \in [Runs -> Folders]
         /\ [folder EXCEPT ![r].manifest = k] \in [Runs -> Folders]
         /\ [folder EXCEPT ![r].sums = k, ![r].listed = listed] \in [Runs -> Folders]
<1> DEFINE x == [folder[r] EXCEPT !.sums = k, !.listed = listed]
<1>0. folder[r] \in Folders
  OBVIOUS
<1>1. [folder EXCEPT ![r].readme = k] \in [Runs -> Folders]
  <2>1. [folder[r] EXCEPT !.readme = k] \in Folders
    BY <1>0, FolderSet
  <2>2. QED BY <2>1, PutIn
<1>2. [folder EXCEPT ![r].manifest = k] \in [Runs -> Folders]
  <2>1. [folder[r] EXCEPT !.manifest = k] \in Folders
    BY <1>0, FolderSet
  <2>2. QED BY <2>1, PutIn
<1>3. [folder EXCEPT ![r].sums = k, ![r].listed = listed] \in [Runs -> Folders]
  <2>1. [folder EXCEPT ![r].sums = k, ![r].listed = listed] = [folder EXCEPT ![r] = x]
    OBVIOUS
  <2>2. x \in Folders
    BY <1>0, FolderSet
  <2> HIDE DEF x
  <2>3. QED BY <2>1, <2>2, PutIn
<1>4. QED BY <1>1, <1>2, <1>3, Zenon

LEMMA StatusTypes ==
  ASSUME job \in [Writers -> Jobs], NEW w \in Writers, NEW status \in Statuses
  PROVE  [job EXCEPT ![w].at = "manifest", ![w].status = status] \in [Writers -> Jobs]
<1>1. "manifest" \in Steps
  BY DEF Steps, Finalizing
<1>2. QED BY <1>1 DEF Jobs

LEMMA PresenceTypes ==
  ASSUME TypeInv, NEW w \in Writers, job[w].run \in Runs, Presence(w)
  PROVE  TypeInv'
<1> DEFINE r == job[w].run
<1>1. CASE away
  BY <1>1, LeaveTypes DEF TypeInv, Presence
<1>2. CASE ~away
  <2> DEFINE absent == {m \in Exported(r) : folder[r].file[m] = "none"}
             damaged == {m \in Exported(r) : folder[r].file[m] = "bad"}
             amend == IF w = Finisher THEN absent \union damaged ELSE absent
  <2>1. PICK upto \in Msgs \union {0} :
                  LET landed == {m \in amend : m <= upto}
                      ok == landed = amend
                  IN  /\ ok => upto = NMsgs
                      /\ Appends(ok)
                      /\ rec' = [rec EXCEPT ![r].line =
                           [m \in Msgs |->
                              IF m \notin landed THEN @[m]
                              ELSE IF w = Finisher /\ m \in absent THEN "notatt"
                                   ELSE "retry"]]
                      /\ Proceed(w, ok, "readme")
    BY <1>2 DEF Presence
  <2> DEFINE landed == {m \in amend : m <= upto}
             ok == landed = amend
             line == [m \in Msgs |->
                              IF m \notin landed THEN rec[r].line[m]
                              ELSE IF w = Finisher /\ m \in absent THEN "notatt"
                                   ELSE "retry"]
  <2>2. line \in [Msgs -> Lines]
    BY DEF TypeInv, Records, Lines
  <2>3. rec' = [rec EXCEPT ![r].line = line]
    BY <2>1
  <2>4. ok \in BOOLEAN /\ Appends(ok) /\ Proceed(w, ok, "readme")
    BY <2>1
  <2> HIDE DEF line, ok
  <2>5. rec' \in [Runs -> Records]
    BY <2>2, <2>3, LinesTypes DEF TypeInv
  <2>6. left' \in 0..MaxUpsets
    BY <2>4, SpendTypes
  <2>7. job' \in [Writers -> Jobs] /\ live' \in Runs \union {NoOne} /\ NextFits'
    BY <2>4, ProceedTypes DEF Steps, Finalizing, AtMessage
  <2>8. QED BY <2>5, <2>6, <2>7 DEF TypeInv, Presence
<1>3. QED BY <1>1, <1>2

LEMMA DocumentTypes ==
  ASSUME TypeInv, NEW w \in Writers, job[w].run \in Runs, WriteDocument(w)
  PROVE  TypeInv'
<1> DEFINE r == job[w].run
           doc == job[w].at
<1>1. PICK ok \in BOOLEAN :
             /\ Appends(ok) \/ Writes(ok) \/ (~ok /\ UNCHANGED left)
             /\ folder' = IF ~ok THEN folder
                          ELSE IF doc = "sums"
                          THEN [folder EXCEPT ![r].sums = job[w].try,
                                              ![r].listed = Exported(r)]
                          ELSE [folder EXCEPT ![r][doc] = job[w].try]
             /\ IF ok /\ doc = "readme"
                THEN /\ job' = [job EXCEPT ![w].at = "manifest",
                                  ![w].status = FinalStatus(job[w].status, r)]
                     /\ UNCHANGED live
                ELSE Proceed(w, ok, IF doc = "manifest" THEN "sums" ELSE "seal")
  BY DEF WriteDocument
<1>2. job[w].try \in 0..MaxTries /\ job[w].status \in Statuses
  BY DEF TypeInv, Jobs
<1>3. Exported(r) \in SUBSET Msgs
  BY DEF TypeInv, Records, Exported
<1>4. folder' \in [Runs -> Folders]
  <2>1. CASE ~ok
    BY <1>1, <2>1 DEF TypeInv
  <2>2. CASE ok /\ doc = "sums"
    <3> DEFINE listed == Exported(r)
    <3>1. folder' = [folder EXCEPT ![r].sums = job[w].try, ![r].listed = listed]
      BY <1>1, <2>2
    <3>2. QED BY <1>2, <1>3, <3>1, DocTypes, Zenon DEF TypeInv
  <2>3. CASE ok /\ doc = "readme"
    <3>1. folder' = [folder EXCEPT ![r].readme = job[w].try]
      BY <1>1, <2>3
    <3>2. QED BY <1>2, <1>3, <3>1, DocTypes, Zenon DEF TypeInv
  <2>4. CASE ok /\ doc = "manifest"
    <3>1. folder' = [folder EXCEPT ![r].manifest = job[w].try]
      BY <1>1, <2>4
    <3>2. QED BY <1>2, <1>3, <3>1, DocTypes, Zenon DEF TypeInv
  <2>5. QED BY <2>1, <2>2, <2>3, <2>4 DEF WriteDocument
<1>5. left' \in 0..MaxUpsets
  BY <1>1, SpendTypes DEF TypeInv
<1>6. job' \in [Writers -> Jobs] /\ live' \in Runs \union {NoOne} /\ NextFits'
  <2>1. CASE ok /\ doc = "readme"
    <3> DEFINE status == FinalStatus(job[w].status, r)
    <3>1. status \in Statuses /\ "manifest" \in Steps
      BY <1>2 DEF FinalStatus, Statuses, Steps, Finalizing
    <3>2. job' = [job EXCEPT ![w].at = "manifest", ![w].status = status] /\ UNCHANGED live
      BY <1>1, <2>1
    <3> HIDE DEF status
    <3>3. job' \in [Writers -> Jobs]
      BY <3>1, <3>2, StatusTypes, Zenon DEF TypeInv
    <3>4. NextFits'
      BY <3>2, WriterIs DEF TypeInv, Jobs, NextFits, AtMessage
    <3>5. QED BY <3>2, <3>3, <3>4 DEF TypeInv
  <2>2. CASE ~(ok /\ doc = "readme")
    BY <1>1, <2>2, ProceedTypes DEF Steps, Finalizing, AtMessage
  <2>3. QED BY <2>1, <2>2
<1>7. QED BY <1>4, <1>5, <1>6 DEF TypeInv, WriteDocument

LEMMA LastPartsTypes ==
  ASSUME NEW lines \in Seq(LedgerLines)
  PROVE  LastParts(lines) \in Seq(Runs)
<1> DEFINE sealed == {i \in DOMAIN lines : lines[i].kind = "sealed"}
<1>1. CASE sealed = {}
  BY <1>1 DEF LastParts
<1>2. CASE sealed # {}
  <2>1. sealed \in SUBSET (1..Len(lines)) /\ Len(lines) \in Nat
    BY DEF LedgerLines
  <2> DEFINE last == CHOOSE i \in sealed : \A j \in sealed : j <= i
  <2>2. last \in sealed
    <3>1. \E i \in sealed : \A j \in sealed : j <= i
      <4> HIDE DEF sealed
      <4>1. sealed \in SUBSET (0..Len(lines))
        BY <2>1
      <4>2. QED BY <1>2, <2>1, <4>1, GreatestNumber
    <3>2. QED BY <3>1
  <2>3. LastParts(lines) = lines[last].parts
    BY <1>2, Zenon DEF LastParts
  <2>4. lines[last] \in LedgerLines
    <3> HIDE DEF last
    <3>1. QED BY <2>2
  <2>5. QED BY <2>3, <2>4 DEF LedgerLines
<1>3. QED BY <1>1, <1>2

LEMMA SealingTypes ==
  ASSUME TypeInv, NEW w \in Writers, job[w].run \in Runs,
         \/ Seal(w) \/ AppendLedger(w) \/ MarkerAction(w) \/ JournalEnd(w)
  PROVE  TypeInv'
<1> DEFINE r == job[w].run
<1>0. SealParts /\ job[w] \in Jobs
  BY DEF TypeInv, Seals, SealParts
<1>1. CASE Seal(w)
  <2>1. CASE IsSealed(r)
    BY <1>1, <2>1, GoTypes DEF Seal, TypeInv, Steps, Sealing, AtMessage
  <2>2. CASE ~IsSealed(r)
    <3>1. PICK ok \in BOOLEAN, missing \in BOOLEAN :
                  /\ Appends(ok)
                  /\ ledger' = IF missing THEN WithMissing(ledger, Kept \ {r})
                               ELSE ledger
                  /\ seal' = IF ok
                             THEN [seal EXCEPT ![r] =
                                     [status |-> job[w].status,
                                      try |-> job[w].try,
                                      parts |-> Append(LastParts(ledger'), r)]]
                             ELSE seal
                  /\ mutex' = IF ok THEN w ELSE NoOne
                  /\ Proceed(w, ok, "ledger")
      BY <1>1, <2>2 DEF Seal
    <3>2. ledger' \in Seq(LedgerLines)
      BY <1>0, <3>1, WithLinesLists DEF TypeInv, WithMissing
    <3>3. [status |-> job[w].status, try |-> job[w].try,
           parts |-> Append(LastParts(ledger'), r)] \in Seals
      <4>1. Append(LastParts(ledger'), r) \in Seq(Runs)
        BY <3>2, LastPartsTypes
      <4>2. QED BY <1>0, <4>1 DEF Seals, Jobs
    <3>4. seal' \in [Runs -> Seals]
      BY <3>1, <3>3, PutIn DEF TypeInv
    <3>5. left' \in 0..MaxUpsets
      BY <3>1, SpendTypes
    <3>6. job' \in [Writers -> Jobs] /\ live' \in Runs \union {NoOne} /\ NextFits'
      BY <3>1, ProceedTypes DEF Steps, Sealing, AtMessage
    <3>7. QED BY <1>1, <3>1, <3>2, <3>4, <3>5, <3>6 DEF TypeInv, Seal
  <2>3. QED BY <2>1, <2>2
<1>2. CASE AppendLedger(w)
  <2>1. PICK ok \in BOOLEAN :
             /\ Appends(ok)
             /\ ledger' = IF ok THEN WithLine(ledger, r) ELSE ledger
             /\ mutex' = IF ok THEN w ELSE NoOne
             /\ Proceed(w, ok, "action")
    BY <1>2 DEF AppendLedger
  <2>2. ledger' \in Seq(LedgerLines)
    BY <1>0, <2>1, WithLineTypes DEF TypeInv
  <2>3. left' \in 0..MaxUpsets
    BY <2>1, SpendTypes
  <2>4. job' \in [Writers -> Jobs] /\ live' \in Runs \union {NoOne} /\ NextFits'
    BY <2>1, ProceedTypes DEF Steps, Sealing, AtMessage
  <2>5. QED BY <1>2, <2>1, <2>2, <2>3, <2>4 DEF TypeInv, AppendLedger
<1>3. CASE MarkerAction(w)
  <2>1. PICK ok \in BOOLEAN, done \in BOOLEAN :
             /\ Writes(ok)
             /\ folder' = [folder EXCEPT ![r].marker =
                             IF ~done THEN @
                             ELSE IF MarkerStays(seal[r].status)
                                  THEN "stopped" ELSE "none"]
             /\ mutex' = IF ok THEN w ELSE NoOne
             /\ Proceed(w, ok, "end")
    BY <1>3 DEF MarkerAction
  <2>2. PICK marker \in {"none", "unfinished", "stopped"} :
           folder' = [folder EXCEPT ![r].marker = marker]
    BY <2>1 DEF TypeInv, Folders
  <2>3. folder' \in [Runs -> Folders]
    BY <2>2, MarkerTypes DEF TypeInv
  <2>4. left' \in 0..MaxUpsets
    BY <2>1, SpendTypes
  <2>5. job' \in [Writers -> Jobs] /\ live' \in Runs \union {NoOne} /\ NextFits'
    BY <2>1, ProceedTypes DEF Steps, Sealing, AtMessage
  <2>6. QED BY <1>3, <2>1, <2>3, <2>4, <2>5 DEF TypeInv, MarkerAction
<1>4. CASE JournalEnd(w)
  <2>1. PICK ok \in BOOLEAN :
             /\ Appends(ok)
             /\ journal' = [journal EXCEPT ![r] =
                              IF ok THEN @ \union {"end"} ELSE @]
    BY <1>4 DEF JournalEnd
  <2>2. left' \in 0..MaxUpsets
    BY <2>1, SpendTypes
  <2>3. job' \in [Writers -> Jobs] /\ live' \in Runs \union {NoOne} /\ NextFits'
    BY <1>4, LeaveTypes DEF JournalEnd
  <2>4. journal' \in [Runs -> SUBSET {"start", "end", "finishing"}]
    BY <2>1 DEF TypeInv
  <2>5. QED BY <1>4, <2>2, <2>3, <2>4 DEF TypeInv, JournalEnd
<1>5. QED BY <1>1, <1>2, <1>3, <1>4

LEMMA UserTypes ==
  ASSUME TypeInv, NEW r \in Runs, User(r)
  PROVE  TypeInv'
<1>0. SealParts
  BY DEF TypeInv, Seals, SealParts
<1>1. CASE Cancel(r) \/ Wedged(r)
  BY <1>1 DEF TypeInv, Cancel, Wedged, disk, NextFits
<1>2. CASE Finish(r)
  <2> DEFINE e == IF IsSealed(r) THEN [Idle EXCEPT !.at = "check", !.run = r]
                  ELSE [Idle EXCEPT !.at = "presence", !.run = r,
                            !.status = "finished", !.try = tries[r] + 1]
  <2>1. job' = [job EXCEPT ![Finisher] = e]
    BY <1>2 DEF Finish
  <2>2. ~IsSealed(r) => tries[r] + 1 \in 0..MaxTries
    BY <1>2, BoundsAssumption DEF Finish, TypeInv
  <2>3. e \in Jobs
    BY <2>2, IdleIsAJob DEF Jobs, Steps, Finalizing, Statuses
  <2>4. tries' \in [Runs -> 0..MaxTries]
    BY <1>2, <2>2 DEF Finish, TypeInv
  <2> HIDE DEF e
  <2>5. job' \in [Writers -> Jobs]
    BY <2>1, <2>3, WriterIs, PutIn DEF TypeInv
  <2>6. NextFits'
    BY <2>1, WriterIs, FinisherIsNoRun DEF TypeInv, NextFits
  <2>7. QED BY <1>2, <2>4, <2>5, <2>6 DEF TypeInv, Finish, disk
<1>3. CASE MarkGone(r)
  <2>1. PICK ok \in BOOLEAN :
         /\ Appends(ok)
         /\ ledger' = IF LedgerHas(ledger, r) \/ ~ok THEN ledger
                      ELSE Append(ledger, GoneLine(r))
    BY <1>3 DEF MarkGone
  <2>2. GoneLine(r) \in LedgerLines
    BY DEF GoneLine, LedgerLines
  <2>3. ledger' \in Seq(LedgerLines)
    BY <2>1, <2>2 DEF TypeInv
  <2>4. [rec[r] EXCEPT !.gone = TRUE] \in Records
    BY DEF TypeInv, Records
  <2>5. rec' \in [Runs -> Records]
    BY <1>3, <2>4, PutIn DEF TypeInv, MarkGone
  <2>6. left' \in 0..MaxUpsets
    BY <2>1, SpendTypes
  <2>7. QED BY <1>3, <2>3, <2>5, <2>6 DEF TypeInv, MarkGone, NextFits
<1>4. CASE RecoverLedger(r)
  BY <1>0, <1>4, WithLineTypes DEF TypeInv, RecoverLedger, NextFits
<1>5. CASE Observe(r)
  BY <1>5 DEF TypeInv, Observe, NextFits
<1>6. QED BY <1>1, <1>2, <1>3, <1>4, <1>5 DEF User

LEMMA ProgramTypes ==
  ASSUME TypeInv,
         \/ Kill \/ Launch \/ Unplug \/ Plug \/ CheckAndFinish(Finisher)
         \/ (\E w \in Writers : Panic(w))
         \/ (\E r \in Runs : Compact(r) \/ Damage(r))
  PROVE  TypeInv'
<1>0. SealParts
  BY DEF TypeInv, Seals, SealParts
<1>1. CASE Kill
  <2>1. \A w \in Writers : [Idle EXCEPT !.at = IF w = Finisher \/ job[w].at = "idle"
                                     THEN "idle" ELSE "over"] \in Jobs
    BY IdleIsAJob DEF Jobs, Steps
  <2>2. job' \in [Writers -> Jobs]
    BY <1>1, <2>1 DEF Kill
  <2>3. NextFits'
    BY <1>1, WriterIs, FinisherIsNoRun DEF Kill, NextFits, AtMessage, Idle
  <2>4. QED BY <1>1, <2>2, <2>3, SpendTypes DEF Kill, TypeInv, disk
<1>2. CASE Launch
  <2>1. ledger' \in Seq(LedgerLines)
    BY <1>0, <1>2, WithLinesLists DEF Launch, SweptLedger, TypeInv
  <2>2. journal' \in [Runs -> SUBSET {"start", "end", "finishing"}]
    BY <1>2 DEF Launch, TypeInv
  <2>3. rec' \in [Runs -> Records] /\ left' \in 0..MaxUpsets
    <3>1. CASE UNCHANGED rec /\ Spend
      BY <3>1, SpendTypes DEF TypeInv
    <3>2. CASE \E gone \in SUBSET Deletable(ledger') :
                       /\ UNCHANGED left \/ Spend
                       /\ rec' = [r \in Runs |->
                                    [rec[r] EXCEPT !.kept = @ /\ r \notin gone]]
      <4>1. PICK gone : rec' = [r \in Runs |->
                                    [rec[r] EXCEPT !.kept = @ /\ r \notin gone]]
        BY <3>2
      <4>2. \A r \in Runs : [rec[r] EXCEPT !.kept = @ /\ r \notin gone] \in Records
        BY KeptTypes DEF TypeInv
      <4>3. QED BY <3>2, <4>1, <4>2, SpendTypes DEF TypeInv
    <3>3. QED BY <1>2, <3>1, <3>2 DEF Launch
  <2>4. QED BY <1>2, <2>1, <2>2, <2>3 DEF Launch, TypeInv, NextFits
<1>3. CASE Unplug \/ Plug
  BY <1>3, SpendTypes DEF Unplug, Plug, TypeInv, NextFits
<1>4. CASE CheckAndFinish(Finisher)
  <2>1. ChecksOut(job[Finisher].run) \in BOOLEAN
    BY DEF ChecksOut
  <2>2. job' \in [Writers -> Jobs] /\ live' \in Runs \union {NoOne} /\ NextFits'
    BY <1>4, <2>1, ProceedTypes, WriterIs DEF CheckAndFinish, Steps, AtMessage
  <2>3. QED BY <1>4, <2>2 DEF CheckAndFinish, TypeInv, disk
<1>5. ASSUME NEW w \in Writers, Panic(w) PROVE TypeInv'
  <2>1. job' \in [Writers -> Jobs] /\ live' \in Runs \union {NoOne} /\ NextFits'
    BY <1>5, LeaveTypes DEF Panic
  <2>2. QED BY <1>5, <2>1, SpendTypes DEF Panic, TypeInv, disk
<1>6. ASSUME NEW r \in Runs, Compact(r) PROVE TypeInv'
  <2>1. PICK old, gone : /\ journal' = [q \in Runs |-> IF q \in old THEN {} ELSE journal[q]]
                         /\ rec' = [q \in Runs |->
                               [rec[q] EXCEPT !.kept = @ /\ q \notin gone]]
    BY <1>6 DEF Compact
  <2>2. \A q \in Runs : [rec[q] EXCEPT !.kept = @ /\ q \notin gone] \in Records
    BY KeptTypes DEF TypeInv
  <2>3. QED BY <1>6, <2>1, <2>2, SpendTypes DEF Compact, TypeInv, NextFits
<1>7. ASSUME NEW r \in Runs, Damage(r) PROVE TypeInv'
  <2>1. PICK m \in Msgs, to \in {"none", "bad"} :
           folder' = [folder EXCEPT ![r].file[m] = to]
    BY <1>7 DEF Damage
  <2>3. folder' \in [Runs -> Folders]
    BY <2>1, DamageTypes DEF TypeInv
  <2>4. QED BY <1>7, <2>3, SpendTypes DEF Damage, TypeInv, NextFits
<1>8. QED BY <1>1, <1>2, <1>3, <1>4, <1>5, <1>6, <1>7

LEMMA TypeStarts == Init => TypeInv
<1> SUFFICES ASSUME Init PROVE TypeInv
  OBVIOUS
<1>1. NoFolder \in Folders
  BY BoundsAssumption DEF NoFolder, Folders
<1>2. NoRecord \in Records
  BY DEF NoRecord, Records, Lines
<1>3. Unsealed \in Seals
  BY BoundsAssumption DEF Unsealed, Seals
<1>4. job \in [Writers -> Jobs]
  BY IdleIsAJob DEF Init
<1>5. NextFits
  BY WriterIs DEF Init, NextFits, AtMessage, Idle
<1>6. /\ folder \in [Runs -> Folders] /\ rec \in [Runs -> Records]
      /\ seal \in [Runs -> Seals]
  BY <1>1, <1>2, <1>3, Zenon DEF Init
<1>7. /\ up \in BOOLEAN /\ away \in BOOLEAN
      /\ live \in Runs \union {NoOne} /\ mutex \in Writers \union {NoOne}
  BY Zenon DEF Init
<1>10. ledger \in Seq(LedgerLines)
  BY DEF Init
<1>8. /\ left \in 0..MaxUpsets /\ tries \in [Runs -> 0..MaxTries]
      /\ asked \in [Runs -> {"no", "cancelled", "abandoned"}]
      /\ journal \in [Runs -> SUBSET {"start", "end", "finishing"}]
  BY BoundsAssumption DEF Init
<1>9. QED BY <1>4, <1>5, <1>6, <1>7, <1>10, <1>8 DEF TypeInv

RunsFit == \A w \in Writers : job[w].at \notin {"idle", "over"} => job[w].run \in Runs

(* What a step makes of a writer: nothing, its end, a further step for the same run, or
   a first step for some run. *)
Ends == {"idle", "over"}
GoesOn(w) ==
  \/ job'[w] = job[w]
  \/ job'[w].at \in Ends
  \/ job[w].at \notin Ends /\ job'[w].run = job[w].run
  \/ job'[w].run \in Runs

LEMMA ShortSteps ==
  ASSUME TypeInv, NEW w \in Writers
  PROVE  /\ Leave(w) => \A v \in Writers : GoesOn(v)
         /\ job[w].at \notin Ends => \A step : Go(w, step) => \A v \in Writers : GoesOn(v)
         /\ job[w].at \notin Ends =>
              \A ok, step : Proceed(w, ok, step) => \A v \in Writers : GoesOn(v)
<1>1. Leave(w) => \A v \in Writers : GoesOn(v)
  BY DEF TypeInv, Leave, GoesOn, Idle, Ends
<1>2. job[w].at \notin Ends => \A step : Go(w, step) => \A v \in Writers : GoesOn(v)
  BY DEF TypeInv, Jobs, Go, GoesOn
<1>3. QED BY <1>1, <1>2 DEF Proceed

LEMMA EntryIs ==
  ASSUME NEW r \in Runs, NEW status, NEW k
  PROVE  LET e == [Idle EXCEPT !.at = "presence", !.run = r, !.status = status, !.try = k]
         IN  e.at = "presence" /\ e.run = r /\ e.status = status /\ e.try = k
  BY DEF Idle

LEMMA RunsGoOn ==
  ASSUME TypeInv, [Next]_vars
  PROVE  \A v \in Writers : GoesOn(v)
<1> USE WriterIs, FinisherIsNoRun
<1>1. ASSUME NEW r \in Runs, \E status : Conclude(r, status), job[r].at \notin Ends
      PROVE \A v \in Writers : GoesOn(v)
  <2>1. CASE asked[r] = "abandoned"
    BY <1>1, <2>1, ShortSteps DEF Conclude
  <2>2. CASE asked[r] /= "abandoned"
    <3>1. PICK status : job' = [job EXCEPT ![r] =
                      [Idle EXCEPT !.at = "presence", !.run = r,
                         !.status = status, !.try = tries[r] + 1]]
      BY <1>1, <2>2 DEF Conclude
    <3>2. QED BY <3>1, EntryIs DEF TypeInv, GoesOn
  <2>3. QED BY <2>1, <2>2
<1>2. ASSUME NEW r \in Runs, Start(r) PROVE \A v \in Writers : GoesOn(v)
  BY <1>2 DEF TypeInv, Start, GoesOn, Idle
<1>3. ASSUME NEW r \in Runs,
             \/ CreateRecord(r) \/ JournalStart(r) \/ WriteMarker(r)
             \/ RefusedStart(r) \/ RemoveRefused(r)
      PROVE \A v \in Writers : GoesOn(v)
  BY <1>3, ShortSteps DEF CreateRecord, JournalStart, WriteMarker, RefusedStart,
    RemoveRefused, At, Ends
<1>4. ASSUME NEW r \in Runs, NextMessage(r) \/ Fetch(r) \/ Place(r) \/ RecordLine(r)
      PROVE \A v \in Writers : GoesOn(v)
  <2>1. job[r].at \notin Ends
    BY <1>4 DEF NextMessage, Fetch, Place, RecordLine, At, Ends
  <2>2. CASE Leave(r) \/ Go(r, "place") \/ \E status : Conclude(r, status)
    BY <1>1, <2>1, <2>2, ShortSteps
  <2>3. CASE \E step, next : job' = [job EXCEPT ![r].at = step, ![r].next = next]
    BY <2>1, <2>3 DEF TypeInv, Jobs, GoesOn
  <2>5. CASE \E step, got, stop : job' = [job EXCEPT ![r].at = step, ![r].got = got,
                                                   ![r].stop = stop]
    BY <2>1, <2>5 DEF TypeInv, Jobs, GoesOn
  <2>6. CASE \E step, got, stop : job' = [job EXCEPT ![r].at = step, ![r].stop = stop,
                                                   ![r].got = got]
    BY <2>1, <2>6 DEF TypeInv, Jobs, GoesOn
  <2>7. CASE NextMessage(r)
    BY <2>2, <2>3, <2>7 DEF NextMessage
  <2>8. CASE Fetch(r)
    BY <2>2, <2>5, <2>8 DEF Fetch
  <2>9. CASE Place(r)
    <3>1. PICK got, stop : job' = [job EXCEPT ![r].at = "line", ![r].stop = stop,
                                              ![r].got = got]
      BY <2>9, Zenon DEF Place
    <3>2. QED BY <2>6, <3>1, Zenon
  <2>10. CASE RecordLine(r)
    <3>1. \/ Leave(r) \/ Conclude(r, "failed")
          \/ job' = [job EXCEPT ![r].at = "msg", ![r].next = @ + 1, ![r].got = "none"]
      BY <2>10, Zenon DEF RecordLine
    <3>2. CASE Leave(r) \/ Conclude(r, "failed")
      BY <2>2, <3>2, Zenon
    <3>3. CASE job' = [job EXCEPT ![r].at = "msg", ![r].next = @ + 1, ![r].got = "none"]
      BY <2>1, <3>3, FieldsAre DEF GoesOn
    <3>4. QED BY <3>1, <3>2, <3>3
  <2>11. QED BY <1>4, <2>7, <2>8, <2>9, <2>10
<1>5. ASSUME NEW r \in Runs, User(r) PROVE \A v \in Writers : GoesOn(v)
  <2>1. CASE Finish(r)
    <3> DEFINE e == IF IsSealed(r) THEN [Idle EXCEPT !.at = "check", !.run = r]
                    ELSE [Idle EXCEPT !.at = "presence", !.run = r,
                            !.status = "finished", !.try = tries[r] + 1]
    <3>1. e.run = r
      BY EntryIs DEF Idle
    <3>2. job' = [job EXCEPT ![Finisher] = e]
      BY <2>1 DEF Finish
    <3> HIDE DEF e
    <3>3. QED BY <3>1, <3>2 DEF TypeInv, GoesOn
  <2>2. QED BY <1>5, <2>1 DEF User, Cancel, Wedged, MarkGone, RecoverLedger, Observe, GoesOn
<1>6. ASSUME NEW w \in Writers, Write(w) PROVE \A v \in Writers : GoesOn(v)
  <2>1. job[w].at \notin Ends
    BY <1>6 DEF Write, Presence, WriteDocument, Seal, AppendLedger, MarkerAction,
      JournalEnd, Panic, At, Ends
  <2>2. CASE Leave(w) \/ (\E step : Go(w, step)) \/ \E ok, step : Proceed(w, ok, step)
    BY <2>1, <2>2, ShortSteps
  <2>3. CASE \E step, status : job' = [job EXCEPT ![w].at = step, ![w].status = status]
    BY <2>1, <2>3 DEF TypeInv, Jobs, GoesOn
  <2>4. CASE Presence(w)
    BY <2>2, <2>4 DEF Presence
  <2>5. CASE WriteDocument(w)
    BY <2>2, <2>3, <2>5 DEF WriteDocument
  <2>6. CASE Seal(w)
    BY <2>2, <2>6 DEF Seal
  <2>7. CASE AppendLedger(w) \/ MarkerAction(w) \/ JournalEnd(w) \/ Panic(w)
    BY <2>2, <2>7 DEF AppendLedger, MarkerAction, JournalEnd, Panic
  <2>8. QED BY <1>6, <2>4, <2>5, <2>6, <2>7 DEF Write
<1>7. CASE CheckAndFinish(Finisher)
  BY <1>7, ShortSteps DEF CheckAndFinish, At, Ends
<1>8. CASE Kill
  BY <1>8 DEF Kill, GoesOn, Idle, Ends
<1>9. CASE Launch \/ Unplug \/ Plug \/ UNCHANGED vars
           \/ \E r \in Runs : Compact(r) \/ Damage(r)
  BY <1>9 DEF Launch, Unplug, Plug, vars, Compact, Damage, GoesOn
<1>10. QED
  BY <1>2, <1>3, <1>4, <1>5, <1>6, <1>7, <1>8, <1>9 DEF Next, Copy

LEMMA RunsFitKept ==
  ASSUME TypeInv, RunsFit, [Next]_vars
  PROVE  RunsFit'
  BY RunsGoOn DEF RunsFit, GoesOn, Ends

LEMMA StutterTypes ==
  ASSUME TypeInv, UNCHANGED vars
  PROVE  TypeInv'
  BY DEF vars, TypeInv, NextFits

LEMMA BaseKept ==
  ASSUME TypeInv, RunsFit, [Next]_vars
  PROVE  TypeInv' /\ RunsFit'
<1> USE WriterIs
<1>1. ASSUME UNCHANGED vars PROVE TypeInv'
  BY <1>1, StutterTypes
<1>2. ASSUME NEW r \in Runs, Copy(r) PROVE TypeInv'
  BY <1>2, StartTypes, StartingTypes, LoopTypes DEF Copy
<1>3. ASSUME NEW w \in Writers, Write(w) PROVE TypeInv'
  <2>1. CASE Panic(w)
    BY <2>1, ProgramTypes
  <2>2. CASE ~Panic(w)
    <3>1. job[w].run \in Runs
      BY <1>3, <2>2 DEF RunsFit, Write, Presence, WriteDocument, Seal, AppendLedger,
        MarkerAction, JournalEnd, At
    <3>2. QED BY <1>3, <2>2, <3>1, PresenceTypes, DocumentTypes, SealingTypes DEF Write
  <2>3. QED BY <2>1, <2>2
<1>4. TypeInv'
  BY <1>1, <1>2, <1>3, UserTypes, ProgramTypes DEF Next
<1>5. QED BY <1>4, RunsFitKept

LEMMA BaseAlways == Spec => [](TypeInv /\ RunsFit)
<1>1. Init => RunsFit
  BY DEF Init, RunsFit, Idle
<1>2. QED BY <1>1, TypeStarts, BaseKept, PTL DEF Spec

(* Every part of the folders, records, seals, journals and ledger, and of the writers at
   work on them, keeps its type and its bounds. *)
THEOREM ExportTypesAreKept == Spec => []TypeOK
  BY BaseAlways, TypesOfInv, PTL

----------------------------------------------------------------------------
(* What the writers' steps come to.                                         *)

BaseInv == TypeInv /\ RunsFit

(* Nobody else moves, and the slot stays with whom it was, unless this one leaves it. *)
Alone(w) ==
  /\ \A v \in Writers \ {w} : job'[v] = job[v]
  /\ live' = live \/ (live = w /\ live' = NoOne)

Gone(w) ==
  /\ Alone(w) /\ live' /= w
  /\ job'[w].at = (IF w = Finisher THEN "idle" ELSE "over")
  /\ job'[w].run = NoOne /\ job'[w].status = "complete"

Moved(w, step) ==
  /\ Alone(w) /\ live' = live
  /\ job'[w].at = step /\ job'[w].run = job[w].run
  /\ job'[w].status = job[w].status /\ job'[w].try = job[w].try
  /\ job'[w].next = job[w].next /\ job'[w].got = job[w].got

Concluded(r, status) ==
  \/ asked[r] = "abandoned" /\ Gone(r)
  \/ /\ asked[r] /= "abandoned" /\ Alone(r) /\ live' = live
     /\ job'[r].at = "presence" /\ job'[r].run = r /\ job'[r].status = status

LEMMA StepsAre ==
  ASSUME TypeInv, NEW w \in Writers
  PROVE  /\ Leave(w) => Gone(w)
         /\ \A step : Go(w, step) => Moved(w, step)
         /\ \A ok \in BOOLEAN : \A step : Proceed(w, ok, step) =>
              (ok /\ Moved(w, step)) \/ (~ok /\ Gone(w))
<1>1. Leave(w) => Gone(w)
  BY DEF TypeInv, Leave, Gone, Alone, Idle, NoOne, Writers, Runs, Finisher
<1>2. \A step : Go(w, step) => Moved(w, step)
  BY DEF TypeInv, Jobs, Go, Moved, Alone
<1>3. QED BY <1>1, <1>2 DEF Proceed

LEMMA ConcludeIs ==
  ASSUME TypeInv, NEW r \in Runs, NEW status, Conclude(r, status)
  PROVE  Concluded(r, status)
<1>1. CASE asked[r] = "abandoned"
  BY <1>1, StepsAre, WriterIs DEF Conclude, Concluded
<1>2. CASE asked[r] /= "abandoned"
  <2> DEFINE e == [Idle EXCEPT !.at = "presence", !.run = r,
                     !.status = status, !.try = tries[r] + 1]
  <2>1. job' = [job EXCEPT ![r] = e] /\ live' = live
    BY <1>2 DEF Conclude
  <2>2. e.at = "presence" /\ e.run = r /\ e.status = status
    BY EntryIs
  <2> HIDE DEF e
  <2>3. QED BY <1>2, <2>1, <2>2, WriterIs DEF TypeInv, Concluded, Alone
<1>3. QED BY <1>1, <1>2

LEMMA LoopSteps ==
  ASSUME TypeInv, NEW r \in Runs
  PROVE  /\ NextMessage(r) => /\ job[r].at = "msg"
                              /\ \/ \E status \in Statuses : Concluded(r, status)
                                 \/ /\ Alone(r) /\ live' = live /\ job'[r].at = "fetch"
                                    /\ job'[r].run = job[r].run
         /\ Fetch(r) => /\ job[r].at = "fetch"
                        /\ \/ \E status \in Statuses : Concluded(r, status)
                           \/ /\ Alone(r) /\ live' = live /\ job'[r].at \in {"place", "line"}
                              /\ job'[r].run = job[r].run
         /\ Place(r) => /\ job[r].at = "place"
                        /\ Alone(r) /\ live' = live /\ job'[r].at = "line"
                        /\ job'[r].run = job[r].run
         /\ RecordLine(r) => /\ job[r].at = "line"
                             /\ \/ \E status \in Statuses : Concluded(r, status)
                                \/ asked[r] = "abandoned" /\ Gone(r)
                                \/ /\ Alone(r) /\ live' = live /\ job'[r].at = "msg"
                                   /\ job'[r].run = job[r].run
<1> USE WriterIs
<1>1. ASSUME NextMessage(r)
      PROVE  \/ \E status \in Statuses : Concluded(r, status)
             \/ /\ Alone(r) /\ live' = live /\ job'[r].at = "fetch"
                /\ job'[r].run = job[r].run
  <2>1. CASE \E status \in Statuses : Conclude(r, status)
    BY <2>1, ConcludeIs
  <2>2. CASE \E next : job' = [job EXCEPT ![r].at = "fetch", ![r].next = next] /\ live' = live
    BY <2>2 DEF TypeInv, Jobs, Alone
  <2>3. QED BY <1>1, <2>1, <2>2, Zenon DEF NextMessage, Statuses
<1>2. ASSUME Fetch(r)
      PROVE  \/ \E status \in Statuses : Concluded(r, status)
             \/ /\ Alone(r) /\ live' = live /\ job'[r].at \in {"place", "line"}
                /\ job'[r].run = job[r].run
  <2>1. CASE \E status \in Statuses : Conclude(r, status)
    BY <2>1, ConcludeIs
  <2>2. CASE Go(r, "place")
    BY <2>2, StepsAre DEF Moved
  <2>3. CASE /\ live' = live
             /\ \E got, stop : job' = [job EXCEPT ![r].at = "line", ![r].got = got,
                                                  ![r].stop = stop]
    BY <2>3 DEF TypeInv, Jobs, Alone
  <2>4. QED BY <1>2, <2>1, <2>2, <2>3 DEF Fetch, Statuses
<1>3. ASSUME Place(r)
      PROVE  Alone(r) /\ live' = live /\ job'[r].at = "line" /\ job'[r].run = job[r].run
  <2>1. PICK stop, got : job' = [job EXCEPT ![r].at = "line", ![r].stop = stop,
                                            ![r].got = got]
    BY <1>3, Zenon DEF Place
  <2>2. live' = live
    BY <1>3 DEF Place
  <2>3. QED BY <2>1, <2>2 DEF TypeInv, Jobs, Alone
<1>4. ASSUME RecordLine(r)
      PROVE  \/ \E status \in Statuses : Concluded(r, status)
             \/ asked[r] = "abandoned" /\ Gone(r)
             \/ /\ Alone(r) /\ live' = live /\ job'[r].at = "msg"
                /\ job'[r].run = job[r].run
  <2>1. CASE asked[r] = "abandoned" /\ Leave(r)
    BY <2>1, StepsAre
  <2>2. CASE Conclude(r, "failed")
    BY <2>2, ConcludeIs DEF Statuses
  <2>3. CASE /\ live' = live
             /\ job' = [job EXCEPT ![r].at = "msg", ![r].next = @ + 1, ![r].got = "none"]
    BY <2>3 DEF TypeInv, Jobs, Alone
  <2>4. QED BY <1>4, <2>1, <2>2, <2>3 DEF RecordLine
<1>5. QED BY <1>1, <1>2, <1>3, <1>4 DEF NextMessage, Fetch, Place, RecordLine, At

----------------------------------------------------------------------------
(* One writer per run, but for the finisher of one that was abandoned.      *)

Untouched(q) ==
  /\ job'[q] = job[q] /\ asked'[q] = asked[q] /\ seal'[q] = seal[q]
  /\ folder'[q] = folder[q] /\ (rec'[q].kept => rec[q].kept)
  /\ (live = q => live' = q)

LEMMA UntouchedAlone ==
  ASSUME NEW q \in Runs, RunAlone(q), Untouched(q)
  PROVE  RunAlone(q)'
  BY DEF RunAlone, Untouched, Fresh, IsSealed

(* The finisher's side of a step that is not its own. *)
SideOfRun(q) ==
  /\ folder[q].made => folder'[q].made
  /\ IsSealed(q) => seal'[q] = seal[q]
  /\ /\ ~IsSealed(q) /\ job[q].at \in Copying \union {"over"}
     /\ job[q].at \in Copying => asked[q] = "abandoned"
     => /\ ~IsSealed(q)' /\ job'[q].at \in Copying \union {"over"}
        /\ job'[q].at \in Copying => asked'[q] = "abandoned"

LEMMA FinisherAside ==
  ASSUME FinisherApart, job'[Finisher] = job[Finisher], \A q \in Runs : SideOfRun(q)
  PROVE  FinisherApart'
<1> DEFINE q == job[Finisher].run
<1>1. CASE job[Finisher].at = "idle"
  BY <1>1 DEF FinisherApart, FinishesUnsealed, Finished, Finalizing, Sealing
<1>2. CASE job[Finisher].at /= "idle"
  <2>1. q \in Runs /\ folder[q].made /\ SideOfRun(q) /\ job'[Finisher].run = q
    BY <1>2 DEF FinisherApart
  <2>2. folder'[q].made
    BY <2>1 DEF SideOfRun
  <2>3. \A u : u = q => (IsSealed(u) => IsSealed(u)')
    BY <2>1 DEF SideOfRun, IsSealed
  <2>4. FinishesUnsealed =>
           \A u : u = q =>
             /\ ~IsSealed(u)'
             /\ job'[u].at \in Copying \union {"over"}
             /\ job'[u].at \in Copying => asked'[u] = "abandoned"
    BY <2>1 DEF SideOfRun, FinisherApart
  <2> HIDE DEF q
  <2>5. QED BY <2>1, <2>2, <2>3, <2>4 DEF FinisherApart, FinishesUnsealed, Finished, q, IsSealed
<1>3. QED BY <1>1, <1>2

LEMMA UntouchedSide ==
  ASSUME NEW q \in Runs, Untouched(q)
  PROVE  SideOfRun(q)
  BY DEF Untouched, SideOfRun, IsSealed

LEMMA StartingApart ==
  ASSUME BaseInv, ApartInv, NEW r \in Runs,
         \/ Start(r) \/ CreateRecord(r) \/ JournalStart(r) \/ WriteMarker(r)
         \/ RefusedStart(r) \/ RemoveRefused(r)
  PROVE  ApartInv'
<1> USE WriterIs, FinisherIsNoRun
<1>1. /\ \A v \in Writers \ {r} : job'[v] = job[v]
      /\ live \in {r, NoOne} \/ live' = live
      /\ seal' = seal /\ asked' = asked
      /\ \A q \in Runs \ {r} : folder'[q] = folder[q] /\ rec'[q] = rec[q]
      /\ folder[r].made => folder'[r].made
  <2>1. CASE Start(r)
    <3>1. PICK plan : rec' = [rec EXCEPT ![r].plan = plan]
      BY <2>1 DEF Start
    <3>2. \A q \in Runs \ {r} : rec'[q] = rec[q] /\ folder'[q] = folder[q]
      BY <2>1, <3>1 DEF Start, BaseInv, TypeInv
    <3>3. /\ \A v \in Writers \ {r} : job'[v] = job[v]
          /\ live = NoOne /\ seal' = seal /\ asked' = asked
      BY <2>1 DEF Start, BaseInv, TypeInv
    <3>4. folder'[r].made
      BY <2>1 DEF Start, BaseInv, TypeInv, Folders
    <3>5. QED BY <3>2, <3>3, <3>4
  <2>2. CASE CreateRecord(r) \/ JournalStart(r) \/ RefusedStart(r) \/ RemoveRefused(r)
    <3>1. Gone(r) \/ \E step : Moved(r, step)
      BY <2>2, StepsAre DEF CreateRecord, JournalStart, RefusedStart, RemoveRefused, BaseInv
    <3>2. UNCHANGED <<seal, asked, folder>>
      BY <2>2 DEF CreateRecord, JournalStart, RefusedStart, RemoveRefused
    <3>3. \A q \in Runs \ {r} : rec'[q] = rec[q]
      BY <2>2 DEF CreateRecord, JournalStart, RefusedStart, RemoveRefused, BaseInv, TypeInv
    <3>4. QED BY <3>1, <3>2, <3>3 DEF Moved, Gone, Alone
  <2>3. CASE WriteMarker(r)
    BY <2>3, StepsAre DEF WriteMarker, BaseInv, TypeInv, Folders, Moved, Alone
  <2>4. QED BY <2>1, <2>2, <2>3
<1>2. \A q \in Runs \ {r} : Untouched(q)
  <2>1. live = r \/ live \notin Runs \/ live' = live
    BY <1>1, BoundsAssumption DEF NoOne, Runs
  <2>2. QED BY <1>1, <2>1 DEF Untouched
<1>3. RunAlone(r)' /\ SideOfRun(r)
  <2>0. RunAlone(r)
    BY DEF ApartInv
  <2>1. CASE Start(r)
    <3>1. /\ job'[r].at = "record" /\ job'[r].run = r /\ live' = r
          /\ folder'[r].made /\ ~folder[r].made
      BY <2>1 DEF Start, BaseInv, TypeInv, Folders, Idle
    <3>2. QED BY <1>1, <2>0, <3>1 DEF RunAlone, Fresh, SideOfRun, IsSealed, Starting,
      Finalizing, Sealing, Copying
  <2>2. CASE ~Start(r)
    <3>1. \/ Gone(r)
          \/ \E step \in Starting \union {"msg"} : Moved(r, step)
      BY <2>2, StepsAre DEF CreateRecord, JournalStart, RefusedStart, RemoveRefused,
        WriteMarker, BaseInv, Starting
    <3>2. job[r].at \in Starting
      BY <2>2 DEF CreateRecord, JournalStart, RefusedStart, RemoveRefused,
        WriteMarker, At, Starting
    <3>3. folder[r].made
      BY <2>0, <3>2 DEF RunAlone, Fresh, Starting
    <3>4. CASE Gone(r)
      BY <1>1, <2>0, <3>2, <3>3, <3>4 DEF RunAlone, Gone, SideOfRun, IsSealed, Starting,
        Finalizing, Sealing, Copying
    <3>5. CASE \E step \in Starting \union {"msg"} : Moved(r, step)
      BY <1>1, <2>0, <3>2, <3>3, <3>5 DEF RunAlone, Moved, SideOfRun, IsSealed, Starting,
        Finalizing, Sealing, Copying
    <3>6. QED BY <3>1, <3>4, <3>5
  <2>3. QED BY <2>1, <2>2
<1>4. \A q \in Runs : RunAlone(q)' /\ SideOfRun(q)
  BY <1>2, <1>3, UntouchedAlone, UntouchedSide DEF ApartInv
<1>5. job'[Finisher] = job[Finisher]
  BY <1>1
<1>6. QED BY <1>4, <1>5, FinisherAside DEF ApartInv

LEMMA LoopLines ==
  ASSUME TypeInv, NEW r \in Runs,
         NextMessage(r) \/ Fetch(r) \/ Place(r) \/ RecordLine(r)
  PROVE  rec' = rec \/ \E line : rec' = [rec EXCEPT ![r].line = line]
<1>1. CASE RecordLine(r) /\ asked[r] /= "abandoned"
  BY <1>1, RecordLineLines
<1>2. CASE NextMessage(r) \/ Fetch(r) \/ Place(r) \/ (RecordLine(r) /\ asked[r] = "abandoned")
  BY <1>2 DEF NextMessage, Fetch, Place, RecordLine, disk
<1>3. QED BY <1>1, <1>2

LEMMA LoopApart ==
  ASSUME BaseInv, ApartInv, NEW r \in Runs,
         NextMessage(r) \/ Fetch(r) \/ Place(r) \/ RecordLine(r)
  PROVE  ApartInv'
<1> USE WriterIs, FinisherIsNoRun
<1>0. RunAlone(r)
  BY DEF ApartInv
<1>1. /\ Alone(r) /\ seal' = seal /\ asked' = asked
      /\ \A q \in Runs \ {r} : folder'[q] = folder[q] /\ rec'[q] = rec[q]
      /\ folder[r].made => folder'[r].made
  <2>1. Alone(r)
    BY LoopSteps DEF BaseInv, Concluded, Gone
  <2>2. CASE NextMessage(r) \/ Fetch(r) \/ RecordLine(r)
    <3>1. rec' = rec \/ \E line : rec' = [rec EXCEPT ![r].line = line]
      BY LoopLines DEF BaseInv
    <3>2. \A q \in Runs \ {r} : rec'[q] = rec[q]
      BY <3>1 DEF BaseInv, TypeInv
    <3>3. QED BY <2>1, <2>2, <3>2 DEF NextMessage, Fetch, RecordLine, disk
  <2>3. CASE Place(r)
    <3>1. PICK file : folder' = [folder EXCEPT ![r].file[job[r].next] = file]
      BY <2>3 DEF Place
    <3>2. folder'[r].made = folder[r].made /\ \A q \in Runs \ {r} : folder'[q] = folder[q]
      BY <3>1 DEF BaseInv, TypeInv, Folders
    <3>3. QED BY <2>1, <2>3, <3>2 DEF Place
  <2>4. QED BY <2>2, <2>3
<1>2. \A q \in Runs \ {r} : Untouched(q)
  <2>1. live = r \/ live \notin Runs \/ live' = live
    BY <1>1 DEF Alone
  <2>2. QED BY <1>1, <2>1 DEF Alone, Untouched
<1>3. RunAlone(r)' /\ SideOfRun(r)
  <2>1. /\ job[r].at \in Copying
        /\ \/ asked[r] = "abandoned" /\ Gone(r)
           \/ \E status \in Statuses : Concluded(r, status)
           \/ live' = live /\ job'[r].at \in Copying /\ job'[r].run = job[r].run
    BY LoopSteps DEF BaseInv, Copying
  <2>2. folder[r].made
    BY <1>0, <2>1 DEF RunAlone, Fresh, Copying
  <2>3. CASE Gone(r)
    BY <1>0, <1>1, <2>1, <2>2, <2>3 DEF RunAlone, Gone, SideOfRun, IsSealed,
      Starting, Finalizing, Sealing, Copying
  <2>4. CASE \E status \in Statuses : Concluded(r, status) /\ ~Gone(r)
    BY <1>0, <1>1, <2>1, <2>2, <2>4 DEF RunAlone, Concluded, SideOfRun, IsSealed,
      Starting, Finalizing, Sealing, Copying
  <2>5. CASE live' = live /\ job'[r].at \in Copying /\ job'[r].run = job[r].run
    BY <1>0, <1>1, <2>1, <2>2, <2>5 DEF RunAlone, SideOfRun, IsSealed,
      Starting, Finalizing, Sealing, Copying
  <2>6. QED BY <2>1, <2>3, <2>4, <2>5
<1>4. \A q \in Runs : RunAlone(q)' /\ SideOfRun(q)
  BY <1>2, <1>3, UntouchedAlone, UntouchedSide DEF ApartInv
<1>5. job'[Finisher] = job[Finisher]
  BY <1>1 DEF Alone
<1>6. QED BY <1>4, <1>5, FinisherAside DEF ApartInv

LEMMA PresenceLeaves ==
  ASSUME TypeInv, NEW w \in Writers, job[w].run \in Runs, Presence(w)
  PROVE  /\ \A q \in Runs \ {job[w].run} : rec'[q] = rec[q]
         /\ \A q \in Runs : rec'[q].kept = rec[q].kept /\ rec'[q].plan = rec[q].plan
                            /\ rec'[q].gone = rec[q].gone
         /\ Gone(w) \/ Moved(w, "readme")
<1> DEFINE r == job[w].run
<1>1. (\E line : rec' = [rec EXCEPT ![r].line = line]) \/ rec' = rec
  BY Zenon DEF Presence
<1>2. \A q \in Runs \ {r} : rec'[q] = rec[q]
  BY <1>1 DEF TypeInv, Records
<1>3. \A q \in Runs : rec'[q].kept = rec[q].kept /\ rec'[q].plan = rec[q].plan
                            /\ rec'[q].gone = rec[q].gone
  <2>1. r \in Runs
    OBVIOUS
  <2> HIDE DEF r
  <2>2. CASE rec' = rec
    BY <2>2
  <2>3. CASE \E line : rec' = [rec EXCEPT ![r].line = line]
    BY <2>1, <2>3 DEF TypeInv, Records
  <2>4. QED BY <1>1, <2>2, <2>3
<1>4. Leave(w) \/ \E ok \in BOOLEAN : Proceed(w, ok, "readme")
  <2>1. CASE away
    BY <2>1 DEF Presence
  <2>2. CASE ~away
    <3>1. PICK ok : ok \in BOOLEAN /\ Proceed(w, ok, "readme")
      BY <2>2 DEF Presence
    <3>2. QED BY <3>1
  <2>3. QED BY <2>1, <2>2
<1>5. QED BY <1>2, <1>3, <1>4, StepsAre

LEMMA DocumentLeaves ==
  ASSUME TypeInv, NEW w \in Writers, job[w].run \in Runs, WriteDocument(w)
  PROVE  /\ \A q \in Runs \ {job[w].run} : folder'[q] = folder[q]
         /\ \A q \in Runs : /\ folder'[q].made = folder[q].made
                            /\ folder'[q].marker = folder[q].marker
                            /\ folder'[q].file = folder[q].file
         /\ \/ Gone(w) /\ folder' = folder
            \/ /\ job[w].at = "readme" /\ Alone(w) /\ live' = live
               /\ job'[w].at = "manifest" /\ job'[w].run = job[w].run
               /\ job'[w].try = job[w].try
               /\ job'[w].status = FinalStatus(job[w].status, job[w].run)
               /\ folder' = [folder EXCEPT ![job[w].run].readme = job[w].try]
            \/ /\ job[w].at = "manifest" /\ Moved(w, "sums")
               /\ folder' = [folder EXCEPT ![job[w].run].manifest = job[w].try]
            \/ /\ job[w].at = "sums" /\ Moved(w, "seal")
               /\ folder' = [folder EXCEPT ![job[w].run].sums = job[w].try,
                                           ![job[w].run].listed = Exported(job[w].run)]
<1> DEFINE r == job[w].run
           doc == job[w].at
<1>1. PICK ok \in BOOLEAN :
             /\ folder' = IF ~ok THEN folder
                          ELSE IF doc = "sums"
                          THEN [folder EXCEPT ![r].sums = job[w].try,
                                              ![r].listed = Exported(r)]
                          ELSE [folder EXCEPT ![r][doc] = job[w].try]
             /\ IF ok /\ doc = "readme"
                THEN /\ job' = [job EXCEPT ![w].at = "manifest",
                                  ![w].status = FinalStatus(job[w].status, r)]
                     /\ UNCHANGED live
                ELSE Proceed(w, ok, IF doc = "manifest" THEN "sums" ELSE "seal")
  BY DEF WriteDocument
<1>2. CASE ~ok
  BY <1>1, <1>2, StepsAre
<1>3. CASE ok /\ doc = "readme"
  <2>1. folder' = [folder EXCEPT ![r].readme = job[w].try]
    BY <1>1, <1>3
  <2>2. \E k : folder' = [folder EXCEPT ![r].readme = k]
    BY <2>1
  <2>3. /\ \A q \in Runs \ {r} : folder'[q] = folder[q]
        /\ \A q \in Runs : /\ folder'[q].made = folder[q].made
                           /\ folder'[q].marker = folder[q].marker
                           /\ folder'[q].file = folder[q].file
    <3> HIDE DEF r
    <3>1. QED BY <2>2, FieldsAre
  <2>4. PICK status : /\ status = FinalStatus(job[w].status, r)
                      /\ job' = [job EXCEPT ![w].at = "manifest", ![w].status = status]
                      /\ live' = live
    BY <1>1, <1>3
  <2>5. /\ Alone(w) /\ job'[w].at = "manifest" /\ job'[w].run = job[w].run
        /\ job'[w].try = job[w].try /\ job'[w].status = status
    BY <2>4 DEF TypeInv, Jobs, Alone
  <2>6. QED BY <1>3, <2>1, <2>3, <2>4, <2>5
<1>4. CASE ok /\ doc = "manifest"
  <2>1. folder' = [folder EXCEPT ![r].manifest = job[w].try]
    BY <1>1, <1>4
  <2>2. \E k : folder' = [folder EXCEPT ![r].manifest = k]
    BY <2>1
  <2>3. /\ \A q \in Runs \ {r} : folder'[q] = folder[q]
        /\ \A q \in Runs : /\ folder'[q].made = folder[q].made
                           /\ folder'[q].marker = folder[q].marker
                           /\ folder'[q].file = folder[q].file
    <3> HIDE DEF r
    <3>1. QED BY <2>2, FieldsAre
  <2>4. Moved(w, "sums")
    BY <1>1, <1>4, StepsAre
  <2>5. QED BY <1>4, <2>1, <2>3, <2>4
<1>5. CASE ok /\ doc = "sums"
  <2>1. folder' = [folder EXCEPT ![r].sums = job[w].try, ![r].listed = Exported(r)]
    BY <1>1, <1>5
  <2>2. \E k, listed : folder' = [folder EXCEPT ![r].sums = k, ![r].listed = listed]
    BY <2>1, Zenon
  <2>3. /\ \A q \in Runs \ {r} : folder'[q] = folder[q]
        /\ \A q \in Runs : /\ folder'[q].made = folder[q].made
                           /\ folder'[q].marker = folder[q].marker
                           /\ folder'[q].file = folder[q].file
    <3> HIDE DEF r
    <3>1. QED BY <2>2, FieldsAre
  <2>4. Moved(w, "seal")
    BY <1>1, <1>5, StepsAre
  <2>5. QED BY <1>5, <2>1, <2>3, <2>4
<1>6. QED BY <1>2, <1>3, <1>4, <1>5 DEF WriteDocument

LEMMA SealIs ==
  ASSUME TypeInv, NEW w \in Writers, job[w].run \in Runs, Seal(w)
  PROVE  \/ Gone(w) /\ seal' = seal /\ ~IsSealed(job[w].run)
         \/ Moved(w, "ledger") /\ seal' = seal /\ IsSealed(job[w].run)
         \/ /\ Moved(w, "ledger") /\ ~IsSealed(job[w].run)
            /\ seal' = [seal EXCEPT ![job[w].run] =
                          [status |-> job[w].status, try |-> job[w].try,
                           parts |-> Append(LastParts(ledger'), job[w].run)]]
<1>1. CASE IsSealed(job[w].run)
  BY <1>1, StepsAre DEF Seal
<1>2. CASE ~IsSealed(job[w].run)
  <2>1. PICK ok \in BOOLEAN :
            /\ seal' = IF ok THEN [seal EXCEPT ![job[w].run] =
                                     [status |-> job[w].status, try |-> job[w].try,
                                      parts |-> Append(LastParts(ledger'), job[w].run)]]
                       ELSE seal
            /\ Proceed(w, ok, "ledger")
    BY <1>2, Zenon DEF Seal
  <2>2. QED BY <1>2, <2>1, StepsAre
<1>3. QED BY <1>1, <1>2

LEMMA SealingIs ==
  ASSUME TypeInv, NEW w \in Writers, job[w].run \in Runs,
         AppendLedger(w) \/ MarkerAction(w) \/ JournalEnd(w)
  PROVE  /\ job[w].at \in Sealing
         /\ \/ Gone(w) \/ \E step \in Sealing : Moved(w, step)
         /\ \A q \in Runs \ {job[w].run} : folder'[q] = folder[q]
         /\ \A q \in Runs : /\ folder'[q].made = folder[q].made
                            /\ folder'[q].file = folder[q].file
<1>1. CASE AppendLedger(w)
  BY <1>1, StepsAre DEF AppendLedger, At, Sealing
<1>2. CASE MarkerAction(w)
  <2>1. PICK marker : folder' = [folder EXCEPT ![job[w].run].marker = marker]
    BY <1>2, Zenon DEF MarkerAction
  <2> DEFINE r == job[w].run
  <2>2. r \in Runs /\ folder' = [folder EXCEPT ![r].marker = marker]
    BY <2>1
  <2>3. /\ \A q \in Runs \ {r} : folder'[q] = folder[q]
        /\ \A q \in Runs : /\ folder'[q].made = folder[q].made
                           /\ folder'[q].file = folder[q].file
    <3> HIDE DEF r
    <3>1. QED BY <2>2, FieldsAre
  <2>4. Gone(w) \/ Moved(w, "end")
    BY <1>2, StepsAre DEF MarkerAction
  <2>5. QED BY <1>2, <2>3, <2>4 DEF MarkerAction, At, Sealing
<1>3. CASE JournalEnd(w)
  BY <1>3, StepsAre DEF JournalEnd, At, Sealing
<1>4. QED BY <1>1, <1>2, <1>3

(* What a writer's step is, but for a panic. *)
Finalizes(w) ==
  /\ job[w].at \in Finalizing /\ seal' = seal
  /\ \/ Gone(w)
     \/ /\ Alone(w) /\ live' = live /\ job'[w].run = job[w].run
        /\ job'[w].at \in Finalizing \union {"seal"}
        /\ job'[w].status \in {job[w].status, FinalStatus(job[w].status, job[w].run)}

SealsIt(w) ==
  LET r == job[w].run
  IN  /\ job[w].at = "seal"
      /\ \/ Gone(w) /\ seal' = seal /\ ~IsSealed(r)
         \/ Moved(w, "ledger") /\ seal' = seal /\ IsSealed(r)
         \/ /\ Moved(w, "ledger") /\ ~IsSealed(r)
            /\ seal'[r].status = job[w].status
            /\ \A q \in Runs \ {r} : seal'[q] = seal[q]

GoesOnSealing(w) ==
  /\ job[w].at \in Sealing /\ seal' = seal
  /\ Gone(w) \/ \E step \in Sealing : Moved(w, step)

LEMMA WriteIs ==
  ASSUME TypeInv, NEW w \in Writers, job[w].run \in Runs, Write(w), ~Panic(w)
  PROVE  /\ Finalizes(w) \/ SealsIt(w) \/ GoesOnSealing(w)
         /\ asked' = asked
         /\ \A q \in Runs \ {job[w].run} : folder'[q] = folder[q] /\ rec'[q] = rec[q]
         /\ \A q \in Runs : /\ folder'[q].made = folder[q].made
                            /\ folder'[q].file = folder[q].file
                            /\ rec'[q].kept = rec[q].kept
<1> DEFINE r == job[w].run
<1>1. CASE Presence(w)
  BY <1>1, PresenceLeaves DEF Presence, Finalizes, Moved, Gone, At, Finalizing
<1>2. CASE WriteDocument(w)
  <2>1. asked' = asked /\ rec' = rec /\ seal' = seal /\ job[w].at \in Finalizing
    BY <1>2 DEF WriteDocument, Finalizing
  <2>2. Finalizes(w)
    BY <1>2, <2>1, DocumentLeaves DEF Finalizes, Moved, Finalizing
  <2>3. /\ \A q \in Runs \ {job[w].run} : folder'[q] = folder[q]
        /\ \A q \in Runs : folder'[q].made = folder[q].made /\ folder'[q].file = folder[q].file
    BY <1>2, DocumentLeaves
  <2>4. QED BY <2>1, <2>2, <2>3
<1>3. CASE Seal(w)
  <2>1. asked' = asked /\ rec' = rec /\ folder' = folder /\ job[w].at = "seal"
    BY <1>3 DEF Seal, At
  <2>2. SealsIt(w)
    <3>1. CASE /\ Moved(w, "ledger") /\ ~IsSealed(r)
               /\ \E p : seal' = [seal EXCEPT ![r] =
                          [status |-> job[w].status, try |-> job[w].try, parts |-> p]]
      BY <2>1, <3>1 DEF SealsIt, TypeInv
    <3>2. QED BY <1>3, <2>1, <3>1, SealIs DEF SealsIt
  <2>3. QED BY <2>1, <2>2
<1>4. CASE AppendLedger(w) \/ MarkerAction(w) \/ JournalEnd(w)
  <2>1. asked' = asked /\ rec' = rec /\ seal' = seal
    BY <1>4 DEF AppendLedger, MarkerAction, JournalEnd
  <2>2. QED BY <1>4, <2>1, SealingIs DEF GoesOnSealing
<1>5. QED BY <1>1, <1>2, <1>3, <1>4 DEF Write

LEMMA FinishedStays == \A r : FinalStatus("finished", r) = "finished"
  BY DEF FinalStatus

LEMMA FinishedAside ==
  ASSUME NEW q \in Runs, RunAlone(q), folder[q].made, folder'[q].made,
         job'[q] = job[q], asked'[q] = asked[q], live = q => live' = q,
         \/ seal'[q] = seal[q]
         \/ /\ seal'[q].status = "finished"
            /\ job[q].at \in Copying \union {"over"}
            /\ job[q].at \in Copying => asked[q] = "abandoned"
  PROVE  RunAlone(q)'
<1>1. CASE seal'[q] = seal[q]
  BY <1>1 DEF RunAlone, IsSealed
<1>2. CASE /\ seal'[q].status = "finished"
           /\ job[q].at \in Copying \union {"over"}
           /\ job[q].at \in Copying => asked[q] = "abandoned"
  BY <1>2 DEF RunAlone, IsSealed, Starting, Copying, Finalizing, Sealing
<1>3. QED BY <1>1, <1>2

LEMMA WriteApart ==
  ASSUME BaseInv, ApartInv, NEW w \in Writers, Write(w), ~Panic(w)
  PROVE  ApartInv'
<1> USE WriterIs, FinisherIsNoRun
<1> DEFINE r == job[w].run
<1>1. r \in Runs /\ job[w].at \in Finalizing \union {"seal"} \union Sealing
  <2>1. job[w].at \in Finalizing \union {"seal"} \union Sealing
    BY DEF Write, Presence, WriteDocument, Seal, AppendLedger, MarkerAction, JournalEnd,
      At, Finalizing, Sealing
  <2>2. QED BY <2>1 DEF BaseInv, RunsFit, Finalizing, Sealing
<1>2. /\ Finalizes(w) \/ SealsIt(w) \/ GoesOnSealing(w)
      /\ asked' = asked
      /\ \A q \in Runs \ {r} : folder'[q] = folder[q] /\ rec'[q] = rec[q]
      /\ \A q \in Runs : /\ folder'[q].made = folder[q].made
                         /\ folder'[q].file = folder[q].file
                         /\ rec'[q].kept = rec[q].kept
  BY <1>1, WriteIs DEF BaseInv
<1>3. Alone(w) /\ \A q \in Runs \ {r} : seal'[q] = seal[q]
  BY <1>2 DEF Finalizes, SealsIt, GoesOnSealing, Gone, Moved
<1>4. w \in Runs => r = w
  BY <1>1 DEF ApartInv, RunAlone, Finalizing, Sealing
<1>5. \A q \in Runs \ {r} : Untouched(q)
  BY <1>2, <1>3, <1>4 DEF Alone, Untouched
<1>6. \A q \in Runs : IsSealed(q) => seal'[q] = seal[q]
  BY <1>2, <1>3 DEF Finalizes, SealsIt, GoesOnSealing, Gone, Moved
<1>7. folder[r].made
  BY <1>1, <1>4 DEF ApartInv, RunAlone, FinisherApart, Fresh, Finalizing, Sealing, Writers
<1>8. CASE w \in Runs
  <2>1. RunAlone(w) /\ asked[w] /= "abandoned"
    BY <1>1, <1>8 DEF ApartInv, RunAlone, Copying, Finalizing, Sealing
  <2>2. RunAlone(w)'
    <3>1. CASE Finalizes(w)
      BY <1>2, <1>4, <1>7, <1>8, <2>1, <3>1 DEF RunAlone, Finalizes, Gone, IsSealed,
        Starting, Copying, Finalizing, Sealing
    <3>2. CASE SealsIt(w)
      <4>1. job[w].status \in Statuses
        BY DEF BaseInv, TypeInv, Jobs
      <4>2. QED BY <1>2, <1>4, <1>7, <1>8, <2>1, <3>2, <4>1 DEF RunAlone, SealsIt, Gone,
        Moved, IsSealed, Starting, Copying, Finalizing, Sealing, Statuses
    <3>3. CASE GoesOnSealing(w)
      BY <1>2, <1>4, <1>7, <1>8, <2>1, <3>3 DEF RunAlone, GoesOnSealing, Gone, Moved,
        IsSealed, Starting, Copying, Finalizing, Sealing
    <3>4. QED BY <1>2, <3>1, <3>2, <3>3
  <2>3. SideOfRun(w)
    BY <1>1, <1>2, <1>6, <1>8 DEF SideOfRun, Copying, Finalizing, Sealing
  <2>4. \A q \in Runs : RunAlone(q)' /\ SideOfRun(q)
    BY <1>4, <1>5, <1>8, <2>2, <2>3, UntouchedAlone, UntouchedSide DEF ApartInv
  <2>5. job'[Finisher] = job[Finisher]
    BY <1>3, <1>8 DEF Alone
  <2>6. QED BY <2>4, <2>5, FinisherAside DEF ApartInv
<1>9. CASE w = Finisher
  <2>1. job'[r] = job[r] /\ (live = r => live' = r)
    BY <1>1, <1>3, <1>9 DEF Alone
  <2>2. RunAlone(r) /\ FinisherApart
    BY <1>1 DEF ApartInv
  <2>3. seal'[r] = seal[r] \/ (FinishesUnsealed /\ seal'[r].status = "finished")
    BY <1>2, <1>9, <2>2 DEF Finalizes, SealsIt, GoesOnSealing, FinisherApart, FinishesUnsealed,
      Finished
  <2>4. \A q \in Runs : q = r => RunAlone(q)'
    <3>1. FinishesUnsealed =>
            /\ job[r].at \in Copying \union {"over"}
            /\ job[r].at \in Copying => asked[r] = "abandoned"
      BY <1>9, <2>2 DEF FinisherApart
    <3>2. folder'[r].made
      BY <1>1, <1>2, <1>7
    <3> HIDE DEF r
    <3>3. QED BY <1>1, <1>2, <1>7, <2>1, <2>2, <2>3, <3>1, <3>2, FinishedAside
  <2>5. \A q \in Runs : RunAlone(q)'
    BY <1>5, <2>4, UntouchedAlone DEF ApartInv
  <2>6. FinisherApart'
    <3>1. CASE Gone(w)
      BY <1>9, <3>1 DEF Gone, FinisherApart, FinishesUnsealed, Finished, Finalizing, Sealing
    <3>2. CASE ~Gone(w)
      <4>1. job'[w].run = r /\ folder'[r].made
        BY <1>1, <1>2, <1>7, <3>2 DEF Finalizes, SealsIt, GoesOnSealing, Moved
      <4>2. CASE Finalizes(w)
        <5>1. Finished' /\ Finished /\ job'[w].at \in Finalizing \union {"seal"} /\ seal' = seal
          BY <1>9, <2>2, <3>2, <4>2, FinishedStays DEF Finalizes, FinisherApart, Finished
        <5>2. /\ ~IsSealed(r) /\ job[r].at \in Copying \union {"over"}
              /\ job[r].at \in Copying => asked[r] = "abandoned"
          BY <1>9, <2>2, <4>2, <5>1 DEF Finalizes, FinisherApart, FinishesUnsealed
        <5>3. seal'[r].status = "none"
          BY <5>1, <5>2 DEF IsSealed
        <5>4. QED BY <1>1, <1>2, <1>9, <2>1, <4>1, <5>1, <5>2, <5>3
          DEF FinisherApart, FinishesUnsealed, Finished, IsSealed, Finalizing, Sealing
      <4>3. CASE SealsIt(w) \/ GoesOnSealing(w)
        <5>1. job'[w].at \in Sealing
          BY <3>2, <4>3 DEF SealsIt, GoesOnSealing, Moved, Sealing
        <5>2. seal'[r].status /= "none"
          <6>1. job[w].status \in Statuses
            BY DEF BaseInv, TypeInv, Jobs
          <6>2. QED BY <1>9, <2>2, <3>2, <4>3, <6>1 DEF SealsIt, GoesOnSealing, IsSealed,
            FinisherApart, Statuses
        <5>3. QED BY <1>1, <1>9, <4>1, <5>1, <5>2
          DEF FinisherApart, FinishesUnsealed, Finished, IsSealed, Finalizing, Sealing
      <4>4. QED BY <1>2, <4>2, <4>3
    <3>3. QED BY <3>1, <3>2
  <2>7. QED BY <2>5, <2>6 DEF ApartInv
<1>10. QED BY <1>8, <1>9 DEF Writers

LEMMA QuietApart ==
  ASSUME ApartInv, UNCHANGED <<job, live, asked, seal>>,
         \A q \in Runs : /\ folder'[q].made = folder[q].made
                         /\ rec'[q].kept => rec[q].kept
                         /\ \A m \in Msgs : folder[q].file[m] = "none"
                                            => folder'[q].file[m] = "none"
  PROVE  ApartInv'
<1>1. \A q \in Runs : RunAlone(q)'
  BY DEF ApartInv, RunAlone, Fresh, IsSealed
<1>2. \A q \in Runs : SideOfRun(q)
  BY DEF SideOfRun, IsSealed
<1>3. QED BY <1>1, <1>2, FinisherAside DEF ApartInv

LEMMA UserApart ==
  ASSUME LoopHangs, BaseInv, ApartInv, NEW r \in Runs, User(r)
  PROVE  ApartInv'
<1> USE WriterIs, FinisherIsNoRun
<1>0. RunAlone(r) /\ FinisherApart
  BY DEF ApartInv
<1>1. CASE Cancel(r) \/ Wedged(r)
  <2>1. /\ UNCHANGED <<job, folder, rec, seal>> /\ live = r
        /\ \A q \in Runs \ {r} : asked'[q] = asked[q]
    BY <1>1 DEF Cancel, Wedged, disk, BaseInv, TypeInv
  <2>2. RunAlone(r)' /\ SideOfRun(r)
    <3>1. CASE Cancel(r)
      <4>1. asked[r] = "no" /\ asked'[r] = "cancelled" /\ live' = live
        BY <3>1 DEF Cancel, BaseInv, TypeInv
      <4>2. QED BY <1>0, <2>1, <4>1 DEF RunAlone, Fresh, SideOfRun, IsSealed
    <3>2. CASE Wedged(r)
      <4>1. asked[r] = "cancelled" /\ asked'[r] = "abandoned" /\ job[r].at \in Copying
        BY <3>2 DEF Wedged, LoopHangs, BaseInv, TypeInv
      <4>2. QED BY <1>0, <2>1, <4>1 DEF RunAlone, Fresh, SideOfRun, IsSealed, Copying
    <3>3. QED BY <1>1, <3>1, <3>2
  <2>3. \A q \in Runs \ {r} : Untouched(q)
    BY <2>1 DEF Untouched
  <2>4. \A q \in Runs : RunAlone(q)' /\ SideOfRun(q)
    BY <2>2, <2>3, UntouchedAlone, UntouchedSide DEF ApartInv
  <2>5. QED BY <2>1, <2>4, FinisherAside DEF ApartInv
<1>2. CASE Finish(r)
  <2>1. /\ UNCHANGED <<live, asked, folder, rec, seal>>
        /\ \A q \in Runs : job'[q] = job[q]
        /\ rec[r].kept /\ live /= r
    BY <1>2 DEF Finish, HasCard, disk, BaseInv, TypeInv
  <2>2. \A q \in Runs : RunAlone(q)'
    BY <2>1, UntouchedAlone DEF Untouched, ApartInv
  <2>3. /\ folder[r].made /\ job[r].at /= "idle"
        /\ job[r].at /= "over" => asked[r] = "abandoned" /\ job[r].at \in Copying
    BY <1>0, <2>1 DEF RunAlone, Fresh
  <2>4. /\ job'[Finisher].run = r
        /\ \/ IsSealed(r) /\ job'[Finisher].at = "check" /\ ~Finished'
           \/ ~IsSealed(r) /\ job'[Finisher].at = "presence" /\ Finished'
    <3>1. CASE IsSealed(r)
      <4> DEFINE e == [Idle EXCEPT !.at = "check", !.run = r]
      <4>1. e.at = "check" /\ e.run = r /\ e.status = "complete"
        BY DEF Idle
      <4>2. job' = [job EXCEPT ![Finisher] = e]
        BY <1>2, <3>1 DEF Finish
      <4> HIDE DEF e
      <4>3. QED BY <3>1, <4>1, <4>2 DEF BaseInv, TypeInv, Finished
    <3>2. CASE ~IsSealed(r)
      <4> DEFINE e == [Idle EXCEPT !.at = "presence", !.run = r,
                         !.status = "finished", !.try = tries[r] + 1]
      <4>1. e.at = "presence" /\ e.run = r /\ e.status = "finished"
        BY EntryIs
      <4>2. job' = [job EXCEPT ![Finisher] = e]
        BY <1>2, <3>2 DEF Finish
      <4> HIDE DEF e
      <4>3. QED BY <3>2, <4>1, <4>2 DEF BaseInv, TypeInv, Finished
    <3>3. QED BY <3>1, <3>2
  <2>5. FinisherApart'
    <3>1. folder'[r].made /\ job'[r] = job[r] /\ asked'[r] = asked[r]
          /\ (IsSealed(r)' <=> IsSealed(r))
      BY <2>1, <2>3 DEF IsSealed
    <3>2. CASE IsSealed(r) /\ job'[Finisher].at = "check" /\ ~Finished'
      BY <2>4, <3>1, <3>2 DEF FinisherApart, FinishesUnsealed, IsSealed, Finalizing, Sealing
    <3>3. CASE ~IsSealed(r) /\ job'[Finisher].at = "presence" /\ Finished'
      <4>1. /\ job'[r].at \in Copying \union {"over"}
            /\ job'[r].at \in Copying => asked'[r] = "abandoned"
        BY <2>3, <3>1 DEF Copying
      <4>2. seal'[r].status = "none" /\ job'[Finisher].run = r
        BY <2>4, <3>1, <3>3 DEF IsSealed
      <4>3. QED BY <3>1, <3>3, <4>1, <4>2
        DEF FinisherApart, FinishesUnsealed, IsSealed, Finalizing, Sealing
    <3>4. QED BY <2>4, <3>2, <3>3
  <2>6. QED BY <2>2, <2>5 DEF ApartInv
<1>3. CASE MarkGone(r) \/ RecoverLedger(r) \/ Observe(r)
  <2>1. UNCHANGED <<job, live, asked, seal, folder>>
    BY <1>3 DEF MarkGone, RecoverLedger, Observe
  <2>2. \A q \in Runs : rec'[q].kept => rec[q].kept
    <3>1. rec' = rec \/ rec' = [rec EXCEPT ![r].gone = TRUE]
      BY <1>3 DEF MarkGone, RecoverLedger, Observe
    <3>2. CASE rec' = [rec EXCEPT ![r].gone = TRUE]
      <4>1. \A q \in Runs : rec'[q].kept = rec[q].kept
        BY <3>2 DEF BaseInv, TypeInv, Records
      <4>2. QED BY <4>1
    <3>3. QED BY <3>1, <3>2
  <2>3. QED BY <2>1, <2>2, QuietApart
<1>4. QED BY <1>1, <1>2, <1>3 DEF User

LEMMA PanicApart ==
  ASSUME BaseInv, ApartInv, NEW w \in Writers, Panic(w)
  PROVE  ApartInv'
<1> USE WriterIs, FinisherIsNoRun
<1>1. Gone(w) /\ UNCHANGED <<asked, folder, rec, seal>> /\ job[w].at \notin Ends
  BY StepsAre DEF Panic, disk, BaseInv, Ends
<1>2. \A q \in Runs \ {w} : Untouched(q)
  BY <1>1 DEF Gone, Alone, Untouched
<1>3. w \in Runs => RunAlone(w)' /\ SideOfRun(w)
  BY <1>1 DEF ApartInv, RunAlone, Fresh, Gone, SideOfRun, IsSealed, Ends,
    Starting, Copying, Finalizing, Sealing
<1>4. \A q \in Runs : RunAlone(q)' /\ SideOfRun(q)
  BY <1>2, <1>3, UntouchedAlone, UntouchedSide DEF ApartInv
<1>5. FinisherApart'
  <2>1. CASE w = Finisher
    BY <1>1, <2>1 DEF Gone, FinisherApart, FinishesUnsealed, Finished, Finalizing, Sealing
  <2>2. CASE w /= Finisher
    BY <1>1, <1>4, <2>2, FinisherAside DEF Gone, Alone, ApartInv
  <2>3. QED BY <2>1, <2>2
<1>6. QED BY <1>4, <1>5 DEF ApartInv

LEMMA CheckApart ==
  ASSUME BaseInv, ApartInv, CheckAndFinish(Finisher)
  PROVE  ApartInv'
<1> USE WriterIs, FinisherIsNoRun
<1>1. /\ UNCHANGED <<asked, folder, rec, seal>> /\ job[Finisher].at = "check"
      /\ Gone(Finisher) \/ Moved(Finisher, "seal")
  <2>1. ChecksOut(job[Finisher].run) \in BOOLEAN
    BY DEF ChecksOut
  <2>2. QED BY <2>1, StepsAre DEF CheckAndFinish, disk, BaseInv, At
<1>2. \A q \in Runs : RunAlone(q)'
  BY <1>1, UntouchedAlone DEF Gone, Moved, Alone, Untouched, ApartInv
<1>3. CASE Gone(Finisher)
  BY <1>2, <1>3 DEF ApartInv, Gone, FinisherApart, FinishesUnsealed, Finished,
    Finalizing, Sealing
<1>4. CASE Moved(Finisher, "seal")
  BY <1>1, <1>2, <1>4 DEF ApartInv, Moved, FinisherApart, FinishesUnsealed, Finished, IsSealed,
    Finalizing, Sealing
<1>5. QED BY <1>1, <1>3, <1>4

LEMMA KillApart ==
  ASSUME BaseInv, ApartInv, Kill
  PROVE  ApartInv'
<1>1. /\ UNCHANGED <<folder, rec, seal>>
      /\ \A r \in Runs : /\ asked'[r] = "no"
                         /\ job'[r].at = IF job[r].at = "idle" THEN "idle" ELSE "over"
      /\ job'[Finisher].at = "idle" /\ job'[Finisher].status = "complete"
  BY WriterIs, FinisherIsNoRun DEF Kill, disk, Idle
<1>2. ASSUME NEW r \in Runs PROVE RunAlone(r)'
  BY <1>1 DEF ApartInv, RunAlone, Fresh, IsSealed, Starting, Copying, Finalizing, Sealing
<1>3. FinisherApart'
  BY <1>1 DEF FinisherApart, FinishesUnsealed, Finished, Finalizing, Sealing
<1>4. QED BY <1>2, <1>3 DEF ApartInv

LEMMA WorldApart ==
  ASSUME BaseInv, ApartInv,
         \/ Launch \/ Unplug \/ Plug \/ UNCHANGED vars
         \/ (\E r \in Runs : Compact(r) \/ Damage(r))
  PROVE  ApartInv'
<1>1. CASE Unplug \/ Plug \/ UNCHANGED vars
  BY <1>1, QuietApart DEF Unplug, Plug, vars
<1>2. CASE Launch
  <2>1. UNCHANGED <<job, live, asked, seal, folder>>
    BY <1>2 DEF Launch
  <2>2. rec' = rec \/ \E gone : rec' = [r \in Runs |-> [rec[r] EXCEPT !.kept = @ /\ r \notin gone]]
    BY <1>2 DEF Launch
  <2>3. \A q \in Runs : rec'[q].kept => rec[q].kept
    BY <2>2 DEF BaseInv, TypeInv, Records
  <2>4. QED BY <2>1, <2>3, QuietApart
<1>3. ASSUME NEW r \in Runs, Compact(r) PROVE ApartInv'
  <2>1. UNCHANGED <<job, live, asked, seal, folder>>
    BY <1>3 DEF Compact
  <2>2. \E gone : rec' = [q \in Runs |-> [rec[q] EXCEPT !.kept = @ /\ q \notin gone]]
    BY <1>3 DEF Compact
  <2>3. \A q \in Runs : rec'[q].kept => rec[q].kept
    BY <2>2 DEF BaseInv, TypeInv, Records
  <2>4. QED BY <2>1, <2>3, QuietApart
<1>4. ASSUME NEW r \in Runs, Damage(r) PROVE ApartInv'
  <2>1. UNCHANGED <<job, live, asked, seal, rec>>
    BY <1>4 DEF Damage
  <2>2. PICK m \in Msgs, to \in {"none", "bad"} :
         /\ folder[r].file[m] = "good"
         /\ folder' = [folder EXCEPT ![r].file[m] = to]
    BY <1>4 DEF Damage
  <2>3. \A q \in Runs : /\ folder'[q].made = folder[q].made
                        /\ \A n \in Msgs : folder[q].file[n] = "none"
                                           => folder'[q].file[n] = "none"
    BY <2>2, FieldsAre DEF BaseInv
  <2>4. QED BY <2>1, <2>3, QuietApart
<1>5. QED BY <1>1, <1>2, <1>3, <1>4

LEMMA ApartKept ==
  ASSUME LoopHangs, BaseInv, ApartInv, [Next]_vars
  PROVE  ApartInv'
<1>1. ASSUME NEW w \in Writers, Write(w) PROVE ApartInv'
  BY <1>1, WriteApart, PanicApart
<1>2. ASSUME NEW r \in Runs, Copy(r) PROVE ApartInv'
  BY <1>2, StartingApart, LoopApart DEF Copy
<1>3. QED
  BY <1>1, <1>2, UserApart, CheckApart, KillApart, WorldApart DEF Next

LEMMA ApartStarts == Init => ApartInv
<1> SUFFICES ASSUME Init PROVE ApartInv
  OBVIOUS
<1>1. /\ \A w \in Writers : job[w].at = "idle" /\ job[w].status = "complete"
      /\ \A r \in Runs : /\ asked[r] = "no" /\ ~folder[r].made /\ ~rec[r].kept
                         /\ seal[r].status = "none"
                         /\ \A m \in Msgs : folder[r].file[m] = "none"
  BY DEF Init, Idle, NoFolder, NoRecord, Unsealed
<1>2. QED
  BY <1>1, WriterIs DEF ApartInv, RunAlone, Fresh, IsSealed, FinisherApart, FinishesUnsealed,
    Finished, Starting, Copying, Finalizing, Sealing

LEMMA ApartAlways == LoopHangs => (Spec => [](BaseInv /\ ApartInv))
<1>1. BaseInv /\ [Next]_vars => BaseInv'
  BY BaseKept DEF BaseInv
<1>2. Init => BaseInv
  BY TypeStarts DEF Init, RunsFit, Idle, BaseInv
<1>3. SUFFICES ASSUME LoopHangs PROVE Spec => [](BaseInv /\ ApartInv)
  OBVIOUS
<1>4. BaseInv /\ ApartInv /\ [Next]_vars => ApartInv'
  BY <1>3, ApartKept
<1>5. QED BY <1>1, <1>2, <1>4, ApartStarts, PTL DEF Spec

----------------------------------------------------------------------------
(* A folder without its marker is what the sealed attempt made of it.       *)

Written == {"manifest", "sums", "seal"}
WholeStatuses == {"complete", "partial"}

DocsSame(q) ==
  /\ rec'[q].plan = rec[q].plan /\ rec'[q].line = rec[q].line
  /\ folder'[q].readme = folder[q].readme /\ folder'[q].manifest = folder[q].manifest
  /\ folder'[q].sums = folder[q].sums /\ folder'[q].listed = folder[q].listed

(* A step that leaves the folder's documents, or of a folder that claims nothing yet. *)
DocumentsLeft(q) ==
  /\ job'[q].at \in Copying => job[q].at \in Copying
  /\ job'[q].at \in Written => job'[q] = job[q]
  /\ seal'[q] = seal[q]
  /\ folder'[q].marker = folder[q].marker
  /\ \/ job[q].at \in Copying
     \/ \A m \in Msgs : folder[q].file[m] = "none" => folder'[q].file[m] = "none"
  /\ DocsSame(q) \/ (seal[q].status \notin WholeStatuses /\ job'[q].at \notin Written)

LEMMA DocumentsAside ==
  ASSUME NEW q \in Runs, DocumentsAgree(q), DocumentsLeft(q)
  PROVE  DocumentsAgree(q)'
<1>1. CASE DocsSame(q)
  BY <1>1 DEF DocumentsAgree, DocumentsLeft, DocsSame, Complete, Exported, Written
<1>2. CASE seal[q].status \notin WholeStatuses /\ job'[q].at \notin Written
  BY <1>2 DEF DocumentsAgree, DocumentsLeft, Written, WholeStatuses
<1>3. QED BY <1>1, <1>2 DEF DocumentsLeft

(* Nothing of run q changes but whether its record and its folder are kept and known. *)
LEMMA DocumentsUntouched ==
  ASSUME NEW q \in Runs, DocumentsAgree(q),
         job'[q] = job[q] \/ job'[q].at \notin Copying \union Written,
         seal'[q] = seal[q], folder'[q] = folder[q],
         rec'[q].plan = rec[q].plan, rec'[q].line = rec[q].line
  PROVE  DocumentsAgree(q)'
  BY DocumentsAside DEF DocumentsLeft, DocsSame

LEMMA StartingDocuments ==
  ASSUME BaseInv, ApartInv, DocumentsInv, NEW r \in Runs,
         \/ Start(r) \/ CreateRecord(r) \/ JournalStart(r) \/ WriteMarker(r)
         \/ RefusedStart(r) \/ RemoveRefused(r)
  PROVE  DocumentsInv'
<1> USE WriterIs, FinisherIsNoRun
<1>1. CASE Start(r)
  <2>1. PICK plan : rec' = [rec EXCEPT ![r].plan = plan]
    BY <1>1 DEF Start
  <2>2. \A q \in Runs \ {r} : job'[q] = job[q] /\ folder'[q] = folder[q] /\ rec'[q] = rec[q]
    BY <1>1, <2>1 DEF Start, BaseInv, TypeInv
  <2>3. /\ job'[r].at = "record" /\ seal' = seal /\ folder'[r].marker = folder[r].marker
        /\ folder'[r].file = folder[r].file /\ ~folder[r].made
    BY <1>1 DEF Start, BaseInv, TypeInv, Folders, Idle
  <2>4. seal[r].status = "none"
    BY <2>3 DEF ApartInv, RunAlone, Fresh, IsSealed
  <2>5. DocumentsLeft(r)
    BY <2>3, <2>4 DEF DocumentsLeft, Copying, Written, WholeStatuses
  <2>6. QED BY <2>2, <2>3, <2>5, DocumentsAside, DocumentsUntouched DEF DocumentsInv
<1>2. CASE CreateRecord(r) \/ JournalStart(r) \/ RefusedStart(r) \/ RemoveRefused(r)
  <2>1. Gone(r) \/ \E step \in Starting : Moved(r, step)
    BY <1>2, StepsAre DEF CreateRecord, JournalStart, RefusedStart, RemoveRefused, BaseInv,
      Starting
  <2>2. UNCHANGED <<seal, folder>>
    BY <1>2 DEF CreateRecord, JournalStart, RefusedStart, RemoveRefused
  <2>3. rec' = rec \/ \E kept : rec' = [rec EXCEPT ![r].kept = kept]
    BY <1>2 DEF CreateRecord, JournalStart, RefusedStart, RemoveRefused
  <2>4. \A q \in Runs : rec'[q].plan = rec[q].plan /\ rec'[q].line = rec[q].line
    <3>1. CASE \E kept : rec' = [rec EXCEPT ![r].kept = kept]
      BY <3>1 DEF BaseInv, TypeInv, Records
    <3>2. QED BY <2>3, <3>1
  <2>5. \A q \in Runs : job'[q] = job[q] \/ job'[q].at \notin Copying \union Written
    BY <2>1 DEF Gone, Moved, Alone, Starting, Copying, Written
  <2>6. QED BY <2>2, <2>4, <2>5, DocumentsUntouched DEF DocumentsInv
<1>3. CASE WriteMarker(r)
  <2>1. PICK ok \in BOOLEAN, placed \in BOOLEAN :
         /\ ok => placed
         /\ folder' = [folder EXCEPT ![r].marker = IF placed THEN "unfinished" ELSE @]
         /\ Go(r, IF ok THEN "msg" ELSE "refused")
    BY <1>3 DEF WriteMarker
  <2>2. UNCHANGED <<seal, rec>> /\ job[r].at = "marker"
    BY <1>3 DEF WriteMarker, At
  <2>3. Moved(r, IF ok THEN "msg" ELSE "refused")
    BY <2>1, StepsAre DEF BaseInv
  <2>4. \A q \in Runs \ {r} : job'[q] = job[q] /\ folder'[q] = folder[q]
    BY <2>1, <2>3 DEF Moved, Alone, BaseInv, TypeInv
  <2>5. /\ folder'[r].marker = folder[r].marker \/ folder'[r].marker = "unfinished"
        /\ job'[r].at = "msg" => folder'[r].marker = "unfinished"
        /\ job'[r].at \in {"msg", "refused"}
        /\ folder'[r].file = folder[r].file /\ DocsSame(r)
    <3>1. PICK marker : /\ folder' = [folder EXCEPT ![r].marker = marker]
                        /\ marker = folder[r].marker \/ marker = "unfinished"
                        /\ ok => marker = "unfinished"
      BY <2>1
    <3>2. QED BY <2>2, <2>3, <3>1 DEF BaseInv, TypeInv, Folders, DocsSame, Moved
  <2>6. DocumentsAgree(r)
    BY DEF DocumentsInv
  <2>7. DocumentsAgree(r)'
    BY <2>2, <2>5, <2>6 DEF DocumentsAgree, DocsSame, Complete, Exported, Copying
  <2>8. QED BY <2>2, <2>4, <2>7, DocumentsUntouched DEF DocumentsInv
<1>4. QED BY <1>1, <1>2, <1>3

LEMMA LoopDocuments ==
  ASSUME BaseInv, ApartInv, DocumentsInv, NEW r \in Runs,
         NextMessage(r) \/ Fetch(r) \/ Place(r) \/ RecordLine(r)
  PROVE  DocumentsInv'
<1> USE WriterIs, FinisherIsNoRun
<1>1. /\ job[r].at \in Copying /\ job'[r].at \in Copying \union {"presence", "over"}
      /\ Alone(r) /\ seal' = seal
  <2>1. job[r].at \in Copying /\ job'[r].at \in Copying \union {"presence", "over"} /\ Alone(r)
    BY LoopSteps DEF BaseInv, Concluded, Gone, Copying
  <2>2. QED BY <2>1 DEF NextMessage, Fetch, Place, RecordLine, disk
<1>2. /\ \A q \in Runs \ {r} : folder'[q] = folder[q] /\ rec'[q] = rec[q]
      /\ folder'[r].marker = folder[r].marker
  <2>1. rec' = rec \/ \E line : rec' = [rec EXCEPT ![r].line = line]
    BY LoopLines DEF BaseInv
  <2>2. folder' = folder \/ \E file : folder' = [folder EXCEPT ![r].file[job[r].next] = file]
    BY DEF NextMessage, Fetch, Place, RecordLine, disk
  <2>3. \A q \in Runs \ {r} : rec'[q] = rec[q]
    BY <2>1 DEF BaseInv, TypeInv
  <2>4. QED BY <2>2, <2>3 DEF BaseInv, TypeInv, Folders
<1>3. seal[r].status \notin WholeStatuses
  BY <1>1 DEF ApartInv, RunAlone, IsSealed, WholeStatuses
<1>4. DocumentsLeft(r)
  BY <1>1, <1>2, <1>3 DEF DocumentsLeft, Written, Copying
<1>5. \A q \in Runs \ {r} : job'[q] = job[q]
  BY <1>1 DEF Alone
<1>6. QED BY <1>1, <1>2, <1>4, <1>5, DocumentsAside, DocumentsUntouched DEF DocumentsInv

LEMMA WriteDocuments ==
  ASSUME BaseInv, ApartInv, DocumentsInv, NEW w \in Writers, Write(w), ~Panic(w)
  PROVE  DocumentsInv'
<1> USE WriterIs, FinisherIsNoRun
<1> DEFINE r == job[w].run
<1>1. r \in Runs /\ job[w].at \in Finalizing \union {"seal"} \union Sealing
  <2>1. job[w].at \in Finalizing \union {"seal"} \union Sealing
    BY DEF Write, Presence, WriteDocument, Seal, AppendLedger, MarkerAction, JournalEnd,
      At, Finalizing, Sealing
  <2>2. QED BY <2>1 DEF BaseInv, RunsFit, Finalizing, Sealing
<1>2. w \in Runs => r = w
  BY <1>1 DEF ApartInv, RunAlone, Finalizing, Sealing
<1>3. job[w].at \in Finalizing => seal[r].status = "none"
  BY <1>1, <1>2 DEF ApartInv, RunAlone, FinisherApart, FinishesUnsealed, IsSealed,
    Writers
<1>4. w = Finisher /\ job[w].at \in Finalizing => job[r].at \notin Written
  BY <1>1 DEF ApartInv, FinisherApart, FinishesUnsealed, Copying, Written
<1>5. CASE Presence(w)
  <2>1. /\ Gone(w) \/ Moved(w, "readme")
        /\ \A q \in Runs \ {r} : rec'[q] = rec[q]
        /\ folder' = folder /\ seal' = seal /\ job[w].at = "presence"
    BY <1>1, <1>5, PresenceLeaves DEF BaseInv, Presence, At
  <2>2. \A q \in Runs \ {r} : job'[q] = job[q]
    BY <1>2, <2>1 DEF Gone, Moved, Alone
  <2>3. job'[r] = job[r] \/ job'[r].at \notin Copying \union Written
    BY <1>1, <1>2, <2>1 DEF Gone, Moved, Alone, Copying, Written, Writers
  <2>4. job'[r].at \notin Written
    BY <1>1, <1>2, <1>4, <2>1 DEF Gone, Moved, Alone, Written, Finalizing, Writers
  <2>5. seal[r].status \notin WholeStatuses
    BY <1>3, <2>1 DEF Finalizing, WholeStatuses
  <2> HIDE DEF r
  <2>6. DocumentsLeft(r)
    BY <1>1, <2>1, <2>3, <2>4, <2>5 DEF DocumentsLeft
  <2>7. QED BY <1>1, <2>1, <2>2, <2>6, DocumentsAside, DocumentsUntouched DEF DocumentsInv
<1>6. CASE WriteDocument(w)
  <2>1. /\ \A q \in Runs \ {r} : folder'[q] = folder[q]
        /\ folder'[r].marker = folder[r].marker /\ folder'[r].file = folder[r].file
        /\ rec' = rec /\ seal' = seal /\ job[w].at \in Finalizing
    BY <1>1, <1>6, DocumentLeaves DEF BaseInv, WriteDocument, Finalizing
  <2>2. seal[r].status = "none" /\ Alone(w)
    BY <1>1, <1>3, <1>6, <2>1, DocumentLeaves DEF BaseInv, Gone, Moved
  <2>3. \A q \in Runs \ {r} : job'[q] = job[q]
    BY <1>2, <2>2 DEF Alone
  <2>4. CASE w = Finisher
    <3>1. job'[r] = job[r] /\ job'[r].at \notin Written
      BY <1>1, <1>4, <2>1, <2>2, <2>4 DEF Alone
    <3> HIDE DEF r
    <3>2. DocumentsLeft(r)
      BY <1>1, <2>1, <2>2, <3>1 DEF DocumentsLeft, WholeStatuses
    <3>3. QED BY <1>1, <2>1, <2>3, <3>2, DocumentsAside, DocumentsUntouched DEF DocumentsInv
  <2>5. CASE w \in Runs
    <3>1. DocumentsAgree(w) /\ r = w
      BY <1>2, <2>5 DEF DocumentsInv
    <3>2. DocumentsAgree(w)'
      <4>1. CASE Gone(w) /\ folder' = folder
        BY <2>1, <2>2, <2>5, <3>1, <4>1 DEF DocumentsAgree, Gone, Copying, Complete, Exported
      <4>2. CASE /\ job[w].at = "readme" /\ Alone(w) /\ live' = live
                 /\ job'[w].at = "manifest" /\ job'[w].run = job[w].run
                 /\ job'[w].try = job[w].try
                 /\ job'[w].status = FinalStatus(job[w].status, r)
                 /\ folder' = [folder EXCEPT ![r].readme = job[w].try]
        <5>1. folder'[w].readme = job'[w].try
          BY <2>5, <3>1, <4>2 DEF BaseInv, TypeInv, Folders
        <5>2. job'[w].status = "complete" => Complete(w)
          BY <3>1, <4>2 DEF FinalStatus, Complete
        <5>3. Complete(w) => Complete(w)'
          BY <2>1 DEF Complete, Exported
        <5>4. QED BY <2>1, <2>2, <3>1, <4>2, <5>1, <5>2, <5>3 DEF DocumentsAgree, Copying
      <4>3. CASE /\ job[w].at = "manifest" /\ Moved(w, "sums")
                 /\ folder' = [folder EXCEPT ![r].manifest = job[w].try]
        <5>1. folder'[w].manifest = job'[w].try /\ folder'[w].readme = folder[w].readme
          BY <2>5, <3>1, <4>3 DEF BaseInv, TypeInv, Folders, Moved
        <5>2. Complete(w) => Complete(w)'
          BY <2>1 DEF Complete, Exported
        <5>3. QED BY <2>1, <2>2, <3>1, <4>3, <5>1, <5>2 DEF DocumentsAgree, Copying, Moved
      <4>4. CASE /\ job[w].at = "sums" /\ Moved(w, "seal")
                 /\ folder' = [folder EXCEPT ![r].sums = job[w].try,
                                             ![r].listed = Exported(r)]
        <5>1. Exported(w)' = Exported(w) /\ (Complete(w) => Complete(w)')
          BY <2>1 DEF Complete, Exported
        <5>2. PICK k, listed : /\ folder' = [folder EXCEPT ![w].sums = k, ![w].listed = listed]
                               /\ k = job[w].try /\ listed = Exported(w)
          BY <3>1, <4>4
        <5>3. /\ folder'[w].sums = k /\ folder'[w].listed = listed
              /\ folder'[w].manifest = folder[w].manifest /\ folder'[w].readme = folder[w].readme
          BY <2>5, <5>2 DEF BaseInv, TypeInv, Folders
        <5>4. QED BY <2>1, <2>2, <3>1, <4>4, <5>1, <5>2, <5>3
          DEF DocumentsAgree, Copying, Moved
      <4>5. QED BY <1>1, <1>6, <4>1, <4>2, <4>3, <4>4, DocumentLeaves DEF BaseInv
    <3>3. QED BY <2>1, <2>3, <3>1, <3>2, DocumentsUntouched DEF DocumentsInv
  <2>6. QED BY <2>4, <2>5 DEF Writers
<1>7. CASE Seal(w)
  <2>1. /\ rec' = rec /\ folder' = folder /\ job[w].at = "seal" /\ SealsIt(w) /\ Alone(w)
        /\ \A q \in Runs \ {r} : seal'[q] = seal[q]
    <3>1. CASE /\ Moved(w, "ledger") /\ ~IsSealed(r)
               /\ \E p : seal' = [seal EXCEPT ![r] =
                          [status |-> job[w].status, try |-> job[w].try, parts |-> p]]
      BY <1>1, <1>7, <3>1 DEF SealsIt, BaseInv, TypeInv, Seal, At, Moved
    <3>2. CASE (Gone(w) /\ seal' = seal /\ ~IsSealed(r))
               \/ (Moved(w, "ledger") /\ seal' = seal /\ IsSealed(r))
      BY <1>7, <3>2 DEF SealsIt, Seal, At, Moved, Gone
    <3>3. QED BY <1>1, <1>7, <3>1, <3>2, SealIs DEF BaseInv
  <2>2. \A q \in Runs \ {r} : job'[q] = job[q]
    BY <1>2, <2>1 DEF Alone
  <2>3. job'[r] = job[r] \/ job'[r].at \notin Copying \union Written
    BY <1>1, <1>2, <2>1 DEF SealsIt, Gone, Moved, Alone, Copying, Written, Writers
  <2>4. CASE seal' = seal
    <3> HIDE DEF r
    <3>1. QED BY <1>1, <2>1, <2>2, <2>3, <2>4, DocumentsUntouched DEF DocumentsInv
  <2>5. CASE seal' /= seal
    <3>1. /\ ~IsSealed(r) /\ Moved(w, "ledger")
          /\ seal'[r].status = job[w].status /\ seal'[r].try = job[w].try
      <4>1. PICK p : /\ Moved(w, "ledger") /\ ~IsSealed(r)
                     /\ seal' = [seal EXCEPT ![r] =
                          [status |-> job[w].status, try |-> job[w].try, parts |-> p]]
        BY <1>1, <1>7, <2>5, SealIs DEF BaseInv
      <4>2. QED BY <1>1, <4>1 DEF BaseInv, TypeInv
    <3>2. CASE w = Finisher
      <4>1. seal'[r].status = "finished" /\ job'[r] = job[r]
            /\ job[r].at \notin Written
        BY <1>1, <2>1, <3>1, <3>2 DEF ApartInv, FinisherApart, FinishesUnsealed, Finished,
          Alone, Copying, Written
      <4>2. \A u \in Runs : u = r => DocumentsAgree(u)'
        <5> HIDE DEF r
        <5>1. QED BY <1>1, <2>1, <3>1, <4>1 DEF DocumentsInv, DocumentsAgree, IsSealed,
          Written
      <4> HIDE DEF r
      <4>3. QED BY <2>1, <2>2, <4>2, DocumentsUntouched DEF DocumentsInv
    <3>3. CASE w \in Runs
      <4>1. DocumentsAgree(w) /\ r = w
        BY <1>2, <3>3 DEF DocumentsInv
      <4>2. Exported(w)' = Exported(w) /\ (Complete(w) => Complete(w)')
        BY <2>1 DEF Complete, Exported
      <4>3. DocumentsAgree(w)'
        BY <2>1, <3>1, <4>1, <4>2 DEF DocumentsAgree, IsSealed, Copying, Moved
      <4>4. QED BY <2>1, <2>2, <4>1, <4>3, DocumentsUntouched DEF DocumentsInv
    <3>4. QED BY <3>2, <3>3 DEF Writers
  <2>6. QED BY <2>4, <2>5
<1>8. CASE AppendLedger(w) \/ JournalEnd(w)
  <2>1. UNCHANGED <<rec, folder, seal>>
    BY <1>8 DEF AppendLedger, JournalEnd
  <2>2. \A q \in Runs : job'[q] = job[q] \/ job'[q].at \notin Copying \union Written
    BY <1>1, <1>8, SealingIs DEF BaseInv, Gone, Moved, Alone, Sealing, Copying, Written, Writers
  <2>3. QED BY <2>1, <2>2, DocumentsUntouched DEF DocumentsInv
<1>9. CASE MarkerAction(w)
  <2>1. PICK done \in BOOLEAN :
             folder' = [folder EXCEPT ![r].marker =
                             IF ~done THEN @
                             ELSE IF MarkerStays(seal[r].status)
                                  THEN "stopped" ELSE "none"]
    BY <1>9 DEF MarkerAction
  <2>2. PICK marker : /\ folder' = [folder EXCEPT ![r].marker = marker]
                      /\ \/ marker = folder[r].marker
                         \/ MarkerStays(seal[r].status) /\ marker = "stopped"
                         \/ ~MarkerStays(seal[r].status) /\ marker = "none"
    BY <2>1
  <2>3. UNCHANGED <<rec, seal>> /\ seal[r].status \in Statuses
    <3>1. IsSealed(r)
      BY <1>1, <1>2, <1>9 DEF MarkerAction, At, ApartInv, RunAlone, FinisherApart, Sealing,
        Writers
    <3>2. QED BY <1>1, <1>9, <3>1 DEF MarkerAction, BaseInv, TypeInv, Seals, IsSealed
  <2>4. \A q \in Runs : job'[q] = job[q] \/ job'[q].at \notin Copying \union Written
    BY <1>1, <1>9, SealingIs DEF BaseInv, Gone, Moved, Alone, Sealing, Copying, Written, Writers
  <2>5. job[r].at \in Copying => seal[r].status \notin WholeStatuses
    BY <1>1 DEF ApartInv, RunAlone, IsSealed, WholeStatuses
  <2>6. \A u \in Runs : u = r => DocumentsAgree(u)'
    <3> HIDE DEF r
    <3>1. /\ folder'[r].marker = marker /\ folder'[r].file = folder[r].file /\ DocsSame(r)
      BY <1>1, <2>2, <2>3 DEF BaseInv, TypeInv, Folders, DocsSame
    <3>2. DocumentsAgree(r)
      BY <1>1 DEF DocumentsInv
    <3>3. \A u \in Runs : u = r => Exported(u)' = Exported(u) /\ (Complete(u) => Complete(u)')
      BY <2>3 DEF Exported, Complete
    <3>4. marker /= "none" \/ seal[r].status \in WholeStatuses \/ marker = folder[r].marker
      BY <2>2, <2>3 DEF MarkerStays, Statuses, WholeStatuses
    <3>5. QED BY <1>1, <2>2, <2>3, <2>4, <2>5, <3>1, <3>2, <3>3, <3>4
      DEF DocumentsAgree, DocsSame, Written, WholeStatuses
  <2>7. \A q \in Runs \ {r} : folder'[q] = folder[q]
    BY <2>2 DEF BaseInv, TypeInv
  <2> HIDE DEF r
  <2>8. QED BY <2>3, <2>4, <2>6, <2>7, DocumentsUntouched DEF DocumentsInv
<1>10. QED BY <1>5, <1>6, <1>7, <1>8, <1>9 DEF Write

LEMMA DocumentsKept ==
  ASSUME BaseInv, ApartInv, DocumentsInv, [Next]_vars
  PROVE  DocumentsInv'
<1> USE WriterIs, FinisherIsNoRun
<1>1. ASSUME NEW w \in Writers, Write(w) PROVE DocumentsInv'
  <2>1. CASE Panic(w)
    <3>1. UNCHANGED <<rec, folder, seal>> /\ Gone(w)
      BY <2>1, StepsAre DEF Panic, disk, BaseInv
    <3>2. \A q \in Runs : job'[q] = job[q] \/ job'[q].at \notin Copying \union Written
      BY <3>1 DEF Gone, Alone, Copying, Written
    <3>3. QED BY <3>1, <3>2, DocumentsUntouched DEF DocumentsInv
  <2>2. QED BY <1>1, <2>1, WriteDocuments
<1>2. ASSUME NEW r \in Runs, Copy(r) PROVE DocumentsInv'
  BY <1>2, StartingDocuments, LoopDocuments DEF Copy
<1>3. ASSUME NEW r \in Runs, User(r) PROVE DocumentsInv'
  <2>1. UNCHANGED <<folder, seal>> /\ \A q \in Runs : job'[q] = job[q]
    BY <1>3 DEF User, Cancel, Wedged, Finish, MarkGone, RecoverLedger, Observe, disk,
      BaseInv, TypeInv
  <2>2. rec' = rec \/ rec' = [rec EXCEPT ![r].gone = TRUE]
    BY <1>3 DEF User, Cancel, Wedged, Finish, MarkGone, RecoverLedger, Observe, disk
  <2>3. \A q \in Runs : rec'[q].plan = rec[q].plan /\ rec'[q].line = rec[q].line
    <3>1. CASE rec' = [rec EXCEPT ![r].gone = TRUE]
      BY <3>1 DEF BaseInv, TypeInv, Records
    <3>2. QED BY <2>2, <3>1
  <2>4. QED BY <2>1, <2>3, DocumentsUntouched DEF DocumentsInv
<1>4. CASE CheckAndFinish(Finisher) \/ Kill
  <2>1. UNCHANGED <<rec, folder, seal>>
    BY <1>4 DEF CheckAndFinish, Kill, disk
  <2>2. \A q \in Runs : job'[q] = job[q] \/ job'[q].at \notin Copying \union Written
    <3>1. CASE Kill
      BY <3>1 DEF Kill, Idle, Copying, Written
    <3>2. CASE CheckAndFinish(Finisher)
      <4>1. ChecksOut(job[Finisher].run) \in BOOLEAN
        BY DEF ChecksOut
      <4>2. QED BY <3>2, <4>1, StepsAre DEF CheckAndFinish, BaseInv, Gone, Moved, Alone
    <3>3. QED BY <1>4, <3>1, <3>2
  <2>3. QED BY <2>1, <2>2, DocumentsUntouched DEF DocumentsInv
<1>5. CASE \/ Launch \/ Unplug \/ Plug \/ UNCHANGED vars \/ (\E r \in Runs : Compact(r))
  <2>1. UNCHANGED <<job, folder, seal>>
    BY <1>5 DEF Launch, Unplug, Plug, vars, Compact
  <2>2. rec' = rec \/ \E gone : rec' = [r \in Runs |-> [rec[r] EXCEPT !.kept = @ /\ r \notin gone]]
    BY <1>5 DEF Launch, Unplug, Plug, vars, Compact
  <2>3. \A q \in Runs : rec'[q].plan = rec[q].plan /\ rec'[q].line = rec[q].line
    BY <2>2 DEF BaseInv, TypeInv, Records
  <2>4. QED BY <2>1, <2>3, DocumentsUntouched DEF DocumentsInv
<1>6. ASSUME NEW r \in Runs, Damage(r) PROVE DocumentsInv'
  <2>1. PICK m \in Msgs, to \in {"none", "bad"} :
         /\ folder[r].file[m] = "good"
         /\ folder' = [folder EXCEPT ![r].file[m] = to]
    BY <1>6 DEF Damage
  <2>2. UNCHANGED <<job, rec, seal>>
    BY <1>6 DEF Damage
  <2>3. ASSUME NEW q \in Runs PROVE DocumentsLeft(q)
    <3>1. /\ folder'[q].marker = folder[q].marker
          /\ \A n \in Msgs : folder[q].file[n] = "none" => folder'[q].file[n] = "none"
      BY <2>1 DEF BaseInv, TypeInv, Folders
    <3>2. /\ folder'[q].readme = folder[q].readme /\ folder'[q].manifest = folder[q].manifest
          /\ folder'[q].sums = folder[q].sums /\ folder'[q].listed = folder[q].listed
      BY <2>1 DEF BaseInv, TypeInv, Folders
    <3>3. QED BY <2>2, <3>1, <3>2 DEF DocumentsLeft, DocsSame
  <2>4. QED BY <2>3, DocumentsAside DEF DocumentsInv
<1>7. QED BY <1>1, <1>2, <1>3, <1>4, <1>5, <1>6 DEF Next

LEMMA DocumentsStart == Init => DocumentsInv
<1> SUFFICES ASSUME Init, NEW r \in Runs PROVE DocumentsAgree(r)
  BY DEF DocumentsInv
<1>1. job[r].at = "idle" /\ seal[r].status = "none" /\ \A m \in Msgs : folder[r].file[m] = "none"
  BY WriterIs DEF Init, Idle, Unsealed, NoFolder
<1>2. QED BY <1>1 DEF DocumentsAgree, Copying

(* A folder with messages and without its marker is the sealed attempt's, README, manifest
   and sums and all: where a call hangs only in the loop over the messages, the one part of a
   run whose code asks whether it was abandoned, no finisher shares a folder with its run. *)
THEOREM UnmarkedIsAlwaysWhole == LoopHangs => (Spec => []UnmarkedIsWhole)
<1>1. SUFFICES ASSUME LoopHangs PROVE Spec => []UnmarkedIsWhole
  OBVIOUS
<1>2. Spec => [](BaseInv /\ ApartInv)
  BY <1>1, ApartAlways
<1>3. (BaseInv /\ ApartInv) /\ DocumentsInv /\ [Next]_vars => DocumentsInv'
  BY DocumentsKept
<1>4. DocumentsInv => UnmarkedIsWhole
  BY DEF DocumentsInv, DocumentsAgree, UnmarkedIsWhole, Complete
<1>5. QED BY <1>2, <1>3, <1>4, DocumentsStart, PTL DEF Spec

----------------------------------------------------------------------------
(* Prefixes, and the last sealed line.                                      *)

LEMMA PrefixIs ==
  ASSUME NEW s \in Seq(Runs), NEW t \in Seq(Runs)
  PROVE  IsPrefix(s, t) <=> Len(s) <= Len(t) /\ \A i \in 1..Len(s) : s[i] = t[i]
<1>1. Len(s) \in Nat /\ Len(t) \in Nat
  OBVIOUS
<1>2. CASE Len(s) <= Len(t)
  <2>1. SubSeq(s, 1, Len(s)) = [i \in 1..Len(s) |-> s[i]]
    BY <1>1
  <2>2. SubSeq(t, 1, Len(s)) = [i \in 1..Len(s) |-> t[i]]
    BY <1>1, <1>2
  <2>3. QED BY <1>2, <2>1, <2>2 DEF IsPrefix
<1>3. QED BY <1>1, <1>2 DEF IsPrefix

LEMMA PrefixFacts ==
  ASSUME NEW s \in Seq(Runs), NEW t \in Seq(Runs), NEW r \in Runs
  PROVE  /\ IsPrefix(<<>>, s) /\ IsPrefix(s, s)
         /\ Append(s, r) \in Seq(Runs)
         /\ IsPrefix(t, s) => IsStrictPrefix(t, Append(s, r))
<1>1. /\ <<>> \in Seq(Runs) /\ Len(s) \in Nat /\ Len(t) \in Nat
      /\ Append(s, r) \in Seq(Runs) /\ Len(Append(s, r)) = Len(s) + 1
      /\ \A i \in 1..Len(s) : Append(s, r)[i] = s[i]
  OBVIOUS
<1>0. \A u, v \in Seq(Runs) :
        IsPrefix(u, v) <=> Len(u) <= Len(v) /\ \A i \in 1..Len(u) : u[i] = v[i]
  BY PrefixIs
<1>2. IsPrefix(<<>>, s) /\ IsPrefix(s, s)
  <2>1. Len(<<>>) = 0 /\ 1..0 = {}
    OBVIOUS
  <2>2. IsPrefix(s, s)
    BY <1>0, <1>1
  <2>3. ASSUME NEW e \in Seq(Runs), Len(e) = 0 PROVE IsPrefix(e, s)
    <3>1. IsPrefix(e, s) <=> Len(e) <= Len(s) /\ \A i \in 1..Len(e) : e[i] = s[i]
      BY <1>0
    <3>2. 1..Len(e) = {}
      BY <2>3
    <3>3. QED BY <1>1, <2>3, <3>1, <3>2
  <2>4. QED BY <1>1, <2>1, <2>2, <2>3
<1>3. ASSUME IsPrefix(t, s) PROVE IsStrictPrefix(t, Append(s, r))
  <2>1. Len(t) <= Len(s) /\ \A i \in 1..Len(t) : t[i] = s[i]
    BY <1>3, PrefixIs
  <2>2. IsPrefix(t, Append(s, r))
    <3>1. Len(t) <= Len(s) + 1
      BY <1>1, <2>1
    <3>2. ASSUME NEW i \in 1..Len(t) PROVE t[i] = Append(s, r)[i]
      <4>1. i \in 1..Len(s)
        BY <1>1, <2>1
      <4>2. QED BY <1>1, <2>1, <4>1
    <3>3. QED BY <1>0, <1>1, <3>1, <3>2
  <2>3. t /= Append(s, r)
    BY <1>1, <2>1
  <2>4. QED BY <2>2, <2>3 DEF IsStrictPrefix
<1>4. QED BY <1>1, <1>2, <1>3

SealedAt(lines) == {i \in DOMAIN lines : lines[i].kind = "sealed"}

LEMMA LastIs ==
  ASSUME NEW lines \in Seq(LedgerLines)
  PROVE  /\ SealedAt(lines) = {} => LastParts(lines) = <<>>
         /\ SealedAt(lines) # {} =>
              \E k \in SealedAt(lines) : /\ \A j \in SealedAt(lines) : j <= k
                                         /\ LastParts(lines) = lines[k].parts
<1>1. SealedAt(lines) = {} => LastParts(lines) = <<>>
  BY Zenon DEF LastParts, SealedAt
<1>2. ASSUME SealedAt(lines) # {}
      PROVE  \E k \in SealedAt(lines) : /\ \A j \in SealedAt(lines) : j <= k
                                        /\ LastParts(lines) = lines[k].parts
  <2> DEFINE last == CHOOSE i \in SealedAt(lines) : \A j \in SealedAt(lines) : j <= i
  <2>1. SealedAt(lines) \in SUBSET (0..Len(lines)) /\ Len(lines) \in Nat
    BY DEF SealedAt
  <2>2. \E i \in SealedAt(lines) : \A j \in SealedAt(lines) : j <= i
    BY <1>2, <2>1, GreatestNumber
  <2>3. last \in SealedAt(lines) /\ \A j \in SealedAt(lines) : j <= last
    BY <2>2, Zenon
  <2>4. LastParts(lines) = lines[last].parts
    BY <1>2, Zenon DEF LastParts, SealedAt
  <2>5. QED BY <2>3, <2>4
<1>3. QED BY <1>1, <1>2

LEMMA AppendedLast ==
  ASSUME NEW lines \in Seq(LedgerLines), NEW e \in LedgerLines
  PROVE  /\ e.kind = "sealed" => LastParts(Append(lines, e)) = e.parts
         /\ e.kind /= "sealed" => LastParts(Append(lines, e)) = LastParts(lines)
<1> DEFINE more == Append(lines, e)
           n == Len(lines)
<1>1. /\ n \in Nat /\ more \in Seq(LedgerLines) /\ DOMAIN lines = 1..n /\ DOMAIN more = 1..(n + 1)
      /\ more[n + 1] = e /\ \A i \in 1..n : more[i] = lines[i]
  OBVIOUS
<1> HIDE DEF more, n
<1>2. CASE e.kind = "sealed"
  <2>1. n + 1 \in SealedAt(more)
    BY <1>1, <1>2 DEF SealedAt
  <2>2. PICK k \in SealedAt(more) : /\ \A j \in SealedAt(more) : j <= k
                                    /\ LastParts(more) = more[k].parts
    BY <1>1, <2>1, LastIs
  <2>3. k = n + 1
    BY <1>1, <2>1, <2>2 DEF SealedAt
  <2>4. QED BY <1>1, <1>2, <2>2, <2>3 DEF more
<1>3. CASE e.kind /= "sealed"
  <2>1. SealedAt(more) = SealedAt(lines)
    <3>1. \A i \in 1..(n + 1) : i \in 1..n \/ i = n + 1
      BY <1>1
    <3>2. \A i \in 1..n : i \in 1..(n + 1)
      BY <1>1
    <3>3. QED BY <1>1, <1>3, <3>1, <3>2 DEF SealedAt
  <2>2. CASE SealedAt(lines) = {}
    BY <1>1, <1>3, <2>1, <2>2, LastIs DEF more
  <2>3. CASE SealedAt(lines) # {}
    <3>1. PICK k \in SealedAt(more) : /\ \A j \in SealedAt(more) : j <= k
                                      /\ LastParts(more) = more[k].parts
      BY <1>1, <2>1, <2>3, LastIs
    <3>2. PICK h \in SealedAt(lines) : /\ \A j \in SealedAt(lines) : j <= h
                                       /\ LastParts(lines) = lines[h].parts
      BY <2>3, LastIs
    <3>3. k = h /\ k \in 1..n
      BY <1>1, <2>1, <3>1, <3>2 DEF SealedAt
    <3>4. QED BY <1>1, <1>3, <3>1, <3>2, <3>3 DEF more
  <2>4. QED BY <2>2, <2>3
<1>4. QED BY <1>2, <1>3

LEMMA AppendedHas ==
  ASSUME NEW lines \in Seq(LedgerLines), NEW e \in LedgerLines
  PROVE  \A q : LedgerHas(Append(lines, e), q) <=> LedgerHas(lines, q) \/ q = e.run
<1> DEFINE more == Append(lines, e)
           n == Len(lines)
<1>1. /\ n \in Nat /\ DOMAIN lines = 1..n /\ DOMAIN more = 1..(n + 1)
      /\ more[n + 1] = e /\ \A i \in 1..n : more[i] = lines[i]
  OBVIOUS
<1>2. /\ \A i \in 1..(n + 1) : i \in 1..n \/ i = n + 1
      /\ \A i \in 1..n : i \in 1..(n + 1)
      /\ n + 1 \in 1..(n + 1)
  BY <1>1
<1> HIDE DEF more, n
<1>3. \A q : LedgerHas(more, q) <=> LedgerHas(lines, q) \/ q = e.run
  BY <1>1, <1>2 DEF LedgerHas
<1>4. QED BY <1>3 DEF more

(* Every sealed line is a beginning of the last one. *)
LEMMA LastIsLongest ==
  ASSUME NEW lines \in Seq(LedgerLines), LinesGoOn(lines), NEW i \in SealedAt(lines)
  PROVE  IsPrefix(lines[i].parts, LastParts(lines)) /\ LastParts(lines) \in Seq(Runs)
<1>1. PICK k \in SealedAt(lines) : /\ \A j \in SealedAt(lines) : j <= k
                                   /\ LastParts(lines) = lines[k].parts
  BY LastIs
<1>2. i \in 1..Len(lines) /\ k \in 1..Len(lines) /\ i <= k /\ Len(lines) \in Nat
  BY <1>1 DEF SealedAt
<1>3. lines[k].parts \in Seq(Runs) /\ lines[i].parts \in Seq(Runs)
  <2>1. lines[k] \in LedgerLines /\ lines[i] \in LedgerLines
    BY <1>2
  <2>2. QED BY <2>1 DEF LedgerLines
<1>4. CASE i = k
  BY <1>1, <1>3, <1>4, PrefixFacts, BoundsAssumption DEF Runs
<1>5. CASE i /= k
  BY <1>1, <1>2, <1>3, <1>5 DEF LinesGoOn, SealedAt, IsStrictPrefix
<1>6. QED BY <1>4, <1>5

LEMMA GoodWithSealed ==
  ASSUME SealParts, NEW lines, Good(lines), NEW r \in Pending(lines)
  PROVE  Good(Append(lines, SealedLine(r)))
<1> DEFINE e == SealedLine(r)
           more == Append(lines, e)
           n == Len(lines)
<1>0. r \in Runs /\ lines \in Seq(LedgerLines) /\ seal[r].parts \in Seq(Runs) /\ IsSealed(r)
      /\ ~LedgerHas(lines, r)
  BY DEF Pending, Good, SealParts
<1>1. e \in LedgerLines /\ e.run = r /\ e.kind = "sealed" /\ e.parts = seal[r].parts
  BY <1>0 DEF SealedLine, LedgerLines
<1> HIDE DEF e
<1>2. /\ n \in Nat /\ DOMAIN lines = 1..n /\ DOMAIN more = 1..(n + 1)
      /\ more[n + 1] = e /\ \A i \in 1..n : more[i] = lines[i]
      /\ more \in Seq(LedgerLines)
  BY <1>0, <1>1
<1>3. \A i \in 1..(n + 1) : i \in 1..n \/ i = n + 1
  BY <1>2
<1> HIDE DEF more, n
<1>4. \A i \in 1..n : lines[i].run /= r
  BY <1>0, <1>2 DEF LedgerHas
<1>5. OneLineEach(more)
  BY <1>1, <1>2, <1>3, <1>4 DEF Good, OneLineEach
<1>6. LinesMatch(more)
  BY <1>0, <1>1, <1>2, <1>3 DEF Good, LinesMatch
<1>7. LinesGoOn(more)
  <2> SUFFICES ASSUME NEW i \in 1..(n + 1), NEW j \in 1..(n + 1), i < j,
                      more[i].kind = "sealed", more[j].kind = "sealed"
               PROVE  IsStrictPrefix(more[i].parts, more[j].parts)
    BY <1>2 DEF LinesGoOn
  <2>1. i \in 1..n
    BY <1>2
  <2>2. CASE j \in 1..n
    BY <1>2, <2>1, <2>2 DEF Good, LinesGoOn
  <2>3. CASE j = n + 1
    <3>1. lines[i].kind = "sealed" /\ i \in SealedAt(lines)
      BY <1>2, <2>1 DEF SealedAt
    <3>2. lines[i].parts \in Seq(Runs)
      <4>1. lines[i] \in LedgerLines
        BY <1>0, <1>2, <2>1
      <4>2. QED BY <4>1 DEF LedgerLines
    <3>3. IsPrefix(lines[i].parts, LastParts(lines)) /\ LastParts(lines) \in Seq(Runs)
      BY <1>0, <3>1, LastIsLongest DEF Good
    <3>4. seal[r].parts = Append(LastParts(lines), r)
      BY DEF Good, PendingIsNext
    <3>5. QED BY <1>0, <1>1, <1>2, <2>1, <2>3, <3>2, <3>3, <3>4, PrefixFacts
  <2>4. QED BY <1>3, <2>2, <2>3
<1>8. Pending(more) = {}
  <2>1. Pending(lines) = {r}
    BY DEF Good, PendingIsNext
  <2>2. \A q : LedgerHas(more, q) <=> LedgerHas(lines, q) \/ q = r
    BY <1>0, <1>1, AppendedHas DEF more
  <2>3. QED BY <2>1, <2>2 DEF Pending
<1>9. Good(more)
  BY <1>2, <1>5, <1>6, <1>7, <1>8 DEF Good, PendingIsNext
<1>10. QED BY <1>9 DEF more, e

LEMMA GoodWithOther ==
  ASSUME NEW lines, Good(lines), NEW r \in Runs, ~IsSealed(r), ~LedgerHas(lines, r),
         NEW e \in LedgerLines, e.run = r, e.kind /= "sealed"
  PROVE  Good(Append(lines, e))
<1> DEFINE more == Append(lines, e)
           n == Len(lines)
<1>0. lines \in Seq(LedgerLines)
  BY DEF Good
<1>2. /\ n \in Nat /\ DOMAIN lines = 1..n /\ DOMAIN more = 1..(n + 1)
      /\ more[n + 1] = e /\ \A i \in 1..n : more[i] = lines[i]
      /\ more \in Seq(LedgerLines)
  BY <1>0
<1>3. \A i \in 1..(n + 1) : i \in 1..n \/ i = n + 1
  BY <1>2
<1>8. Pending(more) = Pending(lines) /\ LastParts(more) = LastParts(lines)
  BY <1>0, AppendedHas, AppendedLast DEF Pending
<1> HIDE DEF more, n
<1>4. \A i \in 1..n : lines[i].run /= r
  BY <1>2 DEF LedgerHas
<1>5. OneLineEach(more)
  BY <1>2, <1>3, <1>4 DEF Good, OneLineEach
<1>6. LinesMatch(more)
  BY <1>2, <1>3 DEF Good, LinesMatch
<1>7. LinesGoOn(more)
  <2> SUFFICES ASSUME NEW i \in 1..(n + 1), NEW j \in 1..(n + 1), i < j,
                      more[i].kind = "sealed", more[j].kind = "sealed"
               PROVE  IsStrictPrefix(more[i].parts, more[j].parts)
    BY <1>2 DEF LinesGoOn
  <2>1. i \in 1..n /\ j \in 1..n
    BY <1>2, <1>3
  <2>2. QED BY <1>2, <2>1 DEF Good, LinesGoOn
<1>9. Good(more)
  BY <1>2, <1>5, <1>6, <1>7, <1>8 DEF Good, PendingIsNext
<1>10. QED BY <1>9 DEF more

LEMMA GoodWithLine ==
  ASSUME SealParts, NEW lines, Good(lines), NEW r \in Runs
  PROVE  Good(WithLine(lines, r))
<1>1. CASE LedgerHas(lines, r)
  BY <1>1 DEF WithLine
<1>2. CASE ~LedgerHas(lines, r) /\ IsSealed(r)
  BY <1>2, GoodWithSealed DEF WithLine, Pending
<1>3. CASE ~LedgerHas(lines, r) /\ ~IsSealed(r)
  <2>1. GoneLine(r) \in LedgerLines /\ GoneLine(r).run = r /\ GoneLine(r).kind /= "sealed"
    BY DEF GoneLine, LedgerLines
  <2>2. QED BY <1>3, <2>1, GoodWithOther DEF WithLine
<1>4. QED BY <1>1, <1>2, <1>3

LEMMA GoodWithLines ==
  ASSUME SealParts, NEW lines, Good(lines), NEW rs
  PROVE  Good(WithLines(lines, rs))
<1> DEFINE S == {l \in Seq(LedgerLines) : Good(l)}
<1>1. lines \in S
  BY DEF Good
<1>2. \A l \in S : \A r \in rs \intersect Runs : WithLine(l, r) \in S
  <2>1. \A l \in S : \A r \in Runs : Good(WithLine(l, r))
    BY GoodWithLine
  <2>2. QED BY <2>1 DEF Good
<1> HIDE DEF S
<1>3. WithLines(lines, rs) \in S
  BY <1>1, <1>2, WithLinesKeeps
<1>4. QED BY <1>3 DEF S

(* Nothing is listed but what was asked for. *)
LEMMA WithLinesOnly ==
  ASSUME SealParts, NEW lines \in Seq(LedgerLines), NEW rs, NEW q \in Runs, q \notin rs,
         ~LedgerHas(lines, q)
  PROVE  ~LedgerHas(WithLines(lines, rs), q)
<1> DEFINE S == {l \in Seq(LedgerLines) : ~LedgerHas(l, q)}
<1>1. lines \in S
  OBVIOUS
<1>2. ASSUME NEW l \in S, NEW r \in rs \intersect Runs PROVE WithLine(l, r) \in S
  <2>1. SealedLine(r) \in LedgerLines /\ GoneLine(r) \in LedgerLines
        /\ SealedLine(r).run = r /\ GoneLine(r).run = r
    BY DEF SealedLine, GoneLine, LedgerLines, SealParts
  <2>2. \A e \in LedgerLines : e.run = r => Append(l, e) \in S
    BY AppendedHas
  <2>3. QED BY <2>1, <2>2 DEF WithLine
<1> HIDE DEF S
<1>3. WithLines(lines, rs) \in S
  BY <1>1, <1>2, WithLinesKeeps
<1>4. QED BY <1>3 DEF S

----------------------------------------------------------------------------
(* The ledger has a line of every sealed run but the last.                  *)

OwnSteps == {"record", "remove", "idle"}

(* A step that leaves run q in hand only if it was, and starts and removes nothing of it. *)
HandLeft(q) ==
  /\ InHand(q)' => InHand(q)
  /\ job'[q].at \in OwnSteps => job'[q].at = job[q].at
  /\ job[q].at = "remove" => job'[q].at = "remove"

(* A step that may list a sealed or a gone run, and removes only the record of a listed one. *)
LineLeft(q) ==
  /\ rec'[q].gone = rec[q].gone /\ seal'[q] = seal[q]
  /\ \/ rec'[q].kept = rec[q].kept
     \/ /\ rec[q].kept /\ ~rec'[q].kept
        /\ LedgerHas(ledger', q) /\ (rec[q].gone \/ IsSealed(q))
  /\ LedgerHas(ledger, q) => LedgerHas(ledger', q)
  /\ ~LedgerHas(ledger, q) /\ LedgerHas(ledger', q) => IsSealed(q) \/ rec[q].gone

LEMMA UnsealedHand ==
  ASSUME ApartInv, NEW q \in Runs
  PROVE  /\ InHand(q) => ~IsSealed(q)
         /\ job[q].at \in OwnSteps => ~IsSealed(q)
<1>1. RunAlone(q) /\ FinisherApart
  BY DEF ApartInv
<1>2. ASSUME job[q].at \in HandSteps, asked[q] /= "abandoned" PROVE ~IsSealed(q)
  BY <1>1, <1>2 DEF RunAlone, HandSteps, Starting, Copying, Finalizing
<1>3. ASSUME FinishesUnsealed, job[Finisher].run = q PROVE ~IsSealed(q)
  BY <1>1, <1>3 DEF FinisherApart
<1>4. ASSUME job[q].at \in OwnSteps PROVE ~IsSealed(q)
  BY <1>1, <1>4 DEF RunAlone, Fresh, OwnSteps, Starting, Copying
<1>5. QED BY <1>2, <1>3, <1>4 DEF InHand

LEMMA AwaitedAside ==
  ASSUME ApartInv, NEW q \in Runs, LinesAwaited(q), HandLeft(q), LineLeft(q)
  PROVE  LinesAwaited(q)'
<1>1. /\ InHand(q) => ~IsSealed(q)
      /\ job[q].at \in OwnSteps => ~IsSealed(q)
      /\ IsSealed(q)' <=> IsSealed(q)
  BY UnsealedHand DEF LineLeft, IsSealed
<1>2. LedgerHas(ledger, q)' <=> LedgerHas(ledger', q)
  BY DEF LedgerHas
<1>3. (InHand(q) => rec[q].kept /\ ~rec[q].gone /\ ~LedgerHas(ledger, q))'
  BY <1>1, <1>2 DEF LinesAwaited, HandLeft, LineLeft
<1>4. (job[q].at \in OwnSteps => ~rec[q].gone)'
  BY <1>1, <1>2 DEF LinesAwaited, HandLeft, LineLeft, OwnSteps
<1>5. (job[q].at = "record" => ~rec[q].kept /\ ~LedgerHas(ledger, q))'
  BY <1>1, <1>2 DEF LinesAwaited, HandLeft, LineLeft, OwnSteps
<1>6. (job[q].at = "remove" => rec[q].kept)'
  BY <1>1, <1>2 DEF LinesAwaited, HandLeft, LineLeft, OwnSteps
<1>7. (job[q].at = "idle" => ~LedgerHas(ledger, q))'
  BY <1>1, <1>2 DEF LinesAwaited, HandLeft, LineLeft, OwnSteps
<1>8. (rec[q].kept /\ ~IsSealed(q) /\ LedgerHas(ledger, q) => rec[q].gone \/ job[q].at = "remove")'
  BY <1>1, <1>2 DEF LinesAwaited, HandLeft, LineLeft
<1>9. (IsSealed(q) => rec[q].kept \/ LedgerHas(ledger, q))'
  BY <1>1, <1>2 DEF LinesAwaited, LineLeft
<1>10. QED BY <1>3, <1>4, <1>5, <1>6, <1>7, <1>8, <1>9 DEF LinesAwaited, OwnSteps

(* The ledger only grew, by lines that it may have. *)
LEMMA GoodStays ==
  ASSUME seal' = seal, Good(ledger')
  PROVE  Good(ledger)'
<1>1. \A r \in Runs : IsSealed(r)' <=> IsSealed(r)
  BY DEF IsSealed
<1>2. LinesMatch(ledger)'
  BY DEF Good, LinesMatch, IsSealed
<1>3. Pending(ledger)' = Pending(ledger')
  BY DEF Pending, IsSealed, LedgerHas
<1>4. LastParts(ledger)' = LastParts(ledger')
  BY DEF LastParts
<1>5. PendingIsNext(ledger)'
  BY <1>3, <1>4 DEF Good, PendingIsNext
<1>6. QED BY <1>2, <1>5 DEF Good, OneLineEach, LinesGoOn

LEMMA BlankStays ==
  ASSUME Blank, seal' = seal
  PROVE  Blank'
  BY DEF Blank, IsSealed

(* A step of writer w alone, what it makes of whom it has in hand. *)
LEMMA HandsAside ==
  ASSUME NEW w \in Writers, Alone(w), asked' = asked,
         w = Finisher => (FinishesUnsealed' =>
                            FinishesUnsealed /\ job'[Finisher].run = job[Finisher].run),
         w \in Runs => /\ job'[w].at \in HandSteps => job[w].at \in HandSteps
                       /\ job'[w].at \in OwnSteps => job'[w].at = job[w].at
                       /\ job[w].at = "remove" => job'[w].at = "remove",
         NEW q \in Runs
  PROVE  HandLeft(q)
<1> USE WriterIs, FinisherIsNoRun
<1>1. CASE w = Finisher
  BY <1>1 DEF Alone, HandLeft, InHand, OwnSteps
<1>2. CASE w \in Runs
  <2>1. job'[Finisher] = job[Finisher]
    BY <1>2 DEF Alone
  <2>2. FinishesUnsealed' = FinishesUnsealed
    BY <2>1 DEF FinishesUnsealed, Finished
  <2>3. QED BY <1>2, <2>1, <2>2 DEF Alone, HandLeft, InHand, OwnSteps
<1>3. QED BY <1>1, <1>2 DEF Writers

LEMMA LineUnchanged ==
  ASSUME NEW q \in Runs, rec'[q].gone = rec[q].gone, rec'[q].kept = rec[q].kept,
         seal'[q] = seal[q], ledger' = ledger
  PROVE  LineLeft(q)
  BY DEF LineLeft

LEMMA LedgerUnchanged ==
  ASSUME ApartInv, LedgerInv, seal' = seal, ledger' = ledger,
         \A q \in Runs : /\ HandLeft(q)
                         /\ rec'[q].gone = rec[q].gone /\ rec'[q].kept = rec[q].kept
  PROVE  LedgerInv'
<1>1. \A q \in Runs : LinesAwaited(q)'
  BY LineUnchanged, AwaitedAside DEF LedgerInv
<1>2. Good(ledger')
  BY DEF LedgerInv
<1>3. QED BY <1>1, <1>2, GoodStays, BlankStays DEF LedgerInv

LEMMA StartingLedger ==
  ASSUME WholeRefusals, BaseInv, ApartInv, LedgerInv, NEW r \in Runs,
         \/ Start(r) \/ CreateRecord(r) \/ JournalStart(r) \/ WriteMarker(r)
         \/ RefusedStart(r) \/ RemoveRefused(r)
  PROVE  LedgerInv'
<1> USE WriterIs, FinisherIsNoRun
<1>0. RunAlone(r) /\ FinisherApart /\ LinesAwaited(r)
  BY DEF ApartInv, LedgerInv
<1>1. /\ \A v \in Writers \ {r} : job'[v] = job[v]
      /\ asked' = asked /\ seal' = seal
      /\ \A q \in Runs : rec'[q].gone = rec[q].gone
      /\ \A q \in Runs \ {r} : rec'[q].kept = rec[q].kept
  <2>1. CASE Start(r)
    <3>1. PICK plan : rec' = [rec EXCEPT ![r].plan = plan]
      BY <2>1 DEF Start
    <3>2. QED BY <2>1, <3>1 DEF Start, BaseInv, TypeInv, Records
  <2>2. CASE ~Start(r)
    <3>1. Gone(r) \/ \E step : Moved(r, step)
      BY <2>2, StepsAre DEF CreateRecord, JournalStart, WriteMarker, RefusedStart,
        RemoveRefused, BaseInv
    <3>2. rec' = rec \/ \E kept : rec' = [rec EXCEPT ![r].kept = kept]
      BY <2>2 DEF CreateRecord, JournalStart, WriteMarker, RefusedStart, RemoveRefused
    <3>3. asked' = asked /\ seal' = seal
      BY <2>2 DEF CreateRecord, JournalStart, WriteMarker, RefusedStart, RemoveRefused
    <3>4. CASE \E kept : rec' = [rec EXCEPT ![r].kept = kept]
      BY <3>1, <3>3, <3>4 DEF BaseInv, TypeInv, Records, Gone, Moved, Alone
    <3>5. QED BY <3>1, <3>2, <3>3, <3>4 DEF Gone, Moved, Alone
  <2>3. QED BY <2>1, <2>2
<1>2. FinishesUnsealed' = FinishesUnsealed /\ job'[Finisher] = job[Finisher]
  BY <1>1 DEF FinishesUnsealed, Finished
<1>3. \A q \in Runs \ {r} : HandLeft(q)
  BY <1>1, <1>2 DEF HandLeft, InHand, OwnSteps
<1>4. ~(FinishesUnsealed /\ job[Finisher].run = r)
  <2>1. job[r].at \in {"idle"} \union Starting
    BY <1>0 DEF Start, CreateRecord, JournalStart, WriteMarker, RefusedStart, RemoveRefused,
      At, RunAlone, Fresh, Starting
  <2>2. QED BY <1>0, <2>1 DEF FinisherApart, Starting, Copying
<1>5. ~IsSealed(r) /\ ~IsSealed(r)'
  <2>1. job[r].at \in {"idle"} \union Starting
    BY <1>0 DEF Start, CreateRecord, JournalStart, WriteMarker, RefusedStart, RemoveRefused,
      At, RunAlone, Fresh, Starting
  <2>2. QED BY <1>0, <1>1, <2>1 DEF RunAlone, Fresh, IsSealed, Starting, Copying
<1>6. InHand(r)' => job'[r].at \in HandSteps
  BY <1>2, <1>4 DEF InHand
<1>7. asked[r] /= "abandoned"
  <2>1. job[r].at \in {"idle"} \union Starting
    BY <1>0 DEF Start, CreateRecord, JournalStart, WriteMarker, RefusedStart, RemoveRefused,
      At, RunAlone, Fresh, Starting
  <2>2. QED BY <1>0, <2>1 DEF RunAlone, Starting, Copying
<1>8. CASE ~RefusedStart(r)
  <2>1. ledger' = ledger
    BY <1>8 DEF Start, CreateRecord, JournalStart, WriteMarker, RemoveRefused
  <2>2. \A q \in Runs \ {r} : LinesAwaited(q)'
    BY <1>1, <1>3, <2>1, LineUnchanged, AwaitedAside DEF LedgerInv
  <2>3. LinesAwaited(r)'
    <3>1. CASE Start(r)
      <4>1. job'[r].at = "record"
        BY <3>1 DEF Start, BaseInv, TypeInv, Idle
      <4>2. job[r].at = "idle" /\ ~rec[r].kept
        BY <1>0, <3>1 DEF Start, RunAlone, Fresh
      <4>3. rec'[r].kept = rec[r].kept
        <5>1. PICK plan : rec' = [rec EXCEPT ![r].plan = plan]
          BY <3>1 DEF Start
        <5>2. QED BY <5>1 DEF BaseInv, TypeInv, Records
      <4>4. QED BY <1>0, <1>1, <1>5, <1>6, <2>1, <4>1, <4>2, <4>3
        DEF LinesAwaited, LedgerHas, HandSteps, Copying, Finalizing
    <3>2. CASE CreateRecord(r)
      <4>1. PICK ok \in BOOLEAN : /\ rec' = [rec EXCEPT ![r].kept = ok]
                                  /\ Proceed(r, ok, "journal")
        BY <3>2 DEF CreateRecord
      <4>2. rec'[r].kept = ok /\ job[r].at = "record"
        BY <3>2, <4>1 DEF CreateRecord, At, BaseInv, TypeInv, Records
      <4>3. (ok /\ Moved(r, "journal")) \/ (~ok /\ Gone(r))
        BY <4>1, StepsAre DEF BaseInv
      <4>4. QED BY <1>0, <1>1, <1>5, <1>6, <2>1, <4>2, <4>3
        DEF LinesAwaited, LedgerHas, HandSteps, Copying, Finalizing, Moved, Gone
    <3>3. CASE JournalStart(r) \/ WriteMarker(r)
      <4>1. \E step \in {"marker", "refused", "msg"} : Moved(r, step)
        BY <3>3, StepsAre DEF JournalStart, WriteMarker, BaseInv
      <4>2. job[r].at \in {"journal", "marker"} /\ rec' = rec
        BY <3>3 DEF JournalStart, WriteMarker, At
      <4>3. InHand(r)
        BY <1>7, <4>2 DEF InHand, HandSteps
      <4>4. QED BY <1>0, <1>1, <1>5, <2>1, <4>1, <4>2, <4>3
        DEF LinesAwaited, LedgerHas, Moved
    <3>4. CASE RemoveRefused(r)
      <4>1. rec' = [rec EXCEPT ![r].kept = FALSE]
        BY <3>4 DEF RemoveRefused, WholeRefusals
      <4>2. ~rec'[r].kept /\ job'[r].at = "over"
        BY <3>4, <4>1, StepsAre DEF RemoveRefused, BaseInv, TypeInv, Records, Gone
      <4>3. QED BY <1>5, <1>6, <4>2 DEF LinesAwaited, HandSteps, Copying, Finalizing
    <3>5. QED BY <1>8, <3>1, <3>2, <3>3, <3>4
  <2>4. Good(ledger')
    BY <2>1 DEF LedgerInv
  <2>5. QED BY <1>1, <2>2, <2>3, <2>4, GoodStays, BlankStays DEF LedgerInv
<1>9. CASE RefusedStart(r)
  <2> DEFINE e == [run |-> r, kind |-> "refused", parts |-> <<>>]
  <2>1. PICK ok \in BOOLEAN : /\ ledger' = IF ok THEN Append(ledger, e) ELSE ledger
                              /\ Proceed(r, ok, "remove")
    BY <1>9 DEF RefusedStart
  <2>2. e \in LedgerLines /\ e.run = r /\ e.kind /= "sealed"
    BY DEF LedgerLines
  <2> HIDE DEF e
  <2>3. job[r].at = "refused" /\ rec' = rec /\ InHand(r)
    BY <1>7, <1>9 DEF RefusedStart, At, InHand, HandSteps
  <2>4. rec[r].kept /\ ~rec[r].gone /\ ~LedgerHas(ledger, r)
    BY <1>0, <2>3 DEF LinesAwaited
  <2>5. Good(ledger')
    BY <1>5, <2>1, <2>2, <2>4, GoodWithOther DEF LedgerInv
  <2>6. \A q \in Runs : LedgerHas(ledger', q) <=> LedgerHas(ledger, q) \/ (ok /\ q = r)
    BY <2>1, <2>2, AppendedHas DEF BaseInv, TypeInv
  <2>7. \A q \in Runs \ {r} : LineLeft(q)
    BY <1>1, <2>6 DEF LineLeft
  <2>8. \A q \in Runs \ {r} : LinesAwaited(q)'
    BY <1>3, <2>7, AwaitedAside DEF LedgerInv
  <2>9. LinesAwaited(r)'
    <3>1. (ok /\ Moved(r, "remove")) \/ (~ok /\ Gone(r))
      BY <2>1, StepsAre DEF BaseInv
    <3>2. LedgerHas(ledger, r)' <=> ok
      BY <2>4, <2>6 DEF LedgerHas
    <3>3. QED BY <1>5, <1>6, <2>3, <2>4, <3>1, <3>2
      DEF LinesAwaited, Moved, Gone, HandSteps, Copying, Finalizing
  <2>10. QED BY <1>1, <2>5, <2>8, <2>9, GoodStays, BlankStays DEF LedgerInv
<1>10. QED BY <1>8, <1>9

LEMMA LoopLedger ==
  ASSUME BaseInv, ApartInv, LedgerInv, NEW r \in Runs,
         NextMessage(r) \/ Fetch(r) \/ Place(r) \/ RecordLine(r)
  PROVE  LedgerInv'
<1> USE WriterIs, FinisherIsNoRun
<1>1. /\ job[r].at \in Copying /\ job'[r].at \in Copying \union {"presence", "over"} /\ Alone(r)
  BY LoopSteps DEF BaseInv, Concluded, Gone, Copying
<1>2. UNCHANGED <<asked, seal, ledger>>
  BY DEF NextMessage, Fetch, Place, RecordLine, disk
<1>3. rec' = rec \/ \E line : rec' = [rec EXCEPT ![r].line = line]
  BY LoopLines DEF BaseInv
<1>4. \A q \in Runs : rec'[q].gone = rec[q].gone /\ rec'[q].kept = rec[q].kept
  <2>1. CASE \E line : rec' = [rec EXCEPT ![r].line = line]
    BY <2>1 DEF BaseInv, TypeInv, Records
  <2>2. QED BY <1>3, <2>1
<1>5. \A q \in Runs : HandLeft(q)
  <2>1. /\ job[r].at \in HandSteps /\ job'[r].at \notin OwnSteps /\ job[r].at /= "remove"
    BY <1>1 DEF HandSteps, OwnSteps, Copying
  <2>2. QED BY <1>1, <1>2, <2>1, HandsAside
<1>6. QED BY <1>2, <1>4, <1>5, LedgerUnchanged

(* What listing sealed runs does to the lines that are awaited. *)
LEMMA ListsSealed ==
  ASSUME TypeInv, NEW q \in Runs, NEW rs, \A r \in rs : IsSealed(r) \/ rec[r].gone,
         ledger' = WithLines(ledger, rs)
  PROVE  /\ LedgerHas(ledger, q) => LedgerHas(ledger', q)
         /\ ~LedgerHas(ledger, q) /\ LedgerHas(ledger', q) => IsSealed(q) \/ rec[q].gone
<1>1. SealParts /\ ledger \in Seq(LedgerLines)
  BY DEF TypeInv, Seals, SealParts
<1>2. LedgerHas(ledger, q) => LedgerHas(ledger', q)
  BY <1>1, WithLinesLists
<1>3. ~LedgerHas(ledger, q) /\ q \notin rs => ~LedgerHas(ledger', q)
  BY <1>1, WithLinesOnly
<1>4. QED BY <1>2, <1>3

LEMMA ListsOne ==
  ASSUME TypeInv, NEW r \in Runs, NEW q \in Runs, ledger' = WithLine(ledger, r)
  PROVE  LedgerHas(ledger', q) <=> LedgerHas(ledger, q) \/ q = r
<1>1. SealedLine(r) \in LedgerLines /\ GoneLine(r) \in LedgerLines
      /\ SealedLine(r).run = r /\ GoneLine(r).run = r
  BY DEF SealedLine, GoneLine, LedgerLines, TypeInv, Seals
<1>2. CASE LedgerHas(ledger, r)
  BY <1>2 DEF WithLine
<1>3. CASE ~LedgerHas(ledger, r)
  BY <1>1, <1>3, AppendedHas DEF WithLine, TypeInv
<1>4. QED BY <1>2, <1>3

LEMMA WriteLedger ==
  ASSUME BaseInv, ApartInv, LedgerInv, NEW w \in Writers, Write(w), ~Panic(w)
  PROVE  LedgerInv'
<1> USE WriterIs, FinisherIsNoRun
<1> DEFINE r == job[w].run
<1>1. r \in Runs
  <2>1. job[w].at \notin {"idle", "over"}
    BY DEF Write, Presence, WriteDocument, Seal, AppendLedger, MarkerAction, JournalEnd, At
  <2>2. QED BY <2>1 DEF BaseInv, RunsFit
<1>2. /\ Finalizes(w) \/ SealsIt(w) \/ GoesOnSealing(w)
      /\ Alone(w) /\ asked' = asked
  BY <1>1, WriteIs DEF BaseInv, Finalizes, SealsIt, GoesOnSealing, Gone, Moved
<1>3. \A q \in Runs : HandLeft(q)
  <2>1. CASE w = Finisher
    <3>1. FinishesUnsealed' => FinishesUnsealed /\ job'[Finisher].run = job[Finisher].run
      <4>1. CASE Finalizes(w)
        BY <2>1, <4>1 DEF Finalizes, Gone, ApartInv, FinisherApart, FinishesUnsealed,
          Finished, Finalizing
      <4>2. CASE SealsIt(w) \/ GoesOnSealing(w)
        BY <2>1, <4>2 DEF SealsIt, GoesOnSealing, Gone, Moved, FinishesUnsealed, Finalizing,
          Sealing
      <4>3. QED BY <1>2, <4>1, <4>2
    <3>2. QED BY <1>2, <2>1, <3>1, HandsAside
  <2>2. CASE w \in Runs
    <3>1. /\ job'[w].at \in HandSteps => job[w].at \in HandSteps
          /\ job'[w].at \notin OwnSteps
          /\ job[w].at /= "remove"
      <4>1. CASE Finalizes(w)
        BY <2>2, <4>1 DEF Finalizes, Gone, HandSteps, OwnSteps, Finalizing
      <4>2. CASE SealsIt(w)
        BY <2>2, <4>2 DEF SealsIt, Gone, Moved, HandSteps, OwnSteps, Finalizing, Copying
      <4>3. CASE GoesOnSealing(w)
        BY <2>2, <4>3 DEF GoesOnSealing, Gone, Moved, HandSteps, OwnSteps, Finalizing, Copying,
          Sealing
      <4>4. QED BY <1>2, <4>1, <4>2, <4>3
    <3>2. QED BY <1>2, <2>2, <3>1, HandsAside
  <2>3. QED BY <2>1, <2>2 DEF Writers
<1>4. \A q \in Runs : rec'[q].kept = rec[q].kept /\ rec'[q].gone = rec[q].gone
  <2>1. CASE Presence(w)
    BY <1>1, <2>1, PresenceLeaves DEF BaseInv
  <2>2. CASE ~Presence(w)
    BY <2>2 DEF Write, WriteDocument, Seal, AppendLedger, MarkerAction, JournalEnd
  <2>3. QED BY <2>1, <2>2
<1>5. SealParts
  BY DEF BaseInv, TypeInv, Seals, SealParts
<1>6. CASE Presence(w) \/ WriteDocument(w) \/ MarkerAction(w) \/ JournalEnd(w)
  <2>1. seal' = seal /\ ledger' = ledger
    BY <1>6 DEF Presence, WriteDocument, MarkerAction, JournalEnd
  <2>2. QED BY <1>3, <1>4, <2>1, LedgerUnchanged
<1>7. CASE AppendLedger(w)
  <2>1. seal' = seal /\ (ledger' = ledger \/ ledger' = WithLine(ledger, r))
    BY <1>7 DEF AppendLedger
  <2>2. IsSealed(r)
    BY <1>1, <1>7 DEF AppendLedger, At, ApartInv, RunAlone, FinisherApart, Sealing, Writers
  <2>3. Good(ledger')
    BY <1>1, <1>5, <2>1, GoodWithLine DEF LedgerInv
  <2>4. \A q \in Runs : LineLeft(q)
    <3> HIDE DEF r
    <3>1. QED BY <1>1, <1>4, <2>1, <2>2, ListsOne DEF LineLeft, BaseInv
  <2>5. QED BY <1>3, <2>1, <2>3, <2>4, AwaitedAside, GoodStays, BlankStays DEF LedgerInv
<1>8. CASE Seal(w)
  <2> DEFINE rs == {p \in Kept \ {r} : IsSealed(p)}
  <2>1. ledger' = ledger \/ ledger' = WithLines(ledger, rs)
    BY <1>8 DEF Seal, WithMissing
  <2>2. Good(ledger')
    BY <1>5, <2>1, GoodWithLines DEF LedgerInv
  <2>3. ASSUME NEW q \in Runs
        PROVE /\ LedgerHas(ledger, q) => LedgerHas(ledger', q)
              /\ ~LedgerHas(ledger, q) /\ LedgerHas(ledger', q) => IsSealed(q) /\ q \in rs
    <3>1. CASE ledger' = ledger
      BY <3>1
    <3>2. CASE ledger' = WithLines(ledger, rs)
      <4>1. ~LedgerHas(ledger, q) /\ q \notin rs => ~LedgerHas(ledger', q)
        <5>1. \A T : q \notin T /\ ~LedgerHas(ledger, q) => ~LedgerHas(WithLines(ledger, T), q)
          BY <1>5, WithLinesOnly DEF BaseInv, TypeInv
        <5> HIDE DEF rs
        <5>2. QED BY <3>2, <5>1
      <4>2. LedgerHas(ledger, q) => LedgerHas(ledger', q)
        <5> HIDE DEF rs
        <5>1. QED BY <1>5, <3>2, WithLinesLists DEF BaseInv, TypeInv
      <4>3. QED BY <4>1, <4>2
    <3>3. QED BY <2>1, <3>1, <3>2
  <2>4. CASE seal' = seal
    <3>1. \A q \in Runs : LineLeft(q)
      BY <1>4, <2>3, <2>4 DEF LineLeft
    <3>2. QED BY <1>3, <2>2, <2>4, <3>1, AwaitedAside, GoodStays, BlankStays DEF LedgerInv
  <2>5. CASE seal' /= seal
    <3> DEFINE parts == Append(LastParts(ledger'), r)
    <3>1. PICK p : /\ Moved(w, "ledger") /\ ~IsSealed(r)
                   /\ seal' = [seal EXCEPT ![r] =
                          [status |-> job[w].status, try |-> job[w].try, parts |-> p]]
                   /\ p = parts
      BY <1>1, <1>8, <2>5, SealIs DEF BaseInv
    <3>2. job[w].status \in Statuses
      BY DEF BaseInv, TypeInv, Jobs
    <3> HIDE DEF parts
    <3>3. /\ \A q \in Runs \ {r} : seal'[q] = seal[q]
          /\ seal'[r].status /= "none" /\ seal'[r].parts = parts
      BY <1>1, <3>1, <3>2 DEF BaseInv, TypeInv, Statuses
    <3>4. ledger' = WithLines(ledger, rs)
      <4>1. PICK ok \in BOOLEAN, missing \in BOOLEAN :
                  /\ ok => missing
                  /\ ledger' = IF missing THEN WithMissing(ledger, Kept \ {r}) ELSE ledger
                  /\ seal' = IF ok
                             THEN [seal EXCEPT ![r] =
                                     [status |-> job[w].status,
                                      try |-> job[w].try,
                                      parts |-> Append(LastParts(ledger'), r)]]
                             ELSE seal
        BY <1>8, <3>1 DEF Seal
      <4>2. ok
        BY <2>5, <4>1
      <4>3. QED BY <4>1, <4>2 DEF WithMissing
    <3>5. job[w].at = "seal"
      BY <1>8 DEF Seal, At
    <3>6. InHand(r)
      <4>1. CASE w = Finisher
        BY <1>1, <3>1, <3>5, <4>1 DEF ApartInv, FinisherApart, FinishesUnsealed, InHand
      <4>2. CASE w \in Runs
        <5>1. r = w /\ asked[w] /= "abandoned"
          BY <3>5, <4>2 DEF ApartInv, RunAlone, Copying
        <5>2. QED BY <3>5, <5>1 DEF InHand, HandSteps
      <4>3. QED BY <4>1, <4>2 DEF Writers
    <3>7. rec[r].kept /\ ~rec[r].gone /\ ~LedgerHas(ledger, r)
      BY <1>1, <3>6 DEF LedgerInv, LinesAwaited
    <3>8. ~LedgerHas(ledger', r)
      BY <1>1, <2>3, <3>7
    <3>9. \A q \in Runs : IsSealed(q) => LedgerHas(ledger', q)
      <4> SUFFICES ASSUME NEW q \in Runs, IsSealed(q) PROVE LedgerHas(ledger', q)
        OBVIOUS
      <4>1. CASE LedgerHas(ledger, q)
        BY <2>3, <4>1
      <4>2. CASE ~LedgerHas(ledger, q)
        <5>1. q \in rs
          BY <3>1, <4>2 DEF LedgerInv, LinesAwaited, Kept
        <5> HIDE DEF rs
        <5>2. QED BY <1>5, <3>4, <5>1, WithLinesLists DEF BaseInv, TypeInv
      <4>3. QED BY <4>1, <4>2
    <3> HIDE DEF rs
    <3>10. \A q \in Runs \ {r} : LinesAwaited(q)'
      <4>1. \A q \in Runs \ {r} : LineLeft(q)
        BY <1>4, <2>3, <3>3 DEF LineLeft
      <4>2. QED BY <1>3, <4>1, AwaitedAside DEF LedgerInv
    <3> HIDE DEF r
    <3>11. \A u \in Runs : u = r => LinesAwaited(u)'
      <4> SUFFICES ASSUME NEW u \in Runs, u = r PROVE LinesAwaited(u)'
        OBVIOUS
      <4>1. ~InHand(u)' /\ job'[u].at \notin OwnSteps
        <5>1. CASE w = Finisher
          <6>1. /\ job[u].at \in Copying \union {"over"} /\ job'[u] = job[u]
                /\ job[u].at \in Copying => asked[u] = "abandoned"
            <7>1. FinishesUnsealed /\ u = job[Finisher].run
              BY <1>1, <3>1, <3>5, <5>1 DEF ApartInv, FinisherApart, FinishesUnsealed, r
            <7>2. /\ job[u].at \in Copying \union {"over"}
                  /\ job[u].at \in Copying => asked[u] = "abandoned"
              BY <7>1 DEF ApartInv, FinisherApart
            <7>3. QED BY <1>2, <5>1, <7>2 DEF Alone
          <6>2. job'[Finisher].at = "ledger"
            BY <3>1, <5>1 DEF Moved
          <6>3. QED BY <1>2, <6>1, <6>2 DEF InHand, FinishesUnsealed, HandSteps, OwnSteps,
            Copying, Finalizing
        <5>2. CASE w \in Runs
          <6>1. w = u /\ job'[u].at = "ledger"
            BY <3>1, <3>5, <5>2 DEF ApartInv, RunAlone, Moved, r
          <6>2. ~(FinishesUnsealed /\ job[Finisher].run = u)
            BY <3>5, <6>1 DEF ApartInv, FinisherApart, Copying
          <6>3. job'[Finisher] = job[Finisher]
            BY <1>2, <5>2 DEF Alone
          <6>4. QED BY <6>1, <6>2, <6>3 DEF InHand, FinishesUnsealed, Finished, HandSteps,
            OwnSteps, Copying, Finalizing
        <5>3. QED BY <5>1, <5>2 DEF Writers
      <4>2. IsSealed(u)' /\ rec'[u].kept
        BY <1>1, <1>4, <3>3, <3>7 DEF IsSealed
      <4>3. QED BY <4>1, <4>2 DEF LinesAwaited, OwnSteps
    <3>12. Blank'
      BY <3>3 DEF LedgerInv, Blank, IsSealed
    <3>13. Good(ledger)'
      <4>1. \A q \in Runs : IsSealed(q)' <=> IsSealed(q) \/ q = r
        BY <1>1, <3>3 DEF IsSealed
      <4>2. \A i \in DOMAIN ledger' : ledger'[i].run \in Runs \ {r}
        <5>1. \A i \in DOMAIN ledger' : ledger'[i].run /= r
          BY <3>8 DEF LedgerHas
        <5>2. \A i \in DOMAIN ledger' : ledger'[i] \in LedgerLines
          BY <2>2 DEF Good
        <5>3. QED BY <5>1, <5>2 DEF LedgerLines
      <4>3. LinesMatch(ledger)'
        BY <2>2, <3>3, <4>1, <4>2 DEF Good, LinesMatch, IsSealed
      <4>4. Pending(ledger)' = {r}
        BY <1>1, <3>8, <3>9, <4>1 DEF Pending, LedgerHas
      <4>5. LastParts(ledger)' = LastParts(ledger')
        BY DEF LastParts
      <4>6. PendingIsNext(ledger)'
        BY <3>3, <4>4, <4>5 DEF PendingIsNext, parts
      <4>7. QED BY <2>2, <4>3, <4>6 DEF Good, OneLineEach, LinesGoOn
    <3>14. QED BY <3>10, <3>11, <3>12, <3>13 DEF LedgerInv
  <2>6. QED BY <2>4, <2>5
<1>9. QED BY <1>6, <1>7, <1>8 DEF Write

LEMMA UserLedger ==
  ASSUME BaseInv, ApartInv, LedgerInv, NEW r \in Runs, User(r)
  PROVE  LedgerInv'
<1> USE WriterIs, FinisherIsNoRun
<1>0. RunAlone(r) /\ LinesAwaited(r) /\ seal' = seal
  BY DEF ApartInv, LedgerInv, User, Cancel, Wedged, Finish, MarkGone, RecoverLedger, Observe,
    disk
<1>1. CASE Cancel(r) \/ Wedged(r) \/ Observe(r)
  <2>1. UNCHANGED <<job, rec, ledger>>
    BY <1>1 DEF Cancel, Wedged, Observe, disk
  <2>2. \A q \in Runs : asked'[q] = asked[q] \/ (q = r /\ asked[q] /= "abandoned")
    BY <1>1 DEF Cancel, Wedged, Observe, BaseInv, TypeInv
  <2>3. ASSUME NEW q \in Runs PROVE HandLeft(q)
    <3>1. FinishesUnsealed' = FinishesUnsealed
      BY <2>1 DEF FinishesUnsealed, Finished
    <3>2. QED BY <2>1, <2>2, <3>1 DEF HandLeft, InHand
  <2>4. QED BY <1>0, <2>1, <2>3, LedgerUnchanged
<1>2. CASE Finish(r)
  <2>1. /\ UNCHANGED <<rec, ledger, asked>> /\ rec[r].kept /\ ~rec[r].gone /\ live /= r
        /\ \A q \in Runs : job'[q] = job[q]
    BY <1>2 DEF Finish, HasCard, disk, BaseInv, TypeInv
  <2>2. /\ job'[Finisher].run = r
        /\ IsSealed(r) => job'[Finisher].at = "check"
    <3>1. CASE IsSealed(r)
      <4> DEFINE e == [Idle EXCEPT !.at = "check", !.run = r]
      <4>1. e.at = "check" /\ e.run = r
        BY DEF Idle
      <4>2. job' = [job EXCEPT ![Finisher] = e]
        BY <1>2, <3>1 DEF Finish
      <4> HIDE DEF e
      <4>3. QED BY <4>1, <4>2 DEF BaseInv, TypeInv
    <3>2. CASE ~IsSealed(r)
      <4> DEFINE e == [Idle EXCEPT !.at = "presence", !.run = r,
                         !.status = "finished", !.try = tries[r] + 1]
      <4>1. e.run = r
        BY EntryIs
      <4>2. job' = [job EXCEPT ![Finisher] = e]
        BY <1>2, <3>2 DEF Finish
      <4> HIDE DEF e
      <4>3. QED BY <3>2, <4>1, <4>2 DEF BaseInv, TypeInv
    <3>3. QED BY <3>1, <3>2
  <2>3. \A q \in Runs \ {r} : HandLeft(q)
    BY <2>1, <2>2 DEF HandLeft, InHand
  <2>4. \A q \in Runs \ {r} : LinesAwaited(q)'
    BY <1>0, <2>1, <2>3, LineUnchanged, AwaitedAside DEF LedgerInv
  <2>5. LinesAwaited(r)'
    <3>1. CASE IsSealed(r)
      <4>1. HandLeft(r)
        BY <2>1, <2>2, <3>1 DEF HandLeft, InHand, FinishesUnsealed, Finalizing
      <4>2. QED BY <1>0, <2>1, <4>1, LineUnchanged, AwaitedAside
    <3>2. CASE ~IsSealed(r)
      <4>1. job[r].at \notin OwnSteps
        BY <1>0, <2>1 DEF RunAlone, Fresh, OwnSteps, Copying
      <4>2. ~LedgerHas(ledger, r)
        BY <1>0, <2>1, <3>2, <4>1 DEF LinesAwaited, OwnSteps
      <4>3. ~LedgerHas(ledger, r)' /\ ~IsSealed(r)'
        BY <1>0, <2>1, <3>2, <4>2 DEF LedgerHas, IsSealed
      <4>4. QED BY <2>1, <4>1, <4>3 DEF LinesAwaited, OwnSteps
    <3>3. QED BY <3>1, <3>2
  <2>6. Good(ledger')
    BY <2>1 DEF LedgerInv
  <2>7. QED BY <1>0, <2>4, <2>5, <2>6, GoodStays, BlankStays DEF LedgerInv
<1>3. CASE MarkGone(r)
  <2>1. /\ UNCHANGED <<job, asked>> /\ live /= r /\ rec[r].kept
        /\ job[Finisher].run /= r /\ (IsSealed(r) => LedgerHas(ledger, r))
        /\ rec' = [rec EXCEPT ![r].gone = TRUE]
        /\ ledger' = ledger \/ (~LedgerHas(ledger, r) /\ ledger' = Append(ledger, GoneLine(r)))
    BY <1>3 DEF MarkGone, HasCard
  <2>2. ledger' = ledger \/ ledger' = WithLine(ledger, r)
    BY <2>1 DEF WithLine
  <2>3. SealParts
    BY DEF BaseInv, TypeInv, Seals, SealParts
  <2>4. Good(ledger')
    BY <2>2, <2>3, GoodWithLine DEF LedgerInv
  <2>5. /\ \A q \in Runs : rec'[q].kept = rec[q].kept
        /\ \A q \in Runs \ {r} : rec'[q].gone = rec[q].gone
        /\ rec'[r].gone
    BY <2>1 DEF BaseInv, TypeInv, Records
  <2>6. \A q \in Runs : /\ LedgerHas(ledger, q) => LedgerHas(ledger', q)
                        /\ LedgerHas(ledger', q) => LedgerHas(ledger, q) \/ q = r
    BY <2>2, ListsOne DEF BaseInv
  <2>7. ASSUME NEW q \in Runs PROVE HandLeft(q)
    <3>1. FinishesUnsealed' = FinishesUnsealed
      BY <2>1 DEF FinishesUnsealed, Finished
    <3>2. QED BY <2>1, <3>1 DEF HandLeft, InHand
  <2>8. \A q \in Runs \ {r} : LinesAwaited(q)'
    <3>1. \A q \in Runs \ {r} : LineLeft(q)
      BY <1>0, <2>5, <2>6 DEF LineLeft
    <3>2. QED BY <2>7, <3>1, AwaitedAside DEF LedgerInv
  <2>9. LinesAwaited(r)'
    <3>1. /\ job[r].at \notin OwnSteps
          /\ job[r].at \in HandSteps => asked[r] = "abandoned"
      BY <1>0, <2>1 DEF RunAlone, Fresh, OwnSteps, HandSteps, Copying, Finalizing
    <3>2. ~InHand(r)'
      BY <2>1, <3>1 DEF InHand
    <3>3. QED BY <2>1, <2>5, <3>1, <3>2 DEF LinesAwaited, OwnSteps
  <2>10. QED BY <1>0, <2>4, <2>8, <2>9, GoodStays, BlankStays DEF LedgerInv
<1>4. CASE RecoverLedger(r)
  <2>1. UNCHANGED <<job, asked, rec>> /\ IsSealed(r) /\ ledger' = WithLine(ledger, r)
    BY <1>4 DEF RecoverLedger
  <2>2. SealParts
    BY DEF BaseInv, TypeInv, Seals, SealParts
  <2>3. Good(ledger')
    BY <2>1, <2>2, GoodWithLine DEF LedgerInv
  <2>4. ASSUME NEW q \in Runs PROVE HandLeft(q)
    <3>1. FinishesUnsealed' = FinishesUnsealed
      BY <2>1 DEF FinishesUnsealed, Finished
    <3>2. QED BY <2>1, <3>1 DEF HandLeft, InHand
  <2>5. \A q \in Runs : LineLeft(q)
    BY <1>0, <2>1, ListsOne DEF LineLeft, BaseInv
  <2>6. QED BY <1>0, <2>3, <2>4, <2>5, AwaitedAside, GoodStays, BlankStays DEF LedgerInv
<1>5. QED BY <1>1, <1>2, <1>3, <1>4 DEF User

LEMMA SettledIs ==
  ASSUME NEW lines, NEW p \in Deletable(lines)
  PROVE  LedgerHas(lines, p) /\ (rec[p].gone \/ IsSealed(p)) /\ rec[p].kept
  BY DEF Deletable, Settled, Kept

LEMMA RemovedIs ==
  ASSUME TypeInv, NEW gone,
         rec' = [q \in Runs |-> [rec[q] EXCEPT !.kept = @ /\ q \notin gone]],
         NEW q \in Runs
  PROVE  /\ rec'[q].gone = rec[q].gone /\ rec'[q].plan = rec[q].plan
         /\ rec'[q].line = rec[q].line
         /\ q \in gone => ~rec'[q].kept
         /\ q \notin gone => rec'[q].kept = rec[q].kept
<1>1. \A x \in Records : \A b \in BOOLEAN :
        /\ [x EXCEPT !.kept = b].kept = b
        /\ [x EXCEPT !.kept = b].gone = x.gone
        /\ [x EXCEPT !.kept = b].plan = x.plan
        /\ [x EXCEPT !.kept = b].line = x.line
  BY DEF Records
<1>2. rec[q] \in Records /\ rec[q].kept \in BOOLEAN
  BY DEF TypeInv, Records
<1>3. rec'[q] = [rec[q] EXCEPT !.kept = rec[q].kept /\ q \notin gone]
  OBVIOUS
<1>4. CASE q \in gone
  <2>1. rec'[q] = [rec[q] EXCEPT !.kept = FALSE]
    BY <1>2, <1>3, <1>4
  <2>2. QED BY <1>1, <1>2, <1>4, <2>1
<1>5. CASE q \notin gone
  <2> DEFINE b == rec[q].kept
  <2>1. (b /\ q \notin gone) = b
    BY <1>2, <1>5
  <2>2. rec'[q] = [rec[q] EXCEPT !.kept = b]
    BY <1>3, <2>1
  <2>3. b \in BOOLEAN /\ b = rec[q].kept
    BY <1>2
  <2> HIDE DEF b
  <2>4. /\ rec'[q].kept = b /\ rec'[q].gone = rec[q].gone
        /\ rec'[q].plan = rec[q].plan /\ rec'[q].line = rec[q].line
    <3>1. rec[q] \in Records
      BY <1>2
    <3>2. \A x \in Records : /\ [x EXCEPT !.kept = b].kept = b
                             /\ [x EXCEPT !.kept = b].gone = x.gone
                             /\ [x EXCEPT !.kept = b].plan = x.plan
                             /\ [x EXCEPT !.kept = b].line = x.line
      BY <1>1, <2>3, Zenon
    <3>3. QED BY <2>2, <3>1, <3>2, Zenon
  <2>5. QED BY <1>5, <2>3, <2>4, Zenon
<1>6. QED BY <1>4, <1>5

LEMMA RestLedger ==
  ASSUME WholeRefusals, BaseInv, ApartInv, LedgerInv,
         \/ CheckAndFinish(Finisher) \/ Kill \/ Launch \/ Unplug \/ Plug \/ UNCHANGED vars
         \/ (\E w \in Writers : Panic(w))
         \/ (\E r \in Runs : Compact(r) \/ Damage(r))
  PROVE  LedgerInv'
<1> USE WriterIs, FinisherIsNoRun
<1>1. CASE CheckAndFinish(Finisher)
  <2>1. ChecksOut(job[Finisher].run) \in BOOLEAN
    BY DEF ChecksOut
  <2>2. UNCHANGED <<asked, rec, seal, ledger>> /\ job[Finisher].at = "check"
        /\ (Gone(Finisher) \/ Moved(Finisher, "seal"))
    BY <1>1, <2>1, StepsAre DEF CheckAndFinish, disk, BaseInv, At
  <2>3. ~FinishesUnsealed'
    BY <2>2 DEF ApartInv, FinisherApart, FinishesUnsealed, Finished, Gone, Moved, Finalizing
  <2>4. \A q \in Runs : HandLeft(q)
    BY <2>2, <2>3, HandsAside DEF Gone, Moved
  <2>5. QED BY <2>2, <2>4, LedgerUnchanged
<1>2. CASE Kill
  <2>1. /\ UNCHANGED <<rec, seal, ledger>>
        /\ \A q \in Runs : /\ job'[q].at = IF job[q].at = "idle" THEN "idle" ELSE "over"
                           /\ job[q].at /= "remove"
        /\ job'[Finisher].at = "idle"
    BY <1>2 DEF Kill, disk, Idle, WholeRefusals
  <2>2. \A q \in Runs : HandLeft(q)
    BY <2>1 DEF HandLeft, InHand, FinishesUnsealed, OwnSteps, HandSteps, Copying, Finalizing
  <2>3. QED BY <2>1, <2>2, LedgerUnchanged
<1>3. CASE Unplug \/ Plug \/ UNCHANGED vars \/ \E r \in Runs : Damage(r)
  <2>1. UNCHANGED <<job, asked, rec, seal, ledger>>
    BY <1>3 DEF Unplug, Plug, vars, Damage
  <2>2. ASSUME NEW q \in Runs PROVE HandLeft(q)
    <3>1. FinishesUnsealed' = FinishesUnsealed
      BY <2>1 DEF FinishesUnsealed, Finished
    <3>2. QED BY <2>1, <3>1 DEF HandLeft, InHand
  <2>3. QED BY <2>1, <2>2, LedgerUnchanged
<1>4. ASSUME NEW w \in Writers, Panic(w) PROVE LedgerInv'
  <2>1. /\ UNCHANGED <<asked, rec, seal, ledger>> /\ Gone(w)
        /\ job[w].at /= "remove"
    BY <1>4, StepsAre DEF Panic, disk, BaseInv
  <2>2. /\ Alone(w)
        /\ w = Finisher => ~FinishesUnsealed'
        /\ w \in Runs => job'[w].at = "over"
    BY <2>1 DEF Gone, FinishesUnsealed, Finalizing
  <2>3. \A q \in Runs : HandLeft(q)
    BY <2>1, <2>2, HandsAside DEF HandSteps, OwnSteps, Copying, Finalizing
  <2>4. QED BY <2>1, <2>3, LedgerUnchanged
<1>5. CASE Launch
  <2>1. UNCHANGED <<job, asked, seal>>
    BY <1>5 DEF Launch
  <2>2. ASSUME NEW q \in Runs PROVE HandLeft(q)
    <3>1. FinishesUnsealed' = FinishesUnsealed
      BY <2>1 DEF FinishesUnsealed, Finished
    <3>2. QED BY <2>1, <3>1 DEF HandLeft, InHand
  <2>3. PICK upto \in Runs :
           /\ ledger' = SweptLedger({r \in Kept : r <= upto})
           /\ \/ rec' = rec
              \/ \E gone \in SUBSET Deletable(ledger') :
                    rec' = [r \in Runs |-> [rec[r] EXCEPT !.kept = @ /\ r \notin gone]]
    BY <1>5, Zenon DEF Launch
  <2> DEFINE rs == {r \in {r \in Kept : r <= upto} : IsSealed(r) \/ rec[r].gone}
  <2>4. ledger' = WithLines(ledger, rs)
    BY <2>3, Zenon DEF SweptLedger
  <2>5. \A q \in Runs :
          /\ LedgerHas(ledger, q) => LedgerHas(ledger', q)
          /\ ~LedgerHas(ledger, q) /\ LedgerHas(ledger', q) => IsSealed(q) \/ rec[q].gone
    <3>1. \A r \in rs : IsSealed(r) \/ rec[r].gone
      OBVIOUS
    <3> HIDE DEF rs
    <3>2. QED BY <2>4, <3>1, ListsSealed DEF BaseInv
  <2>6. Good(ledger')
    <3> HIDE DEF rs
    <3>1. SealParts
      BY DEF BaseInv, TypeInv, Seals, SealParts
    <3>2. QED BY <2>4, <3>1, GoodWithLines DEF LedgerInv
  <2>7. \A q \in Runs : LineLeft(q)
    <3>1. CASE rec' = rec
      BY <2>1, <2>5, <3>1 DEF LineLeft
    <3>2. CASE \E gone \in SUBSET Deletable(ledger') :
                    rec' = [r \in Runs |-> [rec[r] EXCEPT !.kept = @ /\ r \notin gone]]
      <4>1. PICK gone \in SUBSET Deletable(ledger') :
                    rec' = [r \in Runs |-> [rec[r] EXCEPT !.kept = @ /\ r \notin gone]]
        BY <3>2
      <4>2. \A q \in Runs : /\ rec'[q].gone = rec[q].gone
                            /\ q \in gone => ~rec'[q].kept
                            /\ q \notin gone => rec'[q].kept = rec[q].kept
        BY <4>1, RemovedIs DEF BaseInv
      <4>3. \A q \in gone : LedgerHas(ledger', q) /\ (rec[q].gone \/ IsSealed(q)) /\ rec[q].kept
        BY SettledIs
      <4>4. QED BY <2>1, <2>5, <4>2, <4>3 DEF LineLeft
    <3>3. QED BY <2>3, <3>1, <3>2
  <2>8. \A q \in Runs : LinesAwaited(q)'
    BY <2>2, <2>7, AwaitedAside DEF LedgerInv
  <2>9. QED BY <2>1, <2>6, <2>8, GoodStays, BlankStays DEF LedgerInv
<1>6. ASSUME NEW r \in Runs, Compact(r) PROVE LedgerInv'
  <2>1. UNCHANGED <<job, asked, seal, ledger>>
    BY <1>6 DEF Compact
  <2>2. ASSUME NEW q \in Runs PROVE HandLeft(q)
    <3>1. FinishesUnsealed' = FinishesUnsealed
      BY <2>1 DEF FinishesUnsealed, Finished
    <3>2. QED BY <2>1, <3>1 DEF HandLeft, InHand
  <2>3. PICK gone \in SUBSET Deletable(ledger) :
                    rec' = [q \in Runs |-> [rec[q] EXCEPT !.kept = @ /\ q \notin gone]]
    BY <1>6 DEF Compact
  <2>4. \A q \in Runs : /\ rec'[q].gone = rec[q].gone
                        /\ q \in gone => ~rec'[q].kept
                        /\ q \notin gone => rec'[q].kept = rec[q].kept
    BY <2>3, RemovedIs DEF BaseInv
  <2>5. \A q \in gone : LedgerHas(ledger, q) /\ (rec[q].gone \/ IsSealed(q)) /\ rec[q].kept
    BY SettledIs
  <2>6. \A q \in Runs : LineLeft(q)
    BY <2>1, <2>4, <2>5 DEF LineLeft
  <2>7. \A q \in Runs : LinesAwaited(q)'
    BY <2>2, <2>6, AwaitedAside DEF LedgerInv
  <2>8. Good(ledger')
    BY <2>1 DEF LedgerInv
  <2>9. QED BY <2>1, <2>7, <2>8, GoodStays, BlankStays DEF LedgerInv
<1>7. QED BY <1>1, <1>2, <1>3, <1>4, <1>5, <1>6

LEMMA LedgerKept ==
  ASSUME WholeRefusals, BaseInv, ApartInv, LedgerInv, [Next]_vars
  PROVE  LedgerInv'
<1>1. ASSUME NEW w \in Writers, Write(w) PROVE LedgerInv'
  BY <1>1, WriteLedger, RestLedger
<1>2. ASSUME NEW r \in Runs, Copy(r) PROVE LedgerInv'
  BY <1>2, StartingLedger, LoopLedger DEF Copy
<1>3. QED BY <1>1, <1>2, UserLedger, RestLedger DEF Next

LEMMA LedgerStarts == Init => LedgerInv
<1> SUFFICES ASSUME Init PROVE LedgerInv
  OBVIOUS
<1>1. /\ \A r \in Runs : /\ seal[r].status = "none" /\ seal[r].parts = <<>>
                         /\ job[r].at = "idle" /\ ~rec[r].kept /\ ~rec[r].gone
      /\ job[Finisher].at = "idle" /\ ledger = <<>>
  BY WriterIs DEF Init, Idle, Unsealed, NoRecord
<1>2. DOMAIN ledger = {}
  BY <1>1
<1>3. Good(ledger)
  BY <1>1, <1>2 DEF Good, OneLineEach, LinesMatch, LinesGoOn, PendingIsNext, Pending, IsSealed
<1>4. \A r \in Runs : LinesAwaited(r)
  BY <1>1, <1>2 DEF LinesAwaited, LedgerHas, InHand, FinishesUnsealed, IsSealed, HandSteps,
    Copying, Finalizing
<1>5. QED BY <1>1, <1>3, <1>4 DEF LedgerInv, Blank

LEMMA OnePrefixOfOther ==
  ASSUME TypeInv, LedgerInv, NEW p \in Runs, NEW q \in Runs
  PROVE  IsPrefix(seal[p].parts, seal[q].parts) \/ IsPrefix(seal[q].parts, seal[p].parts)
<1> DEFINE x == seal[p].parts
           y == seal[q].parts
<1>0. x \in Seq(Runs) /\ y \in Seq(Runs) /\ 1 \in Runs /\ Good(ledger)
  BY BoundsAssumption DEF TypeInv, Seals, Runs, LedgerInv
<1>1. CASE ~IsSealed(p) \/ ~IsSealed(q)
  BY <1>0, <1>1, PrefixFacts DEF LedgerInv, Blank
<1>2. CASE p = q
  BY <1>0, <1>2, PrefixFacts
<1>3. ASSUME NEW i \in DOMAIN ledger, ledger[i].run \in Runs, IsSealed(ledger[i].run)
      PROVE  /\ i \in SealedAt(ledger) /\ i \in 1..Len(ledger)
             /\ ledger[i].parts = seal[ledger[i].run].parts
  BY <1>0, <1>3 DEF Good, LinesMatch, SealedAt
<1>4. CASE /\ IsSealed(p) /\ IsSealed(q) /\ p /= q
           /\ LedgerHas(ledger, p) /\ LedgerHas(ledger, q)
  <2>1. PICK i \in DOMAIN ledger : ledger[i].run = p
    BY <1>4 DEF LedgerHas
  <2>2. PICK j \in DOMAIN ledger : ledger[j].run = q
    BY <1>4 DEF LedgerHas
  <2>3. i \in 1..Len(ledger) /\ j \in 1..Len(ledger) /\ i /= j
    BY <1>3, <1>4, <2>1, <2>2
  <2>4. i < j \/ j < i
    BY <2>3
  <2>5. ledger[i].parts = x /\ ledger[j].parts = y
        /\ ledger[i].kind = "sealed" /\ ledger[j].kind = "sealed"
    BY <1>3, <1>4, <2>1, <2>2 DEF SealedAt
  <2>6. QED BY <1>0, <2>4, <2>5 DEF Good, LinesGoOn, IsStrictPrefix
<1>5. ASSUME NEW a \in Runs, NEW b \in Runs, a /= b, IsSealed(a), IsSealed(b),
             ~LedgerHas(ledger, a)
      PROVE  IsPrefix(seal[b].parts, seal[a].parts)
  <2>1. a \in Pending(ledger)
    BY <1>5 DEF Pending
  <2>2. Pending(ledger) = {a} /\ seal[a].parts = Append(LastParts(ledger), a)
    BY <1>0, <2>1 DEF Good, PendingIsNext
  <2>3. LedgerHas(ledger, b)
    BY <1>5, <2>2 DEF Pending
  <2>4. PICK i \in DOMAIN ledger : ledger[i].run = b
    BY <2>3 DEF LedgerHas
  <2>5. i \in SealedAt(ledger) /\ ledger[i].parts = seal[b].parts
    BY <1>3, <1>5, <2>4
  <2>6. IsPrefix(seal[b].parts, LastParts(ledger)) /\ LastParts(ledger) \in Seq(Runs)
    <3>1. ledger \in Seq(LedgerLines) /\ LinesGoOn(ledger)
      BY <1>0 DEF Good
    <3>2. QED BY <2>5, <3>1, LastIsLongest
  <2>7. seal[b].parts \in Seq(Runs)
    BY DEF TypeInv, Seals
  <2>8. QED BY <2>2, <2>6, <2>7, PrefixFacts DEF IsStrictPrefix
<1>6. QED BY <1>1, <1>2, <1>4, <1>5

(* The set fingerprint of a chain never forks, however many runs it has: at most one sealed
   run waits for its ledger line, and its set goes on from the last line there is.  Two
   things are assumed: a call hangs only in the loop over the messages, and a refused start's
   record goes in the step after its ledger line. *)
THEOREM SetNeverForksAtAll == LoopHangs /\ WholeRefusals => (Spec => []SetNeverForks)
<1>1. SUFFICES ASSUME LoopHangs, WholeRefusals PROVE Spec => []SetNeverForks
  OBVIOUS
<1>2. Spec => [](BaseInv /\ ApartInv)
  BY <1>1, ApartAlways
<1>3. (BaseInv /\ ApartInv) /\ LedgerInv /\ [Next]_vars => LedgerInv'
  BY <1>1, LedgerKept
<1>4. (BaseInv /\ ApartInv) /\ LedgerInv => SetNeverForks
  <2> SUFFICES ASSUME BaseInv, ApartInv, LedgerInv PROVE SetNeverForks
    OBVIOUS
  <2>1. \A i, j \in DOMAIN ledger : i < j => i /= j
    <3>1. DOMAIN ledger = 1..Len(ledger)
      BY DEF BaseInv, TypeInv
    <3>2. QED BY <3>1
  <2>2. \A i, j \in DOMAIN ledger :
         i < j => /\ ledger[i].run /= ledger[j].run
                  /\ ledger[i].kind = "sealed" /\ ledger[j].kind = "sealed"
                       => IsStrictPrefix(ledger[i].parts, ledger[j].parts)
    BY <2>1, Zenon DEF LedgerInv, Good, OneLineEach, LinesGoOn
  <2>3. \A i \in DOMAIN ledger :
         ledger[i].kind = "sealed" => ledger[i].parts = seal[ledger[i].run].parts
    BY DEF LedgerInv, Good, LinesMatch
  <2>4. \A p, q \in Runs : \/ IsPrefix(seal[p].parts, seal[q].parts)
                           \/ IsPrefix(seal[q].parts, seal[p].parts)
    BY OnePrefixOfOther DEF BaseInv
  <2>5. QED BY <2>2, <2>3, <2>4, Zenon DEF SetNeverForks
<1>5. QED BY <1>2, <1>3, <1>4, LedgerStarts, PTL DEF Spec

----------------------------------------------------------------------------
(* Every message of a sealed run is provided, or planned by a record that is kept. *)

PlanSame(q) == rec'[q].plan = rec[q].plan /\ rec'[q].line = rec[q].line

(* The run goes on as it was, or leaves the loop or the finalization for good. *)
OrderLeft(q) ==
  \/ job'[q] = job[q] /\ (asked[q] = "abandoned" => asked'[q] = "abandoned")
  \/ /\ job'[q].at \notin {"idle"} \union Starting \union Copying
     /\ job'[q].at \in Finalizing \union {"seal"} /\ job'[q].status \in WholeStatuses
        => job[q].at \in Finalizing \union {"seal"} /\ job[q].status \in WholeStatuses

LEMMA OrderAside ==
  ASSUME NEW q \in Runs, LinesInOrder(q), PlanSame(q), OrderLeft(q),
         seal'[q].status = seal[q].status
  PROVE  LinesInOrder(q)'
<1>1. Through(q) => Through(q)'
  BY DEF Through, PlanSame
<1>2. CASE job'[q] = job[q] /\ (asked[q] = "abandoned" => asked'[q] = "abandoned")
  BY <1>1, <1>2 DEF LinesInOrder, PlanSame
<1>3. CASE /\ job'[q].at \notin {"idle"} \union Starting \union Copying
           /\ job'[q].at \in Finalizing \union {"seal"} /\ job'[q].status \in WholeStatuses
              => job[q].at \in Finalizing \union {"seal"} /\ job[q].status \in WholeStatuses
  BY <1>1, <1>3 DEF LinesInOrder, WholeStatuses, Copying
<1>4. QED BY <1>2, <1>3 DEF OrderLeft

(* A step that forgets no message of a sealed run. *)
NothingLost(q) ==
  /\ IsSealed(q)' => IsSealed(q) \/ rec'[q].kept
  /\ IsSealed(q) => /\ IsSealed(q)' /\ PlanSame(q)
                    /\ rec'[q].gone = rec[q].gone \/ rec'[q].kept
                    /\ rec[q].kept /\ ~rec'[q].kept => \A m \in rec[q].plan : Provided(m)
  /\ Lost(q) \subseteq Lost(q)'

(* Out of its loop a run stays out of it. *)
LEMMA LostStays ==
  ASSUME NEW q \in Runs, OrderLeft(q) \/ (Looping(q)' => Looping(q)),
         Terminal(q) \subseteq Terminal(q)'
  PROVE  Lost(q) \subseteq Lost(q)'
<1>1. Looping(q)' => Looping(q)
  BY DEF Looping, OrderLeft
<1>2. QED BY <1>1 DEF Lost

(* Neither a gone run nor a sealed one is in its loop. *)
LEMMA NotInLoop ==
  ASSUME ApartInv, LedgerInv, NEW q \in Runs, rec[q].gone \/ IsSealed(q)
  PROVE  ~Looping(q)
<1>1. Looping(q) => InHand(q)
  BY DEF Looping, InHand, HandSteps
<1>2. ~InHand(q)
  BY UnsealedHand DEF LedgerInv, LinesAwaited
<1>3. QED BY <1>1, <1>2

LEMMA RemovedAside ==
  ASSUME RemovedAreDone, \A q \in Runs : NothingLost(q)
  PROVE  RemovedAreDone'
<1> SUFFICES ASSUME NEW r \in Runs, IsSealed(r)', NEW m \in rec'[r].plan
             PROVE  Provided(m)' \/ \E q \in Runs : /\ rec'[q].kept /\ IsSealed(q)'
                                                    /\ m \in rec'[q].plan
  BY DEF RemovedAreDone, Kept
<1>1. ASSUME Provided(m)
      PROVE  Provided(m)' \/ \E q \in Runs : /\ rec'[q].kept /\ IsSealed(q)'
                                             /\ m \in rec'[q].plan
  <2>1. CASE \E p \in Runs : m \in Lost(p)
    BY <2>1 DEF NothingLost, Provided
  <2>2. ASSUME NEW p \in Runs, m \in Exported(p), IsSealed(p), ~rec[p].gone
        PROVE  Provided(m)' \/ \E q \in Runs : /\ rec'[q].kept /\ IsSealed(q)'
                                               /\ m \in rec'[q].plan
    <3>1. IsSealed(p)' /\ PlanSame(p) /\ (rec'[p].gone = rec[p].gone \/ rec'[p].kept)
      BY <2>2 DEF NothingLost
    <3>2. m \in Exported(p)' /\ m \in rec'[p].plan
      BY <2>2, <3>1 DEF Exported, PlanSame
    <3>3. CASE rec'[p].kept
      BY <3>1, <3>2, <3>3
    <3>4. CASE rec'[p].gone = rec[p].gone
      BY <2>2, <3>1, <3>2, <3>4 DEF Provided
    <3>5. QED BY <3>1, <3>3, <3>4
  <2>3. QED BY <1>1, <2>1, <2>2 DEF Provided
<1>2. CASE ~IsSealed(r)
  BY <1>2 DEF NothingLost
<1>3. CASE IsSealed(r)
  <2>1. m \in rec[r].plan
    BY <1>3 DEF NothingLost, PlanSame
  <2>2. CASE Provided(m)
    BY <1>1, <2>2
  <2>3. ASSUME NEW q \in Runs, rec[q].kept, IsSealed(q), m \in rec[q].plan
        PROVE  Provided(m)' \/ \E p \in Runs : /\ rec'[p].kept /\ IsSealed(p)'
                                               /\ m \in rec'[p].plan
    <3>1. IsSealed(q)' /\ PlanSame(q)
      BY <2>3 DEF NothingLost
    <3>2. CASE rec'[q].kept
      BY <2>3, <3>1, <3>2 DEF PlanSame
    <3>3. CASE ~rec'[q].kept
      BY <1>1, <2>3, <3>3 DEF NothingLost
    <3>4. QED BY <3>2, <3>3
  <2>4. QED BY <1>3, <2>1, <2>2, <2>3 DEF RemovedAreDone, Kept
<1>4. QED BY <1>2, <1>3

(* Nothing of run q's plan, seal or record's place changes. *)
LEMMA NothingLostAside ==
  ASSUME NEW q \in Runs, PlanSame(q), seal'[q] = seal[q],
         OrderLeft(q) \/ (Looping(q)' => Looping(q)),
         rec'[q].gone = rec[q].gone, ~IsSealed(q) \/ rec'[q].kept = rec[q].kept
  PROVE  NothingLost(q)
<1>1. IsSealed(q)' <=> IsSealed(q)
  BY DEF IsSealed
<1>2. Lost(q) \subseteq Lost(q)'
  <2>1. Terminal(q)' = Terminal(q)
    BY DEF Terminal, PlanSame
  <2>2. QED BY <2>1, LostStays
<1>3. QED BY <1>1, <1>2 DEF NothingLost

LEMMA MessagesUnchanged ==
  ASSUME MessagesInv,
         \A q \in Runs : /\ PlanSame(q) /\ OrderLeft(q) /\ seal'[q] = seal[q]
                         /\ rec'[q].gone = rec[q].gone
                         /\ ~IsSealed(q) \/ rec'[q].kept = rec[q].kept
  PROVE  MessagesInv'
<1>1. \A q \in Runs : LinesInOrder(q)'
  BY OrderAside DEF MessagesInv
<1>2. \A q \in Runs : NothingLost(q)
  BY NothingLostAside
<1>3. QED BY <1>1, <1>2, RemovedAside DEF MessagesInv

LEMMA StartingMessages ==
  ASSUME BaseInv, ApartInv, MessagesInv, NEW r \in Runs,
         \/ Start(r) \/ CreateRecord(r) \/ JournalStart(r) \/ WriteMarker(r)
         \/ RefusedStart(r) \/ RemoveRefused(r)
  PROVE  MessagesInv'
<1> USE WriterIs, FinisherIsNoRun
<1>0. RunAlone(r) /\ LinesInOrder(r)
  BY DEF ApartInv, MessagesInv
<1>1. job[r].at \in {"idle"} \union Starting
  BY <1>0 DEF Start, CreateRecord, JournalStart, WriteMarker, RefusedStart, RemoveRefused,
    At, RunAlone, Fresh, Starting
<1>2. ~IsSealed(r)
  BY <1>0, <1>1 DEF RunAlone, Fresh, IsSealed, Starting, Copying
<1>3. UNCHANGED <<asked, seal>>
  BY DEF Start, CreateRecord, JournalStart, WriteMarker, RefusedStart, RemoveRefused
<1>4. CASE Start(r)
  <2>1. PICK plan : rec' = [rec EXCEPT ![r].plan = plan]
    BY <1>4 DEF Start
  <2>2. /\ \A q \in Runs \ {r} : rec'[q] = rec[q] /\ job'[q] = job[q]
        /\ rec'[r].line = rec[r].line /\ rec'[r].gone = rec[r].gone
    BY <1>4, <2>1 DEF Start, BaseInv, TypeInv, Records
  <2>3. job'[r].at = "record" /\ job'[r].next = 1 /\ job[r].at = "idle"
    BY <1>0, <1>4 DEF Start, BaseInv, TypeInv, Idle, RunAlone, Fresh
  <2>4. \A m \in Msgs : rec[r].line[m] = "none"
    BY <1>0, <2>3 DEF LinesInOrder
  <2>5. LinesInOrder(r)'
    <3>1. rec'[r].plan \subseteq Msgs
      <4>1. TypeInv'
        BY <1>4, StartTypes DEF BaseInv
      <4>2. QED BY <4>1 DEF TypeInv, Records
    <3>2. \A m \in Msgs : ~(m < 1)
      BY DEF Msgs
    <3>3. QED BY <1>2, <1>3, <2>2, <2>3, <2>4, <3>1, <3>2
      DEF LinesInOrder, IsSealed, Starting, Copying, Finalizing
  <2>6. \A q \in Runs \ {r} : LinesInOrder(q)'
    BY <1>3, <2>2, OrderAside DEF MessagesInv, PlanSame, OrderLeft
  <2>7. NothingLost(r)
    <3>1. Terminal(r) = {}
      <4>1. \A m \in rec[r].plan : m \in Msgs
        BY DEF BaseInv, TypeInv, Records
      <4>2. QED BY <2>4, <4>1 DEF Terminal
    <3>2. ~IsSealed(r)'
      BY <1>2, <1>3 DEF IsSealed
    <3>3. QED BY <1>2, <3>1, <3>2 DEF NothingLost, Lost
  <2>8. \A q \in Runs \ {r} : NothingLost(q)
    BY <1>3, <2>2, NothingLostAside DEF PlanSame, OrderLeft
  <2>9. QED BY <2>5, <2>6, <2>7, <2>8, RemovedAside DEF MessagesInv
<1>5. CASE ~Start(r)
  <2>1. rec' = rec \/ \E kept : rec' = [rec EXCEPT ![r].kept = kept]
    BY <1>5 DEF CreateRecord, JournalStart, WriteMarker, RefusedStart, RemoveRefused
  <2>2. /\ \A q \in Runs : PlanSame(q) /\ rec'[q].gone = rec[q].gone
        /\ \A q \in Runs \ {r} : rec'[q].kept = rec[q].kept
    <3>1. CASE \E kept : rec' = [rec EXCEPT ![r].kept = kept]
      BY <3>1 DEF BaseInv, TypeInv, Records, PlanSame
    <3>2. QED BY <2>1, <3>1 DEF PlanSame
  <2>3. Gone(r) \/ \E step \in Starting \union {"msg"} : Moved(r, step)
    BY <1>5, StepsAre DEF CreateRecord, JournalStart, WriteMarker, RefusedStart,
      RemoveRefused, BaseInv, Starting
  <2>4. \A q \in Runs \ {r} : OrderLeft(q)
    BY <1>3, <2>3 DEF Gone, Moved, Alone, OrderLeft
  <2>5. \A q \in Runs \ {r} : LinesInOrder(q)'
    BY <1>3, <2>2, <2>4, OrderAside DEF MessagesInv
  <2>6. LinesInOrder(r)'
    <3>1. CASE Gone(r)
      <4>1. OrderLeft(r)
        BY <3>1 DEF Gone, OrderLeft, Starting, Copying, Finalizing
      <4>2. QED BY <1>0, <1>3, <2>2, <4>1, OrderAside
    <3>2. CASE \E step \in Starting \union {"msg"} : Moved(r, step)
      <4>1. job[r].at \in Starting
        BY <1>1, <1>5 DEF CreateRecord, JournalStart, WriteMarker, RefusedStart,
          RemoveRefused, At, Starting
      <4>2. /\ job'[r].at \in Starting \union {"msg"}
            /\ job'[r].next = job[r].next /\ job[r].next = 1
        BY <1>0, <3>2, <4>1 DEF Moved, LinesInOrder
      <4>3. QED BY <1>0, <1>2, <1>3, <2>2, <4>1, <4>2
        DEF LinesInOrder, PlanSame, IsSealed, Starting, Copying, Finalizing
    <3>3. QED BY <2>3, <3>1, <3>2
  <2>7. ASSUME NEW q \in Runs PROVE NothingLost(q)
    <3>1. CASE q = r
      <4>1. job[r].at \in Starting
        BY <1>1, <1>5 DEF CreateRecord, JournalStart, WriteMarker, RefusedStart,
          RemoveRefused, At, Starting
      <4>2. \A m \in Msgs : m >= 1
        BY BoundsAssumption DEF Msgs
      <4>3. Terminal(r) = {}
        BY <1>0, <4>1, <4>2 DEF LinesInOrder, Terminal, BaseInv, TypeInv, Records
      <4>4. ~IsSealed(r)'
        BY <1>2, <1>3 DEF IsSealed
      <4>5. QED BY <1>2, <3>1, <4>3, <4>4 DEF NothingLost, Lost
    <3>2. CASE q /= r
      BY <1>3, <2>2, <2>4, <3>2, NothingLostAside
    <3>3. QED BY <3>1, <3>2
  <2>8. QED BY <2>5, <2>6, <2>7, RemovedAside DEF MessagesInv
<1>6. QED BY <1>4, <1>5

(* What the loop makes of the place in the plan. *)
LEMMA NextMessageIs ==
  ASSUME TypeInv, NEW r \in Runs, NextMessage(r)
  PROVE  \/ Concluded(r, "complete") /\ \A m \in rec[r].plan : m < job[r].next
         \/ Concluded(r, "failed") \/ Concluded(r, "cancelled")
         \/ /\ Alone(r) /\ job'[r].at = "fetch" /\ job'[r].next \in rec[r].plan
            /\ job'[r].next >= job[r].next
            /\ \A m \in rec[r].plan : m >= job[r].next => m >= job'[r].next
<1> DEFINE rest == {m \in rec[r].plan : m >= job[r].next}
           least == CHOOSE m \in rest : \A n \in rest : m <= n
<1>1. rec[r].plan \subseteq Nat /\ job[r].next \in Nat
  BY WriterIs, BoundsAssumption DEF TypeInv, Records, Jobs, Msgs
<1>2. CASE rest = {} /\ Conclude(r, "complete")
  BY <1>1, <1>2, ConcludeIs
<1>3. CASE Conclude(r, IF asked[r] = "no" THEN "failed" ELSE "cancelled")
  BY <1>3, ConcludeIs
<1>4. CASE /\ rest # {} /\ live' = live
           /\ job' = [job EXCEPT ![r].at = "fetch", ![r].next = least]
  <2>1. least \in rest /\ \A n \in rest : least <= n
    <3>1. rest \in SUBSET Nat
      BY <1>1
    <3> HIDE DEF rest
    <3>2. \E m \in rest : \A n \in rest : m <= n
      BY <1>4, <3>1, LeastNumber
    <3>3. QED BY <3>2
  <2> HIDE DEF least
  <2>2. Alone(r) /\ job'[r].at = "fetch" /\ job'[r].next = least
    BY <1>4, WriterIs DEF TypeInv, Jobs, Alone
  <2>3. QED BY <2>1, <2>2
<1>5. QED BY <1>2, <1>3, <1>4, Zenon DEF NextMessage

LEMMA FetchIs ==
  ASSUME TypeInv, NEW r \in Runs, Fetch(r)
  PROVE  \/ Concluded(r, "cancelled")
         \/ /\ Alone(r) /\ job'[r].at \in {"place", "line"} /\ job'[r].next = job[r].next
            /\ job'[r].at = "line" => job'[r].got \in Outcomes
<1>1. CASE Conclude(r, "cancelled")
  BY <1>1, ConcludeIs
<1>2. CASE Go(r, "place")
  BY <1>2, StepsAre, WriterIs DEF Moved
<1>3. CASE /\ live' = live
           /\ \E got \in {"retry", "terminal"}, stop \in BOOLEAN :
                job' = [job EXCEPT ![r].at = "line", ![r].got = got, ![r].stop = stop]
  BY <1>3, WriterIs DEF TypeInv, Jobs, Alone, Outcomes
<1>4. QED BY <1>1, <1>2, <1>3 DEF Fetch

LEMMA PlaceIs ==
  ASSUME TypeInv, NEW r \in Runs, Place(r)
  PROVE  /\ Alone(r) /\ job'[r].at = "line" /\ job'[r].next = job[r].next
         /\ job'[r].got \in Outcomes
<1>1. PICK stop, got : /\ got \in Outcomes
                       /\ job' = [job EXCEPT ![r].at = "line", ![r].stop = stop,
                                             ![r].got = got]
  <2>1. PICK ok \in BOOLEAN, stop \in BOOLEAN :
           job' = [job EXCEPT ![r].at = "line", ![r].stop = stop,
                              ![r].got = IF ok THEN "exported" ELSE "retry"]
    BY Zenon DEF Place
  <2> DEFINE got == IF ok THEN "exported" ELSE "retry"
  <2>2. got \in Outcomes
    BY DEF Outcomes
  <2>3. QED BY <2>1, <2>2
<1>2. live' = live
  BY DEF Place
<1>3. QED BY <1>1, <1>2, WriterIs DEF TypeInv, Jobs, Alone

Recorded(r) == rec' = [rec EXCEPT ![r].line = Lined(r, TRUE, {})]

LEMMA RecordLineIs ==
  ASSUME TypeInv, NEW r \in Runs, RecordLine(r)
  PROVE  \/ asked[r] = "abandoned" /\ Gone(r) /\ rec' = rec
         \/ asked[r] /= "abandoned" /\ Concluded(r, "failed")
         \/ /\ asked[r] /= "abandoned" /\ Recorded(r)
            /\ Alone(r) /\ job'[r].at = "msg" /\ job'[r].next = job[r].next + 1
<1>1. CASE asked[r] = "abandoned"
  BY <1>1, StepsAre, WriterIs DEF RecordLine
<1>2. CASE asked[r] /= "abandoned"
  <2>1. PICK ok \in BOOLEAN, back \in SUBSET Terminal(r) :
          /\ (ok /\ job[r].stop) \/ back = {}
          /\ rec' = [rec EXCEPT ![r].line = Lined(r, ok, back)]
          /\ IF ok /\ ~job[r].stop
             THEN /\ job' = [job EXCEPT ![r].at = "msg", ![r].next = @ + 1, ![r].got = "none"]
                  /\ UNCHANGED <<live, tries>>
             ELSE Conclude(r, "failed")
    BY <1>2, RecordLineLines
  <2>2. CASE ok /\ ~job[r].stop
    <3>1. Alone(r) /\ job'[r].at = "msg" /\ job'[r].next = job[r].next + 1
      BY <2>1, <2>2, WriterIs DEF TypeInv, Jobs, Alone
    <3>2. ok = TRUE /\ back = {}
      BY <2>1, <2>2
    <3>3. Recorded(r)
      BY <2>1, <3>2 DEF Recorded
    <3>4. QED BY <1>2, <3>1, <3>3
  <2>3. CASE Conclude(r, "failed")
    BY <1>2, <2>3, ConcludeIs
  <2>4. QED BY <2>1, <2>2, <2>3
<1>3. QED BY <1>1, <1>2

(* A run that concludes is through the loop. *)
LEMMA ConcludedOrder ==
  ASSUME NEW r \in Runs, NEW status, Concluded(r, status), LinesInOrder(r), PlanSame(r),
         seal'[r].status = seal[r].status, asked' = asked,
         asked[r] /= "abandoned" /\ status \in WholeStatuses => Through(r)'
  PROVE  LinesInOrder(r)'
<1>1. Through(r) => Through(r)'
  BY DEF Through, PlanSame
<1>2. CASE Gone(r)
  BY <1>1, <1>2, FinisherIsNoRun
    DEF Gone, LinesInOrder, Starting, Copying, Finalizing
<1>3. CASE /\ asked[r] /= "abandoned" /\ job'[r].at = "presence" /\ job'[r].status = status
  BY <1>1, <1>3 DEF LinesInOrder, Starting, Copying, Finalizing, WholeStatuses
<1>4. QED BY <1>2, <1>3 DEF Concluded

LEMMA LineIs ==
  ASSUME TypeInv, NEW r \in Runs, Recorded(r)
  PROVE  /\ rec'[r].plan = rec[r].plan
         /\ \A m \in Msgs : rec'[r].line[m] =
              IF m = job[r].next THEN job[r].got ELSE rec[r].line[m]
<1> DEFINE line == Lined(r, TRUE, {})
<1>1. \A m \in Msgs : line[m] = IF m = job[r].next THEN job[r].got ELSE rec[r].line[m]
  BY DEF Lined
<1>2. rec' = [rec EXCEPT ![r].line = line]
  BY DEF Recorded
<1> HIDE DEF line
<1>3. rec'[r].plan = rec[r].plan /\ rec'[r].line = line
  BY <1>2 DEF TypeInv, Records
<1>4. QED BY <1>1, <1>3

LEMMA LoopMessages ==
  ASSUME BaseInv, ApartInv, MessagesInv, NEW r \in Runs,
         NextMessage(r) \/ Fetch(r) \/ Place(r) \/ RecordLine(r)
  PROVE  MessagesInv'
<1> USE WriterIs, FinisherIsNoRun
<1>1. /\ job[r].at \in Copying /\ Alone(r)
      /\ UNCHANGED <<asked, seal>>
  BY LoopSteps DEF BaseInv, Concluded, Gone, Copying, NextMessage, Fetch, Place, RecordLine, disk
<1>2. RunAlone(r) /\ LinesInOrder(r)
  BY DEF ApartInv, MessagesInv
<1>3. /\ seal[r].status \notin WholeStatuses
      /\ asked[r] /= "abandoned" => ~IsSealed(r)
  BY <1>1, <1>2 DEF RunAlone, IsSealed, WholeStatuses
<1>4. /\ rec[r].plan \subseteq Msgs /\ Msgs \subseteq Nat
      /\ job[r].next \in 1..(NMsgs + 1) /\ NMsgs \in Nat
  <2>1. rec[r] \in Records /\ job[r] \in Jobs
    BY DEF BaseInv, TypeInv
  <2>2. rec[r].plan \subseteq Msgs
    BY <2>1 DEF Records
  <2>3. job[r].next \in 1..(NMsgs + 1)
    BY <2>1 DEF Jobs
  <2>4. QED BY <2>2, <2>3, BoundsAssumption DEF Msgs
<1>5. CASE rec' = rec /\ LinesInOrder(r)'
  <2>1. \A q \in Runs : PlanSame(q) /\ seal'[q] = seal[q] /\ rec'[q] = rec[q]
    BY <1>1, <1>5 DEF PlanSame
  <2>2. \A q \in Runs \ {r} : LinesInOrder(q)'
    BY <1>1, <2>1, OrderAside DEF Alone, OrderLeft, MessagesInv
  <2>3. ASSUME NEW q \in Runs PROVE NothingLost(q)
    <3>1. Looping(q)' => Looping(q)
      BY <1>1 DEF Alone, Looping
    <3>2. QED BY <2>1, <3>1, NothingLostAside
  <2>4. QED BY <1>5, <2>2, <2>3, RemovedAside DEF MessagesInv
<1>6. CASE NextMessage(r)
  <2>1. rec' = rec /\ PlanSame(r)
    BY <1>6 DEF NextMessage, disk, PlanSame
  <2>2. CASE Concluded(r, "complete") /\ \A m \in rec[r].plan : m < job[r].next
    <3>1. asked[r] /= "abandoned" => Through(r)'
      BY <1>1, <1>2, <2>1, <2>2 DEF LinesInOrder, Through
    <3>2. QED BY <1>1, <1>2, <1>5, <2>1, <2>2, <3>1, ConcludedOrder
  <2>3. CASE Concluded(r, "failed") \/ Concluded(r, "cancelled")
    BY <1>1, <1>2, <1>5, <2>1, <2>3, ConcludedOrder DEF WholeStatuses
  <2>4. CASE /\ Alone(r) /\ job'[r].at = "fetch" /\ job'[r].next \in rec[r].plan
             /\ job'[r].next >= job[r].next
             /\ \A m \in rec[r].plan : m >= job[r].next => m >= job'[r].next
    <3> DEFINE n == job[r].next
               k == job'[r].next
               plan == rec[r].plan
    <3>0. \A x \in 1..(NMsgs + 1) : x \in Nat
      BY <1>4
    <3>1. n \in Nat /\ plan \subseteq Nat
      <4>1. n \in Nat
        BY <1>4, <3>0, Zenon
      <4>2. plan \subseteq Nat
        BY <1>4, Zenon
      <4>3. QED BY <4>1, <4>2
    <3>2. k \in plan /\ k >= n /\ \A m \in plan : m >= n => m >= k
      BY <2>4
    <3>3. \A m \in Msgs : m \in Nat
      BY <1>4
    <3> HIDE DEF n, k, plan
    <3>4. \A m \in Nat : m >= k => m >= n
      BY <3>1, <3>2
    <3>5. \A m \in plan : m < k => m < n
      <4> TAKE m \in plan
      <4>1. m \in Nat /\ k \in Nat /\ n \in Nat
        BY <3>1, <3>2
      <4>2. m >= n => m >= k
        BY <3>2
      <4>3. QED BY <4>1, <4>2
    <3>6. \A m \in Msgs : m >= job'[r].next => m >= job[r].next
      BY <3>3, <3>4 DEF n, k
    <3>7. \A m \in rec[r].plan : m < job'[r].next => m < job[r].next
      BY <3>5 DEF n, k, plan
    <3>8. LinesInOrder(r)'
      BY <1>1, <1>2, <1>3, <2>1, <2>4, <3>6, <3>7
        DEF LinesInOrder, Starting, Copying, Finalizing, WholeStatuses
    <3>9. QED BY <1>5, <2>1, <3>8
  <2>5. QED BY <1>6, <2>2, <2>3, <2>4, NextMessageIs DEF BaseInv
<1>7. CASE Fetch(r) \/ Place(r)
  <2>1. /\ rec' = rec /\ PlanSame(r) /\ job[r].at \in {"fetch", "place"}
    BY <1>7 DEF Fetch, Place, disk, PlanSame, At
  <2>2. CASE Concluded(r, "cancelled")
    BY <1>1, <1>2, <1>5, <2>1, <2>2, ConcludedOrder DEF WholeStatuses
  <2>3. CASE /\ Alone(r) /\ job'[r].at \in {"place", "line"} /\ job'[r].next = job[r].next
             /\ job'[r].at = "line" => job'[r].got \in Outcomes
    <3>1. LinesInOrder(r)'
      BY <1>1, <1>2, <1>3, <2>1, <2>3
        DEF LinesInOrder, Starting, Copying, Finalizing, WholeStatuses
    <3>2. QED BY <1>5, <2>1, <3>1
  <2>4. QED BY <1>7, <2>2, <2>3, FetchIs, PlaceIs DEF BaseInv
<1>8. CASE RecordLine(r)
  <2>1. job[r].at = "line" /\ job[r].next \in Msgs /\ job[r].got \in Outcomes
    BY <1>2, <1>4, <1>8 DEF RecordLine, At, LinesInOrder
  <2>2. CASE asked[r] = "abandoned" /\ Gone(r) /\ rec' = rec
    <3>1. Concluded(r, "failed") /\ PlanSame(r)
      BY <2>2 DEF Concluded, PlanSame
    <3>2. QED BY <1>1, <1>2, <1>5, <2>2, <3>1, ConcludedOrder
  <2>3. CASE asked[r] /= "abandoned" /\ LinesInOrder(r)'
    <3>1. rec' = rec \/ \E line : rec' = [rec EXCEPT ![r].line = line]
      BY LoopLines DEF BaseInv
    <3>2. \A q \in Runs \ {r} : rec'[q] = rec[q]
      BY <3>1 DEF BaseInv, TypeInv
    <3>3. \A q \in Runs \ {r} : LinesInOrder(q)' /\ NothingLost(q)
      BY <1>1, <3>2, OrderAside, NothingLostAside DEF Alone, OrderLeft, MessagesInv, PlanSame
    <3>4. NothingLost(r)
      <4>1. ~IsSealed(r) /\ ~IsSealed(r)'
        BY <1>1, <1>3, <2>3 DEF IsSealed
      <4>2. Lost(r) = {}
        BY <1>1, <2>3 DEF Lost, Looping
      <4>3. QED BY <4>1, <4>2 DEF NothingLost
    <3>5. QED BY <2>3, <3>3, <3>4, RemovedAside DEF MessagesInv
  <2>4. CASE asked[r] /= "abandoned" /\ Concluded(r, "failed")
    <3>1. job'[r].at = "presence" /\ job'[r].status = "failed"
      BY <2>4 DEF Concluded
    <3>2. LinesInOrder(r)'
      BY <1>1, <1>3, <3>1 DEF LinesInOrder, Starting, Copying, Finalizing, WholeStatuses
    <3>3. QED BY <2>3, <2>4, <3>2
  <2>5. CASE /\ asked[r] /= "abandoned" /\ Recorded(r)
             /\ Alone(r) /\ job'[r].at = "msg" /\ job'[r].next = job[r].next + 1
    <3>1. /\ rec'[r].plan = rec[r].plan
          /\ \A m \in Msgs : rec'[r].line[m] =
               IF m = job[r].next THEN job[r].got ELSE rec[r].line[m]
      BY <2>5, LineIs DEF BaseInv
    <3>2. \A m \in Msgs : m >= job'[r].next => rec'[r].line[m] = "none"
      <4>1. \A m \in Msgs : m >= job[r].next + 1 => m >= job[r].next /\ m /= job[r].next
        BY <1>4
      <4>2. QED BY <1>2, <2>1, <2>5, <3>1, <4>1 DEF LinesInOrder, Copying
    <3>3. \A m \in rec'[r].plan : m < job'[r].next => rec'[r].line[m] \in Outcomes
      <4>1. \A m \in Msgs : m < job[r].next + 1 => m < job[r].next \/ m = job[r].next
        BY <1>4
      <4>2. QED BY <1>2, <1>4, <2>1, <2>5, <3>1, <4>1 DEF LinesInOrder, Copying
    <3>4. LinesInOrder(r)'
      BY <1>1, <1>3, <2>5, <3>2, <3>3
        DEF LinesInOrder, Starting, Copying, Finalizing, WholeStatuses
    <3>5. QED BY <2>3, <2>5, <3>4
  <2>6. QED BY <1>8, <2>2, <2>4, <2>5, RecordLineIs DEF BaseInv
<1>9. QED BY <1>6, <1>7, <1>8

(* The finalization looks only at what the record has as exported. *)
LEMMA PresenceLines ==
  ASSUME TypeInv, NEW w \in Writers, job[w].run \in Runs, Presence(w), NEW m \in Msgs
  PROVE  \/ rec'[job[w].run].line[m] = rec[job[w].run].line[m]
         \/ /\ rec[job[w].run].line[m] = "exported"
            /\ rec'[job[w].run].line[m] \in {"retry", "notatt"}
            /\ w /= Finisher => rec'[job[w].run].line[m] = "retry"
<1> DEFINE r == job[w].run
           absent == {n \in Exported(r) : folder[r].file[n] = "none"}
           damaged == {n \in Exported(r) : folder[r].file[n] = "bad"}
           amend == IF w = Finisher THEN absent \union damaged ELSE absent
<1>1. CASE rec' = rec
  BY <1>1
<1>2. CASE ~away
  <2>1. PICK upto \in Msgs \union {0} :
          LET landed == {n \in amend : n <= upto}
          IN  rec' = [rec EXCEPT ![r].line =
                           [n \in Msgs |->
                              IF n \notin landed THEN @[n]
                              ELSE IF w = Finisher /\ n \in absent THEN "notatt"
                                   ELSE "retry"]]
    BY <1>2 DEF Presence
  <2> DEFINE landed == {n \in amend : n <= upto}
             line == [n \in Msgs |->
                              IF n \notin landed THEN rec[r].line[n]
                              ELSE IF w = Finisher /\ n \in absent THEN "notatt"
                                   ELSE "retry"]
  <2>2. rec' = [rec EXCEPT ![r].line = line]
    BY <2>1
  <2>3. \A n \in landed : rec[r].line[n] = "exported"
    BY DEF Exported
  <2>4. \/ line[m] = rec[r].line[m]
        \/ /\ m \in landed /\ line[m] \in {"retry", "notatt"}
           /\ w /= Finisher => line[m] = "retry"
    OBVIOUS
  <2>5. r \in Runs
    OBVIOUS
  <2> HIDE DEF line, landed, r
  <2>6. rec'[r].line = line
    BY <2>2, <2>5 DEF TypeInv, Records
  <2>7. QED BY <2>3, <2>4, <2>6 DEF r
<1>3. QED BY <1>1, <1>2 DEF Presence

LEMMA WriteMessagesOf ==
  ASSUME BaseInv, ApartInv, LedgerInv, MessagesInv, NEW w \in Writers, Write(w), ~Panic(w),
         NEW r \in Runs, r = job[w].run
  PROVE  MessagesInv'
<1> USE WriterIs, FinisherIsNoRun
<1>1. r \in Runs /\ r = job[w].run
  OBVIOUS
<1>2. /\ Finalizes(w) \/ SealsIt(w) \/ GoesOnSealing(w)
      /\ Alone(w) /\ asked' = asked
      /\ \A q \in Runs \ {r} : rec'[q] = rec[q]
      /\ \A q \in Runs : rec'[q].kept = rec[q].kept
  BY <1>1, WriteIs DEF BaseInv, Finalizes, SealsIt, GoesOnSealing, Gone, Moved
<1>3. w \in Runs => w = r
  BY <1>2 DEF ApartInv, RunAlone, Finalizes, SealsIt, GoesOnSealing, Finalizing, Sealing
<1>4. w \in Runs => OrderLeft(w)
  <2>1. CASE Finalizes(w)
    BY <2>1 DEF Finalizes, OrderLeft, Gone, FinalStatus, WholeStatuses, Finalizing, Starting,
      Copying
  <2>2. CASE SealsIt(w) \/ GoesOnSealing(w)
    BY <2>2 DEF SealsIt, GoesOnSealing, OrderLeft, Gone, Moved, Finalizing, Starting, Copying,
      Sealing
  <2>3. QED BY <1>2, <2>1, <2>2
<1>5. \A q \in Runs : q /= w => OrderLeft(q)
  BY <1>2 DEF Alone, OrderLeft
<1>6. \A q \in Runs : OrderLeft(q)
  BY <1>4, <1>5
<1>7. CASE seal' = seal /\ \A q \in Runs : PlanSame(q) /\ rec'[q].gone = rec[q].gone
  BY <1>2, <1>6, <1>7, MessagesUnchanged
<1>8. CASE Presence(w)
  <2>1. /\ seal' = seal /\ job[w].at = "presence"
        /\ \A q \in Runs : rec'[q].plan = rec[q].plan /\ rec'[q].gone = rec[q].gone
        /\ \A m \in Msgs :
             \/ rec'[r].line[m] = rec[r].line[m]
             \/ /\ rec[r].line[m] = "exported"
                /\ rec'[r].line[m] \in {"retry", "notatt"}
                /\ w /= Finisher => rec'[r].line[m] = "retry"
    <3>1. seal' = seal /\ job[w].at = "presence"
      BY <1>8 DEF Presence, At
    <3>2. \A q \in Runs : rec'[q].plan = rec[q].plan /\ rec'[q].gone = rec[q].gone
      BY <1>1, <1>8, PresenceLeaves DEF BaseInv
    <3>3. \A m \in Msgs :
             \/ rec'[r].line[m] = rec[r].line[m]
             \/ /\ rec[r].line[m] = "exported"
                /\ rec'[r].line[m] \in {"retry", "notatt"}
                /\ w /= Finisher => rec'[r].line[m] = "retry"
      BY <1>1, <1>8, PresenceLines DEF BaseInv
    <3>4. QED BY <3>1, <3>2, <3>3
  <2>2. \A q \in Runs \ {r} : PlanSame(q)
    BY <1>2 DEF PlanSame
  <2>3. \A q \in Runs \ {r} : LinesInOrder(q)' /\ NothingLost(q)
    BY <1>2, <1>6, <2>1, <2>2, OrderAside, NothingLostAside DEF MessagesInv
  <2>4. ~IsSealed(r)
    <3>1. CASE w \in Runs
      BY <1>3, <2>1, <3>1 DEF ApartInv, RunAlone, Finalizing
    <3>2. CASE w = Finisher
      BY <2>1, <3>2 DEF ApartInv, FinisherApart, FinishesUnsealed, Finalizing
    <3>3. QED BY <3>1, <3>2 DEF Writers
  <2>5. ~IsSealed(r)' /\ seal'[r].status \notin WholeStatuses
    BY <2>1, <2>4 DEF IsSealed, WholeStatuses
  <2>6. rec[r].plan \subseteq Msgs
    BY <1>1 DEF BaseInv, TypeInv, Records
  <2>7. NothingLost(r)
    <3>1. Terminal(r) \subseteq Terminal(r)' /\ OrderLeft(r)
      <4>1. ASSUME NEW m \in Terminal(r) PROVE m \in rec'[r].plan /\ rec'[r].line[m] = "terminal"
        BY <1>1, <2>1, <2>6 DEF Terminal
      <4>2. QED BY <1>1, <1>6, <4>1 DEF Terminal
    <3>2. QED BY <2>4, <2>5, <3>1, LostStays DEF NothingLost
  <2>8. LinesInOrder(r)'
    <3>1. LinesInOrder(r) /\ OrderLeft(r)
      BY <1>1, <1>6 DEF MessagesInv
    <3>2. CASE w \in Runs
      <4>1. w = r /\ w /= Finisher
        BY <1>3, <3>2
      <4>2. Through(r) => Through(r)'
        <5>1. SUFFICES ASSUME Through(r), NEW m \in rec'[r].plan
                       PROVE  rec'[r].line[m] \in Outcomes
          BY DEF Through
        <5>2. m \in rec[r].plan /\ m \in Msgs
          BY <1>1, <2>1, <2>6
        <5>3. QED BY <2>1, <4>1, <5>1, <5>2 DEF Through, Outcomes
      <4>3. job[r].at = "presence" /\ job'[r].at \notin {"idle"} \union Starting \union Copying
        BY <1>8, <2>1, <3>2, <4>1, PresenceLeaves, <1>1
          DEF BaseInv, Gone, Moved, Starting, Copying
      <4>4. /\ job'[r].at \in Finalizing \union {"seal"} /\ job'[r].status \in WholeStatuses
               => job[r].status \in WholeStatuses
        BY <3>1, <4>3 DEF OrderLeft
      <4>5. job'[r].at \in Finalizing \union {"seal"} /\ job'[r].status \in WholeStatuses
             => Through(r)'
        BY <3>1, <4>2, <4>3, <4>4 DEF LinesInOrder, Finalizing, WholeStatuses
      <4>6. QED BY <2>5, <4>3, <4>5 DEF LinesInOrder, WholeStatuses, Starting, Copying
    <3>3. CASE w = Finisher
      <4>1. /\ job'[r] = job[r] /\ job[r].at \in Copying \union {"over"}
            /\ job[r].at \in Copying => asked[r] = "abandoned"
        BY <1>1, <1>2, <2>1, <3>3
          DEF Alone, ApartInv, FinisherApart, FinishesUnsealed, Finalizing
      <4>2. \A m \in Msgs : rec[r].line[m] = "none" => rec'[r].line[m] = "none"
        BY <2>1
      <4>3. job'[r].at \notin {"idle", "seal"} \union Starting \union Finalizing
        BY <4>1 DEF Starting, Copying, Finalizing
      <4>4. job'[r].at \in Copying => \A m \in Msgs : m >= job'[r].next => rec'[r].line[m] = "none"
        BY <3>1, <4>1, <4>2 DEF LinesInOrder
      <4>5. asked'[r] = "abandoned" \/ job'[r].at \notin Copying
        BY <1>2, <4>1
      <4>6. job'[r].at \in {"fetch", "place", "line"} => job'[r].next \in rec'[r].plan
        BY <2>1, <3>1, <4>1 DEF LinesInOrder
      <4>7. job'[r].at = "line" => job'[r].got \in Outcomes
        BY <3>1, <4>1 DEF LinesInOrder
      <4>8. QED BY <2>5, <4>3, <4>4, <4>5, <4>6, <4>7 DEF LinesInOrder, WholeStatuses
    <3>4. QED BY <3>2, <3>3 DEF Writers
  <2>9. QED BY <2>3, <2>7, <2>8, RemovedAside DEF MessagesInv
<1>9. CASE Seal(w) /\ seal' /= seal
  <2>1. /\ rec' = rec /\ job[w].at = "seal" /\ ~IsSealed(r) /\ Moved(w, "ledger")
        /\ seal'[r].status = job[w].status
        /\ \A q \in Runs \ {r} : seal'[q] = seal[q]
    <3>1. rec' = rec /\ SealsIt(w)
      BY <1>2, <1>9 DEF Seal, At, Finalizes, GoesOnSealing, Finalizing, Sealing
    <3>2. QED BY <1>9, <3>1 DEF SealsIt
  <2>2. \A q \in Runs : PlanSame(q) /\ rec'[q].gone = rec[q].gone
    BY <2>1 DEF PlanSame
  <2>3. \A q \in Runs \ {r} : LinesInOrder(q)' /\ NothingLost(q)
    BY <1>2, <1>6, <2>1, <2>2, OrderAside, NothingLostAside DEF MessagesInv
  <2>4. NothingLost(r)
    <3>1. InHand(r)
      <4>1. CASE w \in Runs
        <5>1. asked[w] /= "abandoned"
          BY <2>1, <4>1 DEF ApartInv, RunAlone, Copying
        <5>2. QED BY <1>3, <2>1, <4>1, <5>1 DEF InHand, HandSteps
      <4>2. CASE w = Finisher
        BY <2>1, <4>2 DEF ApartInv, FinisherApart, FinishesUnsealed, InHand
      <4>3. QED BY <4>1, <4>2 DEF Writers
    <3>2. rec'[r].kept
      BY <1>1, <2>1, <3>1 DEF LedgerInv, LinesAwaited
    <3>3. Lost(r) \subseteq Lost(r)'
      <4>1. Terminal(r) \subseteq Terminal(r)'
        BY <2>1 DEF Terminal
      <4>2. QED BY <1>1, <1>6, <4>1, LostStays
    <3>4. QED BY <2>1, <3>2, <3>3 DEF NothingLost
  <2>5. LinesInOrder(r)'
    <3>1. LinesInOrder(r) /\ OrderLeft(r) /\ PlanSame(r) /\ (Through(r) => Through(r)')
      BY <1>1, <1>6, <2>2 DEF MessagesInv, Through, PlanSame
    <3>2. CASE w \in Runs
      <4>1. w = r
        BY <1>3, <3>2
      <4>2. job'[r].at = "ledger" /\ (job[r].status \in WholeStatuses => Through(r)')
        BY <2>1, <3>1, <4>1 DEF Moved, LinesInOrder, WholeStatuses
      <4>3. QED BY <2>1, <4>1, <4>2
        DEF LinesInOrder, WholeStatuses, Starting, Copying, Finalizing
    <3>3. CASE w = Finisher
      <4>1. job'[r] = job[r] /\ job[w].status = "finished"
        BY <1>1, <1>2, <2>1, <3>3 DEF Alone, ApartInv, FinisherApart, FinishesUnsealed,
          Finished
      <4>2. QED BY <1>2, <2>1, <3>1, <4>1
        DEF LinesInOrder, PlanSame, WholeStatuses
    <3>4. QED BY <3>2, <3>3 DEF Writers
  <2>6. QED BY <2>3, <2>4, <2>5, RemovedAside DEF MessagesInv
<1>10. CASE (WriteDocument(w) \/ AppendLedger(w) \/ MarkerAction(w) \/ JournalEnd(w)
              \/ Seal(w)) /\ seal' = seal
  BY <1>7, <1>10 DEF WriteDocument, AppendLedger, MarkerAction, JournalEnd, Seal, PlanSame
<1>11. WriteDocument(w) \/ AppendLedger(w) \/ MarkerAction(w) \/ JournalEnd(w) => seal' = seal
  BY DEF WriteDocument, AppendLedger, MarkerAction, JournalEnd
<1>12. QED BY <1>8, <1>9, <1>10, <1>11 DEF Write

LEMMA WriteMessages ==
  ASSUME BaseInv, ApartInv, LedgerInv, MessagesInv, NEW w \in Writers, Write(w), ~Panic(w)
  PROVE  MessagesInv'
<1>1. job[w].run \in Runs
  <2>1. job[w].at \notin {"idle", "over"}
    BY DEF Write, Presence, WriteDocument, Seal, AppendLedger, MarkerAction, JournalEnd, At
  <2>2. QED BY <2>1 DEF BaseInv, RunsFit
<1>2. QED BY <1>1, WriteMessagesOf

LEMMA UserMessages ==
  ASSUME BaseInv, MessagesInv, NEW r \in Runs, User(r)
  PROVE  MessagesInv'
<1> USE WriterIs, FinisherIsNoRun
<1>1. CASE Cancel(r) \/ Wedged(r) \/ Finish(r) \/ RecoverLedger(r) \/ Observe(r)
  <2>1. rec' = rec /\ seal' = seal /\ \A q \in Runs : job'[q] = job[q]
    <3>1. CASE Finish(r)
      BY <3>1 DEF Finish, disk, BaseInv, TypeInv
    <3>2. CASE Cancel(r) \/ Wedged(r) \/ RecoverLedger(r) \/ Observe(r)
      BY <3>2 DEF Cancel, Wedged, RecoverLedger, Observe, disk
    <3>3. QED BY <1>1, <3>1, <3>2
  <2>2. \A q \in Runs : asked[q] = "abandoned" => asked'[q] = "abandoned"
    BY <1>1 DEF Cancel, Wedged, Finish, RecoverLedger, Observe, BaseInv, TypeInv
  <2>3. QED BY <2>1, <2>2, MessagesUnchanged DEF PlanSame, OrderLeft
<1>2. CASE MarkGone(r)
  <2>1. UNCHANGED <<job, asked, seal>> /\ rec' = [rec EXCEPT ![r].gone = TRUE] /\ rec[r].kept
    BY <1>2 DEF MarkGone, HasCard
  <2>2. /\ \A q \in Runs : PlanSame(q) /\ rec'[q].kept = rec[q].kept
        /\ \A q \in Runs \ {r} : rec'[q].gone = rec[q].gone
    BY <2>1 DEF BaseInv, TypeInv, Records, PlanSame
  <2>3. \A q \in Runs : LinesInOrder(q)'
    BY <2>1, <2>2, OrderAside DEF OrderLeft, MessagesInv
  <2>4. \A q \in Runs : OrderLeft(q)
    BY <2>1 DEF OrderLeft
  <2>5. \A q \in Runs \ {r} : NothingLost(q)
    BY <2>1, <2>2, <2>4, NothingLostAside
  <2>6. NothingLost(r)
    <3>1. Terminal(r)' = Terminal(r) /\ (IsSealed(r)' <=> IsSealed(r))
      BY <2>1, <2>2 DEF Terminal, PlanSame, IsSealed
    <3>2. QED BY <2>1, <2>2, <2>4, <3>1, LostStays DEF NothingLost
  <2>7. QED BY <2>3, <2>5, <2>6, RemovedAside DEF MessagesInv
<1>3. QED BY <1>1, <1>2 DEF User

(* Only what is provided is in the records of a chain that is complete. *)
LEMMA DeletableIsProvided ==
  ASSUME ApartInv, LedgerInv, NEW lines, NEW q \in Deletable(lines), NEW m \in rec[q].plan
  PROVE  Provided(m)
<1>1. q \in Kept /\ q \in Runs /\ rec[q].plan \subseteq Covered \union Terminal(q)
  BY DEF Deletable, Kept
<1>2. Terminal(q) = Lost(q)
  BY <1>1, SettledIs, NotInLoop DEF Lost
<1>3. QED BY <1>1, <1>2 DEF Provided, Covered, Kept

LEMMA RemovedMessages ==
  ASSUME BaseInv, ApartInv, LedgerInv, MessagesInv, UNCHANGED <<job, asked, seal>>, NEW lines,
         NEW gone \in SUBSET Deletable(lines),
         rec' = [q \in Runs |-> [rec[q] EXCEPT !.kept = @ /\ q \notin gone]]
  PROVE  MessagesInv'
<1>1. \A q \in Runs : /\ PlanSame(q) /\ rec'[q].gone = rec[q].gone
                      /\ q \notin gone => rec'[q].kept = rec[q].kept
  BY RemovedIs DEF BaseInv, PlanSame
<1>2. \A q \in Runs : LinesInOrder(q)'
  BY <1>1, OrderAside DEF OrderLeft, MessagesInv
<1>3. ASSUME NEW q \in Runs PROVE NothingLost(q)
  <2>1. /\ Terminal(q)' = Terminal(q) /\ (IsSealed(q)' <=> IsSealed(q))
        /\ OrderLeft(q)
    BY <1>1 DEF Terminal, PlanSame, IsSealed, OrderLeft
  <2>2. CASE q \in gone
    <3>1. \A m \in rec[q].plan : Provided(m)
      BY <2>2, DeletableIsProvided
    <3>2. QED BY <1>1, <2>1, <3>1, LostStays DEF NothingLost
  <2>3. CASE q \notin gone
    BY <1>1, <2>1, <2>3, NothingLostAside
  <2>4. QED BY <2>2, <2>3
<1>4. QED BY <1>2, <1>3, RemovedAside DEF MessagesInv

LEMMA RestMessages ==
  ASSUME BaseInv, ApartInv, LedgerInv, MessagesInv,
         \/ CheckAndFinish(Finisher) \/ Kill \/ Launch \/ Unplug \/ Plug \/ UNCHANGED vars
         \/ (\E w \in Writers : Panic(w))
         \/ (\E r \in Runs : Compact(r) \/ Damage(r))
  PROVE  MessagesInv'
<1> USE WriterIs, FinisherIsNoRun
<1>1. CASE CheckAndFinish(Finisher)
  <2>1. ChecksOut(job[Finisher].run) \in BOOLEAN
    BY DEF ChecksOut
  <2>2. UNCHANGED <<asked, rec, seal>> /\ (Gone(Finisher) \/ Moved(Finisher, "seal"))
    BY <1>1, <2>1, StepsAre DEF CheckAndFinish, disk, BaseInv
  <2>3. QED BY <2>2, MessagesUnchanged DEF Gone, Moved, Alone, PlanSame, OrderLeft
<1>2. CASE Kill
  <2>1. /\ UNCHANGED <<rec, seal>>
        /\ \A q \in Runs : job'[q].at = IF job[q].at = "idle" THEN "idle" ELSE "over"
    BY <1>2 DEF Kill, disk, Idle
  <2>2. ASSUME NEW q \in Runs PROVE LinesInOrder(q)'
    <3>1. LinesInOrder(q) /\ (Through(q) => Through(q)')
      BY <2>1 DEF MessagesInv, Through
    <3>2. QED BY <2>1, <3>1 DEF LinesInOrder, Starting, Copying, Finalizing
  <2>3. \A q \in Runs : NothingLost(q)
    BY <2>1, NothingLostAside DEF PlanSame, Looping, Copying
  <2>4. QED BY <2>2, <2>3, RemovedAside DEF MessagesInv
<1>3. CASE Unplug \/ Plug \/ UNCHANGED vars \/ \E r \in Runs : Damage(r)
  <2>1. UNCHANGED <<job, asked, rec, seal>>
    BY <1>3 DEF Unplug, Plug, vars, Damage
  <2>2. QED BY <2>1, MessagesUnchanged DEF PlanSame, OrderLeft
<1>4. ASSUME NEW w \in Writers, Panic(w) PROVE MessagesInv'
  <2>1. UNCHANGED <<asked, rec, seal>> /\ Gone(w)
    BY <1>4, StepsAre DEF Panic, disk, BaseInv
  <2>2. \A q \in Runs : OrderLeft(q)
    BY <2>1 DEF Gone, Alone, OrderLeft, Starting, Copying, Finalizing
  <2>3. QED BY <2>1, <2>2, MessagesUnchanged DEF PlanSame
<1>5. CASE Launch
  <2>1. UNCHANGED <<job, asked, seal>>
    BY <1>5 DEF Launch
  <2>2. \/ rec' = rec
        \/ \E gone \in SUBSET Deletable(ledger') :
              rec' = [r \in Runs |-> [rec[r] EXCEPT !.kept = @ /\ r \notin gone]]
    BY <1>5, Zenon DEF Launch
  <2>3. CASE rec' = rec
    BY <2>1, <2>3, MessagesUnchanged DEF PlanSame, OrderLeft
  <2>4. CASE \E gone \in SUBSET Deletable(ledger') :
              rec' = [r \in Runs |-> [rec[r] EXCEPT !.kept = @ /\ r \notin gone]]
    BY <2>1, <2>4, RemovedMessages
  <2>5. QED BY <2>2, <2>3, <2>4
<1>6. ASSUME NEW r \in Runs, Compact(r) PROVE MessagesInv'
  <2>1. UNCHANGED <<job, asked, seal>>
    BY <1>6 DEF Compact
  <2>2. PICK gone \in SUBSET Deletable(ledger) :
              rec' = [q \in Runs |-> [rec[q] EXCEPT !.kept = @ /\ q \notin gone]]
    BY <1>6 DEF Compact
  <2>3. QED BY <2>1, <2>2, RemovedMessages
<1>7. QED BY <1>1, <1>2, <1>3, <1>4, <1>5, <1>6

LEMMA MessagesKept ==
  ASSUME BaseInv, ApartInv, LedgerInv, MessagesInv, [Next]_vars
  PROVE  MessagesInv'
<1>1. ASSUME NEW w \in Writers, Write(w) PROVE MessagesInv'
  BY <1>1, WriteMessages, RestMessages
<1>2. ASSUME NEW r \in Runs, Copy(r) PROVE MessagesInv'
  BY <1>2, StartingMessages, LoopMessages DEF Copy
<1>3. QED BY <1>1, <1>2, UserMessages, RestMessages DEF Next

LEMMA MessagesStart == Init => MessagesInv
<1> SUFFICES ASSUME Init PROVE MessagesInv
  OBVIOUS
<1>1. \A r \in Runs : /\ seal[r].status = "none" /\ job[r].at = "idle"
                      /\ \A m \in Msgs : rec[r].line[m] = "none"
  BY WriterIs DEF Init, Idle, Unsealed, NoRecord
<1>2. QED BY <1>1
  DEF MessagesInv, LinesInOrder, RemovedAreDone, IsSealed, Starting, Copying, Finalizing

(* A settled run that is kept leaves no message without an offer. *)
LEMMA KeptIsOffered ==
  ASSUME BaseInv, ApartInv, DocumentsInv, LedgerInv, MessagesInv,
         NEW r \in Kept, NEW m \in rec[r].plan, ~Provided(m), Settled(r, ledger)
  PROVE  m \in UNION RetryOffers(r)
<1>1. r \in Runs /\ m \in Msgs /\ m \notin Elsewhere(r) /\ m \notin Terminal(r)
  <2>1. r \in Runs /\ m \in Msgs
    BY DEF Kept, BaseInv, TypeInv, Records
  <2>2. \A p \in Runs : rec[p].gone \/ IsSealed(p) => Terminal(p) = Lost(p)
    BY NotInLoop DEF Lost
  <2>3. m \notin Elsewhere(r)
    BY <2>2 DEF Elsewhere, Provided, Kept
  <2>4. m \notin Terminal(r)
    BY <2>1, <2>2 DEF Settled, Provided
  <2>5. QED BY <2>1, <2>3, <2>4
<1>2. CASE rec[r].gone
  <2>1. m \in RunRemaining(r)
    BY <1>1, <1>2 DEF RunRemaining
  <2>2. QED BY <1>2, <2>1 DEF RetryOffers
<1>3. CASE ~rec[r].gone
  <2>1. IsSealed(r) /\ "end" \in journal[r] /\ seal[r].status \in Statuses
    BY <1>1, <1>3 DEF Settled, IsSealed, BaseInv, TypeInv, Seals
  <2>2. rec[r].line[m] \in {"none", "retry", "notatt"}
    BY <1>1, <1>3, <2>1 DEF Provided, Exported, Terminal, BaseInv, TypeInv, Records, Lines
  <2>3. CASE seal[r].status = "complete"
    <3>1. m \in Exported(r)
      BY <1>1, <2>3 DEF DocumentsInv, DocumentsAgree, Complete
    <3>2. QED BY <2>2, <3>1 DEF Exported
  <2>4. CASE seal[r].status = "partial"
    <3>1. rec[r].line[m] = "retry"
      BY <1>1, <2>2, <2>4 DEF MessagesInv, LinesInOrder, Through, Outcomes
    <3>2. m \in RunFailed(r)
      BY <1>1, <3>1 DEF RunFailed, Retryable
    <3>3. RetryOffers(r) = {RunFailed(r)} \ {{}}
      BY <1>3, <2>1, <2>4 DEF RetryOffers
    <3>4. QED BY <3>2, <3>3
  <2>5. CASE seal[r].status = "cancelled"
    <3>1. m \in RunFailed(r) \/ m \in RunRemaining(r)
      BY <1>1, <1>3, <2>2 DEF RunFailed, Retryable, RunRemaining
    <3>2. RetryOffers(r) = {RunFailed(r), RunRemaining(r)} \ {{}}
      BY <1>3, <2>1, <2>5 DEF RetryOffers
    <3>3. QED BY <3>1, <3>2
  <2>6. CASE seal[r].status \in {"failed", "finished"}
    <3>1. m \in RunRemaining(r)
      BY <1>1, <1>3, <2>2, <2>6 DEF RunRemaining
    <3>2. RetryOffers(r) = {RunRemaining(r)} \ {{}}
      BY <1>3, <2>1, <2>6 DEF RetryOffers
    <3>3. QED BY <3>1, <3>2
  <2>7. QED BY <2>1, <2>3, <2>4, <2>5, <2>6 DEF Statuses
<1>4. QED BY <1>2, <1>3

(* No message of a chain is forgotten, however many runs and messages it has: a record goes
   only once its messages are provided or another record plans them, a run that calls itself
   complete or partial has an outcome for every message, and what is neither exported nor
   lost for good its card offers.  The assumptions are those of SetNeverForksAtAll. *)
THEOREM NothingIsEverForgotten ==
  LoopHangs /\ WholeRefusals => (Spec => []NothingForgotten)
<1>1. SUFFICES ASSUME LoopHangs, WholeRefusals PROVE Spec => []NothingForgotten
  OBVIOUS
<1>2. Spec => [](BaseInv /\ ApartInv)
  BY <1>1, ApartAlways
<1>3. (BaseInv /\ ApartInv) /\ DocumentsInv /\ [Next]_vars => DocumentsInv'
  BY DocumentsKept
<1>4. (BaseInv /\ ApartInv) /\ LedgerInv /\ [Next]_vars => LedgerInv'
  BY <1>1, LedgerKept
<1>5. (BaseInv /\ ApartInv) /\ LedgerInv /\ MessagesInv /\ [Next]_vars => MessagesInv'
  BY MessagesKept
<1>6. (BaseInv /\ ApartInv) /\ DocumentsInv /\ LedgerInv /\ MessagesInv => NothingForgotten
  <2> SUFFICES ASSUME BaseInv, ApartInv, DocumentsInv, LedgerInv, MessagesInv,
                      NEW r \in Runs, rec[r].kept \/ IsSealed(r), NEW m \in rec[r].plan,
                      ~Provided(m)
               PROVE  \E q \in Kept : /\ m \in rec[q].plan
                                      /\ ~Settled(q, ledger) \/ m \in UNION RetryOffers(q)
    <3>1. \A p \in Runs : Lost(p) \subseteq Terminal(p)
      BY DEF Lost
    <3>2. QED BY <3>1, Zenon DEF NothingForgotten, Provided
  <2>1. \E q \in Kept : m \in rec[q].plan
    BY DEF MessagesInv, RemovedAreDone, Kept
  <2>2. QED BY <2>1, KeptIsOffered, Zenon
<1>7. QED BY <1>2, <1>3, <1>4, <1>5, <1>6, DocumentsStart, LedgerStarts, MessagesStart, PTL
  DEF Spec
=============================================================================
