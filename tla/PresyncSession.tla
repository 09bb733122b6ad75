--------------------------- MODULE PresyncSession ---------------------------
(***************************************************************************)
(* The Thunderbird pre-sync (internal/presync): before a backup reads the  *)
(* person's mail it may start Thunderbird hidden, wait until no more mail  *)
(* arrives, and ask the Thunderbird it started to quit.                    *)
(*                                                                         *)
(* Each run has three parts that take steps on their own: its session      *)
(* (runSession, S1 to S9), the watchdog that waits for it (runWatchdog)    *)
(* and the caller that reads the mail after it (app.Run).  The watchdog    *)
(* may give up on a session that goes on.  Around them the person opens    *)
(* and closes Thunderbird, a started one shows up late or never, runs are  *)
(* killed and the computer restarts.                                       *)
(*                                                                         *)
(* Abstracted: a Thunderbird is the number of its appearance, which is     *)
(* also its pid and its start time; the clocks' waits end whenever they    *)
(* like; the quiet verdict, the windows and the wording are left out.      *)
(***************************************************************************)
EXTENDS Integers, FiniteSets

CONSTANTS
  MaxRuns,     \* bound: runs
  MaxBorn,     \* bound: Thunderbirds that ever appear
  MaxBoots,    \* bound: restarts of the computer
  BundleWide,  \* the quit request reaches every Thunderbird (macOS)
  Modes,       \* how a run may be started: "scheduled", "attended"
  Trouble      \* what may go wrong: "store" and "clear" (the record is not saved, not
               \* removed), "probe", "slow", "late", "spoil"

ASSUME BoundsAssumption == MaxRuns \in Nat /\ MaxBorn \in Nat /\ MaxBoots \in Nat
ASSUME ModesAssumption == Modes \subseteq {"scheduled", "attended"}
ASSUME PlatformAssumption == BundleWide \in BOOLEAN

Runs == 1..MaxRuns
Births == 1..MaxBorn
Person == 0

VARIABLES
  \* the computer
  born,      \* Thunderbirds that have appeared since the beginning
  alive,     \* those that run
  by,        \* who started each: a run, or the person
  coming,    \* runs whose start has not shown its Thunderbird yet
  asked,     \* Thunderbirds asked to quit
  boot,      \* the computer's boot time
  rec,       \* the profile's state record on disk
  lock,      \* the run that holds the profile's lock (0: free)
  \* the sessions
  pc,        \* where each session is
  mode,      \* how its run was started
  snap,      \* the Thunderbirds there just before the start
  at,        \* the time of the start
  child,     \* the Thunderbird proven to be ours (0: none)
  left,      \* what the session last said it leaves Thunderbird as
  \* the watchdogs and the callers
  stopped,   \* why a session is to stop: "no", "cancel" (the person's), "stop"
  gaveUp,    \* runs whose watchdog gave up on the session
  caller,    \* where each caller is
  told,      \* what it was told Thunderbird was left as
  \* history
  took,      \* runs whose session took the profile's lock
  byRule,    \* Thunderbirds an attended session left open to the person
  kept       \* what the last session to leave one by rule left of its record

computer == <<born, alive, by, coming, asked, boot>>
session == <<mode, snap, at, child>>
watch == <<stopped, gaveUp, caller, told>>
vars == <<computer, rec, lock, pc, session, left, watch, took, byRule, kept>>

PCs == {"out", "lock", "recover", "detect", "recheck", "snapshot", "write", "mark",
        "check", "start", "await", "poll", "wait", "close", "prequit", "ask", "post",
        "exit", "leave", "returned", "dead"}
Lefts == {"none", "exited", "closed", "open", "by-rule", "may-be-starting"}
NothingOpen == {"none", "exited", "closed"}

NoRecord == [state |-> "none", boot |-> 0, child |-> 0, at |-> 0]
Unreadable == [state |-> "unreadable", boot |-> 0, child |-> 0, at |-> 0]
States == {"launching", "syncing", "quitting", "left-running"}
Record == [state : States, boot : 0..MaxBoots, child : 0..MaxBorn, at : 0..MaxBorn]

TypeOK ==
  /\ born \in 0..MaxBorn
  /\ alive \subseteq 1..born
  /\ by \in [Births -> Runs \cup {Person}]
  /\ coming \subseteq Runs
  /\ asked \subseteq 1..born
  /\ boot \in 0..MaxBoots
  /\ rec \in Record \cup {NoRecord, Unreadable}
  /\ lock \in Runs \cup {0}
  /\ pc \in [Runs -> PCs]
  /\ mode \in [Runs -> {"scheduled", "attended"}]
  /\ snap \in [Runs -> SUBSET Births]
  /\ at \in [Runs -> 0..MaxBorn]
  /\ child \in [Runs -> 0..MaxBorn]
  /\ left \in [Runs -> Lefts]
  /\ stopped \in [Runs -> {"no", "cancel", "stop"}]
  /\ gaveUp \subseteq Runs
  /\ caller \in [Runs -> {"out", "waiting", "reading", "done", "dead"}]
  /\ told \in [Runs -> Lefts \cup {"nothing yet"}]
  /\ took \subseteq Runs
  /\ byRule \subseteq 1..born
  /\ kept \in Record \cup {NoRecord, Unreadable}

Init ==
  /\ born = 0 /\ alive = {} /\ coming = {} /\ asked = {} /\ boot = 0
  /\ by = [t \in Births |-> Person]
  /\ rec = NoRecord
  /\ lock = 0
  /\ pc = [r \in Runs |-> "out"]
  /\ mode = [r \in Runs |-> "scheduled"]
  /\ snap = [r \in Runs |-> {}]
  /\ at = [r \in Runs |-> 0]
  /\ child = [r \in Runs |-> 0]
  /\ left = [r \in Runs |-> "none"]
  /\ stopped = [r \in Runs |-> "no"]
  /\ gaveUp = {}
  /\ caller = [r \in Runs |-> "out"]
  /\ told = [r \in Runs |-> "nothing yet"]
  /\ took = {} /\ byRule = {} /\ kept = NoRecord

(***************************************************************************)
(* What a session sees and decides.                                        *)
(***************************************************************************)
\* thunderbirdProcs: a process that cannot be read is skipped.
Sights == IF "probe" \in Trouble THEN SUBSET alive ELSE {alive}

\* Only a start of ours carries the profile on its command line.
NamesProfile(t) == by[t] # Person

\* Mutant: any Thunderbird that appeared after the start is taken for ours.
CandidateIsOursMutant(r, t) == t \notin snap[r] /\ t > at[r]

\* candidateIsOurs: ours by its profile argument, not in the snapshot, not older
\* than the start.
CandidateIsOurs(r, t) == NamesProfile(t) /\ t \notin snap[r] /\ t > at[r]

\* findOurs: exactly one candidate.
IsOurs(r, t, seen) == {u \in seen : CandidateIsOurs(r, u)} = {t}

Stopped(r) == stopped[r] = "stop" \/ r \in gaveUp
Halted(r) == stopped[r] # "no" \/ r \in gaveUp
CancelQuit(r) == mode[r] = "attended" /\ stopped[r] = "cancel" /\ ~Stopped(r)

MatchExact(seen) == rec.child # 0 /\ rec.child \in seen /\ NamesProfile(rec.child)
MatchWeak(seen) ==
  rec.state = "launching" /\ rec.child = 0 /\ \E t \in seen : t > rec.at

\* applyRecovery: whether what the record names is still open and ends the session;
\* any other record, an unreadable one included, is cleared.
Leftover(seen) ==
  /\ rec.state \in States /\ rec.boot = boot
  /\ MatchExact(seen) \/ MatchWeak(seen)

(***************************************************************************)
(* Steps of the record, the session and the lock.                          *)
(***************************************************************************)
\* store: the record as the session now knows it.
Stored(r, state, c) == [state |-> state, boot |-> boot, child |-> c, at |-> at[r]]

\* storeOrWarn and the saves whose error is ignored.
StoreOrWarn(r, state, c) ==
  rec' \in {Stored(r, state, c)} \cup (IF "store" \in Trouble THEN {rec} ELSE {})

\* clear: the removal's error is ignored.
Cleared == rec' \in {NoRecord} \cup (IF "clear" \in Trouble THEN {rec} ELSE {})

Go(r, where) == pc' = [pc EXCEPT ![r] = where]

SetLeft(r, l) == left' = [left EXCEPT ![r] = l]

\* Mutant: the session's own return frees the lock, whatever the caller is doing.
FreedByMutant(r) == r \in gaveUp /\ lock = r

\* releaseLatch.sessionReturned: an abandoned session's lock is freed by whichever of
\* its return and the caller's Release comes second.
FreedBy(r) == r \in gaveUp /\ caller[r] = "done" /\ lock = r

Return(r) ==
  /\ Go(r, "returned")
  /\ lock' = IF FreedBy(r) THEN 0 ELSE lock

\* The steps of a session leave these alone unless they say so.
Aside == UNCHANGED <<watch, byRule, kept>>

(***************************************************************************)
(* S2 to S4: the lock, the recovery, the gates.                            *)
(***************************************************************************)
AcquireLock(r) ==
  /\ pc[r] = "lock"
  /\ IF lock = 0
       THEN lock' = r /\ took' = took \cup {r} /\ Go(r, "recover")
       ELSE Return(r) /\ UNCHANGED took
  /\ UNCHANGED <<computer, rec, session, left>> /\ Aside

\* A start has shown its Thunderbird, or failed, by the time a later run looks; only
\* "slow" lets it be later still.
Recover(r) ==
  /\ pc[r] = "recover"
  /\ "slow" \notin Trouble => coming = {}
  /\ \E seen \in Sights :
       IF Leftover(seen)
         THEN Return(r) /\ UNCHANGED rec
         ELSE Go(r, "detect") /\ Cleared /\ UNCHANGED lock
  /\ UNCHANGED <<computer, session, left, took>> /\ Aside

\* S4.  The person at the computer ends a scheduled session.
Detect(r) ==
  /\ pc[r] = "detect"
  /\ \/ mode[r] = "scheduled" /\ Return(r)
     \/ \E seen \in Sights :
          IF seen # {} THEN Return(r) ELSE Go(r, "recheck") /\ UNCHANGED lock
  /\ UNCHANGED <<computer, rec, session, left, took>> /\ Aside

\* S5.  The profile has moved, or a Thunderbird has been opened since.
Recheck(r) ==
  /\ pc[r] = "recheck"
  /\ \/ Return(r)
     \/ \E seen \in Sights :
          IF seen # {} THEN Return(r) ELSE Go(r, "snapshot") /\ UNCHANGED lock
  /\ UNCHANGED <<computer, rec, session, left, took>> /\ Aside

(***************************************************************************)
(* S5: the snapshot, the write-ahead record, the start.                    *)
(***************************************************************************)
Snapshot(r) ==
  /\ pc[r] = "snapshot"
  /\ \E seen \in Sights : snap' = [snap EXCEPT ![r] = seen]
  /\ at' = [at EXCEPT ![r] = born]
  /\ Go(r, "write")
  /\ UNCHANGED <<computer, rec, lock, mode, child, left, took>> /\ Aside

Write(r) ==
  /\ pc[r] = "write"
  /\ \/ /\ ~Halted(r)
        /\ rec' = Stored(r, "launching", 0)
        /\ Go(r, "mark") /\ UNCHANGED lock
     \/ Halted(r) /\ Return(r) /\ UNCHANGED rec
     \/ "store" \in Trouble /\ Return(r) /\ UNCHANGED rec
  /\ UNCHANGED <<computer, session, left, took>> /\ Aside

\* From here an abandonment may leave a Thunderbird starting.
Mark(r) ==
  /\ pc[r] = "mark"
  /\ SetLeft(r, "may-be-starting")
  /\ Go(r, "check")
  /\ UNCHANGED <<computer, rec, lock, session, took>> /\ Aside

\* Mutant: nobody asks again between the mark and the start.
CheckMutant(r) ==
  /\ pc[r] = "check"
  /\ Go(r, "start")
  /\ UNCHANGED <<computer, rec, lock, session, left, took>> /\ Aside

Check(r) ==
  /\ pc[r] = "check"
  /\ IF Halted(r)
       THEN Return(r) /\ Cleared /\ SetLeft(r, "none")
       ELSE Go(r, "start") /\ UNCHANGED <<rec, lock, left>>
  /\ UNCHANGED <<computer, session, took>> /\ Aside

\* startHidden.  An error clears the record; under "late" the launcher was ended at
\* its deadline with its request already under way.
Start(r) ==
  /\ pc[r] = "start"
  /\ \/ /\ coming' = coming \cup {r}
        /\ Go(r, "await")
        /\ UNCHANGED <<rec, lock, left>>
     \/ /\ coming' \in {coming} \cup (IF "late" \in Trouble THEN {coming \cup {r}} ELSE {})
        /\ Return(r)
        /\ Cleared
        /\ SetLeft(r, "none")
  /\ UNCHANGED <<born, alive, by, asked, boot, session, took>> /\ Aside

(***************************************************************************)
(* S6 and S7: the Thunderbird proven ours, and the wait for its mail.      *)
(***************************************************************************)
\* The proven child goes into the record and into what an abandonment would say.
Adopt(r, t) ==
  /\ child' = [child EXCEPT ![r] = t]
  /\ StoreOrWarn(r, "syncing", t)
  /\ SetLeft(r, "open")

\* Mutant: a start that showed nothing in time clears its record.
AwaitMutant(r) ==
  /\ pc[r] = "await"
  /\ \/ ~Halted(r) /\ Return(r) /\ rec' = NoRecord /\ UNCHANGED <<child, left>>
     \/ /\ ~Halted(r)
        /\ \E seen \in Sights, t \in Births : IsOurs(r, t, seen) /\ Adopt(r, t)
        /\ Go(r, "wait") /\ UNCHANGED lock
  /\ UNCHANGED <<computer, mode, snap, at, took>> /\ Aside

\* S6.  At the limit, and after a stop, the launching record stays.
Await(r) ==
  /\ pc[r] = "await"
  /\ \/ /\ Halted(r)
        /\ IF CancelQuit(r) THEN Go(r, "poll") /\ UNCHANGED lock ELSE Return(r)
        /\ UNCHANGED <<rec, child, left>>
     \/ ~Halted(r) /\ Return(r) /\ UNCHANGED <<rec, child, left>>
     \/ /\ ~Halted(r)
        /\ \E seen \in Sights, t \in Births : IsOurs(r, t, seen) /\ Adopt(r, t)
        /\ Go(r, "wait") /\ UNCHANGED lock
  /\ UNCHANGED <<computer, mode, snap, at, took>> /\ Aside

\* The person's Cancel in an attended run: the child is looked for all the same.
Poll(r) ==
  /\ pc[r] = "poll"
  /\ \/ Return(r) /\ UNCHANGED <<rec, child, left>>
     \/ /\ ~Stopped(r)
        /\ \E seen \in Sights, t \in Births : IsOurs(r, t, seen) /\ Adopt(r, t)
        /\ Go(r, "leave") /\ UNCHANGED lock
  /\ UNCHANGED <<computer, mode, snap, at, took>> /\ Aside

\* S7.
Wait(r) ==
  /\ pc[r] = "wait"
  /\ \/ /\ Halted(r)
        /\ IF CancelQuit(r) THEN Go(r, "leave") /\ UNCHANGED <<rec, lock>>
           ELSE Return(r) /\ StoreOrWarn(r, "left-running", child[r])
        /\ UNCHANGED left
     \/ \* the person ends the wait
        /\ ~Halted(r) /\ mode[r] = "attended"
        /\ Go(r, "leave") /\ UNCHANGED <<rec, lock, left>>
     \/ \* quiet, or the longest wait
        /\ ~Halted(r)
        /\ Go(r, "close") /\ UNCHANGED <<rec, lock, left>>
     \/ \* closed before quiet
        /\ ~Halted(r) /\ child[r] \notin alive
        /\ Return(r) /\ SetLeft(r, "none") /\ UNCHANGED rec
  /\ UNCHANGED <<computer, session, took>> /\ Aside

\* Mutant: the record of a Thunderbird left to the person is not removed.
LeaveMutant(r) ==
  /\ pc[r] = "leave"
  /\ SetLeft(r, "by-rule")
  /\ byRule' = byRule \cup {child[r]}
  /\ Return(r)
  /\ UNCHANGED <<computer, rec, session, watch, took, kept>>

\* leaveOpenByRule.
Leave(r) ==
  /\ pc[r] = "leave"
  /\ \E seen \in Sights :
       IF IsOurs(r, child[r], seen)
         THEN /\ Cleared
              /\ SetLeft(r, "by-rule")
              /\ byRule' = byRule \cup {child[r]}
              /\ kept' = rec'
       ELSE IF (\A t \in seen : ~CandidateIsOurs(r, t)) /\ child[r] \notin alive
         THEN Cleared /\ SetLeft(r, "exited") /\ UNCHANGED <<byRule, kept>>
       ELSE SetLeft(r, "open") /\ UNCHANGED <<rec, byRule, kept>>
  /\ Return(r)
  /\ UNCHANGED <<computer, session, watch, took>>

(***************************************************************************)
(* S8 and S9: the request to quit.                                         *)
(***************************************************************************)
\* Our Thunderbird stays, with a record the next run announces.
LeaveRunning(r) == Return(r) /\ StoreOrWarn(r, "left-running", child[r])

\* An attended session never asks; a scheduled one only while the person is away.
Close(r) ==
  /\ pc[r] = "close"
  /\ \/ mode[r] = "attended" /\ Go(r, "leave") /\ UNCHANGED <<rec, lock>>
     \/ mode[r] = "scheduled" /\ LeaveRunning(r)
     \/ mode[r] = "scheduled" /\ Go(r, "prequit") /\ UNCHANGED <<rec, lock>>
  /\ UNCHANGED <<computer, session, left, took>> /\ Aside

\* preQuit.  A bundle-wide request needs ours to be the only one; a count that cannot
\* be read counts as more.
PreQuit(r) ==
  /\ pc[r] = "prequit"
  /\ \/ Halted(r) /\ LeaveRunning(r)
     \/ /\ ~Halted(r)
        /\ \E seen \in Sights : ~IsOurs(r, child[r], seen)
        /\ Return(r) /\ UNCHANGED rec
     \/ /\ ~Halted(r)
        /\ \E seen \in Sights : IsOurs(r, child[r], seen)
        /\ BundleWide /\ ("probe" \notin Trouble => Cardinality(alive) > 1)
        /\ LeaveRunning(r)
     \/ /\ ~Halted(r)
        /\ \E seen \in Sights : IsOurs(r, child[r], seen)
        /\ BundleWide => Cardinality(alive) =< 1
        /\ StoreOrWarn(r, "quitting", child[r])
        /\ Go(r, "ask") /\ UNCHANGED lock
  /\ UNCHANGED <<computer, session, left, took>> /\ Aside

Ask(r) ==
  /\ pc[r] = "ask"
  /\ IF Halted(r) THEN LeaveRunning(r) ELSE Go(r, "post") /\ UNCHANGED <<rec, lock>>
  /\ UNCHANGED <<computer, session, left, took>> /\ Aside

\* The quit reaches our Thunderbird alone, or, bundle-wide, all there are.
Reached(r) == IF BundleWide THEN alive ELSE {child[r]}

\* env.quit, and what the session makes of its answer.
Post(r) ==
  /\ pc[r] = "post"
  /\ \/ \* posted
        /\ ~BundleWide => child[r] \in alive /\ ~Stopped(r)
        /\ asked' = asked \cup Reached(r)
        /\ Go(r, "exit")
        /\ UNCHANGED <<rec, lock, left>>
     \/ \* not posted: ours had gone already
        /\ ~BundleWide /\ child[r] \notin alive
        /\ Cleared /\ SetLeft(r, "none")
        /\ Return(r) /\ UNCHANGED asked
     \/ \* not posted, or not permitted: ours stays open
        /\ ~BundleWide => child[r] \in alive
        /\ LeaveRunning(r) /\ UNCHANGED <<left, asked>>
  /\ UNCHANGED <<born, alive, by, coming, boot, session, took>> /\ Aside

\* The exit wait, and S9.
Exit(r) ==
  /\ pc[r] = "exit"
  /\ \/ child[r] \in alive /\ LeaveRunning(r) /\ UNCHANGED left
     \/ child[r] \notin alive /\ Return(r) /\ Cleared /\ SetLeft(r, "closed")
  /\ UNCHANGED <<computer, session, took>> /\ Aside

Session(r) ==
  \/ AcquireLock(r) \/ Recover(r) \/ Detect(r) \/ Recheck(r)
  \/ Snapshot(r) \/ Write(r) \/ Mark(r) \/ Check(r) \/ Start(r)
  \/ Await(r) \/ Poll(r) \/ Wait(r) \/ Leave(r)
  \/ Close(r) \/ PreQuit(r) \/ Ask(r) \/ Post(r) \/ Exit(r)

(***************************************************************************)
(* The run around a session: its watchdog and its caller.                  *)
(***************************************************************************)
\* Runs are numbered in the order they begin in.
Begin(r, m) ==
  /\ caller[r] = "out"
  /\ \A q \in Runs : q < r => caller[q] # "out"
  /\ caller' = [caller EXCEPT ![r] = "waiting"]
  /\ mode' = [mode EXCEPT ![r] = m]
  /\ Go(r, "lock")
  /\ UNCHANGED <<computer, rec, lock, snap, at, child, left, stopped, gaveUp, told,
                 took, byRule, kept>>

\* A Stop, or the person's Cancel, which only an attended run has.
Interrupt(r, how) ==
  /\ caller[r] = "waiting"
  /\ stopped[r] # "stop" /\ stopped[r] # how
  /\ how = "cancel" => mode[r] = "attended"
  /\ stopped' = [stopped EXCEPT ![r] = how]
  /\ UNCHANGED <<computer, rec, lock, pc, session, left, gaveUp, caller, told, took, byRule, kept>>

\* The session's own result.
Deliver(r) ==
  /\ caller[r] = "waiting" /\ pc[r] = "returned" /\ r \notin gaveUp
  /\ told' = [told EXCEPT ![r] = left[r]]
  /\ caller' = [caller EXCEPT ![r] = "reading"]
  /\ UNCHANGED <<computer, rec, lock, pc, session, left, stopped, gaveUp, took, byRule, kept>>

\* Mutant: the watchdog starts to count when a Thunderbird is up.
GiveUpMutant(r) ==
  /\ caller[r] = "waiting" /\ pc[r] \in {"wait", "close"} /\ r \notin gaveUp
  /\ gaveUp' = gaveUp \cup {r}
  /\ UNCHANGED <<computer, rec, lock, pc, session, left, stopped, caller, told, took, byRule, kept>>

\* The budget is over, or the run is stopped: the session is abandoned, and only then
\* the watchdog reads what the session last said.
GiveUp(r) ==
  /\ caller[r] = "waiting" /\ pc[r] # "returned" /\ r \notin gaveUp
  /\ gaveUp' = gaveUp \cup {r}
  /\ UNCHANGED <<computer, rec, lock, pc, session, left, stopped, caller, told, took, byRule, kept>>

Tell(r) ==
  /\ caller[r] = "waiting" /\ r \in gaveUp
  /\ told' = [told EXCEPT ![r] = left[r]]
  /\ caller' = [caller EXCEPT ![r] = "reading"]
  /\ UNCHANGED <<computer, rec, lock, pc, session, left, stopped, gaveUp, took, byRule, kept>>

\* Mutant: an abandoned session's lock is left to the session alone.
FreedByReadingMutant(r) == lock = r /\ r \notin gaveUp

\* The session's own release, or the latch's caller half.
FreedByReading(r) == lock = r /\ (r \in gaveUp => pc[r] = "returned")

Release(r) ==
  /\ caller[r] = "reading"
  /\ caller' = [caller EXCEPT ![r] = "done"]
  /\ lock' = IF FreedByReading(r) THEN 0 ELSE lock
  /\ UNCHANGED <<computer, rec, pc, session, left, stopped, gaveUp, told, took, byRule, kept>>

Running(r) == caller[r] \in {"waiting", "reading"} \/ pc[r] \notin {"out", "returned", "dead"}

\* The process is killed: its session, watchdog and caller go, the file lock with it.
Kill(r) ==
  /\ Running(r)
  /\ pc' = [pc EXCEPT ![r] = "dead"]
  /\ caller' = [caller EXCEPT ![r] = "dead"]
  /\ lock' = IF lock = r THEN 0 ELSE lock
  /\ UNCHANGED <<computer, rec, session, left, stopped, gaveUp, told, took, byRule, kept>>

(***************************************************************************)
(* The person and the computer.                                            *)
(***************************************************************************)
\* A Thunderbird appears.
Appears(who) ==
  /\ born < MaxBorn
  /\ born' = born + 1
  /\ alive' = alive \cup {born + 1}
  /\ by' = [by EXCEPT ![born + 1] = who]

Opens ==
  /\ Appears(Person)
  /\ UNCHANGED <<coming, asked, boot, rec, lock, pc, session, left, watch, took, byRule, kept>>

ComesUp(r) ==
  /\ r \in coming
  /\ coming' = coming \ {r}
  /\ Appears(r) \/ UNCHANGED <<born, alive, by>>
  /\ UNCHANGED <<asked, boot, rec, lock, pc, session, left, watch, took, byRule, kept>>

\* It is closed, by the person, by a request, or by itself.
Quits(t) ==
  /\ t \in alive
  /\ alive' = alive \ {t}
  /\ UNCHANGED <<born, by, coming, asked, boot, rec, lock, pc, session, left, watch,
                 took, byRule, kept>>

\* The record becomes unreadable from outside.
Spoil ==
  /\ "spoil" \in Trouble
  /\ rec.state \in States
  /\ rec' = Unreadable
  /\ UNCHANGED <<computer, lock, pc, session, left, watch, took, byRule, kept>>

Restart ==
  /\ boot < MaxBoots
  /\ boot' = boot + 1
  /\ alive' = {} /\ coming' = {}
  /\ pc' = [r \in Runs |-> IF Running(r) THEN "dead" ELSE pc[r]]
  /\ caller' = [r \in Runs |-> IF Running(r) THEN "dead" ELSE caller[r]]
  /\ lock' = 0
  /\ UNCHANGED <<born, by, asked, rec, session, left, stopped, gaveUp, told, took, byRule, kept>>

Next ==
  \/ \E r \in Runs :
       \/ \E m \in Modes : Begin(r, m)
       \/ Session(r)
       \/ \E how \in {"cancel", "stop"} : Interrupt(r, how)
       \/ Deliver(r) \/ GiveUp(r) \/ Tell(r) \/ Release(r) \/ Kill(r) \/ ComesUp(r)
  \/ Opens \/ Spoil \/ Restart
  \/ \E t \in Births : Quits(t)

Spec == Init /\ [][Next]_vars

\* The watchdog's timer fires and the caller goes on; a session may hang for ever in a
\* folder that does not answer, and is owed nothing.
Fairness == \A r \in Runs : WF_vars(Deliver(r)) /\ WF_vars(GiveUp(r)) /\ WF_vars(Tell(r))

FairSpec == Spec /\ Fairness

(***************************************************************************)
(* Properties.                                                             *)
(***************************************************************************)
\* Only a Thunderbird that a session started is ever asked to quit, whatever the
\* person opens and closes between the checks.
AsksOnlyItsOwn == \A t \in asked : by[t] # Person

\* A run that was told that nothing of its own is open is told the truth, for good: no
\* Thunderbird it started runs, and none will still appear, also when its watchdog gave
\* up while the session was about to start one.
ToldIsTrue ==
  \A r \in Runs : told[r] \in NothingOpen =>
    r \notin coming /\ \A t \in alive : by[t] # r

\* No session starts Thunderbird, which compacts the profile's mail, while another run
\* that took the profile's lock has not finished its reading.
NoSyncDuringRead ==
  [][\A r \in coming' \ coming, q \in took :
       q # r => caller[q] \notin {"waiting", "reading"}]_vars

\* The profile's lock is held only by a run whose session or caller still needs it: it
\* leaks past neither half of the latch, nor a kill.
LockIsNeeded == lock # 0 => Running(lock)

\* A Thunderbird that a session started and no longer watches, and did not leave to the
\* person by rule, is one the next run recognises as ours and announces.
LeftoverIsRecognised ==
  \A t \in alive :
    by[t] # Person /\ ~Running(by[t]) /\ t \notin byRule => Leftover(alive)

\* A Thunderbird left open to the person by rule is theirs: while it runs none asks it to
\* quit, whatever fails, and a later run takes it for a leftover of ours by no record but
\* the very one whose removal failed when it was left: no other, older or newer, names it.
LeftByRuleIsTheirs ==
  \A t \in byRule \cap alive : t \notin asked /\ (Leftover({t}) => rec = kept)

\* The pre-sync never keeps a backup from its reading, whatever its session hangs on.
ArchiveGoesOn ==
  \A r \in Runs : caller[r] = "waiting" ~> caller[r] # "waiting"
=============================================================================
