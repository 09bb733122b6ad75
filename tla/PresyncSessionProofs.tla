------------------------ MODULE PresyncSessionProofs ------------------------
(***************************************************************************)
(* Proofs about the pre-sync's sessions, for any number of runs, of        *)
(* Thunderbirds and of restarts.                                           *)
(***************************************************************************)
EXTENDS PresyncSession, TLAPS

(***************************************************************************)
(* The lock of the profile.                                                *)
(***************************************************************************)
Idle == {"out", "lock", "returned", "dead"}

(* The session holds the profile's lock. *)
Holds(r) == pc[r] \notin Idle

(* One run's part: what it holds, and in which order its session, its watchdog and its
   caller come to an end. *)
LockedWell(r) ==
  /\ Holds(r) => lock = r /\ r \in took
  /\ r \in took /\ caller[r] \in {"waiting", "reading"} => lock = r
  /\ lock = r => Running(r) /\ r \in took
  /\ pc[r] \in {"out", "lock"} => r \notin took
  /\ pc[r] = "out" <=> caller[r] = "out"
  /\ pc[r] = "dead" <=> caller[r] = "dead"
  /\ caller[r] \in {"reading", "done"} /\ r \notin gaveUp => pc[r] = "returned"

LockInv == \A r \in Runs : LockedWell(r)

(***************************************************************************)
(* Whose Thunderbird a session takes for its own.                          *)
(***************************************************************************)
(* Where a session has its snapshot, and where it has its Thunderbird. *)
Snapped == PCs \ (Idle \cup {"recover", "detect", "recheck", "snapshot"})
Proven == {"wait", "leave", "close", "prequit", "ask", "post", "exit"}

(* A proven Thunderbird is one that a start of ours showed, after this start. *)
ProvenInv ==
  \A r \in Runs :
    /\ pc[r] \in Proven => child[r] # 0
    /\ child[r] # 0 =>
         /\ pc[r] \in Proven \cup {"returned", "dead"}
         /\ child[r] \in 1..born /\ by[child[r]] # Person /\ child[r] > at[r]

(* The record names no Thunderbird left to the person, nor a start that one came from. *)
ClaimsNone ==
  /\ rec.state \in States => rec.child \notin byRule
  /\ rec.state = "launching" => byRule \subseteq 1..rec.at

(* What was asked to quit and what was left to the person is older than the start of a
   session that goes on, and than the start that a record tells of, unless it is the one
   that could not be removed. *)
OlderInv ==
  /\ \A r \in Runs : pc[r] \in Snapped => byRule \subseteq 1..at[r]
  /\ \A r \in Runs : pc[r] \in Snapped \ {"exit"} => asked \subseteq 1..at[r]
  /\ rec = kept \/ ClaimsNone
  /\ asked \cap byRule = {}

(***************************************************************************)
(* What a run started.                                                     *)
(***************************************************************************)
Started == {"await", "poll"} \cup Proven

(* A run starts at most one Thunderbird, and it is the one its session takes for its own;
   while a session is past its recovery no start but its own is under way. *)
OneEach(r) ==
  /\ r \in coming => child[r] = 0 /\ \A t \in 1..born : by[t] # r
  /\ \A t, u \in 1..born : by[t] = r /\ by[u] = r => t = u
  /\ child[r] # 0 => by[child[r]] = r
  /\ pc[r] \notin Started \cup {"returned", "dead"} =>
       child[r] = 0 /\ r \notin coming /\ \A t \in 1..born : by[t] # r
  /\ Holds(r) /\ pc[r] # "recover" => coming \subseteq {r}
  /\ pc[r] \in Snapped => \A t \in 1..born : t > at[r] => by[t] \in {Person, r}

OneEachInv == \A r \in Runs : OneEach(r)

Nothing(r) == r \notin coming /\ \A t \in alive : by[t] # r

(* What a session says of itself, and what its watchdog reads of that. *)
Said(r) ==
  /\ left[r] \in NothingOpen => Nothing(r) /\ pc[r] \notin {"check", "start"} \cup Started
  /\ told[r] \in NothingOpen =>
       /\ caller[r] \notin {"out", "waiting"}
       /\ Nothing(r) /\ pc[r] \notin {"start"} \cup Started
       /\ pc[r] \notin {"returned", "dead"} => r \in gaveUp

SaidInv == \A r \in Runs : Said(r)

(***************************************************************************)
(* What the record says of a Thunderbird nobody watches any more.          *)
(***************************************************************************)
(* The record names Thunderbird t, or a start it may have come from. *)
Recorded(t) ==
  /\ rec.state \in States /\ rec.boot = boot
  /\ \/ rec.child = t
     \/ rec.state = "launching" /\ rec.child = 0 /\ rec.at < t

(* A start is on record. *)
Launched == rec.state = "launching" /\ rec.child = 0 /\ rec.boot = boot /\ rec.at <= born

(* Whatever a session started is on record from before its start until it has gone or is
   left to the person, and no session that wrote a record of its own passed one by. *)
RecordedInv ==
  /\ \A r \in Runs :
       /\ at[r] <= born
       /\ pc[r] \in {"mark", "check", "start", "await", "poll"} => rec = Stored(r, "launching", 0)
       /\ Holds(r) /\ pc[r] # "recover" =>
            \A t \in alive : by[t] \notin {Person, r} => t \in byRule
  /\ coming # {} => Launched
  /\ \A t \in alive : by[t] # Person /\ t \notin byRule => Recorded(t)

(***************************************************************************)
(* What a look at the processes shows.                                     *)
(***************************************************************************)
LEMMA SightsAreAlive == \A seen \in Sights : seen \subseteq alive
  BY DEF Sights

LEMMA AliveAreBirths ==
  ASSUME TypeOK
  PROVE  alive \in SUBSET Births
<1>1. born \in 0..MaxBorn /\ alive \subseteq 1..born
  BY DEF TypeOK
<1>2. 1..born \subseteq 1..MaxBorn
  BY <1>1, BoundsAssumption
<1>3. QED BY <1>1, <1>2 DEF Births

LEMMA OursIsACandidate ==
  ASSUME NEW r \in Runs, NEW t, NEW seen \in Sights, IsOurs(r, t, seen)
  PROVE  t \in alive /\ by[t] # Person /\ t \notin snap[r] /\ t > at[r]
<1>1. t \in {u \in seen : CandidateIsOurs(r, u)}
  BY DEF IsOurs
<1>2. QED BY <1>1, SightsAreAlive DEF CandidateIsOurs, NamesProfile

(***************************************************************************)
(* The types, and the Thunderbirds taken for ours.                         *)
(***************************************************************************)
TypeInv == TypeOK /\ ProvenInv

LEMMA StoredIsARecord ==
  ASSUME TypeOK, NEW r \in Runs, NEW state \in States, NEW c \in 0..MaxBorn
  PROVE  Stored(r, state, c) \in Record
  BY DEF TypeOK, Stored, Record

LEMMA StoreKeepsType ==
  ASSUME TypeOK, NEW r \in Runs, NEW state \in States, NEW c \in 0..MaxBorn,
         StoreOrWarn(r, state, c)
  PROVE  rec' \in Record \cup {NoRecord, Unreadable}
<1>1. Stored(r, state, c) \in Record
  BY StoredIsARecord
<1>2. rec' = Stored(r, state, c) \/ rec' = rec
  BY DEF StoreOrWarn
<1>3. QED BY <1>1, <1>2 DEF TypeOK

LEMMA TypesStart == Init => TypeInv
<1> SUFFICES ASSUME Init PROVE TypeInv
  OBVIOUS
<1>1. 0 \in 0..MaxBorn /\ 0 \in 0..MaxBoots
  BY BoundsAssumption
<1>2. TypeOK
  BY <1>1 DEF Init, TypeOK, Person, PCs, Lefts
<1>3. ProvenInv
  BY DEF Init, ProvenInv, Proven
<1>4. QED BY <1>2, <1>3 DEF TypeInv

LEMMA ReturnKeepsType ==
  ASSUME TypeOK, NEW r \in Runs, Return(r)
  PROVE  /\ lock' \in Runs \cup {0} /\ pc' \in [Runs -> PCs]
         /\ pc'[r] = "returned" /\ \A q \in Runs \ {r} : pc'[q] = pc[q]
<1>1. /\ pc \in [Runs -> PCs] /\ lock \in Runs \cup {0} /\ "returned" \in PCs
      /\ pc' = [pc EXCEPT ![r] = "returned"] /\ lock' \in {0, lock}
  BY DEF TypeOK, Return, Go, PCs
<1>2. QED BY <1>1

LEMMA GoKeepsType ==
  ASSUME TypeOK, NEW r \in Runs, NEW where \in PCs, Go(r, where)
  PROVE  /\ pc' \in [Runs -> PCs]
         /\ pc'[r] = where /\ \A q \in Runs \ {r} : pc'[q] = pc[q]
<1>1. pc \in [Runs -> PCs] /\ pc' = [pc EXCEPT ![r] = where]
  BY DEF TypeOK, Go
<1>2. QED BY <1>1

LEMMA SetLeftKeepsType ==
  ASSUME TypeOK, NEW r \in Runs, left' = left \/ \E l \in Lefts : SetLeft(r, l)
  PROVE  left' \in [Runs -> Lefts]
<1>1. left \in [Runs -> Lefts]
  BY DEF TypeOK
<1>2. QED BY <1>1 DEF SetLeft

LEMMA FirstStepsKeepType ==
  ASSUME TypeInv, NEW r \in Runs,
         AcquireLock(r) \/ Recover(r) \/ Detect(r) \/ Recheck(r)
  PROVE  TypeInv'
<1>1. UNCHANGED <<computer, session, left, watch, byRule, kept>>
  BY DEF AcquireLock, Recover, Detect, Recheck, Aside
<1>2. rec' \in {rec, NoRecord} /\ took' \subseteq took \cup {r}
  BY DEF AcquireLock, Recover, Detect, Recheck, Cleared
<1>3. /\ lock' \in Runs \cup {0} /\ pc' \in [Runs -> PCs]
      /\ pc'[r] \notin Proven /\ \A q \in Runs \ {r} : pc'[q] = pc[q]
  <2>1. \/ Return(r)
        \/ /\ \E where \in {"recover", "detect", "recheck", "snapshot"} : Go(r, where)
           /\ lock' \in {lock, r}
    BY DEF AcquireLock, Recover, Detect, Recheck
  <2>2. TypeOK /\ lock \in Runs \cup {0}
    BY DEF TypeInv, TypeOK
  <2>3. CASE Return(r)
    BY <2>2, <2>3, ReturnKeepsType DEF Proven
  <2>4. ASSUME NEW where \in {"recover", "detect", "recheck", "snapshot"}, Go(r, where),
               lock' \in {lock, r}
        PROVE  /\ lock' \in Runs \cup {0} /\ pc' \in [Runs -> PCs]
               /\ pc'[r] \notin Proven /\ \A q \in Runs \ {r} : pc'[q] = pc[q]
    <3>1. where \in PCs /\ where \notin Proven
      BY DEF PCs, Proven
    <3>2. QED BY <2>2, <2>4, <3>1, GoKeepsType
  <2>5. QED BY <2>1, <2>3, <2>4
<1>4. pc[r] \notin Proven \cup {"returned", "dead"}
  BY DEF AcquireLock, Recover, Detect, Recheck, Proven
<1>5. TypeOK'
  BY <1>1, <1>2, <1>3 DEF TypeInv, TypeOK, computer, session, watch
<1>6. ProvenInv'
  BY <1>1, <1>3, <1>4 DEF TypeInv, ProvenInv, computer, session
<1>7. QED BY <1>5, <1>6 DEF TypeInv

LEMMA StartStepsKeepType ==
  ASSUME TypeInv, NEW r \in Runs,
         Snapshot(r) \/ Write(r) \/ Mark(r) \/ Check(r) \/ Start(r)
  PROVE  TypeInv'
<1>1. UNCHANGED <<born, alive, by, asked, boot, mode, child, watch, took, byRule, kept>>
  BY DEF Snapshot, Write, Mark, Check, Start, Aside, computer, session
<1>2. coming' \subseteq coming \cup {r}
  BY DEF Snapshot, Write, Mark, Check, Start, computer
<1>3. rec' \in Record \cup {NoRecord, Unreadable}
  <2>1. Stored(r, "launching", 0) \in Record
    BY StoredIsARecord, BoundsAssumption DEF TypeInv, States
  <2>2. rec' = rec \/ rec' = NoRecord \/ rec' = Stored(r, "launching", 0)
    BY DEF Snapshot, Write, Mark, Check, Start, Cleared
  <2>3. QED BY <2>1, <2>2 DEF TypeInv, TypeOK
<1>4. /\ lock' \in Runs \cup {0} /\ pc' \in [Runs -> PCs]
      /\ pc'[r] \notin Proven /\ \A q \in Runs \ {r} : pc'[q] = pc[q]
  <2>1. \/ Return(r)
        \/ /\ \E where \in {"write", "mark", "check", "start", "await"} : Go(r, where)
           /\ lock' = lock
    BY DEF Snapshot, Write, Mark, Check, Start
  <2>2. TypeOK /\ lock \in Runs \cup {0}
    BY DEF TypeInv, TypeOK
  <2>3. CASE Return(r)
    BY <2>2, <2>3, ReturnKeepsType DEF Proven
  <2>4. ASSUME NEW where \in {"write", "mark", "check", "start", "await"}, Go(r, where),
               lock' = lock
        PROVE  /\ lock' \in Runs \cup {0} /\ pc' \in [Runs -> PCs]
               /\ pc'[r] \notin Proven /\ \A q \in Runs \ {r} : pc'[q] = pc[q]
    <3>1. where \in PCs /\ where \notin Proven
      BY DEF PCs, Proven
    <3>2. QED BY <2>2, <2>4, <3>1, GoKeepsType
  <2>5. QED BY <2>1, <2>3, <2>4
<1>5. /\ snap' \in [Runs -> SUBSET Births]
      /\ at' \in [Runs -> 0..MaxBorn]
      /\ \A q \in Runs : at'[q] = at[q] \/ (q = r /\ pc[r] = "snapshot")
  <2>1. CASE Snapshot(r)
    <3>1. PICK seen \in Sights : snap' = [snap EXCEPT ![r] = seen]
      BY <2>1 DEF Snapshot
    <3>2. seen \in SUBSET Births
      BY SightsAreAlive, AliveAreBirths DEF TypeInv
    <3>3. QED BY <2>1, <3>1, <3>2 DEF TypeInv, TypeOK, Snapshot
  <2>2. CASE ~Snapshot(r)
    <3>1. UNCHANGED <<snap, at>>
      BY <2>2 DEF Write, Mark, Check, Start, session
    <3>2. snap \in [Runs -> SUBSET Births] /\ at \in [Runs -> 0..MaxBorn]
      BY DEF TypeInv, TypeOK
    <3>3. QED BY <3>1, <3>2
  <2>3. QED BY <2>1, <2>2
<1>6. left' \in [Runs -> Lefts]
  <2>1. left' = left \/ \E l \in {"may-be-starting", "none"} : SetLeft(r, l)
    BY DEF Snapshot, Write, Mark, Check, Start
  <2>2. QED BY <2>1, SetLeftKeepsType DEF TypeInv, Lefts
<1>7. TypeOK'
  BY <1>1, <1>2, <1>3, <1>4, <1>5, <1>6 DEF TypeInv, TypeOK, watch
<1>8. pc[r] \notin Proven \cup {"returned", "dead"}
  BY DEF Snapshot, Write, Mark, Check, Start, Proven
<1>9. ProvenInv'
  <2>1. \A q \in Runs : child'[q] # 0 => at'[q] = at[q]
    BY <1>1, <1>5, <1>8 DEF TypeInv, ProvenInv, Proven
  <2>2. QED BY <1>1, <1>4, <1>8, <2>1 DEF TypeInv, ProvenInv
<1>10. QED BY <1>7, <1>9 DEF TypeInv

(* A session that takes a Thunderbird for its own has it proven. *)
LEMMA AdoptKeepsType ==
  ASSUME TypeInv, NEW r \in Runs, NEW seen \in Sights, NEW t, IsOurs(r, t, seen), Adopt(r, t)
  PROVE  /\ rec' \in Record \cup {NoRecord, Unreadable}
         /\ child' \in [Runs -> 0..MaxBorn] /\ left' \in [Runs -> Lefts]
         /\ child'[r] = t /\ \A q \in Runs \ {r} : child'[q] = child[q]
         /\ t \in 1..born /\ by[t] # Person /\ t > at[r]
<1>1. t \in alive /\ by[t] # Person /\ t > at[r]
  BY OursIsACandidate
<1>2. t \in 1..born /\ t \in 0..MaxBorn
  <2>1. alive \subseteq 1..born /\ born \in 0..MaxBorn
    BY DEF TypeInv, TypeOK
  <2>2. QED BY <1>1, <2>1, BoundsAssumption
<1>3. rec' \in Record \cup {NoRecord, Unreadable}
  BY <1>2, StoreKeepsType DEF TypeInv, Adopt, States
<1>4. left' \in [Runs -> Lefts]
  BY DEF TypeInv, TypeOK, Adopt, SetLeft, Lefts
<1>5. child \in [Runs -> 0..MaxBorn] /\ child' = [child EXCEPT ![r] = t]
  BY DEF TypeInv, TypeOK, Adopt
<1>6. QED BY <1>1, <1>2, <1>3, <1>4, <1>5

LEMMA LookStepsKeepType ==
  ASSUME TypeInv, NEW r \in Runs, Await(r) \/ Poll(r)
  PROVE  TypeInv'
<1>1. UNCHANGED <<computer, mode, snap, at, watch, took, byRule, kept>>
  BY DEF Await, Poll, Aside
<1>2. lock' \in Runs \cup {0} /\ pc' \in [Runs -> PCs]
  BY ReturnKeepsType DEF TypeInv, TypeOK, Await, Poll, Go, PCs
<1>3. pc[r] \in {"await", "poll"} /\ \A q \in Runs \ {r} : pc'[q] = pc[q]
  BY DEF TypeInv, TypeOK, Await, Poll, Return, Go
<1>4. CASE UNCHANGED <<rec, child, left>> /\ pc'[r] \notin Proven
  <2>1. child[r] = 0
    BY <1>3 DEF TypeInv, ProvenInv, Proven
  <2>2. TypeOK'
    BY <1>1, <1>2, <1>4 DEF TypeInv, TypeOK, computer, watch
  <2>3. ProvenInv'
    BY <1>1, <1>3, <1>4, <2>1 DEF TypeInv, ProvenInv, computer
  <2>4. QED BY <2>2, <2>3 DEF TypeInv
<1>5. CASE /\ \E seen \in Sights, t \in Births : IsOurs(r, t, seen) /\ Adopt(r, t)
           /\ pc'[r] \in Proven
  <2>1. PICK seen \in Sights, t \in Births : IsOurs(r, t, seen) /\ Adopt(r, t)
    BY <1>5
  <2>2. /\ rec' \in Record \cup {NoRecord, Unreadable}
        /\ child' \in [Runs -> 0..MaxBorn] /\ left' \in [Runs -> Lefts]
        /\ child'[r] = t /\ \A q \in Runs \ {r} : child'[q] = child[q]
        /\ t \in 1..born /\ by[t] # Person /\ t > at[r]
    BY <2>1, AdoptKeepsType
  <2>3. TypeOK'
    BY <1>1, <1>2, <2>2 DEF TypeInv, TypeOK, computer, watch
  <2>4. ProvenInv'
    BY <1>1, <1>3, <1>5, <2>2 DEF TypeInv, ProvenInv, computer
  <2>5. QED BY <2>3, <2>4 DEF TypeInv
<1>6. QED BY <1>4, <1>5 DEF TypeInv, TypeOK, Await, Poll, Return, Go, Proven

LEMMA LastStepsKeepType ==
  ASSUME TypeInv, NEW r \in Runs,
         Wait(r) \/ Leave(r) \/ Close(r) \/ PreQuit(r) \/ Ask(r) \/ Post(r) \/ Exit(r)
  PROVE  TypeInv'
<1>1. /\ UNCHANGED <<born, alive, by, coming, boot, session, watch, took>>
      /\ asked' = asked \/ asked' = asked \cup Reached(r)
      /\ byRule' = byRule \/ byRule' = byRule \cup {child[r]}
      /\ kept' = kept \/ kept' = rec'
  BY DEF Wait, Leave, Close, PreQuit, Ask, Post, Exit, Aside, computer
<1>2. pc[r] \in Proven /\ child[r] \in 1..born /\ child[r] \in 0..MaxBorn
  BY DEF TypeInv, TypeOK, ProvenInv, Wait, Leave, Close, PreQuit, Ask, Post, Exit, Proven
<1>3. asked' \subseteq 1..born /\ byRule' \subseteq 1..born
  BY <1>1, <1>2 DEF TypeInv, TypeOK, Reached
<1>4. rec' \in Record \cup {NoRecord, Unreadable}
  <2>1. \/ rec' = rec \/ rec' = NoRecord
        \/ \E state \in States : StoreOrWarn(r, state, child[r])
    BY DEF Wait, Leave, Close, PreQuit, Ask, Post, Exit, LeaveRunning, Cleared, States
  <2>2. QED BY <1>2, <2>1, StoreKeepsType DEF TypeInv, TypeOK
<1>5. /\ lock' \in Runs \cup {0} /\ pc' \in [Runs -> PCs]
      /\ pc'[r] \in Proven \cup {"returned"} /\ \A q \in Runs \ {r} : pc'[q] = pc[q]
  <2>1. Return(r) \/ \E where \in Proven : Go(r, where) /\ lock' = lock
    BY DEF Wait, Leave, Close, PreQuit, Ask, Post, Exit, LeaveRunning, Proven
  <2>2. pc \in [Runs -> PCs] /\ lock \in Runs \cup {0} /\ Proven \subseteq PCs
    BY DEF TypeInv, TypeOK, Proven, PCs
  <2>3. CASE Return(r)
    BY <2>2, <2>3 DEF Return, Go, PCs
  <2>4. CASE \E where \in Proven : Go(r, where) /\ lock' = lock
    BY <2>2, <2>4 DEF Go
  <2>5. QED BY <2>1, <2>3, <2>4
<1>6. left' \in [Runs -> Lefts]
  <2>1. left' = left \/ \E l \in {"none", "by-rule", "exited", "open", "closed"} : SetLeft(r, l)
    BY DEF Wait, Leave, Close, PreQuit, Ask, Post, Exit
  <2>2. QED BY <2>1, SetLeftKeepsType DEF TypeInv, Lefts
<1>7. TypeOK'
  BY <1>1, <1>3, <1>4, <1>5, <1>6 DEF TypeInv, TypeOK, session, watch
<1>8. ProvenInv'
  BY <1>1, <1>2, <1>5 DEF TypeInv, ProvenInv, session
<1>9. QED BY <1>7, <1>8 DEF TypeInv

LEMMA SessionKeepsType ==
  ASSUME TypeInv, NEW r \in Runs, Session(r)
  PROVE  TypeInv'
  BY FirstStepsKeepType, StartStepsKeepType, LookStepsKeepType, LastStepsKeepType DEF Session

LEMMA RunKeepsType ==
  ASSUME TypeInv, LockInv, NEW r \in Runs,
         \/ \E m \in Modes : Begin(r, m)
         \/ \E how \in {"cancel", "stop"} : Interrupt(r, how)
         \/ Deliver(r) \/ GiveUp(r) \/ Tell(r) \/ Release(r) \/ Kill(r)
  PROVE  TypeInv'
<1>1. UNCHANGED <<computer, rec, snap, at, child, left, took, byRule, kept>>
  BY DEF Begin, Interrupt, Deliver, GiveUp, Tell, Release, Kill, session
<1>2. lock' \in Runs \cup {0} /\ gaveUp' \subseteq Runs
  BY DEF TypeInv, TypeOK, Begin, Interrupt, Deliver, GiveUp, Tell, Release, Kill
<1>3. /\ pc' \in [Runs -> PCs]
      /\ caller' \in [Runs -> {"out", "waiting", "reading", "done", "dead"}]
      /\ \A q \in Runs : \/ pc'[q] = pc[q]
                         \/ pc'[q] = "dead"
                         \/ pc'[q] = "lock" /\ pc[q] = "out"
  <2>1. /\ pc \in [Runs -> PCs] /\ "lock" \in PCs /\ "dead" \in PCs
        /\ caller \in [Runs -> {"out", "waiting", "reading", "done", "dead"}]
    BY DEF TypeInv, TypeOK, PCs
  <2>2. caller[r] = "out" => pc[r] = "out"
    BY DEF LockInv, LockedWell
  <2>3. \/ pc' = pc
        \/ pc' = [pc EXCEPT ![r] = "dead"]
        \/ pc' = [pc EXCEPT ![r] = "lock"] /\ pc[r] = "out"
    BY <2>2 DEF Begin, Interrupt, Deliver, GiveUp, Tell, Release, Kill, Go
  <2>4. caller' = caller \/
        \E c \in {"waiting", "reading", "done", "dead"} : caller' = [caller EXCEPT ![r] = c]
    BY DEF Begin, Interrupt, Deliver, GiveUp, Tell, Release, Kill
  <2>5. QED BY <2>1, <2>3, <2>4
<1>4. mode' \in [Runs -> {"scheduled", "attended"}]
  <2>1. mode' = mode \/ \E m \in Modes : mode' = [mode EXCEPT ![r] = m]
    BY DEF Begin, Interrupt, Deliver, GiveUp, Tell, Release, Kill, session
  <2>2. mode \in [Runs -> {"scheduled", "attended"}]
    BY DEF TypeInv, TypeOK
  <2>3. QED BY <2>1, <2>2, ModesAssumption
<1>5. /\ stopped' \in [Runs -> {"no", "cancel", "stop"}]
      /\ told' \in [Runs -> Lefts \cup {"nothing yet"}]
  <2>1. /\ stopped \in [Runs -> {"no", "cancel", "stop"}] /\ left[r] \in Lefts
        /\ told \in [Runs -> Lefts \cup {"nothing yet"}]
    BY DEF TypeInv, TypeOK
  <2>2. /\ \/ stopped' = stopped
           \/ \E how \in {"cancel", "stop"} : stopped' = [stopped EXCEPT ![r] = how]
        /\ told' = told \/ told' = [told EXCEPT ![r] = left[r]]
    BY DEF Begin, Interrupt, Deliver, GiveUp, Tell, Release, Kill
  <2>3. QED BY <2>1, <2>2
<1>6. TypeOK'
  BY <1>1, <1>2, <1>3, <1>4, <1>5 DEF TypeInv, TypeOK, computer
<1>7. ProvenInv'
  BY <1>1, <1>3 DEF TypeInv, ProvenInv, computer, Proven
<1>8. QED BY <1>6, <1>7 DEF TypeInv

LEMMA WorldKeepsType ==
  ASSUME TypeInv,
         \/ Opens \/ Spoil \/ Restart
         \/ \E r \in Runs : ComesUp(r)
         \/ \E t \in Births : Quits(t)
  PROVE  TypeInv'
<1>1. /\ UNCHANGED <<asked, session, left, stopped, gaveUp, told, took, byRule, kept>>
      /\ coming' \subseteq coming
  BY DEF Opens, Spoil, Restart, ComesUp, Quits, watch, computer
<1>2. /\ born' \in 0..MaxBorn /\ born <= born' /\ alive' \subseteq 1..born'
      /\ by' \in [Births -> Runs \cup {Person}]
      /\ \A t \in 1..born : by'[t] = by[t]
  <2>1. born \in 0..MaxBorn /\ alive \subseteq 1..born /\ by \in [Births -> Runs \cup {Person}]
    BY DEF TypeInv, TypeOK
  <2>2. CASE \E who \in Runs \cup {Person} : Appears(who)
    <3>1. PICK who \in Runs \cup {Person} : Appears(who)
      BY <2>2
    <3>2. born' = born + 1 /\ born' \in Births /\ born' \in 0..MaxBorn
      BY <2>1, <3>1, BoundsAssumption DEF Appears, Births
    <3>3. by' \in [Births -> Runs \cup {Person}] /\ \A t \in 1..born : by'[t] = by[t]
      BY <2>1, <3>1, <3>2 DEF Appears
    <3>4. alive' \subseteq 1..born'
      BY <2>1, <3>1, <3>2 DEF Appears
    <3>5. QED BY <2>1, <3>2, <3>3, <3>4
  <2>3. CASE UNCHANGED <<born, by>> /\ alive' \subseteq alive
    BY <2>1, <2>3
  <2>4. QED BY <2>2, <2>3 DEF Opens, Spoil, Restart, ComesUp, Quits, computer
<1>3. boot' \in 0..MaxBoots
  <2>1. boot \in 0..MaxBoots
    BY DEF TypeInv, TypeOK
  <2>2. ASSUME Restart PROVE boot < MaxBoots /\ boot' = boot + 1
    BY <2>2 DEF Restart
  <2>3. ASSUME ~Restart PROVE boot' = boot
    BY <2>3 DEF Opens, Spoil, ComesUp, Quits, computer
  <2>4. QED BY <2>1, <2>2, <2>3, BoundsAssumption
<1>4. rec' \in Record \cup {NoRecord, Unreadable} /\ lock' \in Runs \cup {0}
  BY DEF TypeInv, TypeOK, Opens, Spoil, Restart, ComesUp, Quits
<1>5. /\ pc' \in [Runs -> PCs]
      /\ caller' \in [Runs -> {"out", "waiting", "reading", "done", "dead"}]
      /\ \A q \in Runs : pc'[q] = pc[q] \/ pc'[q] = "dead"
  <2>1. /\ pc \in [Runs -> PCs] /\ "dead" \in PCs
        /\ caller \in [Runs -> {"out", "waiting", "reading", "done", "dead"}]
    BY DEF TypeInv, TypeOK, PCs
  <2>2. CASE Restart
    BY <2>1, <2>2 DEF Restart
  <2>3. CASE ~Restart
    BY <2>1, <2>3 DEF Opens, Spoil, ComesUp, Quits, watch
  <2>4. QED BY <2>2, <2>3
<1>6. TypeOK'
  <2>1. asked' \subseteq 1..born' /\ byRule' \subseteq 1..born'
    <3>1. asked \subseteq 1..born /\ byRule \subseteq 1..born /\ born \in 0..MaxBorn
      BY DEF TypeInv, TypeOK
    <3>2. 1..born \subseteq 1..born'
      BY <1>2, <3>1, BoundsAssumption
    <3>3. QED BY <1>1, <3>1, <3>2
  <2>2. QED BY <1>1, <1>2, <1>3, <1>4, <1>5, <2>1 DEF TypeInv, TypeOK, session
<1>7. ProvenInv'
  <2>1. born \in 0..MaxBorn
    BY DEF TypeInv, TypeOK
  <2>2. UNCHANGED <<child, at>>
    BY <1>1 DEF session
  <2>3. \A t \in 1..born : t \in 1..born' /\ by'[t] = by[t]
    BY <1>2, <2>1, BoundsAssumption
  <2>4. QED BY <1>5, <2>2, <2>3 DEF TypeInv, ProvenInv, Proven
<1>8. QED BY <1>6, <1>7 DEF TypeInv

(***************************************************************************)
(* The lock.                                                               *)
(***************************************************************************)
LEMMA NobodyIsNoRun == 0 \notin Runs
  BY DEF Runs

LEMMA LockStarts == Init => LockInv
<1> SUFFICES ASSUME Init, NEW r \in Runs PROVE LockedWell(r)
  BY DEF LockInv
<1>1. pc[r] = "out" /\ caller[r] = "out" /\ took = {} /\ lock # r
  BY NobodyIsNoRun DEF Init
<1>2. QED BY <1>1 DEF LockedWell, Holds, Idle

(* The steps of a session, as the lock sees them. *)
Moves(r) ==
  /\ Holds(r) /\ Holds(r)' /\ \A q \in Runs \ {r} : pc'[q] = pc[q]
  /\ UNCHANGED <<lock, took>>

Ends(r) ==
  /\ pc[r] \notin {"out", "returned", "dead"} /\ pc'[r] = "returned"
  /\ \A q \in Runs \ {r} : pc'[q] = pc[q]
  /\ lock' = (IF FreedBy(r) THEN 0 ELSE lock)
  /\ UNCHANGED took

LEMMA ReturnEnds ==
  ASSUME TypeOK, NEW r \in Runs, pc[r] \notin {"out", "returned", "dead"}, Return(r), took' = took
  PROVE  Ends(r)
  BY DEF TypeOK, Return, Go, Ends

LEMMA GoMoves ==
  ASSUME TypeOK, NEW r \in Runs, NEW where \in PCs \ Idle, Holds(r), Go(r, where),
         UNCHANGED <<lock, took>>
  PROVE  Moves(r)
  BY DEF TypeOK, Go, Holds, Moves

LEMMA SessionSteps ==
  ASSUME TypeOK, NEW r \in Runs, Session(r)
  PROVE  /\ UNCHANGED watch
         /\ AcquireLock(r) \/ Moves(r) \/ Ends(r)
<1>1. ASSUME Recover(r) \/ Detect(r) \/ Recheck(r) \/ Snapshot(r) \/ Write(r)
      PROVE  Moves(r) \/ Ends(r)
  BY <1>1, ReturnEnds, GoMoves DEF Recover, Detect, Recheck, Snapshot, Write, Holds, Idle, PCs
<1>2. ASSUME Mark(r) \/ Check(r) \/ Start(r) \/ Await(r) \/ Poll(r)
      PROVE  Moves(r) \/ Ends(r)
  BY <1>2, ReturnEnds, GoMoves DEF Mark, Check, Start, Await, Poll, Holds, Idle, PCs
<1>3. ASSUME Wait(r) \/ Leave(r) \/ Close(r) \/ PreQuit(r) \/ Ask(r) \/ Post(r) \/ Exit(r)
      PROVE  Moves(r) \/ Ends(r)
  BY <1>3, ReturnEnds, GoMoves
     DEF Wait, Leave, Close, PreQuit, Ask, Post, Exit, LeaveRunning, Holds, Idle, PCs
<1>4. UNCHANGED watch
  BY DEF Session, AcquireLock, Recover, Detect, Recheck, Snapshot, Write, Mark, Check, Start,
         Await, Poll, Wait, Leave, Close, PreQuit, Ask, Post, Exit, Aside
<1>5. QED BY <1>1, <1>2, <1>3, <1>4 DEF Session

LEMMA SessionKeepsLock ==
  ASSUME TypeOK, LockInv, NEW r \in Runs, Session(r)
  PROVE  LockInv'
<1>1. UNCHANGED <<gaveUp, caller>>
  BY SessionSteps DEF watch
<1> SUFFICES ASSUME NEW q \in Runs PROVE LockedWell(q)'
  BY DEF LockInv
<1>2. LockedWell(r) /\ LockedWell(q)
  BY DEF LockInv
<1>3. CASE AcquireLock(r)
  <2>1. /\ pc \in [Runs -> PCs] /\ lock \in Runs \cup {0} /\ lock # r
        /\ caller[r] \in {"out", "waiting", "reading", "done", "dead"}
    BY <1>2, <1>3 DEF TypeOK, AcquireLock, LockedWell
  <2>2. CASE lock = 0
    BY <1>1, <1>2, <1>3, <2>1, <2>2, NobodyIsNoRun
       DEF AcquireLock, Go, LockedWell, Holds, Idle, Running
  <2>3. CASE lock # 0
    BY <1>1, <1>2, <1>3, <2>1, <2>3, NobodyIsNoRun
       DEF AcquireLock, Return, Go, FreedBy, LockedWell, Holds, Idle, Running
  <2>4. QED BY <2>2, <2>3
<1>4. CASE Moves(r)
  BY <1>1, <1>2, <1>4 DEF Moves, LockedWell, Holds, Idle, Running
<1>5. CASE Ends(r)
  <2>1. caller[r] \in {"out", "waiting", "reading", "done", "dead"}
    BY DEF TypeOK
  <2>2. QED BY <1>1, <1>2, <1>5, <2>1, NobodyIsNoRun
               DEF Ends, FreedBy, LockedWell, Holds, Idle, Running
<1>6. QED BY <1>3, <1>4, <1>5, SessionSteps

LEMMA RunKeepsLock ==
  ASSUME TypeOK, LockInv, NEW r \in Runs,
         \/ \E m \in Modes : Begin(r, m)
         \/ \E how \in {"cancel", "stop"} : Interrupt(r, how)
         \/ Deliver(r) \/ GiveUp(r) \/ Tell(r) \/ Release(r) \/ Kill(r)
  PROVE  LockInv'
<1> SUFFICES ASSUME NEW q \in Runs PROVE LockedWell(q)'
  BY DEF LockInv
<1>1. LockedWell(r) /\ LockedWell(q)
  BY DEF LockInv
<1>a. /\ pc \in [Runs -> PCs] /\ gaveUp \subseteq Runs
      /\ caller \in [Runs -> {"out", "waiting", "reading", "done", "dead"}]
  BY DEF TypeOK
<1>2. CASE \E m \in Modes : Begin(r, m)
  <2>1. /\ caller[r] = "out" /\ UNCHANGED <<lock, took, gaveUp>>
        /\ caller' = [caller EXCEPT ![r] = "waiting"] /\ pc' = [pc EXCEPT ![r] = "lock"]
    BY <1>2 DEF Begin, Go
  <2>2. pc[r] = "out" /\ r \notin took /\ lock # r
    BY <1>1, <2>1 DEF LockedWell, Running
  <2>3. LockedWell(r)'
    BY <1>a, <2>1, <2>2 DEF LockedWell, Holds, Idle
  <2>4. QED BY <1>1, <1>a, <2>1, <2>3 DEF LockedWell, Holds, Running
<1>3. CASE \E how \in {"cancel", "stop"} : Interrupt(r, how)
  BY <1>1, <1>3 DEF Interrupt, LockedWell, Holds, Running
<1>4. CASE Deliver(r) \/ GiveUp(r) \/ Tell(r)
  <2>1. UNCHANGED <<lock, pc, took>> /\ caller[r] = "waiting"
    BY <1>4 DEF Deliver, GiveUp, Tell
  <2>2. \/ caller' = caller /\ gaveUp' = gaveUp \cup {r}
        \/ /\ caller' = [caller EXCEPT ![r] = "reading"] /\ gaveUp' = gaveUp
           /\ pc[r] = "returned" \/ r \in gaveUp
    BY <1>4 DEF Deliver, GiveUp, Tell
  <2>3. LockedWell(r)'
    BY <1>1, <1>a, <2>1, <2>2 DEF LockedWell, Holds, Running
  <2>4. QED BY <1>1, <1>a, <2>1, <2>2, <2>3 DEF LockedWell, Holds, Running
<1>5. CASE Release(r)
  BY <1>1, <1>5, NobodyIsNoRun DEF TypeOK, Release, FreedByReading, LockedWell, Holds, Idle, Running
<1>6. CASE Kill(r)
  BY <1>1, <1>6, NobodyIsNoRun DEF TypeOK, Kill, LockedWell, Holds, Idle, Running
<1>7. QED BY <1>2, <1>3, <1>4, <1>5, <1>6

LEMMA WorldKeepsLock ==
  ASSUME TypeOK, LockInv,
         \/ Opens \/ Spoil \/ Restart
         \/ \E r \in Runs : ComesUp(r)
         \/ \E t \in Births : Quits(t)
  PROVE  LockInv'
<1>1. CASE Restart
  BY <1>1, NobodyIsNoRun DEF TypeOK, Restart, LockInv, LockedWell, Holds, Idle, Running
<1>2. CASE ~Restart
  <2>1. UNCHANGED <<lock, pc, watch, took>>
    BY <1>2 DEF Opens, Spoil, ComesUp, Quits
  <2>2. QED BY <2>1 DEF LockInv, LockedWell, Holds, Running, watch
<1>3. QED BY <1>1, <1>2

(***************************************************************************)
(* The first theorems.                                                     *)
(***************************************************************************)
BaseInv == TypeInv /\ LockInv

LEMMA BaseStarts == Init => BaseInv
  BY TypesStart, LockStarts DEF BaseInv

(* The kinds of step there are. *)
RunStep(r) ==
  \/ \E m \in Modes : Begin(r, m)
  \/ \E how \in {"cancel", "stop"} : Interrupt(r, how)
  \/ Deliver(r) \/ GiveUp(r) \/ Tell(r) \/ Release(r) \/ Kill(r)

WorldStep ==
  \/ Opens \/ Spoil \/ Restart
  \/ \E r \in Runs : ComesUp(r)
  \/ \E t \in Births : Quits(t)

LEMMA NextIs == Next <=> (\E r \in Runs : Session(r) \/ RunStep(r)) \/ WorldStep
  BY Zenon DEF Next, RunStep, WorldStep

LEMMA BaseKept == BaseInv /\ [Next]_vars => BaseInv'
<1> SUFFICES ASSUME BaseInv, [Next]_vars PROVE BaseInv'
  OBVIOUS
<1>1. TypeOK /\ TypeInv /\ LockInv
  BY DEF BaseInv, TypeInv
<1>2. CASE UNCHANGED vars
  BY <1>1, <1>2 DEF BaseInv, TypeInv, TypeOK, ProvenInv, LockInv, LockedWell, Holds, Running,
                    vars, computer, session, watch
<1>3. ASSUME NEW r \in Runs, Session(r) PROVE BaseInv'
  BY <1>1, <1>3, SessionKeepsType, SessionKeepsLock DEF BaseInv
<1>4. ASSUME NEW r \in Runs, RunStep(r) PROVE BaseInv'
  BY <1>1, <1>4, RunKeepsType, RunKeepsLock DEF BaseInv, RunStep
<1>5. ASSUME WorldStep PROVE BaseInv'
  BY <1>1, <1>5, WorldKeepsType, WorldKeepsLock DEF BaseInv, WorldStep
<1>6. QED BY <1>2, <1>3, <1>4, <1>5, NextIs

LEMMA BaseAlways == Spec => []BaseInv
  BY BaseStarts, BaseKept, PTL DEF Spec

(* Every variable of the pre-sync keeps its type: what is asked to quit, or left to the
   person, is always a Thunderbird there was, and the record one that can be written. *)
THEOREM SessionTypesAreKept == Spec => []TypeOK
<1>1. BaseInv => TypeOK
  BY DEF BaseInv, TypeInv
<1>2. QED BY <1>1, BaseAlways, PTL

(* The profile's lock is held only by a run that still needs it, whichever of the
   session, the watchdog and the caller comes to its end first. *)
THEOREM LockIsAlwaysNeeded == Spec => []LockIsNeeded
<1>1. BaseInv => LockIsNeeded
  BY DEF BaseInv, TypeInv, TypeOK, LockInv, LockedWell, LockIsNeeded
<1>2. QED BY <1>1, BaseAlways, PTL

(* No run starts Thunderbird while another that took the lock has mail to read: the
   session that starts it holds the lock, and so does the run whose caller reads. *)
THEOREM NobodySyncsDuringRead == Spec => NoSyncDuringRead
<1>1. ASSUME BaseInv, [Next]_vars, NEW r \in coming' \ coming, NEW q \in took, q # r
      PROVE  caller[q] \notin {"waiting", "reading"}
  <2>1. Start(r) /\ r \in Runs
    <3>1. ~UNCHANGED vars /\ ~WorldStep /\ \A p \in Runs : ~RunStep(p)
      BY <1>1 DEF vars, computer, WorldStep, Opens, Spoil, Restart, ComesUp, Quits,
                  RunStep, Begin, Interrupt, Deliver, GiveUp, Tell, Release, Kill
    <3>2. PICK p \in Runs : Session(p)
      BY <1>1, <3>1, NextIs
    <3>3. Start(p)
      BY <1>1, <3>2 DEF Session, AcquireLock, Recover, Detect, Recheck, Snapshot, Write, Mark,
                        Check, Await, Poll, Wait, Leave, Close, PreQuit, Ask, Post, Exit, computer
    <3>4. QED BY <1>1, <3>2, <3>3 DEF Start
  <2>2. lock = r
    BY <1>1, <2>1 DEF Start, BaseInv, LockInv, LockedWell, Holds, Idle
  <2>3. q \in Runs
    BY <1>1 DEF BaseInv, TypeInv, TypeOK
  <2>4. QED BY <1>1, <2>2, <2>3 DEF BaseInv, LockInv, LockedWell
<1>2. BaseInv /\ [Next]_vars =>
        [\A r \in coming' \ coming, q \in took :
           q # r => caller[q] \notin {"waiting", "reading"}]_vars
  BY <1>1
<1>3. QED BY <1>2, BaseAlways, PTL DEF Spec, NoSyncDuringRead

(***************************************************************************)
(* Whom a session asks to quit, and whom it leaves to the person.          *)
(***************************************************************************)
(* The quit request reaches the one Thunderbird it names, as on every system but macOS. *)
Addressed == ~BundleWide

(* Who started a Thunderbird stays as it is. *)
LEMMA ByStays ==
  ASSUME BaseInv, [Next]_vars
  PROVE  /\ \A t \in 1..born : by'[t] = by[t]
         /\ born' \in 0..MaxBorn /\ born <= born'
<1>1. born \in 0..MaxBorn /\ by \in [Births -> Runs \cup {Person}]
  BY DEF BaseInv, TypeInv, TypeOK
<1>2. CASE UNCHANGED <<born, by>>
  BY <1>1, <1>2, BoundsAssumption
<1>3. CASE \E who : Appears(who)
  BY <1>1, <1>3, BoundsAssumption DEF Appears, Births
<1>4. ASSUME NEW r \in Runs, Session(r) PROVE UNCHANGED <<born, by>>
  BY <1>4 DEF Session, AcquireLock, Recover, Detect, Recheck, Snapshot, Write, Mark, Check, Start,
              Await, Poll, Wait, Leave, Close, PreQuit, Ask, Post, Exit, computer
<1>5. ASSUME NEW r \in Runs, RunStep(r) PROVE UNCHANGED <<born, by>>
  BY <1>5 DEF RunStep, Begin, Interrupt, Deliver, GiveUp, Tell, Release, Kill, computer
<1>6. ASSUME WorldStep PROVE UNCHANGED <<born, by>> \/ \E who : Appears(who)
  BY <1>6 DEF WorldStep, Opens, Spoil, Restart, ComesUp, Quits, computer
<1>7. QED BY <1>2, <1>3, <1>4, <1>5, <1>6, NextIs DEF vars, computer

(* No more is asked to quit than what was, and what a session has proven its own. *)
LEMMA AskedGrows ==
  ASSUME BaseInv, Addressed, [Next]_vars
  PROVE  \A t \in asked' \ asked : t \in 1..born /\ by[t] # Person
<1>1. ASSUME NEW t \in asked' \ asked PROVE t \in 1..born /\ by[t] # Person
  <2>1. PICK r \in Runs : Post(r)
    <3>1. ~UNCHANGED vars /\ ~WorldStep /\ \A p \in Runs : ~RunStep(p)
      BY <1>1 DEF vars, computer, WorldStep, Opens, Spoil, Restart, ComesUp, Quits,
                  RunStep, Begin, Interrupt, Deliver, GiveUp, Tell, Release, Kill
    <3>2. PICK p \in Runs : Session(p)
      BY <3>1, NextIs
    <3>3. Post(p)
      BY <1>1, <3>2 DEF Session, AcquireLock, Recover, Detect, Recheck, Snapshot, Write, Mark,
                        Check, Start, Await, Poll, Wait, Leave, Close, PreQuit, Ask, Exit, computer
    <3>4. QED BY <3>3
  <2>2. t = child[r] /\ pc[r] \in Proven
    BY <1>1, <2>1 DEF Post, Reached, Addressed, Proven
  <2>3. QED BY <2>2 DEF BaseInv, TypeInv, ProvenInv
<1>2. QED BY <1>1

(* At most one session is past the lock. *)
LEMMA OneHolds ==
  ASSUME LockInv, NEW p \in Runs, NEW q \in Runs, Holds(p), Holds(q)
  PROVE  p = q
  BY DEF LockInv, LockedWell

LEMMA SnappedHolds == \A r \in Runs : pc[r] \in Snapped => Holds(r)
  BY DEF Snapped, Holds

(* What a session may make of the record. *)
RecordedBy(r) ==
  \/ rec' \in {rec, NoRecord, Unreadable}
  \/ /\ pc[r] \in Snapped
     /\ \E state \in States, c \in 0..MaxBorn :
          /\ rec' = Stored(r, state, c)
          /\ c = 0 \/ c > at[r]

(* A step that asks nobody and leaves nobody to the person. *)
LEMMA NobodyOlder ==
  ASSUME BaseInv, OlderInv, NEW r \in Runs, RecordedBy(r),
         UNCHANGED <<byRule, kept, asked, at>>,
         \A q \in Runs : pc'[q] \in Snapped => pc[q] \in Snapped,
         \A q \in Runs : pc'[q] \in Snapped \ {"exit"} => pc[q] \in Snapped \ {"exit"}
  PROVE  OlderInv'
<1>1. byRule \subseteq 1..born /\ born \in 0..MaxBorn /\ at[r] \in 0..MaxBorn
  BY DEF BaseInv, TypeInv, TypeOK
<1>2. CASE rec' \in {rec, NoRecord, Unreadable}
  BY <1>2 DEF OlderInv, ClaimsNone, NoRecord, Unreadable, States
<1>3. CASE /\ pc[r] \in Snapped
           /\ \E state \in States, c \in 0..MaxBorn :
                /\ rec' = Stored(r, state, c)
                /\ c = 0 \/ c > at[r]
  <2>1. byRule \subseteq 1..at[r]
    BY <1>3 DEF OlderInv
  <2>2. PICK state \in States, c \in 0..MaxBorn : rec' = Stored(r, state, c) /\ (c = 0 \/ c > at[r])
    BY <1>3
  <2>3. c \notin byRule
    BY <1>1, <2>1, <2>2, BoundsAssumption
  <2>4. rec'.child = c /\ rec'.at = at[r]
    BY <2>2 DEF Stored
  <2>5. QED BY <2>1, <2>3, <2>4 DEF OlderInv, ClaimsNone
<1>4. QED BY <1>2, <1>3 DEF RecordedBy

LEMMA SessionKeepsOlder ==
  ASSUME BaseInv, OlderInv, Addressed, NEW r \in Runs, Session(r)
  PROVE  OlderInv'
<1>1. TypeOK /\ LockInv /\ ProvenInv /\ pc \in [Runs -> PCs]
  BY DEF BaseInv, TypeInv, TypeOK
<1>2. \A q \in Runs \ {r} : pc'[q] = pc[q]
  BY <1>1 DEF Session, AcquireLock, Recover, Detect, Recheck, Snapshot, Write, Mark, Check, Start,
              Await, Poll, Wait, Leave, Close, PreQuit, Ask, Post, Exit, LeaveRunning, Return, Go
<1>3. Holds(r) => \A q \in Runs \ {r} : pc[q] \notin Snapped
  BY <1>1, OneHolds, SnappedHolds
<1>4. pc[r] \in Proven => child[r] \in 0..MaxBorn /\ child[r] > at[r]
  BY <1>1 DEF TypeOK, ProvenInv
<1>5. ASSUME AcquireLock(r) \/ Recover(r) \/ Detect(r) \/ Recheck(r) PROVE OlderInv'
  <2>1. pc'[r] \notin Snapped
    BY <1>1, <1>5 DEF AcquireLock, Recover, Detect, Recheck, Return, Go, Snapped, Idle
  <2>2. RecordedBy(r) /\ UNCHANGED <<byRule, kept, asked, at>>
    BY <1>5 DEF AcquireLock, Recover, Detect, Recheck, Cleared, Aside, computer, session,
                RecordedBy
  <2>3. QED BY <1>2, <2>1, <2>2, NobodyOlder
<1>6. ASSUME Snapshot(r) PROVE OlderInv'
  <2>1. byRule \subseteq 1..born /\ asked \subseteq 1..born /\ at \in [Runs -> 0..MaxBorn]
    BY <1>1 DEF TypeOK
  <2>2. /\ UNCHANGED <<byRule, kept, asked, rec>>
        /\ at'[r] = born /\ \A q \in Runs \ {r} : at'[q] = at[q]
    BY <1>6, <2>1 DEF Snapshot, Aside, computer
  <2>3. QED BY <1>2, <2>1, <2>2 DEF OlderInv, ClaimsNone
<1>7. ASSUME Write(r) \/ Mark(r) \/ Check(r) \/ Start(r) PROVE OlderInv'
  <2>1. pc[r] \in Snapped \ {"exit"} /\ pc'[r] # "exit"
    BY <1>1, <1>7 DEF Write, Mark, Check, Start, Return, Go, Snapped, Idle, PCs
  <2>2. UNCHANGED <<byRule, kept, asked, at>>
    BY <1>7 DEF Write, Mark, Check, Start, Aside, computer, session
  <2>3. rec' = rec \/ rec' = NoRecord \/ rec' = Stored(r, "launching", 0)
    BY <1>7 DEF Write, Mark, Check, Start, Cleared
  <2>4. RecordedBy(r)
    BY <2>1, <2>3, BoundsAssumption DEF RecordedBy, States
  <2>5. QED BY <1>2, <2>1, <2>2, <2>4, NobodyOlder
<1>8. ASSUME Await(r) \/ Poll(r) PROVE OlderInv'
  <2>1. pc[r] \in Snapped \ {"exit"} /\ pc'[r] # "exit"
    BY <1>1, <1>8 DEF Await, Poll, Return, Go, Snapped, Idle, PCs
  <2>2. UNCHANGED <<byRule, kept, asked, at>>
    BY <1>8 DEF Await, Poll, Aside, computer
  <2>3. \/ rec' = rec
        \/ \E seen \in Sights, t \in Births : IsOurs(r, t, seen) /\ StoreOrWarn(r, "syncing", t)
    BY <1>8 DEF Await, Poll, Adopt
  <2>4. RecordedBy(r)
    <3>1. CASE rec' = rec
      BY <3>1 DEF RecordedBy
    <3>2. CASE \E seen \in Sights, t \in Births : IsOurs(r, t, seen) /\ StoreOrWarn(r, "syncing", t)
      <4>1. PICK seen \in Sights, t \in Births : IsOurs(r, t, seen) /\ StoreOrWarn(r, "syncing", t)
        BY <3>2
      <4>2. t > at[r] /\ t \in 0..MaxBorn
        BY <4>1, OursIsACandidate, BoundsAssumption DEF Births
      <4>3. rec' = rec \/ rec' = Stored(r, "syncing", t)
        BY <4>1 DEF StoreOrWarn
      <4>4. QED BY <2>1, <4>2, <4>3 DEF RecordedBy, States
    <3>3. QED BY <2>3, <3>1, <3>2
  <2>5. QED BY <1>2, <2>1, <2>2, <2>4, NobodyOlder
<1>9. ASSUME Wait(r) \/ Close(r) \/ PreQuit(r) \/ Ask(r) \/ Exit(r)
               \/ (Post(r) /\ asked' = asked)
      PROVE OlderInv'
  <2>1. /\ pc[r] \in Snapped /\ pc[r] \in Proven
        /\ pc'[r] = "exit" => Post(r)
        /\ pc'[r] \in Snapped \ {"exit"} => pc[r] # "exit"
    BY <1>1, <1>9 DEF Wait, Close, PreQuit, Ask, Exit, Post, LeaveRunning, Return, Go,
                      Snapped, Proven, Idle, PCs
  <2>2. UNCHANGED <<byRule, kept, asked, at>>
    BY <1>9 DEF Wait, Close, PreQuit, Ask, Exit, Post, Aside, computer, session
  <2>3. \/ rec' = rec \/ rec' = NoRecord
        \/ \E state \in States : StoreOrWarn(r, state, child[r])
    BY <1>9 DEF Wait, Close, PreQuit, Ask, Exit, Post, LeaveRunning, Cleared, States
  <2>4. RecordedBy(r)
    BY <1>4, <2>1, <2>3 DEF RecordedBy, StoreOrWarn
  <2>5. QED BY <1>2, <2>1, <2>2, <2>4, NobodyOlder
<1>10. ASSUME Leave(r) PROVE OlderInv'
  <2>1. pc[r] = "leave" /\ pc'[r] = "returned" /\ Holds(r)
    BY <1>1, <1>10 DEF Leave, Return, Go, Holds, Idle
  <2>2. UNCHANGED <<asked, at>>
    BY <1>10 DEF Leave, computer, session
  <2>3. /\ byRule' \subseteq byRule \cup {child[r]}
        /\ \/ rec' = NoRecord \/ rec' = kept'
           \/ UNCHANGED <<rec, byRule, kept>>
    BY <1>10 DEF Leave, Cleared
  <2>4. /\ asked \subseteq 1..at[r] /\ child[r] > at[r] /\ at[r] \in 0..MaxBorn
        /\ child[r] \in 0..MaxBorn
    BY <1>1, <1>4, <2>1 DEF OlderInv, Snapped, Idle, PCs, Proven, TypeOK
  <2>5. child[r] \notin asked
    BY <2>4, BoundsAssumption
  <2>6. \A q \in Runs : pc'[q] \notin Snapped
    BY <1>2, <1>3, <2>1 DEF Snapped, Idle
  <2>7. QED BY <2>2, <2>3, <2>5, <2>6 DEF OlderInv, ClaimsNone, NoRecord, States
<1>11. ASSUME Post(r), asked' # asked PROVE OlderInv'
  <2>1. asked' = asked \cup {child[r]} /\ pc[r] = "post" /\ pc'[r] = "exit" /\ Holds(r)
    BY <1>1, <1>11 DEF Post, Reached, Addressed, Go, Holds, Idle
  <2>2. UNCHANGED <<byRule, kept, at, rec>>
    BY <1>11 DEF Post, Aside, session
  <2>3. /\ byRule \subseteq 1..at[r] /\ child[r] > at[r] /\ at[r] \in 0..MaxBorn
        /\ child[r] \in 0..MaxBorn
    BY <1>1, <1>4, <2>1 DEF OlderInv, Snapped, Idle, PCs, Proven, TypeOK
  <2>4. child[r] \notin byRule
    BY <2>3, BoundsAssumption
  <2>5. QED BY <1>2, <1>3, <2>1, <2>2, <2>3, <2>4 DEF OlderInv, ClaimsNone
<1>12. QED BY <1>5, <1>6, <1>7, <1>8, <1>9, <1>10, <1>11 DEF Session

LEMMA OlderKept ==
  ASSUME BaseInv, OlderInv, Addressed, [Next]_vars
  PROVE  OlderInv'
<1>1. CASE UNCHANGED vars
  BY <1>1 DEF OlderInv, ClaimsNone, vars, computer, session
<1>2. ASSUME NEW r \in Runs, Session(r) PROVE OlderInv'
  BY <1>2, SessionKeepsOlder
<1>3. ASSUME (\E r \in Runs : RunStep(r)) \/ WorldStep PROVE OlderInv'
  <2>1. UNCHANGED <<byRule, kept, asked, at>> /\ rec' \in {rec, Unreadable}
    BY <1>3 DEF RunStep, Begin, Interrupt, Deliver, GiveUp, Tell, Release, Kill,
                WorldStep, Opens, Spoil, Restart, ComesUp, Quits, computer, session
  <2>2. \A q \in Runs : pc'[q] = pc[q] \/ pc'[q] \in {"dead", "lock"}
    <3>1. pc \in [Runs -> PCs]
      BY DEF BaseInv, TypeInv, TypeOK
    <3>2. \/ pc' = pc
          \/ \E r \in Runs, to \in {"dead", "lock"} : pc' = [pc EXCEPT ![r] = to]
          \/ pc' = [q \in Runs |-> IF Running(q) THEN "dead" ELSE pc[q]]
      <4>1. CASE WorldStep
        BY <4>1 DEF WorldStep, Opens, Spoil, Restart, ComesUp, Quits
      <4>2. CASE \E r \in Runs : RunStep(r)
        BY <4>2 DEF RunStep, Begin, Interrupt, Deliver, GiveUp, Tell, Release, Kill, Go
      <4>3. QED BY <1>3, <4>1, <4>2
    <3>3. QED BY <3>1, <3>2
  <2>3. QED BY <2>1, <2>2 DEF OlderInv, ClaimsNone, Snapped, Idle, Unreadable, States
<1>4. QED BY <1>1, <1>2, <1>3, NextIs

LEMMA OlderStarts == Init => OlderInv
  BY DEF Init, OlderInv, NoRecord, Snapped, Idle

(* Wherever the request reaches the Thunderbird it names, only one that a session started
   is asked to quit: none that the person opened, whatever happens between the checks. *)
THEOREM AlwaysAsksOnlyItsOwn == Addressed => (Spec => []AsksOnlyItsOwn)
<1> SUFFICES ASSUME Addressed PROVE Spec => []AsksOnlyItsOwn
  OBVIOUS
<1>1. Init => AsksOnlyItsOwn
  BY DEF Init, AsksOnlyItsOwn
<1>2. BaseInv /\ AsksOnlyItsOwn /\ [Next]_vars => AsksOnlyItsOwn'
  <2> SUFFICES ASSUME BaseInv, AsksOnlyItsOwn, [Next]_vars PROVE AsksOnlyItsOwn'
    OBVIOUS
  <2>1. \A t \in 1..born : by'[t] = by[t]
    BY ByStays
  <2>2. asked \subseteq 1..born
    BY DEF BaseInv, TypeInv, TypeOK
  <2>3. QED BY <2>1, <2>2, AskedGrows DEF AsksOnlyItsOwn
<1>3. QED BY <1>1, <1>2, BaseAlways, PTL DEF Spec

(* There too, a Thunderbird left to the person by rule stays theirs, whatever saves and
   removals of the record fail: no later run asks it to quit, and none takes it for a
   leftover of ours but by the one record that could not be removed when it was left. *)
THEOREM AlwaysTheirs == Addressed => (Spec => []LeftByRuleIsTheirs)
<1> SUFFICES ASSUME Addressed PROVE Spec => []LeftByRuleIsTheirs
  OBVIOUS
<1>1. BaseInv /\ OlderInv => LeftByRuleIsTheirs
  <2> SUFFICES ASSUME BaseInv, OlderInv, NEW t \in byRule
               PROVE  t \notin asked /\ (Leftover({t}) => rec = kept)
    BY DEF LeftByRuleIsTheirs
  <2>1. t \notin asked
    BY DEF OlderInv
  <2>2. SUFFICES ASSUME ClaimsNone, rec.state \in States, MatchExact({t}) \/ MatchWeak({t})
                 PROVE  FALSE
    BY <2>1 DEF OlderInv, Leftover
  <2>3. ~MatchExact({t})
    BY <2>2 DEF ClaimsNone, MatchExact
  <2>4. ASSUME MatchWeak({t}) PROVE FALSE
    <3>1. t > rec.at /\ rec.state = "launching"
      BY <2>4 DEF MatchWeak
    <3>2. t \in 1..rec.at
      BY <2>2, <3>1 DEF ClaimsNone
    <3>3. rec \in Record
      <4>1. rec \in Record \cup {NoRecord, Unreadable}
        BY DEF BaseInv, TypeInv, TypeOK
      <4>2. NoRecord.state # "launching" /\ Unreadable.state # "launching"
        BY DEF NoRecord, Unreadable
      <4>3. QED BY <3>1, <4>1, <4>2
    <3>4. rec.at \in 0..MaxBorn
      BY <3>3 DEF Record
    <3>5. QED BY <3>1, <3>2, <3>4, BoundsAssumption
  <2>5. QED BY <2>2, <2>3, <2>4
<1>2. BaseInv /\ OlderInv /\ [Next]_vars => OlderInv'
  BY OlderKept
<1>3. QED BY <1>1, <1>2, OlderStarts, BaseAlways, PTL DEF Spec

(***************************************************************************)
(* What a run starts, and what it says of it.                              *)
(***************************************************************************)
(* A start has shown its Thunderbird, or failed, by the time a later run looks, and one
   that reports a failure shows none. *)
Prompt == Trouble \cap {"slow", "late"} = {}

LEMMA SessionLeaves ==
  ASSUME BaseInv, NEW r \in Runs, Session(r)
  PROVE  /\ UNCHANGED <<born, alive, by, boot, watch>>
         /\ \A q \in Runs \ {r} :
              pc'[q] = pc[q] /\ child'[q] = child[q] /\ at'[q] = at[q] /\ left'[q] = left[q]
         /\ coming' = coming \/ Start(r)
<1>1. /\ pc \in [Runs -> PCs] /\ child \in [Runs -> 0..MaxBorn]
      /\ at \in [Runs -> 0..MaxBorn] /\ left \in [Runs -> Lefts]
  BY DEF BaseInv, TypeInv, TypeOK
<1>2. UNCHANGED <<born, alive, by, boot, watch>> /\ (coming' = coming \/ Start(r))
  BY DEF Session, AcquireLock, Recover, Detect, Recheck, Snapshot, Write, Mark, Check, Start,
         Await, Poll, Wait, Leave, Close, PreQuit, Ask, Post, Exit, Aside, computer
<1>3. \A q \in Runs \ {r} : pc'[q] = pc[q]
  BY <1>1 DEF Session, AcquireLock, Recover, Detect, Recheck, Snapshot, Write, Mark, Check, Start,
              Await, Poll, Wait, Leave, Close, PreQuit, Ask, Post, Exit, LeaveRunning, Return, Go
<1>4. \A q \in Runs \ {r} : left'[q] = left[q]
  BY <1>1 DEF Session, AcquireLock, Recover, Detect, Recheck, Snapshot, Write, Mark, Check, Start,
              Await, Poll, Adopt, Wait, Leave, Close, PreQuit, Ask, Post, Exit, SetLeft
<1>5. \A q \in Runs \ {r} : child'[q] = child[q] /\ at'[q] = at[q]
  BY <1>1 DEF Session, AcquireLock, Recover, Detect, Recheck, Snapshot, Write, Mark, Check, Start,
              Await, Poll, Adopt, Wait, Leave, Close, PreQuit, Ask, Post, Exit, session
<1>6. QED BY <1>2, <1>3, <1>4, <1>5

(* Where a session goes from where it is. *)
LEMMA SessionGoes ==
  ASSUME BaseInv, NEW r \in Runs, Session(r)
  PROVE  /\ pc[r] \notin {"out", "returned", "dead"} /\ pc'[r] \notin {"out", "lock", "dead"}
         /\ pc'[r] \in Started => pc[r] \in Started \cup {"start"}
         /\ pc'[r] = "start" => Check(r) /\ ~Halted(r)
         /\ pc'[r] = "check" => Mark(r)
         /\ pc'[r] \in Snapped => pc[r] \in Snapped \/ Snapshot(r)
         /\ Holds(r)' /\ pc'[r] # "recover" => Holds(r) /\ (pc[r] # "recover" \/ Recover(r))
<1>1. pc \in [Runs -> PCs]
  BY DEF BaseInv, TypeInv, TypeOK
<1>2. CASE AcquireLock(r) \/ Recover(r) \/ Detect(r) \/ Recheck(r) \/ Snapshot(r)
  BY <1>1, <1>2 DEF AcquireLock, Recover, Detect, Recheck, Snapshot, Return, Go,
                    Started, Proven, Snapped, Holds, Idle, PCs
<1>3. CASE Write(r) \/ Mark(r) \/ Check(r) \/ Start(r) \/ Await(r) \/ Poll(r)
  BY <1>1, <1>3 DEF Write, Mark, Check, Start, Await, Poll, Return, Go,
                    Started, Proven, Snapped, Holds, Idle, PCs
<1>4. CASE Wait(r) \/ Leave(r) \/ Close(r) \/ PreQuit(r) \/ Ask(r) \/ Post(r) \/ Exit(r)
  BY <1>1, <1>4 DEF Wait, Leave, Close, PreQuit, Ask, Post, Exit, LeaveRunning, Return, Go,
                    Started, Proven, Snapped, Holds, Idle, PCs
<1>5. QED BY <1>2, <1>3, <1>4 DEF Session

LEMMA SessionStaysStarted ==
  ASSUME BaseInv, NEW r \in Runs, Session(r), pc[r] \in Started
  PROVE  pc'[r] \in Started \cup {"returned"}
<1>1. pc \in [Runs -> PCs]
  BY DEF BaseInv, TypeInv, TypeOK
<1>2. QED BY <1>1 DEF Session, AcquireLock, Recover, Detect, Recheck, Snapshot, Write, Mark, Check,
                      Start, Await, Poll, Wait, Leave, Close, PreQuit, Ask, Post, Exit,
                      LeaveRunning, Return, Go, Started, Proven

(* A session takes a Thunderbird for its own only when it started it. *)
LEMMA AdoptsItsOwn ==
  ASSUME BaseInv, OneEachInv, NEW r \in Runs, Await(r) \/ Poll(r), child'[r] # child[r]
  PROVE  child'[r] \in 1..born /\ by[child'[r]] = r /\ r \notin coming /\ left'[r] = "open"
<1>1. PICK seen \in Sights, t \in Births : IsOurs(r, t, seen) /\ Adopt(r, t)
  BY DEF Await, Poll
<1>2. t \in alive /\ by[t] # Person /\ t > at[r] /\ t \in 1..born
  BY <1>1, OursIsACandidate DEF BaseInv, TypeInv, TypeOK
<1>3. pc[r] \in Snapped
  BY DEF Await, Poll, Snapped, Idle, PCs
<1>4. child'[r] = t /\ left'[r] = "open"
  BY <1>1 DEF Adopt, SetLeft, BaseInv, TypeInv, TypeOK
<1>5. OneEach(r)
  BY DEF OneEachInv
<1>6. by[t] = r
  BY <1>2, <1>3, <1>5 DEF OneEach
<1>7. QED BY <1>2, <1>4, <1>5, <1>6 DEF OneEach

LEMMA SessionKeepsOneEach ==
  ASSUME BaseInv, OneEachInv, Prompt, NEW r \in Runs, Session(r)
  PROVE  OneEachInv'
<1> SUFFICES ASSUME NEW q \in Runs PROVE OneEach(q)'
  BY DEF OneEachInv
<1>1. OneEach(q) /\ OneEach(r) /\ LockInv
  BY DEF OneEachInv, BaseInv
<1>2. UNCHANGED <<born, by>>
  BY SessionLeaves
<1>3. CASE q # r
  <2>1. pc'[q] = pc[q] /\ child'[q] = child[q] /\ at'[q] = at[q]
    BY <1>3, SessionLeaves
  <2>2. q \in coming' <=> q \in coming
    BY <1>3, SessionLeaves DEF Start
  <2>3. Holds(q) => coming' = coming
    <3>1. Start(r) => Holds(r)
      BY DEF Start, Holds, Idle
    <3>2. QED BY <1>1, <1>3, <3>1, OneHolds, SessionLeaves
  <2>4. QED BY <1>1, <1>2, <2>1, <2>2, <2>3 DEF OneEach, Holds
<1>4. CASE q = r
  <2>1. child'[r] # child[r] => Await(r) \/ Poll(r)
    BY DEF Session, AcquireLock, Recover, Detect, Recheck, Snapshot, Write, Mark, Check, Start,
           Wait, Leave, Close, PreQuit, Ask, Post, Exit, session
  <2>2. child'[r] # child[r] => by[child'[r]] = r /\ r \notin coming /\ pc[r] \in Started
    BY <2>1, AdoptsItsOwn DEF Await, Poll, Started
  <2>3. coming' # coming => pc[r] = "start" /\ coming' = coming \cup {r}
    BY SessionLeaves DEF Start, Prompt
  <2>4. Recover(r) /\ pc'[r] # "returned" => coming = {} /\ pc[r] = "recover"
    BY DEF Recover, Prompt, Return, Go, BaseInv, TypeInv, TypeOK
  <2>5. /\ Snapshot(r) => at'[r] = born
        /\ ~Snapshot(r) => at'[r] = at[r]
    BY DEF Session, AcquireLock, Recover, Detect, Recheck, Snapshot, Write, Mark, Check, Start,
           Await, Poll, Wait, Leave, Close, PreQuit, Ask, Post, Exit, session,
           BaseInv, TypeInv, TypeOK
  <2>6. \A t \in 1..born : ~(t > born)
    <3>1. born \in 0..MaxBorn
      BY DEF BaseInv, TypeInv, TypeOK
    <3>2. QED BY <3>1, BoundsAssumption
  <2>7. /\ pc[r] \notin {"out", "returned", "dead"}
        /\ pc'[r] \in Started => pc[r] \in Started \cup {"start"}
    BY SessionGoes
  <2>8. r \in coming' => child'[r] = 0 /\ \A t \in 1..born : by[t] # r
    BY <1>1, <2>2, <2>3 DEF OneEach, Started, Proven
  <2>9. child'[r] # 0 => by[child'[r]] = r
    BY <1>1, <2>2 DEF OneEach
  <2>10. pc'[r] \notin Started \cup {"returned", "dead"} =>
           child'[r] = 0 /\ r \notin coming' /\ \A t \in 1..born : by[t] # r
    <3>1. ASSUME pc'[r] \notin Started \cup {"returned", "dead"} PROVE pc[r] \notin Started
      BY <3>1, SessionStaysStarted
    <3>2. Start(r) => pc'[r] \in Started \cup {"returned"}
      BY DEF Start, Return, Go, Started, BaseInv, TypeInv, TypeOK
    <3>3. QED BY <1>1, <2>2, <2>7, <3>1, <3>2, SessionLeaves DEF OneEach
  <2>11. Holds(r)' /\ pc'[r] # "recover" => coming' \subseteq {r}
    <3>1. ASSUME Holds(r)', pc'[r] # "recover" PROVE coming \subseteq {r}
      <4>1. Holds(r) /\ (pc[r] # "recover" \/ Recover(r)) /\ pc'[r] # "returned"
        BY <3>1, SessionGoes DEF Holds, Idle
      <4>2. QED BY <1>1, <2>4, <4>1 DEF OneEach
    <3>2. QED BY <2>3, <3>1
  <2>12. pc'[r] \in Snapped => \A t \in 1..born : t > at'[r] => by[t] \in {Person, r}
    BY <1>1, <2>5, <2>6, SessionGoes DEF OneEach
  <2>13. QED BY <1>1, <1>2, <1>4, <2>8, <2>9, <2>10, <2>11, <2>12 DEF OneEach
<1>5. QED BY <1>3, <1>4

(* The steps around the sessions. *)
LEMMA OthersLeave ==
  ASSUME BaseInv, (\E r \in Runs : RunStep(r)) \/ WorldStep
  PROVE  /\ UNCHANGED <<rec, child, at, left, asked, byRule, kept>> \/ Spoil
         /\ UNCHANGED <<child, at, left, byRule, kept>>
         /\ coming' \subseteq coming
         /\ \A q \in Runs : \/ pc'[q] = pc[q]
                            \/ pc'[q] = "dead"
                            \/ pc[q] = "out" /\ pc'[q] = "lock"
<1>1. /\ UNCHANGED <<rec, child, at, left, asked, byRule, kept>> \/ Spoil
      /\ UNCHANGED <<child, at, left, byRule, kept>>
      /\ coming' \subseteq coming
  BY DEF RunStep, Begin, Interrupt, Deliver, GiveUp, Tell, Release, Kill,
         WorldStep, Opens, Spoil, Restart, ComesUp, Quits, computer, session
<1>2. pc \in [Runs -> PCs] /\ \A r \in Runs : caller[r] = "out" => pc[r] = "out"
  BY DEF BaseInv, TypeInv, TypeOK, LockInv, LockedWell
<1>3. ASSUME NEW r \in Runs, RunStep(r)
      PROVE \A q \in Runs : pc'[q] = pc[q] \/ pc'[q] = "dead" \/ (pc[q] = "out" /\ pc'[q] = "lock")
  BY <1>2, <1>3 DEF RunStep, Begin, Interrupt, Deliver, GiveUp, Tell, Release, Kill, Go
<1>4. ASSUME WorldStep
      PROVE \A q \in Runs : pc'[q] = pc[q] \/ pc'[q] = "dead"
  BY <1>2, <1>4 DEF WorldStep, Opens, Spoil, Restart, ComesUp, Quits
<1>5. QED BY <1>1, <1>3, <1>4

(* A Thunderbird that appears is the person's, or that of a start under way. *)
LEMMA AppearsFor ==
  ASSUME BaseInv, (\E r \in Runs : RunStep(r)) \/ WorldStep
  PROVE  \/ born' = born /\ by' = by /\ alive' \subseteq alive
         \/ \E who \in coming \cup {Person} :
              /\ born' = born + 1 /\ born + 1 \in Births /\ alive' = alive \cup {born + 1}
              /\ by'[born + 1] = who /\ \A t \in 1..born : by'[t] = by[t]
              /\ who \notin coming' /\ rec' = rec /\ boot' = boot
<1>1. born \in 0..MaxBorn /\ by \in [Births -> Runs \cup {Person}] /\ Person \notin coming
  BY NobodyIsNoRun DEF BaseInv, TypeInv, TypeOK, Person
<1>2. ASSUME NEW who, Appears(who)
      PROVE  /\ born' = born + 1 /\ born + 1 \in Births /\ alive' = alive \cup {born + 1}
             /\ by'[born + 1] = who /\ \A t \in 1..born : by'[t] = by[t]
  <2>1. born < MaxBorn /\ born' = born + 1 /\ alive' = alive \cup {born + 1}
        /\ by' = [by EXCEPT ![born + 1] = who]
    BY <1>2 DEF Appears
  <2>2. born + 1 \in Births /\ \A t \in 1..born : t \in Births /\ t # born + 1
    BY <1>1, <2>1, BoundsAssumption DEF Births
  <2>3. QED BY <1>1, <2>1, <2>2
<1>3. ASSUME NEW r \in Runs, RunStep(r) PROVE UNCHANGED <<born, by, alive>>
  BY <1>3 DEF RunStep, Begin, Interrupt, Deliver, GiveUp, Tell, Release, Kill, computer
<1>4. CASE Opens
  BY <1>1, <1>2, <1>4 DEF Opens
<1>5. ASSUME NEW r \in Runs, ComesUp(r)
      PROVE  \/ UNCHANGED <<born, by, alive>>
             \/ Appears(r) /\ r \in coming \ coming' /\ rec' = rec /\ boot' = boot
  BY <1>5 DEF ComesUp
<1>6. ASSUME Spoil \/ Restart \/ \E t \in Births : Quits(t)
      PROVE  born' = born /\ by' = by /\ alive' \subseteq alive
  BY <1>6 DEF Spoil, Restart, Quits, computer
<1>7. QED BY <1>2, <1>3, <1>4, <1>5, <1>6 DEF WorldStep

LEMMA OthersKeepOneEach ==
  ASSUME BaseInv, OneEachInv, (\E r \in Runs : RunStep(r)) \/ WorldStep
  PROVE  OneEachInv'
<1> SUFFICES ASSUME NEW q \in Runs PROVE OneEach(q)'
  BY DEF OneEachInv
<1>1. OneEach(q) /\ coming \subseteq Runs /\ Person \notin Runs
  BY NobodyIsNoRun DEF OneEachInv, BaseInv, TypeInv, TypeOK, Person
<1>2. UNCHANGED <<child, at>> /\ coming' \subseteq coming
  BY OthersLeave
<1>3. \/ pc'[q] = pc[q]
      \/ pc'[q] = "dead"
      \/ pc[q] = "out" /\ pc'[q] = "lock"
  BY OthersLeave
<1>4. child[q] # 0 => child[q] \in 1..born
  BY DEF BaseInv, TypeInv, ProvenInv
<1>5. CASE born' = born /\ by' = by
  BY <1>1, <1>2, <1>3, <1>5 DEF OneEach, Started, Proven, Snapped, Holds, Idle
<1>6. CASE \E who \in coming \cup {Person} :
             /\ born' = born + 1 /\ by'[born + 1] = who /\ \A t \in 1..born : by'[t] = by[t]
             /\ who \notin coming'
  <2>1. PICK who \in coming \cup {Person} :
          /\ born' = born + 1 /\ by'[born + 1] = who /\ \A t \in 1..born : by'[t] = by[t]
          /\ who \notin coming'
    BY <1>6
  <2>2. \A t \in 1..born' : t = born + 1 \/ (t \in 1..born /\ by'[t] = by[t])
    <3>1. born \in 0..MaxBorn
      BY DEF BaseInv, TypeInv, TypeOK
    <3>2. QED BY <2>1, <3>1, BoundsAssumption
  <2>3. who = q => q \in coming
    BY <1>1, <2>1
  <2>4. q \in coming' => q \in coming /\ who # q
    BY <1>2, <2>1
  <2>5. q \in coming' => child'[q] = 0 /\ \A t \in 1..born' : by'[t] # q
    BY <1>1, <1>2, <2>1, <2>2, <2>4 DEF OneEach
  <2>6. \A t, u \in 1..born' : by'[t] = q /\ by'[u] = q => t = u
    BY <1>1, <2>1, <2>2, <2>3 DEF OneEach
  <2>7. child'[q] # 0 => by'[child'[q]] = q
    BY <1>1, <1>2, <1>4, <2>1 DEF OneEach
  <2>8. pc'[q] \notin Started \cup {"returned", "dead"} =>
          pc[q] \notin Started \cup {"returned", "dead"}
    BY <1>3 DEF Started, Proven
  <2>9. pc'[q] \notin Started \cup {"returned", "dead"} =>
          child'[q] = 0 /\ q \notin coming' /\ \A t \in 1..born' : by'[t] # q
    BY <1>1, <1>2, <2>1, <2>2, <2>3, <2>8 DEF OneEach
  <2>10. Holds(q)' /\ pc'[q] # "recover" => Holds(q) /\ pc[q] # "recover"
    BY <1>3 DEF Holds, Idle
  <2>11. pc'[q] \in Snapped => pc[q] \in Snapped /\ Holds(q) /\ pc[q] # "recover"
    BY <1>3 DEF Snapped, Holds, Idle
  <2>12. pc'[q] \in Snapped => \A t \in 1..born' : t > at'[q] => by'[t] \in {Person, q}
    BY <1>1, <1>2, <2>1, <2>2, <2>11 DEF OneEach
  <2>13. QED BY <1>1, <1>2, <2>5, <2>6, <2>7, <2>9, <2>10, <2>12 DEF OneEach
<1>7. (born' = born /\ by' = by) \/
      \E who \in coming \cup {Person} :
        /\ born' = born + 1 /\ by'[born + 1] = who /\ \A t \in 1..born : by'[t] = by[t]
        /\ who \notin coming'
  BY AppearsFor
<1>8. QED BY <1>5, <1>6, <1>7

(* What a session says when it goes. *)
LEMMA SessionSays ==
  ASSUME BaseInv, NEW r \in Runs, Session(r), left'[r] \in NothingOpen
  PROVE  \/ left'[r] = left[r]
         \/ pc[r] \in {"check", "start"} /\ pc'[r] = "returned"
         \/ pc[r] \in Proven /\ child[r] \notin alive /\ pc'[r] = "returned"
<1>1. pc \in [Runs -> PCs] /\ left \in [Runs -> Lefts]
  BY DEF BaseInv, TypeInv, TypeOK
<1>2. CASE left' = left
  BY <1>2
<1>3. CASE \E l \in Lefts \ NothingOpen : SetLeft(r, l)
  BY <1>1, <1>3 DEF SetLeft
<1>4. CASE pc[r] \in {"check", "start"} /\ Return(r)
  BY <1>1, <1>4 DEF Return, Go
<1>5. CASE pc[r] \in Proven /\ child[r] \notin alive /\ Return(r)
  BY <1>1, <1>5 DEF Return, Go
<1>6. QED
  <2>1. CASE Leave(r)
    <3>1. \/ SetLeft(r, "by-rule") \/ SetLeft(r, "open")
          \/ child[r] \notin alive
      BY <2>1 DEF Leave
    <3>2. pc[r] \in Proven /\ Return(r)
      BY <2>1 DEF Leave, Proven
    <3>3. QED BY <1>3, <1>5, <3>1, <3>2 DEF Lefts, NothingOpen
  <2>2. CASE Mark(r) \/ Check(r) \/ Start(r) \/ Await(r) \/ Poll(r)
    <3>1. \/ left' = left \/ SetLeft(r, "may-be-starting") \/ SetLeft(r, "open")
          \/ pc[r] \in {"check", "start"} /\ Return(r)
      BY <2>2 DEF Mark, Check, Start, Await, Poll, Adopt
    <3>2. QED BY <1>2, <1>3, <1>4, <3>1 DEF Lefts, NothingOpen
  <2>3. CASE Wait(r) \/ Post(r) \/ Exit(r)
    <3>1. left' = left \/ (child[r] \notin alive /\ Return(r))
      <4>1. CASE Wait(r)
        BY <4>1 DEF Wait
      <4>2. CASE Post(r)
        BY <4>2 DEF Post
      <4>3. CASE Exit(r)
        BY <4>3 DEF Exit
      <4>4. QED BY <2>3, <4>1, <4>2, <4>3
    <3>2. pc[r] \in Proven
      BY <2>3 DEF Wait, Post, Exit, Proven
    <3>3. QED BY <1>2, <1>5, <3>1, <3>2
  <2>4. CASE AcquireLock(r) \/ Recover(r) \/ Detect(r) \/ Recheck(r) \/ Snapshot(r) \/ Write(r)
             \/ Close(r) \/ PreQuit(r) \/ Ask(r)
    BY <1>2, <2>4 DEF AcquireLock, Recover, Detect, Recheck, Snapshot, Write, Close, PreQuit, Ask
  <2>5. QED BY <2>1, <2>2, <2>3, <2>4 DEF Session

LEMMA SessionKeepsSaid ==
  ASSUME BaseInv, OneEachInv, SaidInv, Prompt, NEW r \in Runs, Session(r)
  PROVE  SaidInv'
<1> SUFFICES ASSUME NEW q \in Runs PROVE Said(q)'
  BY DEF SaidInv
<1>1. Said(q) /\ Said(r) /\ OneEach(r) /\ UNCHANGED <<alive, by, gaveUp, caller, told>>
  BY SessionLeaves DEF SaidInv, OneEachInv, watch
<1>2. CASE q # r
  <2>1. pc'[q] = pc[q] /\ left'[q] = left[q] /\ (q \in coming' <=> q \in coming)
    BY <1>2, SessionLeaves DEF Start
  <2>2. QED BY <1>1, <2>1 DEF Said, Nothing
<1>3. CASE q = r
  <2>1. alive \subseteq 1..born
    BY DEF BaseInv, TypeInv, TypeOK
  <2>2. coming' # coming => pc[r] = "start" /\ pc'[r] \in Started
    <3>1. "late" \notin Trouble /\ pc \in [Runs -> PCs]
      BY DEF Prompt, BaseInv, TypeInv, TypeOK
    <3>2. QED BY <3>1, SessionLeaves DEF Start, Go, Started
  <2>3. ASSUME pc[r] \in {"check", "start"} PROVE Nothing(r)
    BY <1>1, <2>1, <2>3 DEF OneEach, Nothing, Started, Proven
  <2>4. ASSUME pc[r] \in Proven, child[r] \notin alive PROVE Nothing(r)
    <3>1. child[r] # 0 /\ child[r] \in 1..born
      BY <2>4 DEF BaseInv, TypeInv, ProvenInv
    <3>2. by[child[r]] = r /\ r \notin coming
      BY <1>1, <3>1 DEF OneEach
    <3>3. QED BY <1>1, <2>1, <2>4, <3>1, <3>2 DEF OneEach, Nothing
  <2>5. ASSUME left'[r] \in NothingOpen
        PROVE Nothing(r)' /\ pc'[r] \notin {"check", "start"} \cup Started
    <3>1. CASE left'[r] = left[r]
      <4>1. Nothing(r) /\ pc[r] \notin {"check", "start"} \cup Started
        BY <1>1, <2>5, <3>1 DEF Said
      <4>2. ~Mark(r)
        BY <2>5 DEF Mark, SetLeft, NothingOpen, BaseInv, TypeInv, TypeOK
      <4>3. pc'[r] \notin {"check", "start"} \cup Started
        BY <4>1, <4>2, SessionGoes DEF Check
      <4>4. QED BY <1>1, <2>2, <4>1, <4>3 DEF Nothing
    <3>2. CASE left'[r] # left[r]
      <4>1. pc'[r] = "returned" /\ Nothing(r)
        BY <2>3, <2>4, <2>5, <3>2, SessionSays
      <4>2. QED BY <1>1, <2>2, <4>1 DEF Nothing, Started, Proven
    <3>3. QED BY <3>1, <3>2
  <2>6. ASSUME told[r] \in NothingOpen
        PROVE  /\ caller[r] \notin {"out", "waiting"}
               /\ Nothing(r)' /\ pc'[r] \notin {"start"} \cup Started
               /\ r \in gaveUp
    <3>1. /\ caller[r] \notin {"out", "waiting"} /\ Nothing(r)
          /\ pc[r] \notin {"start"} \cup Started
          /\ r \in gaveUp
      BY <1>1, <2>6, SessionGoes DEF Said
    <3>2. pc'[r] \notin {"start"} \cup Started
      BY <3>1, SessionGoes DEF Halted
    <3>3. QED BY <1>1, <2>2, <3>1, <3>2 DEF Nothing
  <2>7. QED BY <1>1, <1>3, <2>5, <2>6 DEF Said
<1>4. QED BY <1>2, <1>3

LEMMA OthersKeepNothing ==
  ASSUME BaseInv, NEW q \in Runs, Nothing(q), (\E r \in Runs : RunStep(r)) \/ WorldStep
  PROVE  Nothing(q)'
<1>1. alive \subseteq 1..born /\ Person # q
  BY NobodyIsNoRun DEF BaseInv, TypeInv, TypeOK, Person
<1>2. q \notin coming'
  BY OthersLeave DEF Nothing
<1>3. CASE by' = by /\ alive' \subseteq alive
  BY <1>2, <1>3 DEF Nothing
<1>4. CASE \E who \in coming \cup {Person} :
             /\ alive' = alive \cup {born + 1}
             /\ by'[born + 1] = who /\ \A t \in 1..born : by'[t] = by[t]
  BY <1>1, <1>2, <1>4 DEF Nothing
<1>5. QED BY <1>3, <1>4, AppearsFor

LEMMA OthersKeepSaid ==
  ASSUME BaseInv, SaidInv, (\E r \in Runs : RunStep(r)) \/ WorldStep
  PROVE  SaidInv'
<1> SUFFICES ASSUME NEW q \in Runs PROVE Said(q)'
  BY DEF SaidInv
<1>1. Said(q) /\ LockedWell(q) /\ left'[q] = left[q]
  BY OthersLeave DEF SaidInv, BaseInv, LockInv
<1>2. Nothing(q) => Nothing(q)'
  BY OthersKeepNothing
<1>3. \/ pc'[q] = pc[q]
      \/ pc'[q] = "dead"
      \/ pc[q] = "out" /\ pc'[q] = "lock" /\ caller[q] = "out"
  BY <1>1, OthersLeave DEF LockedWell
<1>4. /\ gaveUp \subseteq gaveUp'
      /\ \/ caller'[q] = caller[q]
         \/ caller[q] # "out" /\ caller'[q] \in {"reading", "done", "dead"}
         \/ caller[q] = "out" /\ caller'[q] = "waiting" /\ told'[q] = told[q]
      /\ \/ told'[q] = told[q]
         \/ /\ told'[q] = left[q] /\ caller'[q] = "reading"
            /\ pc'[q] = pc[q] /\ (pc[q] = "returned" \/ q \in gaveUp)
  <2>1. /\ caller \in [Runs -> {"out", "waiting", "reading", "done", "dead"}]
        /\ told \in [Runs -> Lefts \cup {"nothing yet"}]
    BY DEF BaseInv, TypeInv, TypeOK
  <2>2. ASSUME WorldStep
        PROVE  /\ UNCHANGED <<told, gaveUp>>
               /\ caller'[q] = caller[q] \/ (caller[q] # "out" /\ caller'[q] = "dead")
    BY <1>1, <2>1, <2>2 DEF WorldStep, Opens, Spoil, Restart, ComesUp, Quits, watch, Running,
                            LockedWell
  <2>3. ASSUME NEW r \in Runs, RunStep(r), r # q
        PROVE  told'[q] = told[q] /\ gaveUp \subseteq gaveUp' /\ caller'[q] = caller[q]
    BY <2>1, <2>3 DEF RunStep, Begin, Interrupt, Deliver, GiveUp, Tell, Release, Kill
  <2>4. ASSUME Deliver(q) \/ Tell(q)
        PROVE /\ gaveUp \subseteq gaveUp' /\ caller[q] # "out" /\ caller'[q] = "reading"
              /\ told'[q] = left[q] /\ pc'[q] = pc[q] /\ (pc[q] = "returned" \/ q \in gaveUp)
    BY <2>1, <2>4 DEF Deliver, Tell
  <2>5. ASSUME (\E m \in Modes : Begin(q, m)) \/ (\E how \in {"cancel", "stop"} : Interrupt(q, how))
                 \/ GiveUp(q) \/ Release(q) \/ Kill(q)
        PROVE /\ gaveUp \subseteq gaveUp' /\ told'[q] = told[q]
              /\ \/ caller'[q] = caller[q]
                 \/ caller[q] # "out" /\ caller'[q] \in {"reading", "done", "dead"}
                 \/ caller[q] = "out" /\ caller'[q] = "waiting"
    BY <1>1, <2>1, <2>5 DEF Begin, Interrupt, GiveUp, Release, Kill, Running, LockedWell
  <2>6. QED BY <2>2, <2>3, <2>4, <2>5 DEF RunStep
<1>5. left'[q] \in NothingOpen => Nothing(q)' /\ pc'[q] \notin {"check", "start"} \cup Started
  BY <1>1, <1>2, <1>3 DEF Said, Started, Proven
<1>6. ASSUME told'[q] \in NothingOpen
      PROVE  /\ caller'[q] \notin {"out", "waiting"}
             /\ Nothing(q)' /\ pc'[q] \notin {"start"} \cup Started
             /\ pc'[q] \notin {"returned", "dead"} => q \in gaveUp'
  <2>1. CASE told'[q] = told[q]
    BY <1>1, <1>2, <1>3, <1>4, <1>6, <2>1 DEF Said, Started, Proven
  <2>2. CASE told'[q] # told[q]
    BY <1>1, <1>2, <1>4, <1>6, <2>2 DEF Said
  <2>3. QED BY <2>1, <2>2
<1>7. QED BY <1>5, <1>6 DEF Said

StartedInv == OneEachInv /\ SaidInv

LEMMA StartedStarts == Init => StartedInv
<1> SUFFICES ASSUME Init PROVE OneEachInv /\ SaidInv
  BY DEF StartedInv
<1>1. ASSUME NEW r \in Runs PROVE OneEach(r)
  <2>1. pc[r] = "out" /\ coming = {} /\ child[r] = 0 /\ 1..born = {}
    <3>1. 1..0 = {}
      OBVIOUS
    <3>2. QED BY <3>1 DEF Init
  <2>2. QED BY <2>1 DEF OneEach, Holds, Idle, Snapped
<1>2. ASSUME NEW r \in Runs PROVE Said(r)
  <2>1. pc[r] = "out" /\ coming = {} /\ alive = {} /\ told[r] = "nothing yet"
    BY DEF Init
  <2>2. QED BY <2>1 DEF Said, Nothing, NothingOpen, Started, Proven
<1>3. QED BY <1>1, <1>2 DEF OneEachInv, SaidInv

LEMMA StartedKept ==
  ASSUME BaseInv, StartedInv, Prompt, [Next]_vars
  PROVE  StartedInv'
<1>1. OneEachInv /\ SaidInv
  BY DEF StartedInv
<1>2. CASE UNCHANGED vars
  <2>1. OneEachInv'
    BY <1>1, <1>2 DEF OneEachInv, OneEach, Holds, vars, computer, session
  <2>2. SaidInv'
    BY <1>1, <1>2 DEF SaidInv, Said, Nothing, vars, computer, watch
  <2>3. QED BY <2>1, <2>2 DEF StartedInv
<1>3. ASSUME NEW r \in Runs, Session(r) PROVE StartedInv'
  BY <1>1, <1>3, SessionKeepsOneEach, SessionKeepsSaid DEF StartedInv
<1>4. ASSUME (\E r \in Runs : RunStep(r)) \/ WorldStep PROVE StartedInv'
  BY <1>1, <1>4, OthersKeepOneEach, OthersKeepSaid DEF StartedInv
<1>5. QED BY <1>2, <1>3, <1>4, NextIs

(* A run told that nothing of its own is open was told the truth, for good, also when its
   watchdog gave up in the middle of the start, as long as a start shows its Thunderbird
   before the next session looks and one reported as failed shows none. *)
THEOREM ToldIsAlwaysTrue == Prompt => (Spec => []ToldIsTrue)
<1> SUFFICES ASSUME Prompt PROVE Spec => []ToldIsTrue
  OBVIOUS
<1>1. StartedInv => ToldIsTrue
  BY DEF StartedInv, SaidInv, Said, Nothing, ToldIsTrue
<1>2. BaseInv /\ StartedInv /\ [Next]_vars => StartedInv'
  BY StartedKept
<1>3. QED BY <1>1, <1>2, StartedStarts, BaseAlways, PTL DEF Spec

(***************************************************************************)
(* What the next run finds on record.                                      *)
(***************************************************************************)
(* Looks at the processes do not fail and nobody spoils the record: a save of the record
   and its removal may fail, and everything else that the runs, the person and the
   computer do is free. *)
Plain == Trouble \subseteq {"store", "clear"}

LEMMA PlainSees ==
  ASSUME Plain
  PROVE  Prompt /\ Sights = {alive} /\ ~Spoil
  BY DEF Plain, Prompt, Sights, Spoil

(* A leftover on record is found by the next run. *)
LEMMA RecordedIsFound ==
  ASSUME BaseInv, NEW t \in alive, by[t] # Person, Recorded(t)
  PROVE  Leftover(alive)
<1>1. t \in 1..born
  BY DEF BaseInv, TypeInv, TypeOK
<1>2. t # 0
  BY <1>1
<1>3. rec.child = t => MatchExact(alive)
  BY <1>2 DEF MatchExact, NamesProfile
<1>4. rec.state = "launching" /\ rec.child = 0 /\ rec.at < t => MatchWeak(alive)
  <2>1. born \in 0..MaxBorn /\ rec \in Record \cup {NoRecord, Unreadable}
    BY DEF BaseInv, TypeInv, TypeOK
  <2>2. rec.at \in Int
    BY <2>1, BoundsAssumption DEF Record, NoRecord, Unreadable
  <2>3. rec.at < t => t > rec.at
    BY <1>1, <2>1, <2>2, BoundsAssumption
  <2>4. QED BY <2>3 DEF MatchWeak
<1>5. QED BY <1>3, <1>4 DEF Recorded, Leftover

(* A session past its recovery may do with the record what it likes as long as what it
   started itself stays on it. *)
LEMMA OwnRecord ==
  ASSUME BaseInv, RecordedInv, NEW r \in Runs, Session(r), Holds(r), pc[r] # "recover",
         \A q \in Runs : at'[q] <= born,
         coming' \subseteq {r},
         coming' # {} => Launched',
         byRule \subseteq byRule',
         \A t \in alive : by[t] = r /\ t \notin byRule' => Recorded(t)',
         pc'[r] \in {"mark", "check", "start", "await", "poll"} =>
           rec' = Stored(r, "launching", 0) /\ at'[r] = at[r]
  PROVE  RecordedInv'
<1>1. UNCHANGED <<born, alive, by, boot>> /\ \A q \in Runs \ {r} : pc'[q] = pc[q]
  BY SessionLeaves
<1>2. \A q \in Runs \ {r} : ~Holds(q)
  BY OneHolds DEF BaseInv
<1>3. \A t \in alive : by[t] \notin {Person, r} => t \in byRule'
  BY DEF RecordedInv
<1>4. ASSUME NEW q \in Runs
      PROVE  /\ at'[q] <= born'
             /\ pc'[q] \in {"mark", "check", "start", "await", "poll"} =>
                  rec' = Stored(q, "launching", 0)'
             /\ Holds(q)' /\ pc'[q] # "recover" =>
                  \A t \in alive' : by'[t] \notin {Person, q} => t \in byRule'
  <2>1. at'[q] <= born'
    BY <1>1
  <2>2. CASE q = r
    BY <1>1, <1>3, <2>1, <2>2 DEF Stored
  <2>3. CASE q # r
    <3>1. pc'[q] \in Idle
      BY <1>1, <1>2, <2>3 DEF Holds
    <3>2. QED BY <2>1, <3>1 DEF Holds, Idle
  <2>4. QED BY <2>2, <2>3
<1>5. \A t \in alive' : by'[t] # Person /\ t \notin byRule' => Recorded(t)'
  BY <1>1, <1>3
<1>6. coming' # {} => Launched'
  OBVIOUS
<1>7. QED BY <1>4, <1>5, <1>6 DEF RecordedInv

(* What a save that may fail leaves on record of the session's own Thunderbird. *)
LEMMA StoreKeepsRecord ==
  ASSUME NEW r \in Runs, NEW state \in States, NEW c, StoreOrWarn(r, state, c),
         boot' = boot, Recorded(c)
  PROVE  Recorded(c)'
<1>1. CASE rec' = rec
  BY <1>1 DEF Recorded
<1>2. CASE rec' = Stored(r, state, c)
  BY <1>2 DEF Recorded, Stored
<1>3. QED BY <1>1, <1>2 DEF StoreOrWarn

LEMMA FirstStepsKeepRecorded ==
  ASSUME BaseInv, OneEachInv, RecordedInv, Plain, NEW r \in Runs,
         AcquireLock(r) \/ Recover(r) \/ Detect(r) \/ Recheck(r)
  PROVE  RecordedInv'
<1>1. /\ Session(r) /\ UNCHANGED <<born, alive, by, boot, at, byRule, kept, coming>>
      /\ \A q \in Runs \ {r} : pc'[q] = pc[q]
  BY SessionLeaves DEF Session, AcquireLock, Recover, Detect, Recheck, Aside, computer, session
<1>2. pc \in [Runs -> PCs]
  BY DEF BaseInv, TypeInv, TypeOK
<1>3. CASE AcquireLock(r) \/ (rec' = rec /\ pc'[r] = "returned")
  <2>1. rec' = rec /\ pc'[r] \in {"recover", "returned"}
    BY <1>2, <1>3 DEF AcquireLock, Return, Go
  <2>2. QED BY <1>1, <2>1 DEF RecordedInv, Holds, Idle, Stored, Launched, Recorded
<1>4. CASE Recover(r) /\ pc'[r] # "returned"
  <2>1. ~Leftover(alive) /\ coming = {} /\ pc'[r] = "detect" /\ Holds(r)
    BY <1>2, <1>4, PlainSees DEF Recover, Return, Go, Prompt, Holds, Idle
  <2>2. \A t \in alive : by[t] # Person => t \in byRule
    BY <2>1, RecordedIsFound DEF RecordedInv
  <2>3. \A q \in Runs \ {r} : ~Holds(q)
    BY <2>1, OneHolds DEF BaseInv
  <2>4. QED BY <1>1, <2>1, <2>2, <2>3 DEF RecordedInv, Holds, Idle
<1>5. CASE (Detect(r) \/ Recheck(r)) /\ pc'[r] # "returned"
  <2>1. rec' = rec /\ pc[r] \in {"detect", "recheck"} /\ pc'[r] \in {"recheck", "snapshot"}
    BY <1>2, <1>5 DEF Detect, Recheck, Return, Go
  <2>2. QED BY <1>1, <2>1 DEF RecordedInv, Holds, Idle, Stored, Launched, Recorded
<1>6. rec' = rec \/ (Recover(r) /\ pc'[r] # "returned")
  BY <1>2 DEF AcquireLock, Recover, Detect, Recheck, Return, Go
<1>7. QED BY <1>3, <1>4, <1>5, <1>6

LEMMA StartStepsKeepRecorded ==
  ASSUME BaseInv, OneEachInv, RecordedInv, Plain, NEW r \in Runs,
         Snapshot(r) \/ Write(r) \/ Mark(r) \/ Check(r) \/ Start(r)
  PROVE  RecordedInv'
<1>1. /\ Session(r) /\ UNCHANGED <<born, alive, by, boot, byRule, kept>>
      /\ \A q \in Runs \ {r} : at'[q] = at[q]
  BY SessionLeaves DEF Session, Snapshot, Write, Mark, Check, Start, Aside
<1>2. /\ pc \in [Runs -> PCs] /\ at \in [Runs -> 0..MaxBorn] /\ born \in 0..MaxBorn
      /\ alive \subseteq 1..born
  BY DEF BaseInv, TypeInv, TypeOK
<1>3. Holds(r) /\ pc[r] # "recover" /\ pc[r] \notin Started \cup {"returned", "dead"}
  BY DEF Snapshot, Write, Mark, Check, Start, Holds, Idle, Started, Proven
<1>4. coming = {} /\ \A t \in alive : by[t] # r
  BY <1>2, <1>3 DEF OneEachInv, OneEach
<1>5. \A q \in Runs : at'[q] <= born
  <2>1. at'[r] = born \/ at'[r] = at[r]
    BY <1>2 DEF Snapshot, Write, Mark, Check, Start, session
  <2>2. QED BY <1>1, <1>2, <2>1, BoundsAssumption DEF RecordedInv
<1>6. /\ coming' \subseteq {r}
      /\ coming' # {} => Start(r) /\ rec' = rec /\ UNCHANGED <<at, boot, born>>
  <2>1. "late" \notin Trouble
    BY DEF Plain
  <2>2. QED BY <1>1, <1>4, <2>1 DEF Snapshot, Write, Mark, Check, Start, computer, session
<1>7. pc'[r] \in {"mark", "check", "start", "await", "poll"} =>
        rec' = Stored(r, "launching", 0) /\ at'[r] = at[r]
  BY <1>2 DEF RecordedInv, Snapshot, Write, Mark, Check, Start, Return, Go, session
<1>8. coming' # {} => Launched'
  <2>1. Stored(r, "launching", 0).at = at[r] /\ Stored(r, "launching", 0).boot = boot
        /\ Stored(r, "launching", 0).child = 0 /\ Stored(r, "launching", 0).state = "launching"
    BY DEF Stored
  <2>2. Start(r) => rec = Stored(r, "launching", 0) /\ at[r] <= born
    BY DEF RecordedInv, Start
  <2>3. QED BY <1>6, <2>1, <2>2 DEF Launched
<1>9. QED BY <1>1, <1>3, <1>4, <1>5, <1>6, <1>7, <1>8, OwnRecord

LEMMA LastStepsKeepRecorded ==
  ASSUME BaseInv, OneEachInv, RecordedInv, Plain, NEW r \in Runs,
         \/ Await(r) \/ Poll(r)
         \/ Wait(r) \/ Leave(r) \/ Close(r) \/ PreQuit(r) \/ Ask(r) \/ Post(r) \/ Exit(r)
  PROVE  RecordedInv'
<1>1. /\ Session(r) /\ UNCHANGED <<born, alive, by, boot, coming, at>>
      /\ byRule \subseteq byRule'
  BY SessionLeaves DEF Session, Await, Poll, Wait, Leave, Close, PreQuit, Ask, Post, Exit,
                       Start, Aside, computer, session
<1>2. pc \in [Runs -> PCs] /\ alive \subseteq 1..born
  BY DEF BaseInv, TypeInv, TypeOK
<1>3. Holds(r) /\ pc[r] # "recover" /\ OneEach(r)
  BY DEF OneEachInv, Await, Poll, Wait, Leave, Close, PreQuit, Ask, Post, Exit, Holds, Idle
<1>4. coming \subseteq {r} /\ \A q \in Runs : at'[q] <= born
  BY <1>1, <1>3 DEF OneEach, RecordedInv
<1>5. \A t \in alive : by[t] = r /\ t \notin byRule => Recorded(t)
  BY NobodyIsNoRun DEF RecordedInv, Person
<1>6. CASE rec' = rec
  <2>1. coming' # {} => Launched'
    BY <1>1, <1>6 DEF RecordedInv, Launched
  <2>2. \A t \in alive : by[t] = r /\ t \notin byRule' => Recorded(t)'
    BY <1>1, <1>5, <1>6 DEF Recorded
  <2>3. pc'[r] \in {"mark", "check", "start", "await", "poll"} =>
          rec' = Stored(r, "launching", 0) /\ at'[r] = at[r]
    BY <1>1, <1>2, <1>6 DEF RecordedInv, Await, Poll, Wait, Leave, Close, PreQuit, Ask, Post, Exit,
                            LeaveRunning, Return, Go
  <2>4. QED BY <1>1, <1>3, <1>4, <2>1, <2>2, <2>3, OwnRecord
<1>7. CASE \E seen \in Sights, t \in Births :
             /\ IsOurs(r, t, seen) /\ Adopt(r, t) /\ (Await(r) \/ Poll(r))
             /\ pc'[r] \in {"wait", "leave"}
  <2>1. PICK seen \in Sights, t \in Births :
          IsOurs(r, t, seen) /\ Adopt(r, t) /\ (Await(r) \/ Poll(r)) /\ pc'[r] \in {"wait", "leave"}
    BY <1>7
  <2>2. child[r] = 0
    BY <2>1 DEF BaseInv, TypeInv, ProvenInv, Await, Poll, Proven
  <2>3. child'[r] = t /\ t # 0 /\ StoreOrWarn(r, "syncing", t)
    <3>1. child' = [child EXCEPT ![r] = t] /\ child \in [Runs -> 0..MaxBorn]
      BY <2>1 DEF Adopt, BaseInv, TypeInv, TypeOK
    <3>2. t # 0
      BY DEF Births
    <3>3. QED BY <2>1, <3>1, <3>2 DEF Adopt
  <2>4. by[t] = r /\ t \in 1..born /\ coming = {}
    BY <1>4, <2>1, <2>2, <2>3, AdoptsItsOwn
  <2>5. \A u \in alive : by[u] = r => u = t
    BY <1>2, <1>3, <2>4 DEF OneEach
  <2>6. Recorded(t) => Recorded(t)'
    BY <1>1, <2>3, StoreKeepsRecord DEF States
  <2>7. \A u \in alive : by[u] = r /\ u \notin byRule' => Recorded(u)'
    BY <1>1, <1>5, <2>5, <2>6
  <2>8. QED BY <1>1, <1>3, <1>4, <2>1, <2>4, <2>7, OwnRecord
<1>8. CASE /\ pc[r] \in Proven /\ pc'[r] \in Proven \cup {"returned"}
           /\ \/ \E state \in States : StoreOrWarn(r, state, child[r])
              \/ Cleared /\ (child[r] \notin alive \/ child[r] \in byRule')
  <2>1. child[r] # 0 /\ child[r] \in 1..born
    BY <1>8 DEF BaseInv, TypeInv, ProvenInv
  <2>2. by[child[r]] = r /\ coming = {}
    BY <1>3, <1>4, <2>1 DEF OneEach
  <2>3. \A u \in alive : by[u] = r => u = child[r]
    BY <1>2, <1>3, <2>1, <2>2 DEF OneEach
  <2>4. ASSUME NEW u \in alive, u = child[r], u \notin byRule', Recorded(u) PROVE Recorded(u)'
    <3>1. CASE \E state \in States : StoreOrWarn(r, state, child[r])
      BY <1>1, <2>4, <3>1, StoreKeepsRecord
    <3>2. QED BY <1>8, <2>4, <3>1
  <2>5. \A u \in alive : by[u] = r /\ u \notin byRule' => Recorded(u)'
    BY <1>1, <1>5, <2>3, <2>4
  <2>6. pc'[r] \notin {"mark", "check", "start", "await", "poll"}
    BY <1>8 DEF Proven
  <2>7. QED BY <1>1, <1>3, <1>4, <2>2, <2>5, <2>6, OwnRecord
<1>9. ASSUME rec' # rec, Await(r) \/ Poll(r)
      PROVE \E seen \in Sights, t \in Births :
              /\ IsOurs(r, t, seen) /\ Adopt(r, t) /\ (Await(r) \/ Poll(r))
              /\ pc'[r] \in {"wait", "leave"}
  BY <1>2, <1>9 DEF Await, Poll, Go
<1>10. ASSUME rec' # rec,
              Wait(r) \/ Leave(r) \/ Close(r) \/ PreQuit(r) \/ Ask(r) \/ Post(r) \/ Exit(r)
       PROVE  /\ pc[r] \in Proven /\ pc'[r] \in Proven \cup {"returned"}
              /\ \/ \E state \in States : StoreOrWarn(r, state, child[r])
                 \/ Cleared /\ (child[r] \notin alive \/ child[r] \in byRule')
  BY <1>2, <1>10 DEF Wait, Leave, Close, PreQuit, Ask, Post, Exit, LeaveRunning, Return, Go,
                     Proven, States
<1>11. QED BY <1>6, <1>7, <1>8, <1>9, <1>10

LEMMA OthersKeepRecorded ==
  ASSUME BaseInv, OneEachInv, RecordedInv, Plain, (\E r \in Runs : RunStep(r)) \/ WorldStep
  PROVE  RecordedInv'
<1>1. UNCHANGED <<rec, child, at, left, asked, byRule, kept>> /\ coming' \subseteq coming
  BY OthersLeave, PlainSees
<1>2. \A q \in Runs : pc'[q] = pc[q] \/ pc'[q] \in {"dead", "lock"}
  BY OthersLeave
<1>3. /\ born \in 0..MaxBorn /\ at \in [Runs -> 0..MaxBorn] /\ coming \subseteq Runs
      /\ alive \subseteq 1..born
  BY DEF BaseInv, TypeInv, TypeOK
<1>4. CASE born' = born /\ by' = by /\ alive' \subseteq alive
  <2>1. boot' = boot \/ (alive' = {} /\ coming' = {} /\ \A q \in Runs : pc'[q] \in Idle)
    <3>1. ASSUME WorldStep, boot' # boot
          PROVE  alive' = {} /\ coming' = {} /\ \A q \in Runs : pc'[q] \in Idle
      BY <3>1 DEF WorldStep, Opens, Spoil, Restart, ComesUp, Quits, computer, Running, Idle
    <3>2. ASSUME NEW r \in Runs, RunStep(r) PROVE boot' = boot
      BY <3>2 DEF RunStep, Begin, Interrupt, Deliver, GiveUp, Tell, Release, Kill, computer
    <3>3. QED BY <3>1, <3>2
  <2>2. CASE boot' = boot
    BY <1>1, <1>2, <1>4, <2>2 DEF RecordedInv, Holds, Idle, Stored, Launched, Recorded
  <2>3. CASE alive' = {} /\ coming' = {} /\ \A q \in Runs : pc'[q] \in Idle
    BY <1>1, <1>4, <2>3 DEF RecordedInv, Holds, Idle
  <2>4. QED BY <2>1, <2>2, <2>3
<1>5. CASE \E who \in coming \cup {Person} :
             /\ born' = born + 1 /\ born + 1 \in Births /\ alive' = alive \cup {born + 1}
             /\ by'[born + 1] = who /\ \A t \in 1..born : by'[t] = by[t]
             /\ who \notin coming' /\ rec' = rec /\ boot' = boot
  <2>1. PICK who \in coming \cup {Person} :
             /\ born' = born + 1 /\ born + 1 \in Births /\ alive' = alive \cup {born + 1}
             /\ by'[born + 1] = who /\ \A t \in 1..born : by'[t] = by[t]
             /\ who \notin coming' /\ rec' = rec /\ boot' = boot
    BY <1>5
  <2>2. \A q \in Runs : at'[q] <= born'
    BY <1>1, <1>3, <2>1, BoundsAssumption DEF RecordedInv
  <2>3. Launched => Launched' /\ \A t : t = born + 1 => Recorded(t)'
    <3>1. ASSUME Launched PROVE rec.at \in Int
      <4>1. rec \in Record
        <5>1. rec \in Record \cup {NoRecord, Unreadable}
          BY DEF BaseInv, TypeInv, TypeOK
        <5>2. NoRecord.state # "launching" /\ Unreadable.state # "launching"
          BY DEF NoRecord, Unreadable
        <5>3. QED BY <3>1, <5>1, <5>2 DEF Launched
      <4>2. QED BY <4>1, BoundsAssumption DEF Record
    <3>2. ASSUME Launched PROVE rec.at <= born' /\ rec.at < born + 1
      BY <1>3, <2>1, <3>1, <3>2, BoundsAssumption DEF Launched
    <3>3. QED BY <2>1, <3>2 DEF Launched, Recorded, States
  <2>4. \A q \in Runs : pc'[q] \in {"mark", "check", "start", "await", "poll"} =>
          rec' = Stored(q, "launching", 0)'
    BY <1>1, <1>2, <2>1 DEF RecordedInv, Stored
  <2>5. ASSUME NEW q \in Runs, Holds(q)', pc'[q] # "recover",
               NEW t \in alive', by'[t] \notin {Person, q}
        PROVE  t \in byRule'
    <3>1. Holds(q) /\ pc[q] # "recover"
      BY <1>2, <2>5 DEF Holds, Idle
    <3>2. t # born + 1
      BY <2>1, <2>5, <3>1 DEF OneEachInv, OneEach
    <3>3. QED BY <1>1, <1>3, <2>1, <2>5, <3>1, <3>2 DEF RecordedInv
  <2>6. ASSUME NEW t \in alive', by'[t] # Person, t \notin byRule' PROVE Recorded(t)'
    <3>1. CASE t = born + 1
      BY <2>1, <2>3, <2>6, <3>1 DEF RecordedInv
    <3>2. CASE t # born + 1
      BY <1>1, <1>3, <2>1, <2>6, <3>2 DEF RecordedInv, Recorded
    <3>3. QED BY <3>1, <3>2
  <2>7. coming' # {} => Launched'
    BY <1>1, <2>3 DEF RecordedInv
  <2>8. QED BY <2>2, <2>4, <2>5, <2>6, <2>7 DEF RecordedInv
<1>6. QED BY <1>4, <1>5, AppearsFor

LEMMA RecordedKept ==
  ASSUME BaseInv, StartedInv, RecordedInv, Plain, [Next]_vars
  PROVE  RecordedInv'
<1>1. OneEachInv
  BY DEF StartedInv
<1>2. CASE UNCHANGED vars
  BY <1>2 DEF RecordedInv, Holds, Stored, Launched, Recorded, vars, computer, session
<1>3. ASSUME NEW r \in Runs, Session(r) PROVE RecordedInv'
  BY <1>1, <1>3, FirstStepsKeepRecorded, StartStepsKeepRecorded, LastStepsKeepRecorded DEF Session
<1>4. ASSUME (\E r \in Runs : RunStep(r)) \/ WorldStep PROVE RecordedInv'
  BY <1>1, <1>4, OthersKeepRecorded
<1>5. QED BY <1>2, <1>3, <1>4, NextIs

LEMMA RecordedStarts == Init => RecordedInv
<1> SUFFICES ASSUME Init PROVE RecordedInv
  OBVIOUS
<1>1. coming = {} /\ alive = {} /\ \A r \in Runs : pc[r] = "out" /\ at[r] <= born
  <2>1. born = 0 /\ \A r \in Runs : at[r] = 0
    BY DEF Init
  <2>2. \A r \in Runs : at[r] <= born
    BY <2>1
  <2>3. QED BY <2>2 DEF Init
<1>2. QED BY <1>1 DEF RecordedInv, Holds, Idle

(* A Thunderbird that a session started and no longer watches, and did not leave to the
   person, is one the next run recognises, wherever the session, its watchdog and its
   caller were cut short and whichever saves and removals of the record failed. *)
THEOREM LeftoverAlwaysRecognised == Plain => (Spec => []LeftoverIsRecognised)
<1> SUFFICES ASSUME Plain PROVE Spec => []LeftoverIsRecognised
  OBVIOUS
<1>1. BaseInv /\ RecordedInv => LeftoverIsRecognised
  BY RecordedIsFound DEF RecordedInv, LeftoverIsRecognised
<1>2. BaseInv /\ StartedInv /\ [Next]_vars => StartedInv'
  BY StartedKept, PlainSees
<1>3. BaseInv /\ StartedInv /\ RecordedInv /\ [Next]_vars => RecordedInv'
  BY RecordedKept
<1>4. QED BY <1>1, <1>2, <1>3, StartedStarts, RecordedStarts, BaseAlways, PTL DEF Spec
=============================================================================
