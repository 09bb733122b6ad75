----------------------------- MODULE OpenArchive -----------------------------
(***************************************************************************)
(* An encrypted archive open in the Desktop: the registry of open archives *)
(* (internal/desktop/keys.go), the keys it opens and leases                *)
(* (internal/keyring/keyring.go), and the reader that serves the sealed    *)
(* record while a backup moves it (internal/keyring/reader.go).  Requests  *)
(* of the reader's pages, a person who unlocks and locks, the idle timer,  *)
(* a switch of archives, Shut down, a delete and a forget-all interleave.  *)
(*                                                                         *)
(* One archive.  A key is a number, drawn when it is opened; an entry of   *)
(* the registry is named by its key, a reader by the lease it reads with.  *)
(* What a peek sees of the record (ver) moves twice in a commit, at the    *)
(* pointer's rename and at its mirror's; a view is named by the peek it    *)
(* was loaded under.  Every commit seals the message again.                *)
(***************************************************************************)
EXTENDS Integers

CONSTANTS
  Requests,     \* the reader's requests
  MaxCommits,   \* bound: commits of the backup
  MaxEvents,    \* bound: commits, locks and losses in all
  MaxKeys,      \* bound: keys opened or leased
  Locks,        \* which: "person", "idle", "switch", "shutdown", "forget", "delete"
  Losses        \* what may be lost from the first: "none", "chunk", "unit"

ASSUME OpenBoundsAssumption == {MaxCommits, MaxEvents, MaxKeys} \subseteq Nat

Gens   == 0..MaxCommits
Vers   == 0..(2 * MaxCommits)
Keys   == 1..MaxKeys
NoView == -1
\* A load that read no generation: the record was short of a file, or the key locked.
Unread  == -1
KeyGone == -2
Person == "person"
Nobody == "nobody"

ASSUME RequestsAssumption == Requests \cap {Person, Nobody} = {}

VARIABLES
  ver, chunks, units,      \* the record: its version, the generations whose files are there
  lost,                    \* what is lost of the first generation
  entry, held, shut, away, gen, opening, locks,   \* the registry
  keys, drawn, ents,       \* keys and entries
  readers, views,          \* readers and the views they loaded
  req                      \* the requests

record   == <<ver, chunks, units, lost>>
registry == <<entry, held, shut, away, gen, opening, locks>>
opened   == <<keys, drawn, ents>>
vars     == <<record, registry, opened, readers, views, req>>

Idle == [pc |-> "idle", op |-> "unit", e |-> 0, r |-> 0, new |-> FALSE, v |-> NoView,
         peek |-> NoView, got |-> 0, tries |-> 0, loads |-> 0, since |-> 0, missed |-> NoView,
         told |-> "none"]
NoOpening == [by |-> Nobody, gen |-> 0]
NoKey     == [st |-> "none", refs |-> 0, of |-> 0]
NoEntry   == [reader |-> 0, building |-> 0, closed |-> FALSE, builder |-> Nobody,
              close |-> "no", now |-> FALSE, took |-> {}, shuts |-> 0]
NoReader  == [locked |-> FALSE, view |-> NoView, stale |-> FALSE, loader |-> Nobody,
              closing |-> FALSE]

TypeOK ==
  /\ ver \in Vers /\ chunks \subseteq Gens /\ units \subseteq Gens
  /\ lost \in {"none", "chunk", "unit"}
  /\ entry \in Keys \cup {0} /\ held \in BOOLEAN /\ shut \in BOOLEAN
  /\ away \in {"none", "forget", "forgotten", "delete", "deleted"}
  /\ gen \in 0..MaxEvents /\ locks \in 0..MaxEvents /\ drawn \in 0..MaxKeys
  /\ opening \in [by : Requests \cup {Person, Nobody}, gen : 0..MaxEvents]
  /\ \A k \in Keys :
       /\ keys[k].st \in {"none", "open", "locked", "dead"} /\ keys[k].refs \in Nat
       /\ keys[k].st = "locked" => keys[k].refs > 0
       /\ keys[k].st \in {"none", "dead"} => keys[k].refs = 0
       /\ readers[k].view \in Vers \cup {NoView}
       /\ \A v \in Vers : views[k][v].st \in {"none", "open", "closing", "closed"}
  /\ \A q \in Requests : req[q].told \in {"none", "served", "locked", "notfound", "refused", "busy"}

\* The generation of the pointer that a load takes: the primary is renamed first.
Ptr(v) == (v + 1) \div 2

\* Bounded together: each run of the model has few of them, in any mix.
Events == Ptr(ver) + locks + (IF lost = "none" THEN 0 ELSE 1)

Init ==
  /\ ver = 0 /\ lost \in Losses
  /\ chunks = {g \in {0} : lost # "chunk"} /\ units = {g \in {0} : lost # "unit"}
  /\ entry = 0 /\ held = FALSE /\ shut = FALSE /\ away = "none"
  /\ gen = 0 /\ opening = NoOpening /\ locks = 0
  /\ keys = [k \in Keys |-> NoKey] /\ drawn = 0
  /\ ents = [k \in Keys |-> NoEntry]
  /\ readers = [k \in Keys |-> NoReader]
  /\ views = [k \in Keys |-> [v \in Vers |-> [st |-> "none", gen |-> 0]]]
  /\ req = [q \in Requests |-> Idle]

(***************************************************************************)
(* The backup: external here, modelled by what SealedRecord shows of it.   *)
(***************************************************************************)
\* The pointer renamed, after everything it names was written; then its mirror.
CommitPointer ==
  /\ ver % 2 = 0 /\ ver < 2 * MaxCommits /\ Events < MaxEvents
  /\ ver' = ver + 1
  /\ chunks' = chunks \cup {Ptr(ver')} /\ units' = units \cup {Ptr(ver')}
  /\ UNCHANGED <<lost, registry, opened, readers, views, req>>

CommitMirror ==
  /\ ver % 2 = 1
  /\ ver' = ver + 1
  /\ UNCHANGED <<chunks, units, lost, registry, opened, readers, views, req>>

\* The next run's start removes what no copy of the pointer names.
SweepOld ==
  /\ ver % 2 = 0
  /\ chunks' = chunks \cap {Ptr(ver)} /\ units' = units \cap {Ptr(ver)}
  /\ <<chunks', units'>> # <<chunks, units>>
  /\ UNCHANGED <<ver, lost, registry, opened, readers, views, req>>

(***************************************************************************)
(* Keys: a lock ends a key when its last use ends.                         *)
(***************************************************************************)
LockKeys(S) ==
  [k \in Keys |-> IF k \in S /\ keys[k].st = "open"
                  THEN [keys[k] EXCEPT !.st = IF keys[k].refs = 0 THEN "dead" ELSE "locked"]
                  ELSE keys[k]]

Acquired(k) == [keys EXCEPT ![k].refs = @ + 1]

Released(ks, k) ==
  [ks EXCEPT ![k].refs = @ - 1,
             ![k].st = IF ks[k].refs = 1 /\ @ = "locked" THEN "dead" ELSE @]

Drawn(ks, k, of) == [ks EXCEPT ![k] = [st |-> "open", refs |-> 0, of |-> of]]

(***************************************************************************)
(* The registry: an open, one at a time, and what ends it.                 *)
(***************************************************************************)
Deleting == away \in {"delete", "deleted"}
Hushed   == away \in {"forget", "forgotten"}

MayOpen(silent) ==
  ~shut /\ ~Deleting /\ ~Hushed /\ entry = 0 /\ opening.by = Nobody /\ ~(silent /\ held)

\* The person types a password, or clicks Unlock.
Unlock ==
  /\ MayOpen(FALSE)
  /\ drawn < MaxKeys
  /\ opening' = [by |-> Person, gen |-> gen]
  /\ UNCHANGED <<record, entry, held, shut, away, gen, locks, opened, readers, views, req>>

Answer(q, what) == req' = [req EXCEPT ![q] = [Idle EXCEPT !.pc = "done", !.told = what]]
Step(q, pc)     == req' = [req EXCEPT ![q].pc = pc]

\* A request for a page, or for a message: it finds the archive open, or opens it with
\* the key this computer remembers, or gets the locked page.
Ask(q) ==
  /\ req[q].pc = "idle"
  /\ \E op \in {"unit", "index"} :
       LET asked == [Idle EXCEPT !.op = op, !.since = ver] IN
       IF entry # 0
       THEN /\ req' = [req EXCEPT ![q] = [asked EXCEPT !.pc = "build", !.e = entry]]
            /\ UNCHANGED opening
       ELSE \/ /\ MayOpen(TRUE)
               /\ drawn < MaxKeys
               /\ opening' = [by |-> q, gen |-> gen]
               /\ req' = [req EXCEPT ![q] = [asked EXCEPT !.pc = "opening"]]
            \/ /\ Answer(q, "locked")
               /\ UNCHANGED opening
  /\ UNCHANGED <<record, entry, held, shut, away, gen, locks, opened, readers, views>>

KeepsOpen == ~shut /\ gen = opening.gen /\ ~Deleting

\* The open ends: kept, its key destroyed when a lock landed on it, or failed.
OpenEnds ==
  /\ opening.by # Nobody
  /\ opening' = NoOpening
  /\ \/ /\ KeepsOpen
        /\ drawn < MaxKeys
        /\ drawn' = drawn + 1
        /\ keys' = Drawn(keys, drawn', drawn')
        /\ entry' = drawn'
        /\ held' = (held /\ opening.by # Person)
     \/ UNCHANGED <<drawn, keys, entry, held>>
  /\ IF opening.by = Person THEN UNCHANGED req
     ELSE IF entry' = entry THEN Answer(opening.by, "locked")
     ELSE req' = [req EXCEPT ![opening.by].pc = "build", ![opening.by].e = entry']
  /\ UNCHANGED <<record, shut, away, gen, locks, ents, readers, views>>

(***************************************************************************)
(* readerFor: a reader of its own lease, made by one request at a time.    *)
(***************************************************************************)
Entry(q) == ents[req[q].e]

\* An answer to a request that was making a reader: the next may make one.
GiveUp(q, what) == Answer(q, what) /\ ents' = [ents EXCEPT ![req[q].e].builder = Nobody]

FindReader(q) ==
  /\ req[q].pc = "build"
  /\ Entry(q).builder = Nobody
  /\ IF Entry(q).closed THEN Answer(q, "locked") /\ UNCHANGED ents
     ELSE IF Entry(q).reader # 0
     THEN /\ req' = [req EXCEPT ![q].pc = "look", ![q].r = Entry(q).reader]
          /\ UNCHANGED ents
     ELSE /\ Step(q, "lease")
          /\ ents' = [ents EXCEPT ![req[q].e].builder = q]
  /\ UNCHANGED <<record, registry, keys, drawn, readers, views>>

\* Lease: opened from the key file outside the lock, with the entry's key in use.
BeginLease(q) ==
  /\ req[q].pc = "lease"
  /\ IF keys[req[q].e].st # "open" THEN GiveUp(q, "locked") /\ UNCHANGED keys
     ELSE /\ drawn < MaxKeys
          /\ keys' = Acquired(req[q].e)
          /\ Step(q, "leasing")
          /\ UNCHANGED ents
  /\ UNCHANGED <<record, registry, drawn, readers, views>>

EndLease(q) ==
  /\ req[q].pc = "leasing"
  /\ LET e == req[q].e
         back == Released(keys, e) IN
     IF keys[e].st # "open"
     THEN keys' = back /\ GiveUp(q, "locked") /\ UNCHANGED drawn
     ELSE /\ drawn < MaxKeys
          /\ drawn' = drawn + 1
          /\ keys' = Drawn(back, drawn', e)
          /\ req' = [req EXCEPT ![q].pc = "leased", ![q].r = drawn', ![q].new = TRUE]
          /\ UNCHANGED ents
  /\ UNCHANGED <<record, registry, readers, views>>

\* The lease shown to a close that may land while the reader loads.
BeginBuild(q) ==
  /\ req[q].pc = "leased"
  /\ IF Entry(q).closed
     THEN keys' = LockKeys({req[q].r}) /\ GiveUp(q, "locked")
     ELSE /\ ents' = [ents EXCEPT ![req[q].e].building = req[q].r]
          /\ Step(q, "look")
          /\ UNCHANGED keys
  /\ UNCHANGED <<record, registry, drawn, readers, views>>

EndBuild(q) ==
  /\ req[q].pc = "built"
  /\ ents' = [ents EXCEPT ![req[q].e].building = 0]
  /\ Step(q, "keep")
  /\ UNCHANGED <<record, registry, keys, drawn, readers, views>>

\* Mutant: a reader is kept whatever became of its entry meanwhile.
KeepsReaderMutant(q) == TRUE

KeepsReader(q) == ~Entry(q).closed /\ entry = req[q].e

KeepReader(q) ==
  /\ req[q].pc = "keep"
  /\ IF KeepsReader(q)
     THEN /\ ents' = [ents EXCEPT ![req[q].e].reader = req[q].r, ![req[q].e].builder = Nobody]
          /\ req' = [req EXCEPT ![q].pc = "look", ![q].new = FALSE, ![q].v = NoView]
     ELSE Step(q, "drop") /\ UNCHANGED ents
  /\ UNCHANGED <<record, registry, keys, drawn, readers, views>>

(***************************************************************************)
(* The reader's lock.                                                      *)
(***************************************************************************)
IsLocked(r) == readers[r].locked \/ keys[r].st # "open"

Gone(vs, r) ==
  IF readers[r].view = NoView THEN vs ELSE [vs EXCEPT ![r][readers[r].view].st = "closing"]

\* Close, which takes the view once no load goes on; with a Lock before it, at once.
CloseReader(r, now) ==
  /\ readers' = [readers EXCEPT ![r].locked = TRUE, ![r].closing = TRUE,
                                ![r].view = IF now THEN NoView ELSE @]
  /\ views' = IF now THEN Gone(views, r) ELSE views

\* A reader made for an archive that was locked meanwhile is not kept.
DropReader(q) ==
  /\ req[q].pc = "drop"
  /\ keys' = LockKeys({req[q].r})
  /\ \E now \in {TRUE, ~shut} : CloseReader(req[q].r, now)
  /\ GiveUp(q, "locked")
  /\ UNCHANGED <<record, registry, drawn>>

EndClose(r) ==
  /\ readers[r].closing /\ readers[r].loader = Nobody
  /\ readers' = [readers EXCEPT ![r].closing = FALSE, ![r].view = NoView]
  /\ views' = Gone(views, r)
  /\ UNCHANGED <<record, registry, opened, req>>

\* A view's close waits for the requests that use its index.
CloseView(r, v) ==
  /\ views[r][v].st = "closing"
  /\ \A q \in Requests : ~(req[q].pc = "using" /\ req[q].r = r /\ req[q].v = v)
  /\ views' = [views EXCEPT ![r][v].st = "closed"]
  /\ UNCHANGED <<record, registry, opened, readers, req>>

(***************************************************************************)
(* ensure: the current view.                                               *)
(***************************************************************************)
Reader(q) == readers[req[q].r]
Current(q) == Reader(q).view # NoView /\ ~Reader(q).stale

\* A load or a look that fails.  ReaderSource, making the reader, ends it.
NotLoading(q) == IF Reader(q).loader = q THEN Nobody ELSE Reader(q).loader

Fail(q, what) ==
  IF req[q].new
  THEN /\ keys' = LockKeys({req[q].r})
       /\ readers' = [readers EXCEPT ![req[q].r].locked = TRUE, ![req[q].r].loader = Nobody]
       /\ Answer(q, IF Entry(q).closed THEN "locked" ELSE what)
       /\ ents' = [ents EXCEPT ![req[q].e].builder = Nobody, ![req[q].e].building = 0]
       /\ UNCHANGED views
  ELSE /\ readers' = [readers EXCEPT ![req[q].r].loader = NotLoading(q)]
       /\ Answer(q, what)
       /\ UNCHANGED <<keys, ents, views>>

\* isLocked: a lock of the key locks the reader too.
FailLocked(q) ==
  IF req[q].new \/ Reader(q).locked THEN Fail(q, "locked")
  ELSE /\ readers' = [readers EXCEPT ![req[q].r].locked = TRUE, ![req[q].r].view = NoView,
                                     ![req[q].r].loader = NotLoading(q)]
       /\ views' = Gone(views, req[q].r)
       /\ Answer(q, "locked")
       /\ UNCHANGED <<keys, ents>>

Have(q, v) ==
  req' = [req EXCEPT ![q].pc = IF req[q].new THEN "built" ELSE "have", ![q].v = v,
                     ![q].peek = NoView, ![q].got = 0, ![q].loads = 0]

Look(q) ==
  /\ req[q].pc = "look"
  /\ IF IsLocked(req[q].r) THEN FailLocked(q)
     ELSE /\ \/ Current(q) /\ Have(q, Reader(q).view)
             \/ Step(q, "wait")
          /\ UNCHANGED <<keys, ents, readers, views>>
  /\ UNCHANGED <<record, registry, drawn>>

\* One load at a time.  Behind another's, its view may serve.
LookAgain(q) ==
  /\ req[q].pc = "wait"
  /\ Reader(q).loader = Nobody
  /\ IF IsLocked(req[q].r) THEN FailLocked(q)
     ELSE /\ \/ /\ Current(q)
                /\ Have(q, Reader(q).view)
                /\ UNCHANGED readers
             \/ /\ ~(Current(q) /\ ver = Reader(q).view)
                /\ readers' = [readers EXCEPT ![req[q].r].loader = q]
                /\ req' = [req EXCEPT ![q].pc = "peek", ![q].loads = 0]
          /\ UNCHANGED <<keys, ents, views>>
  /\ UNCHANGED <<record, registry, drawn>>

PeekBefore(q) ==
  /\ req[q].pc = "peek"
  /\ req' = [req EXCEPT ![q].pc = "pointer", ![q].peek = ver]
  /\ UNCHANGED <<record, registry, opened, readers, views>>

\* The key is in use while the record is read; a locked one reads nothing.
ReadPointer(q) ==
  /\ req[q].pc = "pointer"
  /\ IF keys[req[q].r].st = "open"
     THEN /\ keys' = Acquired(req[q].r)
          /\ req' = [req EXCEPT ![q].pc = "chunks", ![q].got = Ptr(ver)]
     ELSE /\ req' = [req EXCEPT ![q].pc = "check", ![q].got = KeyGone]
          /\ UNCHANGED keys
  /\ UNCHANGED <<record, registry, drawn, ents, readers, views>>

ReadChunks(q) ==
  /\ req[q].pc = "chunks"
  /\ keys' = Released(keys, req[q].r)
  /\ req' = [req EXCEPT ![q].pc = "check", ![q].got = IF @ \in chunks THEN @ ELSE Unread]
  /\ UNCHANGED <<record, registry, drawn, ents, readers, views>>

\* Mutant: a load that failed is reported, whether the record held still or not.
HeldStillMutant(q) == ver = req[q].peek \/ req[q].got = Unread

HeldStill(q) == ver = req[q].peek

\* The second peek.  What a change overtook is loaded once more.
PeekAfter(q) ==
  /\ req[q].pc = "check"
  /\ IF HeldStill(q)
     THEN IF req[q].got = Unread THEN Fail(q, "refused")
          ELSE IF req[q].got = KeyGone THEN Fail(q, "locked")
          ELSE IF IsLocked(req[q].r) THEN FailLocked(q)
          ELSE Step(q, "publish") /\ UNCHANGED <<keys, ents, readers, views>>
     ELSE IF req[q].loads = 1 THEN Fail(q, "busy")
     ELSE /\ req' = [req EXCEPT ![q].pc = "peek", ![q].loads = 1]
          /\ UNCHANGED <<keys, ents, readers, views>>
  /\ UNCHANGED <<record, registry, drawn>>

\* The view kept, the one before it closed when nothing uses it any more.
Publish(q) ==
  /\ req[q].pc = "publish"
  /\ LET r == req[q].r IN
     /\ readers' = [readers EXCEPT ![r].view = req[q].peek, ![r].stale = FALSE,
                                   ![r].loader = Nobody]
     /\ views' = [Gone(views, r) EXCEPT ![r][req[q].peek] = [st |-> "open", gen |-> req[q].got]]
  /\ Have(q, req[q].peek)
  /\ UNCHANGED <<record, registry, opened>>

(***************************************************************************)
(* What a request does with its view.                                      *)
(***************************************************************************)
View(q) == views[req[q].r][req[q].v]

LooksAgain(q) == req' = [req EXCEPT ![q].pc = "look", ![q].tries = 1, ![q].missed = req[q].v]

\* withIndex: a view that a reload closed is looked for once more.
UseIndex(q) ==
  /\ req[q].pc = "have" /\ req[q].op = "index"
  /\ IF View(q).st = "closed" /\ req[q].tries = 0 /\ IsLocked(req[q].r) THEN FailLocked(q)
     ELSE /\ IF View(q).st # "closed" THEN Step(q, "using")
             ELSE IF req[q].tries = 1 THEN Answer(q, "locked")
             ELSE LooksAgain(q)
          /\ UNCHANGED <<keys, ents, readers, views>>
  /\ UNCHANGED <<record, registry, drawn>>

Used(q) ==
  /\ req[q].pc = "using"
  /\ Answer(q, "served")
  /\ UNCHANGED <<record, registry, opened, readers, views>>

\* readUnit: named with the key, read without it, opened with it.
ReadUnit(q) ==
  /\ req[q].pc = "have" /\ req[q].op = "unit"
  /\ IF keys[req[q].r].st # "open" THEN Answer(q, "locked")
     ELSE Step(q, IF View(q).gen \in units THEN "read" ELSE "missed")
  /\ UNCHANGED <<record, registry, opened, readers, views>>

OpenUnit(q) ==
  /\ req[q].pc = "read"
  /\ Answer(q, IF keys[req[q].r].st # "open" THEN "locked" ELSE "served")
  /\ UNCHANGED <<record, registry, opened, readers, views>>

\* open, moved: a unit gone is looked for once more, when there is something new to
\* look in.
Missed(q) ==
  /\ req[q].pc = "missed"
  /\ IF req[q].tries = 0 /\ ver # req[q].v
     THEN /\ readers' = [readers EXCEPT ![req[q].r].stale = @ \/ Reader(q).view = req[q].v]
          /\ LooksAgain(q)
     ELSE Answer(q, "notfound") /\ UNCHANGED readers
  /\ UNCHANGED <<record, registry, opened, views>>

(***************************************************************************)
(* Locks.  Under the registry's lock the entry goes and an open under way  *)
(* loses; the entry is closed after it.                                    *)
(***************************************************************************)
CloseEntry(now) ==
  /\ entry' = 0
  /\ ents' = IF entry = 0 THEN ents ELSE [ents EXCEPT ![entry].close = "begin", ![entry].now = now]

\* closeWhere: the open under way, or the entry, is of a generation gone by.
CloseWhere(now) ==
  /\ CloseEntry(now)
  /\ gen' = IF entry # 0 \/ opening.by # Nobody THEN gen + 1 ELSE gen

Count(why) == why \in Locks /\ Events < MaxEvents /\ locks' = locks + 1

LockArchive ==
  /\ Count("person")
  /\ CloseEntry(TRUE)
  /\ held' = TRUE /\ gen' = gen + 1
  /\ UNCHANGED <<record, shut, away, opening, keys, drawn, readers, views, req>>

Reap ==
  /\ Count("idle")
  /\ CloseWhere(TRUE)
  /\ UNCHANGED <<record, held, shut, away, opening, keys, drawn, readers, views, req>>

LockExcept ==
  /\ Count("switch")
  /\ CloseWhere(TRUE)
  /\ held' = FALSE
  /\ UNCHANGED <<record, shut, away, opening, keys, drawn, readers, views, req>>

ShutDown ==
  /\ Count("shutdown")
  /\ CloseWhere(FALSE)
  /\ shut' = TRUE
  /\ UNCHANGED <<record, held, away, opening, keys, drawn, readers, views, req>>

\* hush: refused first, closed second; and at last the forgetting is over.
Hush ==
  /\ away = "none" /\ away' = "forget"
  /\ Count("forget")
  /\ UNCHANGED <<record, entry, held, shut, gen, opening, opened, readers, views, req>>

HushCloses ==
  /\ away = "forget" /\ away' = "forgotten"
  /\ CloseWhere(FALSE)
  /\ UNCHANGED <<record, held, shut, opening, locks, keys, drawn, readers, views, req>>

\* LockForDelete: the mark first, the lock second; EndDelete.
MarkDelete ==
  /\ away = "none" /\ away' = "delete"
  /\ Count("delete")
  /\ UNCHANGED <<record, entry, held, shut, gen, opening, opened, readers, views, req>>

LockForDelete ==
  /\ away = "delete" /\ away' = "deleted"
  /\ CloseEntry(FALSE)
  /\ held' = TRUE /\ gen' = gen + 1
  /\ UNCHANGED <<record, shut, opening, locks, keys, drawn, readers, views, req>>

\* A forget-all waits for opens under way before it goes on.
EndAway ==
  /\ away \in {"forgotten", "deleted"}
  /\ away = "forgotten" => opening.by = Nobody
  /\ away' = "none"
  /\ UNCHANGED <<record, entry, held, shut, gen, opening, locks, opened, readers, views, req>>

Taken(e) == {ents[e].reader, ents[e].building} \ {0}

(* keyEntry.close: what it has, its key, its leases, its reader. *)
CloseTakes(e) ==
  /\ ents[e].close = "begin"
  /\ ents' = [ents EXCEPT ![e].close = "key", ![e].took = Taken(e), ![e].shuts = ents[e].reader,
                          ![e].reader = 0, ![e].building = 0, ![e].closed = TRUE]
  /\ UNCHANGED <<record, registry, keys, drawn, readers, views, req>>

CloseLocksKey(e) ==
  /\ ents[e].close = "key"
  /\ keys' = LockKeys({e})
  /\ ents' = [ents EXCEPT ![e].close = "leases"]
  /\ UNCHANGED <<record, registry, drawn, readers, views, req>>

CloseLocksLeases(e) ==
  /\ ents[e].close = "leases"
  /\ keys' = LockKeys(ents[e].took)
  /\ ents' = [ents EXCEPT ![e].close = "reader"]
  /\ UNCHANGED <<record, registry, drawn, readers, views, req>>

CloseLocksReader(e) ==
  /\ ents[e].close = "reader"
  /\ ents' = [ents EXCEPT ![e].close = "done", ![e].took = {}, ![e].shuts = 0]
  /\ IF ents[e].shuts = 0 THEN UNCHANGED <<readers, views>>
     ELSE CloseReader(ents[e].shuts, ents[e].now)
  /\ UNCHANGED <<record, registry, keys, drawn, req>>

Request(q) ==
  \/ Ask(q) \/ FindReader(q) \/ BeginLease(q) \/ EndLease(q) \/ BeginBuild(q) \/ EndBuild(q)
  \/ KeepReader(q) \/ DropReader(q) \/ Look(q) \/ LookAgain(q) \/ PeekBefore(q)
  \/ ReadPointer(q) \/ ReadChunks(q) \/ PeekAfter(q) \/ Publish(q) \/ UseIndex(q) \/ Used(q)
  \/ ReadUnit(q) \/ OpenUnit(q) \/ Missed(q)

Next ==
  \/ CommitPointer \/ CommitMirror \/ SweepOld
  \/ Unlock \/ OpenEnds
  \/ LockArchive \/ Reap \/ LockExcept \/ ShutDown
  \/ Hush \/ HushCloses \/ MarkDelete \/ LockForDelete \/ EndAway
  \/ \E q \in Requests : Request(q)
  \/ \E k \in Keys :
       \/ CloseTakes(k) \/ CloseLocksKey(k) \/ CloseLocksLeases(k) \/ CloseLocksReader(k)
       \/ EndClose(k)
       \/ \E v \in Vers : CloseView(k, v)

Spec == Init /\ [][Next]_vars

(***************************************************************************)
(* Properties.                                                             *)
(***************************************************************************)
\* What the person locked, what shut down or is being deleted or forgotten is open to
\* nobody: no open begun before, and no remembered key, brings it back.
HeldIsLocked == held \/ shut \/ away \in {"forgotten", "deleted"} => entry = 0

\* In the hands of the request that makes the reader.
InHand(k) == \E q \in Requests : req[q].new /\ req[q].r = k

\* What was opened with the archive ends with it: once its close is over, no key of it
\* can be used again but one its maker has yet to find closed, and no view is left that
\* nothing closes.
EndsWithEntry(k) ==
  ents[keys[k].of].close = "done" =>
    /\ keys[k].st = "open" =>
         \E q \in Requests : req[q].r = k /\ req[q].pc \in {"leased", "keep", "drop"}
    /\ \A v \in Vers : views[k][v].st = "open" => readers[k].closing \/ InHand(k)

\* A lock is final: of the registry's entry, and of every key, lease and view under it,
\* whatever opened, leased or loaded as it came.
LockIsFinal == HeldIsLocked /\ \A k \in 1..drawn : EndsWithEntry(k)

\* What a request is told is true.  "Not found": the message's unit was lost, or
\* was in neither of two different views.  "Refused": a record that held still could not be read.
\* "Busy": it moved twice.  "Locked": it was, or reloads closed two views
\* under a search.
Moved(q) == ver - req[q].since
Twice(q) == req[q].missed \notin {NoView, req[q].v}
Truth(q, what) ==
  CASE what = "notfound" -> \/ lost = "unit" /\ View(q).gen = 0
                            \/ Twice(q)
    [] what = "refused"  -> lost = "chunk" /\ Ptr(req[q].since) = 0
    [] what = "busy"     -> Moved(q) >= 2
    [] what = "locked"   -> entry = 0 \/ Entry(q).closed \/ entry # req[q].e \/ Twice(q)
    [] OTHER -> TRUE

AnswersAreTrue ==
  [][\A q \in Requests :
       req[q].pc # "done" /\ req'[q].pc = "done" => Truth(q, req'[q].told)]_vars
=============================================================================
