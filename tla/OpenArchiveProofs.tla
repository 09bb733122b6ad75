-------------------------- MODULE OpenArchiveProofs --------------------------
(***************************************************************************)
(* Proofs about the open archive: a lock is final for every request, and   *)
(* what a request is told is true, for any number of requests, keys,       *)
(* commits and locks.                                                      *)
(*                                                                         *)
(* The steps are first told by what they do to the records they touch      *)
(* (RequestKind, OtherKind); every conjunct of the invariant is then       *)
(* proved from those, once for a request's step and once for the others.   *)
(***************************************************************************)
EXTENDS OpenArchive, TLAPS

(***************************************************************************)
(* Shapes.                                                                 *)
(***************************************************************************)
LoadPCs  == {"peek", "pointer", "chunks", "check", "publish"}
\* Making a reader, with the lease shown to a close.
BuildPCs == {"look", "wait", "built"} \cup LoadPCs
\* With a view.
ViewPCs  == {"have", "using", "read", "missed"}
\* With a reader that others may have closed.
UserPCs  == BuildPCs \cup ViewPCs
\* With a reader, or its lease.
LeasePCs == UserPCs \cup {"leased", "keep", "drop"}
EntryPCs == LeasePCs \cup {"build", "lease", "leasing"}
PCs      == EntryPCs \cup {"idle", "opening", "done"}
Told     == {"none", "served", "locked", "notfound", "refused", "busy"}

KeyT    == [st : {"none", "open", "locked", "dead"}, refs : Int, of : Nat]
EntT    == [reader : Nat, building : Nat, closed : BOOLEAN, builder : Requests \cup {Nobody},
            close : {"no", "begin", "key", "leases", "reader", "done"}, now : BOOLEAN,
            took : SUBSET Nat, shuts : Nat]
ReaderT == [locked : BOOLEAN, view : Vers \cup {NoView}, stale : BOOLEAN,
            loader : Requests \cup {Nobody}, closing : BOOLEAN]
ViewT   == [st : {"none", "open", "closing", "closed"}, gen : Int]
ReqT    == [pc : PCs, op : {"unit", "index"}, e : Nat, r : Nat, new : BOOLEAN,
            v : Vers \cup {NoView}, peek : Vers \cup {NoView}, got : Int, tries : {0, 1},
            loads : {0, 1}, since : Vers, missed : Vers \cup {NoView}, told : Told]

Shapes ==
  /\ ver \in Vers /\ chunks \subseteq Gens /\ units \subseteq Gens
  /\ entry \in Nat /\ held \in BOOLEAN /\ shut \in BOOLEAN /\ gen \in Nat
  /\ away \in {"none", "forget", "forgotten", "delete", "deleted"}
  /\ opening \in [by : Requests \cup {Person, Nobody}, gen : Nat]
  /\ drawn \in 0..MaxKeys
  /\ keys \in [Keys -> KeyT] /\ ents \in [Keys -> EntT] /\ readers \in [Keys -> ReaderT]
  /\ views \in [Keys -> [Vers -> ViewT]]
  /\ req \in [Requests -> ReqT]

(***************************************************************************)
(* The registry.                                                           *)
(***************************************************************************)
\* The archive in the registry is the one that was opened last, and an opening that a
\* lock has overtaken does not come in.
RegInv ==
  /\ HeldIsLocked
  /\ opening.by # Nobody =>
       /\ entry = 0
       /\ opening.gen =< gen
       /\ opening.by \in Requests => req[opening.by].pc = "opening" /\ (opening.gen = gen => ~held)
       /\ away = "forgotten" => opening.gen < gen
  /\ entry # 0 => entry \in 1..drawn /\ keys[entry].of = entry /\ ents[entry].close = "no"

\* A lease of the entry e.
Leased(k, e) == k \in 1..drawn /\ e \in 1..drawn /\ keys[k].of = e /\ keys[e].of = e /\ k # e

\* A key that was not drawn has nothing, and a lease is a copy of an archive's key.
DrawnInv ==
  \A k \in Keys :
    /\ k > drawn => ents[k] = NoEntry /\ readers[k] = NoReader
    /\ k =< drawn => keys[k].of \in 1..drawn /\ keys[keys[k].of].of = keys[k].of

\* A closed archive hands out no reader, and its close answers for what it took.
EntOK(e) ==
  /\ ents[e].closed <=> ents[e].close \notin {"no", "begin"}
  /\ ents[e].closed => ents[e].reader = 0 /\ ents[e].building = 0
  /\ ents[e].builder # Nobody => ents[e].reader = 0
  /\ ents[e].reader # 0 => Leased(ents[e].reader, e)
  /\ ents[e].shuts # 0 => Leased(ents[e].shuts, e)
  /\ \A k \in ents[e].took : Leased(k, e)
  /\ ents[e].close \notin {"key", "leases", "reader"} => ents[e].shuts = 0
  /\ ents[e].close \notin {"key", "leases", "reader"} => ents[e].took = {}
  /\ ents[e].close \in {"leases", "reader", "done"} => keys[e].st # "open"
  /\ keys[e].of = e /\ e =< drawn /\ keys[e].st # "open" => ents[e].closed

EntInv == \A e \in Keys : EntOK(e)

Making(q) == req[q].new \/ req[q].pc \in {"lease", "leasing"}

\* What a request has at each of its steps; a reader that is being made is its maker's.
ReqOK(q) ==
  /\ req[q].new => req[q].pc \in BuildPCs \cup {"leased", "keep", "drop"}
  /\ req[q].pc \in {"leased", "built", "keep", "drop"} => req[q].new
  /\ req[q].pc \in EntryPCs => req[q].e \in 1..drawn /\ keys[req[q].e].of = req[q].e
  /\ req[q].pc \in LeasePCs => Leased(req[q].r, req[q].e)
  /\ req[q].pc \notin LeasePCs => req[q].r = 0
  /\ Making(q) => ents[req[q].e].builder = q
  /\ req[q].new => \A p \in Requests : req[p].r = req[q].r => p = q

ReqInv == \A q \in Requests : ReqOK(q)

\* The lease that a close may end early is that of the one request that makes a reader.
BuildingInv ==
  \A e \in Keys : ents[e].building # 0 =>
    LET q == ents[e].builder IN
    /\ q \in Requests
    /\ req[q].new /\ req[q].pc \in BuildPCs /\ req[q].e = e /\ req[q].r = ents[e].building

\* Who answers for a lease: its maker, its entry, or the close that is at it.
Shutting(k, e, at) == ents[e].close \in at /\ ents[e].shuts = k

ByMaker(k) ==
  \E q \in Requests : req[q].r = k /\ req[q].new /\ req[q].pc \in {"leased", "keep", "drop"}

ByClose(k, e) == /\ ents[e].close \in {"key", "leases"} /\ k \in ents[e].took
                 /\ ents[e].shuts = k \/ InHand(k)

LeaseHeld(k, e) == ByMaker(k) \/ ents[e].reader = k \/ ents[e].building = k \/ ByClose(k, e)

\* A lease with a key in the clear has somebody who ends it.
LeaseInv ==
  \A k, e \in 1..drawn : Leased(k, e) /\ keys[k].st = "open" => LeaseHeld(k, e)

\* Loading: one at a time, known to the reader.
LoaderInv ==
  /\ \A q \in Requests : req[q].pc \in LoadPCs => readers[req[q].r].loader = q
  /\ \A k \in Keys : readers[k].loader # Nobody =>
       req[readers[k].loader].r = k /\ req[readers[k].loader].pc \in LoadPCs

\* A reader has one view that is open, and none while it is being made.
ViewsInv == \A k \in Keys : \A v \in Vers : views[k][v].st = "open" <=> readers[k].view = v

MadePCs == {"leased", "look", "wait"} \cup LoadPCs

\* A reader that is being made has no view yet.
FreshInv ==
  \A q \in Requests :
    req[q].new /\ req[q].pc \in MadePCs => readers[req[q].r].view = NoView

\* A reader that loads, or has a view, is in somebody's hands.
Kept(k, e) ==
  \/ InHand(k) \/ ents[e].reader = k \/ Shutting(k, e, {"key", "leases", "reader"})
  \/ readers[k].closing

KeptInv ==
  \A k \in 1..drawn :
    readers[k].loader # Nobody \/ readers[k].view # NoView => Kept(k, keys[k].of)

\* Each conjunct says who answers for what is still open; together they leave nothing
\* over once the close of an archive has ended.
LockInv ==
  /\ RegInv /\ DrawnInv /\ EntInv /\ ReqInv /\ BuildingInv /\ LeaseInv
  /\ LoaderInv /\ ViewsInv /\ FreshInv /\ KeptInv

(***************************************************************************)
(* Shapes are kept.                                                        *)
(***************************************************************************)
LEMMA PcFacts ==
  \A x \in {"peek", "pointer", "chunks", "check", "publish", "look", "wait", "built", "have",
            "using", "read", "missed", "leased", "keep", "drop", "build", "lease", "leasing",
            "idle", "opening", "done"} : x \in PCs
BY DEF PCs, EntryPCs, LeasePCs, UserPCs, BuildPCs, ViewPCs, LoadPCs

LEMMA VerFacts ==
  /\ 0 \in Vers /\ 0 \in Gens
  /\ \A v \in Vers : v \in Nat /\ v # NoView /\ Ptr(v) \in Gens
BY OpenBoundsAssumption DEF Vers, Gens, Ptr, NoView

LEMMA IdleShape == Idle \in ReqT
BY PcFacts, VerFacts DEF Idle, ReqT, Told

LEMMA ReqShape ==
  ASSUME Shapes, NEW q \in Requests
  PROVE  /\ req[q] \in ReqT /\ req[q].new \in BOOLEAN /\ req[q].e \in Nat /\ req[q].r \in Nat
         /\ req[q].v \in Vers \cup {NoView} /\ req[q].peek \in Vers \cup {NoView}
         /\ req[q].since \in Vers /\ req[q].missed \in Vers \cup {NoView} /\ req[q].got \in Int
         /\ req[q].tries \in {0, 1} /\ req[q].loads \in {0, 1}
BY DEF Shapes, ReqT

LEMMA ReqSet ==
  ASSUME NEW x \in ReqT
  PROVE  /\ \A s \in PCs : [x EXCEPT !.pc = s] \in ReqT
         /\ \A s \in PCs, n \in Nat : [x EXCEPT !.pc = s, !.e = n] \in ReqT
         /\ \A s \in PCs, n \in Nat : [x EXCEPT !.pc = s, !.r = n] \in ReqT
         /\ \A s \in PCs, n \in Nat, b \in BOOLEAN :
              [x EXCEPT !.pc = s, !.r = n, !.new = b] \in ReqT
         /\ \A s \in PCs, b \in BOOLEAN, v \in Vers \cup {NoView} :
              [x EXCEPT !.pc = s, !.new = b, !.v = v] \in ReqT
         /\ \A s \in PCs, v \in Vers \cup {NoView} :
              [x EXCEPT !.pc = s, !.v = v, !.peek = NoView, !.got = 0, !.loads = 0] \in ReqT
         /\ \A s \in PCs, l \in {0, 1} : [x EXCEPT !.pc = s, !.loads = l] \in ReqT
         /\ \A s \in PCs, v \in Vers : [x EXCEPT !.pc = s, !.peek = v] \in ReqT
         /\ \A s \in PCs, i \in Int : [x EXCEPT !.pc = s, !.got = i] \in ReqT
         /\ \A s \in PCs, v \in Vers \cup {NoView} :
              [x EXCEPT !.pc = s, !.tries = 1, !.missed = v] \in ReqT
         /\ \A s \in PCs, w \in Told : [x EXCEPT !.pc = s, !.told = w] \in ReqT
         /\ \A o \in {"unit", "index"}, z \in Vers : [x EXCEPT !.op = o, !.since = z] \in ReqT
<1>1. \A s \in PCs : [x EXCEPT !.pc = s] \in ReqT
  BY DEF ReqT
<1>2. \A s \in PCs, n \in Nat : [x EXCEPT !.pc = s, !.e = n] \in ReqT
  BY DEF ReqT
<1>3. \A s \in PCs, n \in Nat : [x EXCEPT !.pc = s, !.r = n] \in ReqT
  BY DEF ReqT
<1>4. \A s \in PCs, n \in Nat, b \in BOOLEAN : [x EXCEPT !.pc = s, !.r = n, !.new = b] \in ReqT
  BY DEF ReqT
<1>5. \A s \in PCs, b \in BOOLEAN, v \in Vers \cup {NoView} : [x EXCEPT !.pc = s, !.new = b,
                                                                !.v = v] \in ReqT
  BY DEF ReqT
<1>6. \A s \in PCs, v \in Vers \cup {NoView} : [x EXCEPT !.pc = s, !.v = v, !.peek = NoView,
                                                   !.got = 0, !.loads = 0] \in ReqT
  <2>1. ASSUME NEW s \in PCs, NEW v \in Vers \cup {NoView}
        PROVE  [x EXCEPT !.pc = s, !.v = v, !.peek = NoView, !.got = 0, !.loads = 0] \in ReqT
    <3> DEFINE y == [x EXCEPT !.pc = s, !.v = v]
               z == [y EXCEPT !.peek = NoView]
    <3>1. y \in ReqT
      BY DEF ReqT
    <3> HIDE DEF y
    <3>2. z \in ReqT
      BY <3>1 DEF ReqT
    <3> HIDE DEF z
    <3>3. [z EXCEPT !.got = 0] \in ReqT
      BY <3>2 DEF ReqT
    <3>4. [[z EXCEPT !.got = 0] EXCEPT !.loads = 0] \in ReqT
      BY <3>3 DEF ReqT
    <3> USE DEF y, z
    <3> QED BY <3>4
  <2> QED BY <2>1
<1>7. \A s \in PCs, l \in {0, 1} : [x EXCEPT !.pc = s, !.loads = l] \in ReqT
  BY DEF ReqT
<1>8. \A s \in PCs, v \in Vers : [x EXCEPT !.pc = s, !.peek = v] \in ReqT
  BY DEF ReqT
<1>9. \A s \in PCs, i \in Int : [x EXCEPT !.pc = s, !.got = i] \in ReqT
  BY DEF ReqT
<1>10. \A s \in PCs, v \in Vers \cup {NoView} : [x EXCEPT !.pc = s, !.tries = 1,
                                                    !.missed = v] \in ReqT
  BY DEF ReqT
<1>11. \A s \in PCs, w \in Told : [x EXCEPT !.pc = s, !.told = w] \in ReqT
  BY DEF ReqT
<1>12. \A o \in {"unit", "index"}, z \in Vers : [x EXCEPT !.op = o, !.since = z] \in ReqT
  BY DEF ReqT
<1> QED BY <1>1, <1>2, <1>3, <1>4, <1>5, <1>6, <1>7, <1>8, <1>9, <1>10, <1>11, <1>12

LEMMA StepShape ==
  ASSUME Shapes, NEW q \in Requests, NEW s \in PCs, Step(q, s) PROVE req' \in [Requests -> ReqT]
<1>1. [req[q] EXCEPT !.pc = s] \in ReqT
  BY ReqShape, ReqSet
<1> QED BY <1>1 DEF Step, Shapes

LEMMA AnswerShape ==
  ASSUME Shapes, NEW q \in Requests, NEW what \in Told, Answer(q, what)
  PROVE  req' \in [Requests -> ReqT]
<1>1. [Idle EXCEPT !.pc = "done", !.told = what] \in ReqT
  BY IdleShape, PcFacts, ReqSet
<1> QED BY <1>1 DEF Answer, Shapes

LEMMA KeyShape ==
  ASSUME Shapes, NEW k \in Keys
  PROVE  /\ keys[k] \in KeyT /\ keys[k].refs \in Int
         /\ keys[k].st \in {"none", "open", "locked", "dead"}
BY DEF Shapes, KeyT

LEMMA KeySet ==
  ASSUME NEW x \in KeyT, NEW s \in {"none", "open", "locked", "dead"}, NEW n \in Int
  PROVE  /\ [x EXCEPT !.st = s] \in KeyT
         /\ [x EXCEPT !.refs = n] \in KeyT
         /\ [x EXCEPT !.refs = n, !.st = s] \in KeyT
BY DEF KeyT

LEMMA KeysShape ==
  ASSUME Shapes
  PROVE  /\ \A S : LockKeys(S) \in [Keys -> KeyT]
         /\ \A k \in Keys : Acquired(k) \in [Keys -> KeyT]
         /\ \A k \in Keys : Released(keys, k) \in [Keys -> KeyT]
<1>1. ASSUME NEW S PROVE LockKeys(S) \in [Keys -> KeyT]
  <2> DEFINE st(k) == IF keys[k].refs = 0 THEN "dead" ELSE "locked"
             f(k)  == IF k \in S /\ keys[k].st = "open" THEN [keys[k] EXCEPT !.st = st(k)]
                      ELSE keys[k]
  <2>1. ASSUME NEW k \in Keys PROVE f(k) \in KeyT
    <3>1. st(k) \in {"none", "open", "locked", "dead"}
      OBVIOUS
    <3> HIDE DEF st
    <3>2. keys[k] \in KeyT /\ [keys[k] EXCEPT !.st = st(k)] \in KeyT
      BY <3>1, KeyShape, KeySet
    <3> QED BY <3>2
  <2>2. LockKeys(S) = [k \in Keys |-> f(k)]
    BY DEF LockKeys
  <2> QED BY <2>1, <2>2
<1>2. ASSUME NEW k \in Keys PROVE Acquired(k) \in [Keys -> KeyT]
  <2> DEFINE n == keys[k].refs + 1
  <2>1. n \in Int
    BY KeyShape
  <2>2. [keys[k] EXCEPT !.refs = n] \in KeyT
    BY KeyShape, KeySet, <2>1
  <2> QED BY <2>2 DEF Acquired, Shapes
<1>3. ASSUME NEW k \in Keys PROVE Released(keys, k) \in [Keys -> KeyT]
  <2> DEFINE s == IF keys[k].refs = 1 /\ keys[k].st = "locked" THEN "dead" ELSE keys[k].st
             n == keys[k].refs - 1
  <2>1. s \in {"none", "open", "locked", "dead"} /\ n \in Int
    BY KeyShape
  <2>2. Released(keys, k) = [keys EXCEPT ![k] = [keys[k] EXCEPT !.refs = n, !.st = s]]
    BY DEF Released, Shapes
  <2> HIDE DEF s, n
  <2>3. [keys[k] EXCEPT !.refs = n, !.st = s] \in KeyT
    BY KeyShape, KeySet, <2>1
  <2> QED BY <2>2, <2>3 DEF Shapes
<1> QED BY <1>1, <1>2, <1>3

LEMMA DrawnShape ==
  ASSUME NEW ks \in [Keys -> KeyT], NEW k \in Keys, NEW of \in Nat
  PROVE  Drawn(ks, k, of) \in [Keys -> KeyT]
<1>1. [st |-> "open", refs |-> 0, of |-> of] \in KeyT
  BY DEF KeyT
<1> QED BY <1>1 DEF Drawn

LEMMA GoneShape ==
  ASSUME Shapes, NEW r \in Nat PROVE Gone(views, r) \in [Keys -> [Vers -> ViewT]]
<1>1. CASE r \notin Keys
  BY <1>1 DEF Gone, Shapes
<1>2. CASE r \in Keys /\ readers[r].view = NoView
  BY <1>2 DEF Gone, Shapes
<1>3. CASE r \in Keys /\ readers[r].view # NoView
  <2> DEFINE v == readers[r].view
  <2>1. v \in Vers
    BY <1>3 DEF Shapes, ReaderT
  <2>2. [views[r][v] EXCEPT !.st = "closing"] \in ViewT
    <3>1. views[r][v] \in ViewT
      BY <1>3, <2>1 DEF Shapes
    <3> QED BY <3>1 DEF ViewT
  <2>3. [views[r] EXCEPT ![v] = [views[r][v] EXCEPT !.st = "closing"]] \in [Vers -> ViewT]
    BY <1>3, <2>1, <2>2 DEF Shapes
  <2>4. Gone(views, r)
          = [views EXCEPT ![r] = [views[r] EXCEPT ![v] = [views[r][v] EXCEPT !.st = "closing"]]]
    BY <1>3 DEF Gone
  <2> QED BY <2>3, <2>4, <1>3 DEF Shapes
<1> QED BY <1>1, <1>2, <1>3

LEMMA ReaderShape ==
  ASSUME Shapes, NEW r \in Keys
  PROVE  /\ readers[r] \in ReaderT
         /\ readers[r].view \in Vers \cup {NoView} /\ readers[r].loader \in Requests \cup {Nobody}
         /\ readers[r].stale \in BOOLEAN /\ readers[r].locked \in BOOLEAN
         /\ readers[r].closing \in BOOLEAN
BY DEF Shapes, ReaderT

LEMMA ReaderSet ==
  ASSUME NEW x \in ReaderT, NEW a \in Requests \cup {Nobody}, NEW b \in BOOLEAN, NEW c \in BOOLEAN,
         NEW v \in Vers \cup {NoView}
  PROVE  /\ [x EXCEPT !.loader = a] \in ReaderT
         /\ [x EXCEPT !.stale = b] \in ReaderT
         /\ [x EXCEPT !.locked = b, !.loader = a] \in ReaderT
         /\ [x EXCEPT !.locked = b, !.view = v, !.loader = a] \in ReaderT
         /\ [x EXCEPT !.locked = b, !.closing = c, !.view = v] \in ReaderT
         /\ [x EXCEPT !.closing = b, !.view = v] \in ReaderT
         /\ [x EXCEPT !.view = v, !.stale = b, !.loader = a] \in ReaderT
<1>1. [x EXCEPT !.loader = a] \in ReaderT /\ [x EXCEPT !.stale = b] \in ReaderT
  BY DEF ReaderT
<1>2. [x EXCEPT !.locked = b, !.loader = a] \in ReaderT
  BY DEF ReaderT
<1>3. [x EXCEPT !.locked = b, !.view = v, !.loader = a] \in ReaderT
  BY DEF ReaderT
<1>4. [x EXCEPT !.locked = b, !.closing = c, !.view = v] \in ReaderT
  BY DEF ReaderT
<1>5. [x EXCEPT !.closing = b, !.view = v] \in ReaderT
  BY DEF ReaderT
<1>6. [x EXCEPT !.view = v, !.stale = b, !.loader = a] \in ReaderT
  BY DEF ReaderT
<1> QED BY <1>1, <1>2, <1>3, <1>4, <1>5, <1>6

LEMMA EntShape ==
  ASSUME Shapes, NEW e \in Keys
  PROVE  /\ ents[e] \in EntT
         /\ \A p \in Requests \cup {Nobody}, n \in Nat, m \in Nat :
              /\ [ents[e] EXCEPT !.builder = p] \in EntT
              /\ [ents[e] EXCEPT !.building = n] \in EntT
              /\ [ents[e] EXCEPT !.reader = n, !.builder = p] \in EntT
              /\ [ents[e] EXCEPT !.builder = p, !.building = n] \in EntT
         /\ \A b \in BOOLEAN : [ents[e] EXCEPT !.close = "begin", !.now = b] \in EntT
         /\ \A S \in SUBSET Nat, n \in Nat :
              [ents[e] EXCEPT !.close = "key", !.took = S, !.shuts = n, !.reader = 0,
                              !.building = 0, !.closed = TRUE] \in EntT
         /\ \A c \in {"leases", "reader", "done"} : [ents[e] EXCEPT !.close = c] \in EntT
         /\ [ents[e] EXCEPT !.close = "done", !.took = {}, !.shuts = 0] \in EntT
         /\ ents[e].reader \in Nat /\ ents[e].building \in Nat /\ ents[e].shuts \in Nat
         /\ ents[e].took \in SUBSET Nat
<1>1. ents[e] \in EntT
  BY DEF Shapes
<1>2. \A p \in Requests \cup {Nobody}, n \in Nat, m \in Nat :
        /\ [ents[e] EXCEPT !.builder = p] \in EntT
        /\ [ents[e] EXCEPT !.building = n] \in EntT
        /\ [ents[e] EXCEPT !.reader = n, !.builder = p] \in EntT
        /\ [ents[e] EXCEPT !.builder = p, !.building = n] \in EntT
  BY <1>1 DEF EntT
<1>3. \A b \in BOOLEAN : [ents[e] EXCEPT !.close = "begin", !.now = b] \in EntT
  BY <1>1 DEF EntT
<1>4. \A S \in SUBSET Nat, n \in Nat :
        [ents[e] EXCEPT !.close = "key", !.took = S, !.shuts = n, !.reader = 0,
                        !.building = 0, !.closed = TRUE] \in EntT
  BY <1>1 DEF EntT
<1>5. \A c \in {"leases", "reader", "done"} : [ents[e] EXCEPT !.close = c] \in EntT
  BY <1>1 DEF EntT
<1>6. [ents[e] EXCEPT !.close = "done", !.took = {}, !.shuts = 0] \in EntT
  BY <1>1 DEF EntT
<1>7. /\ ents[e].reader \in Nat /\ ents[e].building \in Nat /\ ents[e].shuts \in Nat
      /\ ents[e].took \in SUBSET Nat
  BY <1>1 DEF EntT
<1> QED BY <1>1, <1>2, <1>3, <1>4, <1>5, <1>6, <1>7

\* Where a request is, its entry and its lease are keys.
Places(q) == /\ req[q].pc \in EntryPCs => req[q].e \in Keys
             /\ req[q].pc \in LeasePCs => req[q].r \in Keys

LEMMA Bounds == MaxCommits \in Nat /\ MaxKeys \in Nat /\ Keys \subseteq Nat
BY OpenBoundsAssumption DEF Keys

LEMMA GiveUpShape ==
  ASSUME Shapes, NEW q \in Requests, req[q].e \in Keys, NEW what \in Told, GiveUp(q, what)
  PROVE  req' \in [Requests -> ReqT] /\ ents' \in [Keys -> EntT]
<1>1. [ents[req[q].e] EXCEPT !.builder = Nobody] \in EntT
  BY EntShape
<1>2. ents' \in [Keys -> EntT]
  BY <1>1 DEF GiveUp, Shapes
<1> QED BY <1>2, AnswerShape DEF GiveUp

LEMMA CloseReaderShape ==
  ASSUME Shapes, NEW r \in Keys, NEW now \in BOOLEAN, CloseReader(r, now)
  PROVE  readers' \in [Keys -> ReaderT] /\ views' \in [Keys -> [Vers -> ViewT]]
<1> DEFINE vw == IF now THEN NoView ELSE readers[r].view
<1>1. vw \in Vers \cup {NoView}
  BY ReaderShape
<1>2. [readers[r] EXCEPT !.locked = TRUE, !.closing = TRUE, !.view = vw] \in ReaderT
  BY <1>1, ReaderShape, ReaderSet
<1>3. readers' \in [Keys -> ReaderT]
  BY <1>2 DEF CloseReader, Shapes
<1>4. r \in Nat
  BY OpenBoundsAssumption DEF Keys
<1>5. views' \in [Keys -> [Vers -> ViewT]]
  BY <1>4, GoneShape DEF CloseReader, Shapes
<1> QED BY <1>3, <1>5

LEMMA FailShape ==
  ASSUME Shapes, NEW q \in Requests, req[q].e \in Keys, req[q].r \in Keys, NEW what \in Told,
         Fail(q, what)
  PROVE  /\ req' \in [Requests -> ReqT] /\ ents' \in [Keys -> EntT] /\ keys' \in [Keys -> KeyT]
         /\ readers' \in [Keys -> ReaderT] /\ views' \in [Keys -> [Vers -> ViewT]]
<1> DEFINE e == req[q].e
           r == req[q].r
<1>1. CASE req[q].new
  <2>1. [readers[r] EXCEPT !.locked = TRUE, !.loader = Nobody] \in ReaderT
    BY ReaderShape, ReaderSet
  <2>2. readers' \in [Keys -> ReaderT]
    BY <1>1, <2>1 DEF Fail, Shapes
  <2>3. [ents[e] EXCEPT !.builder = Nobody, !.building = 0] \in EntT
    BY EntShape
  <2>4. ents' \in [Keys -> EntT]
    BY <1>1, <2>3 DEF Fail, Shapes
  <2>5. keys' \in [Keys -> KeyT]
    BY <1>1, KeysShape DEF Fail
  <2>6. "locked" \in Told /\ (Answer(q, "locked") \/ Answer(q, what))
    BY <1>1 DEF Fail, Told
  <2>7. req' \in [Requests -> ReqT]
    BY <2>6, AnswerShape
  <2> QED BY <1>1, <2>2, <2>4, <2>5, <2>7 DEF Fail, Shapes
<1>2. CASE ~req[q].new
  <2>1. NotLoading(q) \in Requests \cup {Nobody}
    BY ReaderShape DEF NotLoading, Reader
  <2>2. [readers[r] EXCEPT !.loader = NotLoading(q)] \in ReaderT
    BY <2>1, ReaderShape, ReaderSet
  <2>3. readers' \in [Keys -> ReaderT]
    BY <1>2, <2>2 DEF Fail, Shapes
  <2>4. req' \in [Requests -> ReqT]
    BY <1>2, AnswerShape DEF Fail
  <2> QED BY <1>2, <2>3, <2>4 DEF Fail, Shapes
<1> QED BY <1>1, <1>2

LEMMA FailLockedShape ==
  ASSUME Shapes, NEW q \in Requests, req[q].e \in Keys, req[q].r \in Keys, FailLocked(q)
  PROVE  /\ req' \in [Requests -> ReqT] /\ ents' \in [Keys -> EntT] /\ keys' \in [Keys -> KeyT]
         /\ readers' \in [Keys -> ReaderT] /\ views' \in [Keys -> [Vers -> ViewT]]
<1>0. "locked" \in Told
  BY DEF Told
<1>1. CASE req[q].new \/ Reader(q).locked
  BY <1>0, <1>1, FailShape DEF FailLocked
<1>2. CASE ~(req[q].new \/ Reader(q).locked)
  <2> DEFINE r == req[q].r
  <2>1. NotLoading(q) \in Requests \cup {Nobody}
    BY ReaderShape DEF NotLoading, Reader
  <2>2. [readers[r] EXCEPT !.locked = TRUE, !.view = NoView, !.loader = NotLoading(q)] \in ReaderT
    BY <2>1, ReaderShape, ReaderSet
  <2>3. readers' \in [Keys -> ReaderT]
    BY <1>2, <2>2 DEF FailLocked, Shapes
  <2>4. req' \in [Requests -> ReqT]
    BY <1>0, <1>2, AnswerShape DEF FailLocked
  <2>5. r \in Nat
    BY OpenBoundsAssumption DEF Keys
  <2>6. views' \in [Keys -> [Vers -> ViewT]]
    BY <1>2, <2>5, GoneShape DEF FailLocked
  <2> QED BY <1>2, <2>3, <2>4, <2>6 DEF FailLocked, Shapes
<1> QED BY <1>1, <1>2

LEMMA HaveShape ==
  ASSUME Shapes, NEW q \in Requests, NEW v \in Vers \cup {NoView}, Have(q, v)
  PROVE  req' \in [Requests -> ReqT]
<1> DEFINE s == IF req[q].new THEN "built" ELSE "have"
<1>1. s \in PCs
  BY PcFacts
<1> HIDE DEF s
<1>2. [req[q] EXCEPT !.pc = s, !.v = v, !.peek = NoView, !.got = 0, !.loads = 0] \in ReqT
  BY <1>1, ReqShape, ReqSet
<1> USE DEF s
<1> QED BY <1>2 DEF Have, Shapes

LEMMA CloseEntryShape ==
  ASSUME Shapes, NEW now \in BOOLEAN, CloseEntry(now), entry \in Keys \cup {0}
  PROVE  ents' \in [Keys -> EntT] /\ entry' = 0
<1>1. CASE entry = 0
  BY <1>1 DEF CloseEntry, Shapes
<1>2. CASE entry # 0
  <2>1. [ents[entry] EXCEPT !.close = "begin", !.now = now] \in EntT
    BY <1>2, EntShape
  <2> QED BY <1>2, <2>1 DEF CloseEntry, Shapes
<1> QED BY <1>1, <1>2

(* The parts of the shapes, to be shown one by one. *)
RestShape ==
  /\ ver \in Vers /\ chunks \subseteq Gens /\ units \subseteq Gens
  /\ entry \in Nat /\ held \in BOOLEAN /\ shut \in BOOLEAN /\ gen \in Nat
  /\ away \in {"none", "forget", "forgotten", "delete", "deleted"}
  /\ opening \in [by : Requests \cup {Person, Nobody}, gen : Nat]
  /\ drawn \in 0..MaxKeys

KeyParts == /\ keys \in [Keys -> KeyT] /\ ents \in [Keys -> EntT] /\ readers \in [Keys -> ReaderT]
            /\ views \in [Keys -> [Vers -> ViewT]]

LEMMA PartsShape == Shapes <=> RestShape /\ KeyParts /\ req \in [Requests -> ReqT]
BY DEF Shapes, RestShape, KeyParts

LEMMA RecordShape ==
  ASSUME Shapes,
         CommitPointer \/ CommitMirror \/ SweepOld \/ Unlock \/ Hush \/ MarkDelete \/ EndAway
  PROVE  Shapes'
<1>1. CASE CommitPointer
  <2>1. ver' \in Vers
    <3>1. ver \in Vers /\ ver < 2 * MaxCommits /\ ver' = ver + 1
      BY <1>1 DEF CommitPointer, Shapes
    <3> QED BY <3>1, Bounds DEF Vers
  <2>2. Ptr(ver') \in Gens
    BY <2>1, VerFacts
  <2> QED BY <1>1, <2>1, <2>2 DEF CommitPointer, Shapes, registry, opened
<1>2. CASE CommitMirror
  <2>1. ver' \in Vers
    <3>1. ver \in Vers /\ ver % 2 = 1 /\ ver' = ver + 1
      BY <1>2 DEF CommitMirror, Shapes
    <3> QED BY <3>1, Bounds DEF Vers
  <2> QED BY <1>2, <2>1 DEF CommitMirror, Shapes, registry, opened
<1>3. CASE SweepOld
  BY <1>3 DEF SweepOld, Shapes, registry, opened
<1>4. CASE Unlock
  BY <1>4 DEF Unlock, Shapes, record, opened
<1>5. CASE Hush \/ MarkDelete \/ EndAway
  BY <1>5 DEF Hush, MarkDelete, EndAway, Shapes, record, opened
<1> QED BY <1>1, <1>2, <1>3, <1>4, <1>5

CloseAnyhow == \E now \in BOOLEAN : CloseEntry(now)

LEMMA ClosesShape ==
  ASSUME Shapes, entry \in Keys \cup {0},
         LockArchive \/ Reap \/ LockExcept \/ ShutDown \/ HushCloses \/ LockForDelete
  PROVE  Shapes'
<1>1. CloseAnyhow
  BY DEF LockArchive, Reap, LockExcept, ShutDown, HushCloses, LockForDelete, CloseWhere,
         CloseAnyhow
<1>2. ents' \in [Keys -> EntT] /\ entry' = 0
  BY <1>1, CloseEntryShape DEF CloseAnyhow
<1>0. /\ gen \in Nat /\ held \in BOOLEAN /\ shut \in BOOLEAN
      /\ away \in {"none", "forget", "forgotten", "delete", "deleted"}
  BY DEF Shapes
<1>3. /\ gen' \in {gen, gen + 1} /\ held' \in {held, TRUE, FALSE} /\ shut' \in {shut, TRUE}
      /\ away' \in {away, "forgotten", "deleted"}
  BY DEF LockArchive, Reap, LockExcept, ShutDown, HushCloses, LockForDelete, CloseWhere
<1>4. UNCHANGED <<record, opening, keys, drawn, readers, views, req>>
  BY DEF LockArchive, Reap, LockExcept, ShutDown, HushCloses, LockForDelete
<1>5. /\ gen' \in Nat /\ held' \in BOOLEAN /\ shut' \in BOOLEAN
      /\ away' \in {"none", "forget", "forgotten", "delete", "deleted"}
  <2>1. gen' \in Nat
    BY <1>0, <1>3
  <2>2. held' \in BOOLEAN
    BY <1>0, <1>3, Zenon
  <2>3. shut' \in BOOLEAN
    BY <1>0, <1>3, Zenon
  <2>4. away' \in {"none", "forget", "forgotten", "delete", "deleted"}
    BY <1>0, <1>3
  <2> QED BY <2>1, <2>2, <2>3, <2>4
<1> QED BY <1>2, <1>5, <1>4 DEF Shapes, record

LEMMA OpenEndsShape == ASSUME Shapes, OpenEnds PROVE Shapes'
<1>1. CASE entry' = entry /\ UNCHANGED <<drawn, keys, entry, held>>
  <2>1. opening' \in [by : Requests \cup {Person, Nobody}, gen : Nat]
    BY <1>1 DEF OpenEnds, NoOpening
  <2>2. req' \in [Requests -> ReqT]
    <3>1. CASE opening.by = Person
      BY <3>1 DEF OpenEnds, Shapes
    <3>2. CASE opening.by # Person
      <4>1. opening.by \in Requests /\ "locked" \in Told /\ Answer(opening.by, "locked")
        BY <1>1, <3>2 DEF OpenEnds, Shapes, Told
      <4> QED BY <4>1, AnswerShape
    <3> QED BY <3>1, <3>2
  <2> QED BY <1>1, <2>1, <2>2 DEF OpenEnds, Shapes, record
<1>2. CASE ~UNCHANGED <<drawn, keys, entry, held>>
  <2>1. /\ drawn < MaxKeys /\ drawn' = drawn + 1 /\ keys' = Drawn(keys, drawn', drawn')
        /\ entry' = drawn' /\ held' = (held /\ opening.by # Person)
    BY <1>2 DEF OpenEnds
  <2>2. drawn' \in 0..MaxKeys /\ drawn' \in Keys /\ drawn' \in Nat
    BY <2>1, Bounds DEF Shapes, Keys
  <2>3. keys' \in [Keys -> KeyT]
    BY <2>1, <2>2, DrawnShape DEF Shapes
  <2>4. opening' \in [by : Requests \cup {Person, Nobody}, gen : Nat]
    BY DEF OpenEnds, NoOpening
  <2>5. req' \in [Requests -> ReqT]
    <3>1. CASE opening.by = Person
      BY <3>1 DEF OpenEnds, Shapes
    <3>2. CASE opening.by # Person
      <4>1. opening.by \in Requests /\ "locked" \in Told
        BY <3>2 DEF OpenEnds, Shapes, Told
      <4>2. CASE Answer(opening.by, "locked")
        BY <4>1, <4>2, AnswerShape
      <4>3. CASE req' = [req EXCEPT ![opening.by].pc = "build", ![opening.by].e = entry']
        <5>1. [req[opening.by] EXCEPT !.pc = "build", !.e = entry'] \in ReqT
          BY <2>1, <2>2, <4>1, PcFacts, ReqShape, ReqSet
        <5> QED BY <4>1, <4>3, <5>1 DEF Shapes
      <4> QED BY <3>2, <4>2, <4>3 DEF OpenEnds
    <3> QED BY <3>1, <3>2
  <2> HIDE DEF Drawn
  <2>6. held' \in BOOLEAN
    BY <2>1
  <2> QED BY <2>1, <2>2, <2>3, <2>4, <2>5, <2>6 DEF OpenEnds, Shapes, record
<1> QED BY <1>1, <1>2

LEMMA AskShape == ASSUME Shapes, NEW q \in Requests, Ask(q) PROVE Shapes'
<1> DEFINE asked(op) == [Idle EXCEPT !.op = op, !.since = ver]
<1>1. \A op \in {"unit", "index"} : asked(op) \in ReqT
  BY IdleShape, ReqSet DEF Shapes
<1>2. PICK op \in {"unit", "index"} :
        \/ req' = [req EXCEPT ![q] = [asked(op) EXCEPT !.pc = "build", !.e = entry]]
        \/ req' = [req EXCEPT ![q] = [asked(op) EXCEPT !.pc = "opening"]]
        \/ Answer(q, "locked")
  BY DEF Ask
<1>3. asked(op) \in ReqT
  BY <1>1
<1> HIDE DEF asked
<1>4. /\ [asked(op) EXCEPT !.pc = "build", !.e = entry] \in ReqT
      /\ [asked(op) EXCEPT !.pc = "opening"] \in ReqT
  BY <1>3, PcFacts, ReqSet DEF Shapes
<1>5. "locked" \in Told
  BY DEF Told
<1>6. req' \in [Requests -> ReqT]
  <2>1. CASE req' = [req EXCEPT ![q] = [asked(op) EXCEPT !.pc = "build", !.e = entry]]
    BY <1>4, <2>1 DEF Shapes
  <2>2. CASE req' = [req EXCEPT ![q] = [asked(op) EXCEPT !.pc = "opening"]]
    BY <1>4, <2>2 DEF Shapes
  <2>3. CASE Answer(q, "locked")
    BY <1>5, <2>3, AnswerShape
  <2> QED BY <1>2, <2>1, <2>2, <2>3
<1>7. opening' \in [by : Requests \cup {Person, Nobody}, gen : Nat]
  <2>1. opening' \in {opening, [by |-> q, gen |-> gen]}
    BY DEF Ask
  <2>2. [by |-> q, gen |-> gen] \in [by : Requests \cup {Person, Nobody}, gen : Nat]
    BY DEF Shapes
  <2> QED BY <2>1, <2>2 DEF Shapes
<1> QED BY <1>6, <1>7 DEF Ask, Shapes, record, opened

LEMMA LeaseShape ==
  ASSUME Shapes, NEW q \in Requests, Places(q), FindReader(q) \/ BeginLease(q) \/ EndLease(q)
  PROVE  Shapes'
<1> DEFINE e == req[q].e
<1> USE PcFacts
<1>0. e \in Keys /\ "locked" \in Told
  BY DEF FindReader, BeginLease, EndLease, Places, EntryPCs, Told
<1>1. CASE FindReader(q)
  <2>1. CASE Entry(q).closed
    BY <1>0, <1>1, <2>1, AnswerShape DEF FindReader, Shapes, record, registry
  <2>2. CASE ~Entry(q).closed /\ Entry(q).reader # 0
    <3>1. [req[q] EXCEPT !.pc = "look", !.r = Entry(q).reader] \in ReqT
      BY <1>0, ReqShape, ReqSet, EntShape DEF Entry
    <3> QED BY <1>1, <2>2, <3>1 DEF FindReader, Shapes, record, registry
  <2>3. CASE ~Entry(q).closed /\ Entry(q).reader = 0
    <3>1. [ents[e] EXCEPT !.builder = q] \in EntT
      BY <1>0, EntShape
    <3>2. ents' \in [Keys -> EntT]
      BY <1>1, <2>3, <3>1 DEF FindReader, Shapes
    <3>3. req' \in [Requests -> ReqT]
      BY <1>1, <2>3, StepShape DEF FindReader
    <3> QED BY <1>1, <2>3, <3>2, <3>3 DEF FindReader, Shapes, record, registry
  <2> QED BY <2>1, <2>2, <2>3
<1>2. CASE BeginLease(q)
  <2>1. CASE keys[e].st # "open"
    BY <1>0, <1>2, <2>1, GiveUpShape DEF BeginLease, Shapes, record, registry
  <2>2. CASE keys[e].st = "open"
    <3>1. req' \in [Requests -> ReqT]
      BY <1>2, <2>2, StepShape DEF BeginLease
    <3> QED BY <1>0, <1>2, <2>2, <3>1, KeysShape DEF BeginLease, Shapes, record, registry
  <2> QED BY <2>1, <2>2
<1>3. CASE EndLease(q)
  <2>0. Released(keys, e) \in [Keys -> KeyT]
    BY <1>0, KeysShape
  <2>1. CASE keys[e].st # "open"
    BY <1>0, <1>3, <2>0, <2>1, GiveUpShape DEF EndLease, Shapes, record, registry
  <2>2. CASE keys[e].st = "open"
    <3>1. drawn < MaxKeys /\ drawn' = drawn + 1 /\ keys' = Drawn(Released(keys, e), drawn', e)
      BY <1>3, <2>2 DEF EndLease
    <3>2. drawn' \in 0..MaxKeys /\ drawn' \in Keys /\ drawn' \in Nat
      BY <3>1, Bounds DEF Shapes, Keys
    <3>3. keys' \in [Keys -> KeyT]
      BY <1>0, <2>0, <3>1, <3>2, DrawnShape, Bounds
    <3>4. [req[q] EXCEPT !.pc = "leased", !.r = drawn', !.new = TRUE] \in ReqT
      BY <3>2, ReqShape, ReqSet
    <3>5. req' \in [Requests -> ReqT]
      BY <1>3, <2>2, <3>4 DEF EndLease, Shapes
    <3> QED BY <1>3, <2>2, <3>2, <3>3, <3>5 DEF EndLease, Shapes, record, registry
  <2> QED BY <2>1, <2>2
<1> QED BY <1>1, <1>2, <1>3

LEMMA BuildShape ==
  ASSUME Shapes, NEW q \in Requests, Places(q),
         BeginBuild(q) \/ EndBuild(q) \/ KeepReader(q) \/ DropReader(q)
  PROVE  Shapes'
<1> DEFINE e == req[q].e
<1> USE PcFacts
<1>0. e \in Keys /\ req[q].r \in Keys /\ req[q].r \in Nat /\ "locked" \in Told
  <2>1. req[q].pc \in LeasePCs /\ req[q].pc \in EntryPCs
    BY DEF BeginBuild, EndBuild, KeepReader, DropReader, EntryPCs, LeasePCs, UserPCs, BuildPCs
  <2> QED BY <2>1, Bounds DEF Places, Told
<1>1. CASE BeginBuild(q)
  <2>1. CASE Entry(q).closed
    BY <1>0, <1>1, <2>1, GiveUpShape, KeysShape DEF BeginBuild, Shapes, record, registry
  <2>2. CASE ~Entry(q).closed
    <3>1. [ents[e] EXCEPT !.building = req[q].r] \in EntT
      BY <1>0, EntShape
    <3>2. ents' \in [Keys -> EntT]
      BY <1>1, <2>2, <3>1 DEF BeginBuild, Shapes
    <3>3. req' \in [Requests -> ReqT]
      BY <1>1, <2>2, StepShape DEF BeginBuild
    <3> QED BY <1>1, <2>2, <3>2, <3>3 DEF BeginBuild, Shapes, record, registry
  <2> QED BY <2>1, <2>2
<1>2. CASE EndBuild(q)
  <2>1. [ents[e] EXCEPT !.building = 0] \in EntT
    BY <1>0, EntShape
  <2>2. ents' \in [Keys -> EntT]
    BY <1>2, <2>1 DEF EndBuild, Shapes
  <2>3. req' \in [Requests -> ReqT]
    BY <1>2, StepShape DEF EndBuild
  <2> QED BY <1>2, <2>2, <2>3 DEF EndBuild, Shapes, record, registry
<1>3. CASE KeepReader(q)
  <2>1. CASE KeepsReader(q)
    <3>1. [ents[e] EXCEPT !.reader = req[q].r, !.builder = Nobody] \in EntT
      BY <1>0, EntShape
    <3>2. ents' \in [Keys -> EntT]
      BY <1>3, <2>1, <3>1 DEF KeepReader, Shapes
    <3>3. [req[q] EXCEPT !.pc = "look", !.new = FALSE, !.v = NoView] \in ReqT
      BY ReqShape, ReqSet
    <3>4. req' \in [Requests -> ReqT]
      BY <1>3, <2>1, <3>3 DEF KeepReader, Shapes
    <3> QED BY <1>3, <2>1, <3>2, <3>4 DEF KeepReader, Shapes, record, registry
  <2>2. CASE ~KeepsReader(q)
    <3>1. req' \in [Requests -> ReqT]
      BY <1>3, <2>2, StepShape DEF KeepReader
    <3> QED BY <1>3, <2>2, <3>1 DEF KeepReader, Shapes, record, registry
  <2> QED BY <2>1, <2>2
<1>4. CASE DropReader(q)
  <2>1. PICK now \in {TRUE, ~shut} : CloseReader(req[q].r, now)
    BY <1>4 DEF DropReader
  <2>2. now \in BOOLEAN
    BY DEF Shapes
  <2>3. readers' \in [Keys -> ReaderT] /\ views' \in [Keys -> [Vers -> ViewT]]
    BY <1>0, <2>1, <2>2, CloseReaderShape
  <2>4. req' \in [Requests -> ReqT] /\ ents' \in [Keys -> EntT]
    BY <1>0, <1>4, GiveUpShape DEF DropReader
  <2>5. keys' \in [Keys -> KeyT]
    BY <1>4, KeysShape DEF DropReader
  <2> QED BY <1>4, <2>3, <2>4, <2>5 DEF DropReader, Shapes, record, registry
<1> QED BY <1>1, <1>2, <1>3, <1>4

LEMMA LookShape ==
  ASSUME Shapes, NEW q \in Requests, Places(q), Look(q) \/ LookAgain(q)
  PROVE  Shapes'
<1> DEFINE r == req[q].r
<1> USE PcFacts
<1>0. req[q].e \in Keys /\ r \in Keys
  BY DEF Look, LookAgain, Places, EntryPCs, LeasePCs, UserPCs, BuildPCs
<1>1. CASE FailLocked(q)
  BY <1>0, <1>1, FailLockedShape DEF Look, LookAgain, Shapes, record, registry
<1>2. Reader(q).view \in Vers \cup {NoView}
  BY <1>0, ReaderShape DEF Reader
<1>3. CASE Look(q) /\ ~FailLocked(q)
  <2>1. (Have(q, Reader(q).view) \/ Step(q, "wait")) /\ UNCHANGED <<keys, ents, readers, views>>
    BY <1>3 DEF Look
  <2>2. req' \in [Requests -> ReqT]
    BY <1>2, <2>1, HaveShape, StepShape
  <2> QED BY <1>3, <2>1, <2>2 DEF Look, Shapes, record, registry
<1>4. CASE LookAgain(q) /\ ~FailLocked(q)
  <2>1. CASE Have(q, Reader(q).view) /\ UNCHANGED readers
    <3>1. req' \in [Requests -> ReqT]
      BY <1>2, <2>1, HaveShape
    <3> QED BY <1>4, <2>1, <3>1 DEF LookAgain, Shapes, record, registry
  <2>2. CASE readers' = [readers EXCEPT ![r].loader = q]
             /\ req' = [req EXCEPT ![q].pc = "peek", ![q].loads = 0]
    <3>1. [readers[r] EXCEPT !.loader = q] \in ReaderT
      BY <1>0, ReaderShape, ReaderSet
    <3>2. readers' \in [Keys -> ReaderT]
      BY <2>2, <3>1 DEF Shapes
    <3>3. [req[q] EXCEPT !.pc = "peek", !.loads = 0] \in ReqT
      BY ReqShape, ReqSet
    <3>4. req' \in [Requests -> ReqT]
      BY <2>2, <3>3 DEF Shapes
    <3> QED BY <1>4, <3>2, <3>4 DEF LookAgain, Shapes, record, registry
  <2> QED BY <1>4, <2>1, <2>2 DEF LookAgain
<1> QED BY <1>1, <1>3, <1>4

LEMMA LoadShape ==
  ASSUME Shapes, NEW q \in Requests, Places(q),
         PeekBefore(q) \/ ReadPointer(q) \/ ReadChunks(q) \/ PeekAfter(q) \/ Publish(q)
  PROVE  Shapes'
<1> DEFINE r == req[q].r
<1> USE PcFacts
<1>0. req[q].e \in Keys /\ r \in Keys /\ r \in Nat
  <2>1. req[q].pc \in LeasePCs /\ req[q].pc \in EntryPCs
    BY DEF PeekBefore, ReadPointer, ReadChunks, PeekAfter, Publish, EntryPCs, LeasePCs, UserPCs,
           BuildPCs, LoadPCs
  <2> QED BY <2>1, Bounds DEF Places
<1>1. CASE PeekBefore(q)
  <2>1. [req[q] EXCEPT !.pc = "pointer", !.peek = ver] \in ReqT
    BY ReqShape, ReqSet DEF Shapes
  <2> QED BY <1>1, <2>1 DEF PeekBefore, Shapes, record, registry, opened
<1>2. CASE ReadPointer(q)
  <2>1. Ptr(ver) \in Int /\ KeyGone \in Int
    BY VerFacts DEF Shapes, Gens, KeyGone
  <2>2. /\ [req[q] EXCEPT !.pc = "chunks", !.got = Ptr(ver)] \in ReqT
        /\ [req[q] EXCEPT !.pc = "check", !.got = KeyGone] \in ReqT
    BY <2>1, ReqShape, ReqSet
  <2>3. req' \in [Requests -> ReqT]
    BY <1>2, <2>2 DEF ReadPointer, Shapes
  <2>4. keys' \in [Keys -> KeyT]
    BY <1>0, <1>2, KeysShape DEF ReadPointer, Shapes
  <2> QED BY <1>2, <2>3, <2>4 DEF ReadPointer, Shapes, record, registry
<1>3. CASE ReadChunks(q)
  <2> DEFINE g == IF req[q].got \in chunks THEN req[q].got ELSE Unread
  <2>1. g \in Int
    BY ReqShape DEF Unread
  <2> HIDE DEF g
  <2>2. [req[q] EXCEPT !.pc = "check", !.got = g] \in ReqT
    BY <2>1, ReqShape, ReqSet
  <2> USE DEF g
  <2>3. req' \in [Requests -> ReqT]
    BY <1>3, <2>2 DEF ReadChunks, Shapes
  <2>4. keys' \in [Keys -> KeyT]
    BY <1>0, <1>3, KeysShape DEF ReadChunks, Shapes
  <2> QED BY <1>3, <2>3, <2>4 DEF ReadChunks, Shapes, record, registry
<1>4. CASE PeekAfter(q)
  <2>0. {"refused", "locked", "busy"} \subseteq Told
    BY DEF Told
  <2>1. CASE \E what \in {"refused", "locked", "busy"} : Fail(q, what)
    BY <1>0, <1>4, <2>0, <2>1, FailShape DEF PeekAfter, Shapes, record, registry
  <2>2. CASE FailLocked(q)
    BY <1>0, <1>4, <2>2, FailLockedShape DEF PeekAfter, Shapes, record, registry
  <2>3. CASE Step(q, "publish") /\ UNCHANGED <<keys, ents, readers, views>>
    BY <1>4, <2>3, StepShape DEF PeekAfter, Shapes, record, registry
  <2>4. CASE /\ req' = [req EXCEPT ![q].pc = "peek", ![q].loads = 1]
             /\ UNCHANGED <<keys, ents, readers, views>>
    <3>1. [req[q] EXCEPT !.pc = "peek", !.loads = 1] \in ReqT
      BY ReqShape, ReqSet
    <3> QED BY <1>4, <2>4, <3>1 DEF PeekAfter, Shapes, record, registry
  <2> QED BY <1>4, <2>1, <2>2, <2>3, <2>4 DEF PeekAfter
<1>5. CASE Publish(q) /\ req[q].peek \in Vers
  <2> DEFINE p == req[q].peek
             x == [st |-> "open", gen |-> req[q].got]
  <2>1. [readers[r] EXCEPT !.view = p, !.stale = FALSE, !.loader = Nobody] \in ReaderT
    BY <1>0, <1>5, ReaderShape, ReaderSet
  <2>2. readers' \in [Keys -> ReaderT]
    BY <1>5, <2>1 DEF Publish, Shapes
  <2>3. Gone(views, r) \in [Keys -> [Vers -> ViewT]]
    BY <1>0, GoneShape
  <2>4. x \in ViewT
    BY ReqShape DEF ViewT
  <2>5. views' = [Gone(views, r) EXCEPT ![r][p] = x]
    BY <1>5 DEF Publish
  <2> HIDE DEF x
  <2>6. [Gone(views, r)[r] EXCEPT ![p] = x] \in [Vers -> ViewT]
    BY <1>0, <1>5, <2>3, <2>4
  <2>7. views' \in [Keys -> [Vers -> ViewT]]
    BY <2>3, <2>5, <2>6
  <2>8. req' \in [Requests -> ReqT]
    BY <1>5, HaveShape DEF Publish
  <2> QED BY <1>5, <2>2, <2>7, <2>8 DEF Publish, Shapes, record, registry, opened
<1>6. CASE Publish(q) /\ req[q].peek \notin Vers
  <2>1. req[q].peek = NoView
    BY <1>6, ReqShape
  <2>2. [readers[r] EXCEPT !.view = NoView, !.stale = FALSE, !.loader = Nobody] \in ReaderT
    BY <1>0, ReaderShape, ReaderSet
  <2>3. readers' \in [Keys -> ReaderT]
    BY <1>6, <2>1, <2>2 DEF Publish, Shapes
  <2>4. Gone(views, r) \in [Keys -> [Vers -> ViewT]]
    BY <1>0, GoneShape
  <2>5. Gone(views, r)[r] \in [Vers -> ViewT]
    BY <1>0, <2>4
  <2>6. views' = [Gone(views, r) EXCEPT ![r] =
                    [Gone(views, r)[r] EXCEPT ![NoView] = [st |-> "open", gen |-> req[q].got]]]
    BY <1>6, <2>1 DEF Publish
  <2>7. NoView \notin Vers
    BY VerFacts
  <2>8. views' \in [Keys -> [Vers -> ViewT]]
    BY <2>4, <2>5, <2>6, <2>7
  <2>9. req' \in [Requests -> ReqT]
    BY <1>6, HaveShape, ReqShape DEF Publish
  <2> QED BY <1>6, <2>3, <2>8, <2>9 DEF Publish, Shapes, record, registry, opened
<1> QED BY <1>1, <1>2, <1>3, <1>4, <1>5, <1>6

LEMMA ViewShape ==
  ASSUME Shapes, NEW q \in Requests, Places(q),
         UseIndex(q) \/ Used(q) \/ ReadUnit(q) \/ OpenUnit(q) \/ Missed(q)
  PROVE  Shapes'
<1> DEFINE r == req[q].r
<1> USE PcFacts
<1>0. req[q].e \in Keys /\ r \in Keys /\ {"locked", "served", "notfound"} \subseteq Told
  BY DEF UseIndex, Used, ReadUnit, OpenUnit, Missed, Places, EntryPCs, LeasePCs, UserPCs, ViewPCs,
         Told
<1>1. ASSUME LooksAgain(q) PROVE req' \in [Requests -> ReqT]
  <2>1. [req[q] EXCEPT !.pc = "look", !.tries = 1, !.missed = req[q].v] \in ReqT
    BY ReqShape, ReqSet
  <2> QED BY <1>1, <2>1 DEF LooksAgain, Shapes
<1>2. CASE UseIndex(q)
  <2>1. CASE FailLocked(q)
    BY <1>0, <1>2, <2>1, FailLockedShape DEF UseIndex, Shapes, record, registry
  <2>2. CASE ~FailLocked(q)
    <3>1. UNCHANGED <<keys, ents, readers, views>>
          /\ (Step(q, "using") \/ Answer(q, "locked") \/ LooksAgain(q))
      BY <1>2, <2>2 DEF UseIndex
    <3>2. req' \in [Requests -> ReqT]
      BY <1>0, <1>1, <3>1, StepShape, AnswerShape
    <3> QED BY <1>2, <3>1, <3>2 DEF UseIndex, Shapes, record, registry
  <2> QED BY <2>1, <2>2
<1>3. CASE Used(q)
  BY <1>0, <1>3, AnswerShape DEF Used, Shapes, record, registry, opened
<1>4. CASE ReadUnit(q)
  <2>1. Answer(q, "locked") \/ Step(q, "read") \/ Step(q, "missed")
    BY <1>4 DEF ReadUnit
  <2>2. req' \in [Requests -> ReqT]
    BY <1>0, <2>1, StepShape, AnswerShape
  <2> QED BY <1>4, <2>2 DEF ReadUnit, Shapes, record, registry, opened
<1>5. CASE OpenUnit(q)
  <2>1. Answer(q, "locked") \/ Answer(q, "served")
    BY <1>5 DEF OpenUnit
  <2>2. req' \in [Requests -> ReqT]
    BY <1>0, <2>1, AnswerShape
  <2> QED BY <1>5, <2>2 DEF OpenUnit, Shapes, record, registry, opened
<1>6. CASE Missed(q)
  <2>1. req' \in [Requests -> ReqT]
    BY <1>0, <1>1, <1>6, AnswerShape DEF Missed
  <2> DEFINE b == readers[r].stale \/ readers[r].view = req[q].v
  <2>2. b \in BOOLEAN
    BY <1>0, ReaderShape
  <2>3. readers' = readers \/ readers' = [readers EXCEPT ![r].stale = b]
    BY <1>6 DEF Missed, Reader
  <2> HIDE DEF b
  <2>4. [readers[r] EXCEPT !.stale = b] \in ReaderT
    BY <1>0, <2>2, ReaderShape, ReaderSet
  <2>5. readers' \in [Keys -> ReaderT]
    BY <2>3, <2>4 DEF Shapes
  <2> QED BY <1>6, <2>1, <2>5 DEF Missed, Shapes, record, registry, opened
<1> QED BY <1>2, <1>3, <1>4, <1>5, <1>6

LEMMA CloseShape ==
  ASSUME Shapes, NEW k \in Keys, ents[k].shuts \in Keys \cup {0},
         CloseTakes(k) \/ CloseLocksKey(k) \/ CloseLocksLeases(k) \/ CloseLocksReader(k)
  PROVE  Shapes'
<1>1. CASE CloseTakes(k)
  <2>1. Taken(k) \in SUBSET Nat /\ ents[k].reader \in Nat
    BY EntShape DEF Taken
  <2>2. [ents[k] EXCEPT !.close = "key", !.took = Taken(k), !.shuts = ents[k].reader,
                        !.reader = 0, !.building = 0, !.closed = TRUE] \in EntT
    BY <2>1, EntShape
  <2>3. ents' \in [Keys -> EntT]
    BY <1>1, <2>2 DEF CloseTakes, Shapes
  <2> QED BY <1>1, <2>3 DEF CloseTakes, Shapes, record, registry
<1>2. CASE CloseLocksKey(k)
  <2>1. [ents[k] EXCEPT !.close = "leases"] \in EntT
    BY EntShape
  <2>2. ents' \in [Keys -> EntT]
    BY <1>2, <2>1 DEF CloseLocksKey, Shapes
  <2> QED BY <1>2, <2>2, KeysShape DEF CloseLocksKey, Shapes, record, registry
<1>3. CASE CloseLocksLeases(k)
  <2>1. ents' \in [Keys -> EntT]
    <3>1. [ents[k] EXCEPT !.close = "reader"] \in EntT
      BY EntShape
    <3> QED BY <1>3, <3>1 DEF CloseLocksLeases, Shapes
  <2> QED BY <1>3, <2>1, KeysShape DEF CloseLocksLeases, Shapes, record, registry
<1>4. CASE CloseLocksReader(k)
  <2>1. [ents[k] EXCEPT !.close = "done", !.took = {}, !.shuts = 0] \in EntT
    BY EntShape
  <2>2. ents' \in [Keys -> EntT]
    BY <1>4, <2>1 DEF CloseLocksReader, Shapes
  <2>3. ents[k].now \in BOOLEAN
    BY DEF Shapes, EntT
  <2>4. readers' \in [Keys -> ReaderT] /\ views' \in [Keys -> [Vers -> ViewT]]
    BY <1>4, <2>3, CloseReaderShape DEF CloseLocksReader, Shapes
  <2> QED BY <1>4, <2>2, <2>4 DEF CloseLocksReader, Shapes, record, registry
<1> QED BY <1>1, <1>2, <1>3, <1>4

LEMMA EndsShape ==
  ASSUME Shapes, NEW k \in Keys, EndClose(k) \/ \E v \in Vers : CloseView(k, v)
  PROVE  Shapes'
<1>1. CASE EndClose(k)
  <2>1. [readers[k] EXCEPT !.closing = FALSE, !.view = NoView] \in ReaderT
    BY ReaderShape, ReaderSet
  <2>2. readers' \in [Keys -> ReaderT]
    BY <1>1, <2>1 DEF EndClose, Shapes
  <2> QED BY <1>1, <2>2, GoneShape, Bounds DEF EndClose, Shapes, record, registry, opened
<1>2. ASSUME NEW v \in Vers, CloseView(k, v) PROVE Shapes'
  <2>1. views[k][v] \in ViewT
    BY DEF Shapes
  <2>2. [views[k][v] EXCEPT !.st = "closed"] \in ViewT
    BY <2>1 DEF ViewT
  <2>3. [views[k] EXCEPT ![v] = [views[k][v] EXCEPT !.st = "closed"]] \in [Vers -> ViewT]
    BY <2>2 DEF Shapes
  <2>4. views' \in [Keys -> [Vers -> ViewT]]
    BY <1>2, <2>3 DEF CloseView, Shapes
  <2> QED BY <1>2, <2>4 DEF CloseView, Shapes, record, registry, opened
<1> QED BY <1>1, <1>2

LEMMA ShapesStep ==
  ASSUME Shapes, \A q \in Requests : Places(q), entry \in Keys \cup {0},
         \A k \in Keys : ents[k].shuts \in Keys \cup {0}, Next
  PROVE  Shapes'
<1>1. CASE CommitPointer \/ CommitMirror \/ SweepOld \/ Unlock \/ Hush \/ MarkDelete \/ EndAway
  BY <1>1, RecordShape
<1>2. CASE LockArchive \/ Reap \/ LockExcept \/ ShutDown \/ HushCloses \/ LockForDelete
  BY <1>2, ClosesShape
<1>3. CASE OpenEnds
  BY <1>3, OpenEndsShape
<1>4. ASSUME NEW q \in Requests, Request(q) PROVE Shapes'
  BY <1>4, AskShape, LeaseShape, BuildShape, LookShape, LoadShape, ViewShape DEF Request
<1>5. ASSUME NEW k \in Keys,
             CloseTakes(k) \/ CloseLocksKey(k) \/ CloseLocksLeases(k) \/ CloseLocksReader(k)
      PROVE  Shapes'
  BY <1>5, CloseShape
<1>6. ASSUME NEW k \in Keys, EndClose(k) \/ \E v \in Vers : CloseView(k, v) PROVE Shapes'
  BY <1>6, EndsShape
<1> QED BY <1>1, <1>2, <1>3, <1>4, <1>5, <1>6 DEF Next

(***************************************************************************)
(* What the steps do, field by field.                                      *)
(***************************************************************************)
Turns(q, s, e, r, n) ==
  /\ \A p \in Requests : p # q => req'[p] = req[p]
  /\ req'[q].pc = s /\ req'[q].e = e /\ req'[q].r = r /\ req'[q].new = n

\* Ended, with an answer.
Ends(q) == Turns(q, "done", 0, 0, FALSE)
Goes(q, s) == Turns(q, s, req[q].e, req[q].r, req[q].new)

EntIs(e, rd, bu, cl, mk, at, tk, sh) ==
  /\ \A x \in Keys : x # e => ents'[x] = ents[x]
  /\ ents'[e].reader = rd /\ ents'[e].building = bu /\ ents'[e].closed = cl
  /\ ents'[e].builder = mk /\ ents'[e].close = at /\ ents'[e].took = tk /\ ents'[e].shuts = sh

EntMakes(e, rd, bu, mk) ==
  EntIs(e, rd, bu, ents[e].closed, mk, ents[e].close, ents[e].took, ents[e].shuts)

EntCloses(e, at, tk, sh) ==
  EntIs(e, ents[e].reader, ents[e].building, ents[e].closed, ents[e].builder, at, tk, sh)

\* The keys of S are locked, the others keep what they are.
KeysLock(S) ==
  \A k \in Keys : /\ keys'[k].of = keys[k].of
                  /\ keys'[k].st = "open" <=> keys[k].st = "open" /\ k \notin S

KeyDrawn(k, e) ==
  /\ drawn' = drawn + 1 /\ k = drawn' /\ k \in Keys
  /\ \A x \in Keys : x # k => keys'[x].of = keys[x].of
  /\ \A x \in Keys : x # k => (keys'[x].st = "open" <=> keys[x].st = "open")
  /\ keys'[k].of = e /\ keys'[k].st = "open"

ReaderIs(r, vw, ld, cs) ==
  /\ \A x \in Keys : x # r => readers'[x] = readers[x]
  /\ readers'[r].view = vw /\ readers'[r].loader = ld /\ readers'[r].closing = cs

SameReaders ==
  \A k \in Keys : /\ readers'[k].view = readers[k].view /\ readers'[k].loader = readers[k].loader
                  /\ readers'[k].closing = readers[k].closing
                  /\ k > drawn => readers'[k] = readers[k]

Calm == UNCHANGED drawn /\ KeysLock({})
E(q) == ents[req[q].e]
R(q) == readers[req[q].r]

AnswerKind(q) ==
  /\ Calm /\ UNCHANGED ents /\ SameReaders
  /\ req[q].pc \in {"build"} \cup ViewPCs /\ ~req[q].new
  /\ Ends(q)

FindKind(q) ==
  /\ Calm /\ UNCHANGED ents /\ SameReaders
  /\ req[q].pc = "build" /\ E(q).reader # 0
  /\ Turns(q, "look", req[q].e, E(q).reader, req[q].new)

WithinKind(q, s) ==
  /\ Calm /\ UNCHANGED ents /\ SameReaders
  /\ req[q].pc \in UserPCs /\ s \in UserPCs
  /\ req[q].pc \in LoadPCs <=> s \in LoadPCs
  /\ req[q].new => s \in BuildPCs
  /\ req[q].new /\ s \in MadePCs => req[q].pc \in MadePCs
  /\ s = "built" => req[q].new
  /\ Goes(q, s)

BeginKind(q) ==
  /\ Calm /\ SameReaders
  /\ req[q].pc = "build" /\ E(q).reader = 0 /\ E(q).builder = Nobody /\ ~E(q).closed
  /\ EntMakes(req[q].e, 0, E(q).building, q)
  /\ Goes(q, "lease")

LeaseKind(q) ==
  /\ Calm /\ SameReaders /\ UNCHANGED ents
  /\ req[q].pc = "lease"
  /\ Goes(q, "leasing")

GiveUpKind(q) ==
  /\ UNCHANGED drawn /\ SameReaders
  /\ req[q].pc \in {"lease", "leasing", "leased"}
  /\ KeysLock({req[q].r})
  /\ EntMakes(req[q].e, E(q).reader, E(q).building, Nobody)
  /\ Ends(q)

DrawKind(q) ==
  /\ SameReaders /\ UNCHANGED ents
  /\ req[q].pc = "leasing" /\ keys[req[q].e].st = "open"
  /\ KeyDrawn(drawn', req[q].e)
  /\ Turns(q, "leased", req[q].e, drawn', TRUE)

ShowKind(q) ==
  /\ Calm /\ SameReaders
  /\ req[q].pc = "leased" /\ ~E(q).closed
  /\ EntMakes(req[q].e, E(q).reader, req[q].r, E(q).builder)
  /\ Goes(q, "look")

BuiltKind(q) ==
  /\ Calm /\ SameReaders
  /\ req[q].pc = "built"
  /\ EntMakes(req[q].e, E(q).reader, 0, E(q).builder)
  /\ Goes(q, "keep")

KeepKind(q) ==
  /\ Calm /\ SameReaders
  /\ req[q].pc = "keep" /\ ~E(q).closed
  /\ EntMakes(req[q].e, req[q].r, E(q).building, Nobody)
  /\ Turns(q, "look", req[q].e, req[q].r, FALSE)

DroppingKind(q) ==
  /\ Calm /\ SameReaders /\ UNCHANGED ents
  /\ req[q].pc = "keep"
  /\ Goes(q, "drop")

DropKind(q) ==
  /\ UNCHANGED drawn
  /\ req[q].pc = "drop"
  /\ KeysLock({req[q].r})
  /\ \/ ReaderIs(req[q].r, R(q).view, R(q).loader, TRUE)
     \/ ReaderIs(req[q].r, NoView, R(q).loader, TRUE)
  /\ EntMakes(req[q].e, E(q).reader, E(q).building, Nobody)
  /\ Ends(q)

LoadKind(q) ==
  /\ Calm /\ UNCHANGED ents
  /\ req[q].pc = "wait" /\ R(q).loader = Nobody /\ keys[req[q].r].st = "open"
  /\ ReaderIs(req[q].r, R(q).view, q, R(q).closing)
  /\ Goes(q, "peek")

FailNewKind(q) ==
  /\ UNCHANGED drawn
  /\ req[q].new /\ req[q].pc \in MadePCs
  /\ KeysLock({req[q].r})
  /\ ReaderIs(req[q].r, R(q).view, Nobody, R(q).closing)
  /\ EntMakes(req[q].e, E(q).reader, 0, Nobody)
  /\ Ends(q)

FailKind(q) ==
  /\ Calm /\ UNCHANGED ents
  /\ ~req[q].new /\ req[q].pc \in UserPCs
  /\ \/ ReaderIs(req[q].r, R(q).view, NotLoading(q), R(q).closing)
     \/ ReaderIs(req[q].r, NoView, NotLoading(q), R(q).closing)
  /\ Ends(q)

PublishKind(q) ==
  /\ Calm /\ UNCHANGED ents
  /\ req[q].pc = "publish"
  /\ ReaderIs(req[q].r, req[q].peek, Nobody, R(q).closing)
  /\ Goes(q, IF req[q].new THEN "built" ELSE "have")

RequestKind(q) ==
  \/ AnswerKind(q) \/ FindKind(q) \/ (\E s \in UserPCs : WithinKind(q, s)) \/ BeginKind(q)
  \/ LeaseKind(q) \/ GiveUpKind(q) \/ DrawKind(q) \/ ShowKind(q) \/ BuiltKind(q) \/ KeepKind(q)
  \/ DroppingKind(q) \/ DropKind(q) \/ LoadKind(q) \/ FailNewKind(q) \/ FailKind(q)
  \/ PublishKind(q)

LEMMA ReqDomain ==
  ASSUME Shapes, NEW q \in Requests
  PROVE  /\ DOMAIN req[q] = {"pc", "op", "e", "r", "new", "v", "peek", "got", "tries", "loads",
                             "since", "missed", "told"}
         /\ DOMAIN req = Requests
BY DEF Shapes, ReqT

LEMMA EntDomain ==
  ASSUME Shapes, NEW e \in Keys
  PROVE  /\ DOMAIN ents[e] = {"reader", "building", "closed", "builder", "close", "now", "took",
                              "shuts"}
         /\ DOMAIN ents = Keys
BY DEF Shapes, EntT

LEMMA ReaderDomain ==
  ASSUME Shapes, NEW r \in Keys
  PROVE  /\ DOMAIN readers[r] = {"locked", "view", "stale", "loader", "closing"}
         /\ DOMAIN readers = Keys
BY DEF Shapes, ReaderT

LEMMA AnswerDoes == ASSUME Shapes, NEW q \in Requests, NEW w, Answer(q, w) PROVE Ends(q)
<1>1. LET x == [Idle EXCEPT !.pc = "done", !.told = w] IN
      x.pc = "done" /\ x.e = 0 /\ x.r = 0 /\ x.new = FALSE
  BY DEF Idle
<1> QED BY <1>1, ReqDomain DEF Answer, Ends, Turns

LEMMA StepDoes == ASSUME Shapes, NEW q \in Requests, NEW s, Step(q, s) PROVE Goes(q, s)
BY ReqDomain DEF Step, Turns, Goes

LEMMA HaveDoes ==
  ASSUME Shapes, NEW q \in Requests, NEW v, Have(q, v)
  PROVE  Goes(q, IF req[q].new THEN "built" ELSE "have")
BY ReqDomain DEF Have, Turns, Goes

LEMMA LockDoes == ASSUME Shapes, NEW S, keys' = LockKeys(S) PROVE KeysLock(S)
BY DEF Shapes, KeyT, LockKeys, KeysLock

LEMMA UseDoes ==
  ASSUME Shapes, NEW k \in Keys, keys' = Acquired(k) \/ keys' = Released(keys, k) \/ keys' = keys
  PROVE  KeysLock({})
<1>1. CASE keys' = Released(keys, k)
  BY <1>1 DEF Shapes, KeyT, Released, KeysLock
<1>2. CASE keys' = Acquired(k)
  BY <1>2 DEF Shapes, KeyT, Acquired, KeysLock
<1>3. CASE keys' = keys
  BY <1>3 DEF KeysLock
<1> QED BY <1>1, <1>2, <1>3

LEMMA SameDoes == UNCHANGED readers => SameReaders
BY DEF SameReaders

LEMMA GiveUpDoes ==
  ASSUME Shapes, NEW q \in Requests, req[q].e \in Keys, NEW w, GiveUp(q, w)
  PROVE  Ends(q) /\ EntMakes(req[q].e, E(q).reader, E(q).building, Nobody)
<1>1. Ends(q)
  BY AnswerDoes DEF GiveUp
<1>2. EntMakes(req[q].e, E(q).reader, E(q).building, Nobody)
  BY EntDomain DEF GiveUp, EntMakes, EntIs, E
<1> QED BY <1>1, <1>2

LEMMA FailDoes ==
  ASSUME Shapes, NEW q \in Requests, Places(q), req[q].pc \in UserPCs, NEW w, Fail(q, w),
         UNCHANGED drawn, req[q].new => req[q].pc \in MadePCs
  PROVE  FailNewKind(q) \/ FailKind(q)
<1> USE DEF E, R
<1>0. req[q].e \in Keys /\ req[q].r \in Keys
  BY DEF Places, EntryPCs, LeasePCs
<1>1. CASE req[q].new
  <2>1. Ends(q)
    BY <1>1, AnswerDoes DEF Fail
  <2>2. KeysLock({req[q].r})
    BY <1>1, LockDoes DEF Fail
  <2>3. ReaderIs(req[q].r, R(q).view, Nobody, R(q).closing)
    BY <1>0, <1>1, ReaderDomain DEF Fail, ReaderIs
  <2>4. EntMakes(req[q].e, E(q).reader, 0, Nobody)
    BY <1>0, <1>1, EntDomain DEF Fail, EntMakes, EntIs
  <2> QED BY <1>1, <2>1, <2>2, <2>3, <2>4 DEF FailNewKind
<1>2. CASE ~req[q].new
  <2>1. Ends(q)
    BY <1>2, AnswerDoes DEF Fail
  <2>2. ReaderIs(req[q].r, R(q).view, NotLoading(q), R(q).closing)
    BY <1>0, <1>2, ReaderDomain DEF Fail, ReaderIs
  <2>3. UNCHANGED ents /\ Calm
    BY <1>0, <1>2, UseDoes DEF Fail, Calm
  <2> QED BY <1>2, <2>1, <2>2, <2>3 DEF FailKind
<1> QED BY <1>1, <1>2

LEMMA FailLockedDoes ==
  ASSUME Shapes, NEW q \in Requests, Places(q), req[q].pc \in UserPCs, FailLocked(q),
         UNCHANGED drawn, req[q].new => req[q].pc \in MadePCs
  PROVE  FailNewKind(q) \/ FailKind(q)
<1> USE DEF R
<1>0. req[q].e \in Keys /\ req[q].r \in Keys
  BY DEF Places, EntryPCs, LeasePCs
<1>1. CASE req[q].new \/ Reader(q).locked
  BY <1>1, FailDoes DEF FailLocked
<1>2. CASE ~(req[q].new \/ Reader(q).locked)
  <2>1. Ends(q)
    BY <1>2, AnswerDoes DEF FailLocked
  <2>2. ReaderIs(req[q].r, NoView, NotLoading(q), R(q).closing)
    BY <1>0, <1>2, ReaderDomain DEF FailLocked, ReaderIs
  <2>3. UNCHANGED ents /\ Calm
    BY <1>0, <1>2, UseDoes DEF FailLocked, Calm
  <2> QED BY <1>2, <2>1, <2>2, <2>3 DEF FailKind
<1> QED BY <1>1, <1>2

LEMMA LeaseDoes ==
  ASSUME Shapes, ReqInv, EntInv, NEW q \in Requests, Places(q),
         FindReader(q) \/ BeginLease(q) \/ EndLease(q)
  PROVE  RequestKind(q)
<1> DEFINE e == req[q].e
<1> USE DEF E
<1>0. e \in Keys /\ ~req[q].new /\ req[q].r = 0
  BY DEF FindReader, BeginLease, EndLease, Places, EntryPCs, ReqInv, ReqOK, LeasePCs, UserPCs,
         BuildPCs,
         ViewPCs, LoadPCs
<1>1. CASE FindReader(q)
  <2>0. Calm /\ SameReaders
    BY <1>0, <1>1, UseDoes, SameDoes DEF FindReader, Calm
  <2>1. CASE Entry(q).closed
    <3>1. Ends(q)
      BY <1>1, <2>1, AnswerDoes DEF FindReader
    <3>2. AnswerKind(q)
      BY <1>0, <1>1, <2>0, <2>1, <3>1 DEF FindReader, AnswerKind
    <3> QED BY <3>2 DEF RequestKind
  <2>2. CASE ~Entry(q).closed /\ Entry(q).reader # 0
    <3>1. Turns(q, "look", e, E(q).reader, req[q].new)
      BY <1>1, <2>2, ReqDomain DEF FindReader, Turns, Entry
    <3>2. FindKind(q)
      BY <1>1, <2>0, <2>2, <3>1 DEF FindReader, FindKind, Entry
    <3> QED BY <3>2 DEF RequestKind
  <2>3. CASE ~Entry(q).closed /\ Entry(q).reader = 0
    <3>1. Goes(q, "lease")
      BY <1>1, <2>3, StepDoes DEF FindReader
    <3>2. EntMakes(e, 0, E(q).building, q)
      BY <1>0, <1>1, <2>3, EntDomain DEF FindReader, EntMakes, EntIs, Entry
    <3>3. BeginKind(q)
      BY <1>1, <2>0, <2>3, <3>1, <3>2 DEF FindReader, BeginKind, Entry
    <3> QED BY <3>3 DEF RequestKind
  <2> QED BY <2>1, <2>2, <2>3
<1>2. CASE BeginLease(q)
  <2>1. CASE keys[e].st # "open"
    <3>1. Ends(q) /\ EntMakes(e, E(q).reader, E(q).building, Nobody)
      BY <1>0, <1>2, <2>1, GiveUpDoes DEF BeginLease
    <3>2. KeysLock({req[q].r})
      BY <1>0, <1>2, <2>1 DEF BeginLease, KeysLock, Keys
    <3>3. GiveUpKind(q)
      BY <1>2, <3>1, <3>2, SameDoes DEF BeginLease, GiveUpKind
    <3> QED BY <3>3 DEF RequestKind
  <2>2. CASE keys[e].st = "open"
    <3>1. Goes(q, "leasing")
      BY <1>2, <2>2, StepDoes DEF BeginLease
    <3>2. Calm
      BY <1>0, <1>2, <2>2, UseDoes DEF BeginLease, Calm
    <3>3. LeaseKind(q)
      BY <1>2, <2>2, <3>1, <3>2, SameDoes DEF BeginLease, LeaseKind
    <3> QED BY <3>3 DEF RequestKind
  <2> QED BY <2>1, <2>2
<1>3. CASE EndLease(q)
  <2>1. CASE keys[e].st # "open"
    <3>1. Ends(q) /\ EntMakes(e, E(q).reader, E(q).building, Nobody)
      BY <1>0, <1>3, <2>1, GiveUpDoes DEF EndLease
    <3>2. KeysLock({})
      BY <1>0, <1>3, <2>1, UseDoes DEF EndLease
    <3>3. KeysLock({req[q].r})
      BY <1>0, <3>2 DEF KeysLock, Keys
    <3>4. GiveUpKind(q)
      BY <1>3, <2>1, <3>1, <3>3, SameDoes DEF EndLease, GiveUpKind
    <3> QED BY <3>4 DEF RequestKind
  <2>2. CASE keys[e].st = "open"
    <3> DEFINE back == Released(keys, e)
    <3>1. drawn' = drawn + 1 /\ drawn' \in Keys /\ keys' = Drawn(back, drawn', e)
      BY <1>3, <2>2, Bounds DEF EndLease, Shapes, Keys
    <3>2. /\ back \in [Keys -> KeyT]
          /\ \A x \in Keys : /\ back[x].of = keys[x].of
                             /\ back[x].st = "open" <=> keys[x].st = "open"
      <4>1. back \in [Keys -> KeyT]
        BY <1>0, KeysShape
      <4> QED BY <1>0, <4>1 DEF Shapes, KeyT, Released
    <3> HIDE DEF back
    <3>3. KeyDrawn(drawn', e)
      BY <3>1, <3>2 DEF Drawn, KeyDrawn
    <3>4. Turns(q, "leased", e, drawn', TRUE)
      BY <1>3, <2>2, ReqDomain DEF EndLease, Turns
    <3>5. DrawKind(q)
      BY <1>3, <2>2, <3>3, <3>4, SameDoes DEF EndLease, DrawKind
    <3> QED BY <3>5 DEF RequestKind
  <2> QED BY <2>1, <2>2
<1> QED BY <1>1, <1>2, <1>3

LEMMA BuildDoes ==
  ASSUME Shapes, ReqInv, NEW q \in Requests, Places(q),
         BeginBuild(q) \/ EndBuild(q) \/ KeepReader(q) \/ DropReader(q)
  PROVE  RequestKind(q)
<1> DEFINE e == req[q].e
           r == req[q].r
<1> USE DEF E, R
<1>0. e \in Keys /\ r \in Keys
  <2>1. req[q].pc \in LeasePCs /\ req[q].pc \in EntryPCs
    BY DEF BeginBuild, EndBuild, KeepReader, DropReader, EntryPCs, LeasePCs, UserPCs, BuildPCs
  <2> QED BY <2>1 DEF Places
<1>1. CASE BeginBuild(q)
  <2>1. CASE Entry(q).closed
    <3>1. Ends(q) /\ EntMakes(e, E(q).reader, E(q).building, Nobody) /\ KeysLock({r})
      BY <1>0, <1>1, <2>1, GiveUpDoes, LockDoes DEF BeginBuild
    <3>2. GiveUpKind(q)
      BY <1>1, <3>1, SameDoes DEF BeginBuild, GiveUpKind
    <3> QED BY <3>2 DEF RequestKind
  <2>2. CASE ~Entry(q).closed
    <3>1. Goes(q, "look") /\ Calm /\ SameReaders
      BY <1>0, <1>1, <2>2, StepDoes, UseDoes, SameDoes DEF BeginBuild, Calm
    <3>2. EntMakes(e, E(q).reader, r, E(q).builder)
      BY <1>0, <1>1, <2>2, EntDomain DEF BeginBuild, EntMakes, EntIs
    <3>3. ShowKind(q)
      BY <1>1, <2>2, <3>1, <3>2 DEF BeginBuild, ShowKind, Entry
    <3> QED BY <3>3 DEF RequestKind
  <2> QED BY <2>1, <2>2
<1>2. CASE EndBuild(q)
  <2>1. Goes(q, "keep") /\ Calm /\ SameReaders
    BY <1>0, <1>2, StepDoes, UseDoes, SameDoes DEF EndBuild, Calm
  <2>2. EntMakes(e, E(q).reader, 0, E(q).builder)
    BY <1>0, <1>2, EntDomain DEF EndBuild, EntMakes, EntIs
  <2>3. BuiltKind(q)
    BY <1>2, <2>1, <2>2 DEF EndBuild, BuiltKind
  <2> QED BY <2>3 DEF RequestKind
<1>3. CASE KeepReader(q)
  <2>0. Calm /\ SameReaders
    BY <1>0, <1>3, UseDoes, SameDoes DEF KeepReader, Calm
  <2>1. CASE KeepsReader(q)
    <3>1. Turns(q, "look", e, r, FALSE)
      BY <1>3, <2>1, ReqDomain DEF KeepReader, Turns
    <3>2. EntMakes(e, r, E(q).building, Nobody)
      BY <1>0, <1>3, <2>1, EntDomain DEF KeepReader, EntMakes, EntIs
    <3>3. KeepKind(q)
      BY <1>3, <2>0, <2>1, <3>1, <3>2 DEF KeepReader, KeepKind, KeepsReader, Entry
    <3> QED BY <3>3 DEF RequestKind
  <2>2. CASE ~KeepsReader(q)
    <3>1. Goes(q, "drop")
      BY <1>3, <2>2, StepDoes DEF KeepReader
    <3>2. DroppingKind(q)
      BY <1>3, <2>0, <2>2, <3>1 DEF KeepReader, DroppingKind
    <3> QED BY <3>2 DEF RequestKind
  <2> QED BY <2>1, <2>2
<1>4. CASE DropReader(q)
  <2>1. Ends(q) /\ EntMakes(e, E(q).reader, E(q).building, Nobody) /\ KeysLock({r})
    BY <1>0, <1>4, GiveUpDoes, LockDoes DEF DropReader
  <2>2. ReaderIs(r, R(q).view, R(q).loader, TRUE) \/ ReaderIs(r, NoView, R(q).loader, TRUE)
    <3>1. PICK now \in BOOLEAN :
            readers' = [readers EXCEPT ![r].locked = TRUE, ![r].closing = TRUE,
                                       ![r].view = IF now THEN NoView ELSE @]
      BY <1>4 DEF DropReader, CloseReader, Shapes
    <3> QED BY <1>0, <3>1, ReaderDomain DEF ReaderIs
  <2>3. DropKind(q)
    BY <1>4, <2>1, <2>2 DEF DropReader, DropKind
  <2> QED BY <2>3 DEF RequestKind
<1> QED BY <1>1, <1>2, <1>3, <1>4

LEMMA WithinDoes ==
  ASSUME Shapes, NEW q \in Requests, NEW s \in UserPCs, Calm, UNCHANGED ents, SameReaders,
         req[q].pc \in UserPCs, Goes(q, s),
         req[q].pc \in LoadPCs <=> s \in LoadPCs,
         req[q].new => s \in BuildPCs,
         req[q].new /\ s \in MadePCs => req[q].pc \in MadePCs,
         s = "built" => req[q].new
  PROVE  RequestKind(q)
BY DEF RequestKind, WithinKind

LEMMA LookDoes ==
  ASSUME Shapes, ReqInv, NEW q \in Requests, Places(q), Look(q) \/ LookAgain(q)
  PROVE  RequestKind(q)
<1> DEFINE r == req[q].r
<1> USE DEF R
<1>0. /\ req[q].pc \in {"look", "wait"} /\ req[q].pc \in UserPCs /\ req[q].pc \in MadePCs
      /\ req[q].e \in Keys /\ r \in Keys
  BY DEF Look, LookAgain, Places, EntryPCs, LeasePCs, UserPCs, BuildPCs, MadePCs
<1>1. CASE IsLocked(r)
  <2>1. FailLocked(q) /\ UNCHANGED drawn
    BY <1>1 DEF Look, LookAgain
  <2> QED BY <1>0, <2>1, FailLockedDoes DEF RequestKind
<1>2. ASSUME NEW v, Have(q, v), UNCHANGED <<drawn, keys, ents, readers>> PROVE RequestKind(q)
  <2> DEFINE s == IF req[q].new THEN "built" ELSE "have"
  <2>1. Goes(q, s) /\ Calm /\ SameReaders
    BY <1>0, <1>2, HaveDoes, UseDoes, SameDoes DEF Calm
  <2>2. req[q].new \in BOOLEAN
    BY ReqShape
  <2>3. /\ s \in UserPCs /\ (req[q].pc \in LoadPCs <=> s \in LoadPCs)
        /\ (req[q].new => s \in BuildPCs) /\ (s = "built" => req[q].new) /\ s \notin MadePCs
    BY <1>0, <2>2 DEF UserPCs, BuildPCs, ViewPCs, LoadPCs, MadePCs
  <2> HIDE DEF s
  <2> QED BY <1>0, <1>2, <2>1, <2>3, WithinDoes
<1>3. CASE Look(q) /\ ~IsLocked(r)
  <2>1. CASE Have(q, Reader(q).view)
    BY <1>2, <1>3, <2>1 DEF Look
  <2>2. CASE Step(q, "wait")
    <3>1. Goes(q, "wait") /\ Calm /\ SameReaders /\ UNCHANGED ents
      BY <1>0, <1>3, <2>2, StepDoes, UseDoes, SameDoes DEF Look, Calm
    <3>2. /\ "wait" \in UserPCs /\ (req[q].pc \in LoadPCs <=> "wait" \in LoadPCs)
          /\ "wait" \in BuildPCs /\ req[q].pc \in MadePCs
      BY <1>0 DEF UserPCs, BuildPCs, LoadPCs, MadePCs
    <3> QED BY <1>0, <3>1, <3>2, WithinDoes
  <2> QED BY <1>3, <2>1, <2>2 DEF Look
<1>4. CASE LookAgain(q) /\ ~IsLocked(r)
  <2>1. CASE Have(q, Reader(q).view) /\ UNCHANGED readers
    BY <1>2, <1>4, <2>1 DEF LookAgain
  <2>2. CASE readers' = [readers EXCEPT ![r].loader = q]
             /\ req' = [req EXCEPT ![q].pc = "peek", ![q].loads = 0]
    <3>1. Goes(q, "peek")
      BY <2>2, ReqDomain DEF Goes, Turns
    <3>2. ReaderIs(r, R(q).view, q, R(q).closing)
      BY <1>0, <2>2, ReaderDomain DEF ReaderIs
    <3>3. Calm /\ UNCHANGED ents
      BY <1>0, <1>4, UseDoes DEF LookAgain, Calm
    <3>4. LoadKind(q)
      BY <1>4, <3>1, <3>2, <3>3 DEF LookAgain, LoadKind, IsLocked, Reader
    <3> QED BY <3>4 DEF RequestKind
  <2> QED BY <1>4, <2>1, <2>2 DEF LookAgain
<1> QED BY <1>1, <1>3, <1>4

LEMMA LoadDoes ==
  ASSUME Shapes, ReqInv, NEW q \in Requests, Places(q),
         PeekBefore(q) \/ ReadPointer(q) \/ ReadChunks(q) \/ PeekAfter(q) \/ Publish(q)
  PROVE  RequestKind(q)
<1> DEFINE r == req[q].r
<1> USE DEF R
<1>0. /\ req[q].pc \in LoadPCs /\ req[q].pc \in UserPCs /\ req[q].pc \in MadePCs
      /\ req[q].e \in Keys /\ r \in Keys
  BY DEF PeekBefore, ReadPointer, ReadChunks, PeekAfter, Publish, Places, EntryPCs, LeasePCs,
         UserPCs, BuildPCs, LoadPCs, MadePCs
<1>1. ASSUME NEW s \in LoadPCs, Goes(q, s), UNCHANGED <<drawn, ents, readers>>,
             keys' = Acquired(r) \/ keys' = Released(keys, r) \/ keys' = keys
      PROVE  RequestKind(q)
  <2>1. Calm /\ SameReaders
    BY <1>0, <1>1, UseDoes, SameDoes DEF Calm
  <2>2. s \in UserPCs /\ s \in BuildPCs /\ s # "built" /\ req[q].pc \in MadePCs
    BY <1>0 DEF UserPCs, BuildPCs, LoadPCs, MadePCs
  <2> QED BY <1>0, <1>1, <2>1, <2>2, WithinDoes
<1>2. CASE PeekBefore(q)
  <2>1. Goes(q, "pointer") /\ "pointer" \in LoadPCs
    BY <1>2, ReqDomain DEF PeekBefore, Goes, Turns, LoadPCs
  <2> QED BY <1>1, <1>2, <2>1 DEF PeekBefore, opened
<1>3. CASE ReadPointer(q)
  <2>1. Goes(q, "chunks") \/ Goes(q, "check")
    BY <1>3, ReqDomain DEF ReadPointer, Goes, Turns
  <2>2. {"chunks", "check"} \subseteq LoadPCs
    BY DEF LoadPCs
  <2> QED BY <1>1, <1>3, <2>1, <2>2 DEF ReadPointer
<1>4. CASE ReadChunks(q)
  <2>1. Goes(q, "check") /\ "check" \in LoadPCs
    BY <1>4, ReqDomain DEF ReadChunks, Goes, Turns, LoadPCs
  <2> QED BY <1>1, <1>4, <2>1 DEF ReadChunks
<1>5. CASE PeekAfter(q)
  <2>1. ASSUME NEW w, Fail(q, w) PROVE RequestKind(q)
    BY <1>0, <1>5, <2>1, FailDoes DEF PeekAfter, RequestKind
  <2>2. CASE FailLocked(q)
    BY <1>0, <1>5, <2>2, FailLockedDoes DEF PeekAfter, RequestKind
  <2>3. CASE Step(q, "publish") /\ UNCHANGED <<keys, ents, readers, views>>
    <3>1. Goes(q, "publish") /\ "publish" \in LoadPCs
      BY <2>3, StepDoes DEF LoadPCs
    <3> QED BY <1>1, <1>5, <2>3, <3>1 DEF PeekAfter
  <2>4. CASE /\ req' = [req EXCEPT ![q].pc = "peek", ![q].loads = 1]
             /\ UNCHANGED <<keys, ents, readers, views>>
    <3>1. Goes(q, "peek") /\ "peek" \in LoadPCs
      BY <2>4, ReqDomain DEF Goes, Turns, LoadPCs
    <3> QED BY <1>1, <1>5, <2>4, <3>1 DEF PeekAfter
  <2> QED BY <1>5, <2>1, <2>2, <2>3, <2>4 DEF PeekAfter
<1>6. CASE Publish(q)
  <2>1. Goes(q, IF req[q].new THEN "built" ELSE "have")
    BY <1>6, HaveDoes DEF Publish
  <2>2. ReaderIs(r, req[q].peek, Nobody, R(q).closing)
    BY <1>0, <1>6, ReaderDomain DEF Publish, ReaderIs
  <2>3. Calm /\ UNCHANGED ents
    BY <1>0, <1>6, UseDoes DEF Publish, Calm, opened
  <2>4. PublishKind(q)
    BY <1>6, <2>1, <2>2, <2>3 DEF Publish, PublishKind
  <2> QED BY <2>4 DEF RequestKind
<1> QED BY <1>2, <1>3, <1>4, <1>5, <1>6

LEMMA ViewDoes ==
  ASSUME Shapes, ReqInv, NEW q \in Requests, Places(q),
         UseIndex(q) \/ Used(q) \/ ReadUnit(q) \/ OpenUnit(q) \/ Missed(q)
  PROVE  RequestKind(q)
<1> DEFINE r == req[q].r
<1>0. /\ req[q].pc \in ViewPCs /\ req[q].pc \in UserPCs /\ req[q].pc \notin LoadPCs
      /\ req[q].e \in Keys /\ r \in Keys /\ ~req[q].new
  BY DEF UseIndex, Used, ReadUnit, OpenUnit, Missed, Places, EntryPCs, LeasePCs, UserPCs, ViewPCs,
         ReqInv, ReqOK, BuildPCs, LoadPCs
<1>1. ASSUME NEW s \in {"using", "read", "missed", "look"}, Goes(q, s), UNCHANGED <<opened>>,
             SameReaders
      PROVE  RequestKind(q)
  <2>1. Calm /\ UNCHANGED ents
    BY <1>0, <1>1, UseDoes DEF Calm, opened
  <2>2. s \in UserPCs /\ s \notin LoadPCs /\ s # "built"
    BY DEF UserPCs, BuildPCs, ViewPCs, LoadPCs
  <2> QED BY <1>0, <1>1, <2>1, <2>2, WithinDoes
<1>2. ASSUME NEW w, Answer(q, w), UNCHANGED <<opened>>, SameReaders PROVE RequestKind(q)
  <2>1. Calm /\ UNCHANGED ents
    BY <1>0, <1>2, UseDoes DEF Calm, opened
  <2>2. Ends(q)
    BY <1>2, AnswerDoes
  <2> QED BY <1>0, <1>2, <2>1, <2>2 DEF RequestKind, AnswerKind
<1>3. ASSUME LooksAgain(q) PROVE Goes(q, "look")
  BY <1>3, ReqDomain DEF LooksAgain, Goes, Turns
<1>4. CASE UseIndex(q)
  <2>1. CASE FailLocked(q)
    BY <1>0, <1>4, <2>1, FailLockedDoes DEF UseIndex, RequestKind
  <2>2. CASE ~FailLocked(q)
    <3>1. UNCHANGED <<keys, ents, readers, views>>
          /\ (Step(q, "using") \/ Answer(q, "locked") \/ LooksAgain(q))
      BY <1>4, <2>2 DEF UseIndex
    <3> QED BY <1>1, <1>2, <1>3, <1>4, <3>1, StepDoes, SameDoes DEF UseIndex, opened
  <2> QED BY <2>1, <2>2
<1>5. CASE Used(q)
  BY <1>2, <1>5, SameDoes DEF Used
<1>6. CASE ReadUnit(q)
  <2>1. Answer(q, "locked") \/ Step(q, "read") \/ Step(q, "missed")
    BY <1>6 DEF ReadUnit
  <2> QED BY <1>1, <1>2, <1>6, <2>1, StepDoes, SameDoes DEF ReadUnit
<1>7. CASE OpenUnit(q)
  BY <1>2, <1>7, SameDoes DEF OpenUnit
<1>8. CASE Missed(q)
  <2>0. SameReaders
    <3>1. CASE UNCHANGED readers
      BY <3>1, SameDoes
    <3>2. CASE readers' = [readers EXCEPT ![r].stale = @ \/ Reader(q).view = req[q].v]
      <4>1. r \in 1..drawn /\ drawn \in Nat
        BY <1>0 DEF ReqInv, ReqOK, LeasePCs, Leased, Shapes
      <4>2. \A k \in Keys : k > drawn => k # r
        BY <4>1, Bounds
      <4> QED BY <1>0, <3>2, <4>2, ReaderDomain DEF SameReaders
    <3> QED BY <1>8, <3>1, <3>2 DEF Missed
  <2> QED BY <1>1, <1>2, <1>3, <1>8, <2>0 DEF Missed
<1> QED BY <1>4, <1>5, <1>6, <1>7, <1>8

LEMMA PlainFacts ==
  ASSUME Shapes
  PROVE  /\ drawn \in Nat /\ 1..drawn \subseteq Keys /\ Keys \subseteq Nat /\ 0 \notin Keys
         /\ drawn =< MaxKeys /\ MaxKeys \in Nat /\ \A k \in Keys : k \in 1..MaxKeys
         /\ Nobody \notin Requests
         /\ \A k \in Keys : readers[k].loader \in Requests \cup {Nobody}
BY Bounds, RequestsAssumption DEF Shapes, Keys, ReaderT

(***************************************************************************)
(* What a request's step leaves to the others.                             *)
(***************************************************************************)
LEMMA PcClasses ==
  /\ LoadPCs \subseteq BuildPCs /\ BuildPCs \subseteq UserPCs /\ ViewPCs \subseteq UserPCs
  /\ UserPCs \subseteq LeasePCs /\ LeasePCs \subseteq EntryPCs
  /\ LoadPCs \subseteq MadePCs /\ MadePCs \subseteq LeasePCs /\ BuildPCs \cap ViewPCs = {}
  /\ \A x \in {"idle", "opening", "done"} : x \notin EntryPCs
  /\ \A x \in {"build", "lease", "leasing"} : x \in EntryPCs /\ x \notin LeasePCs
  /\ \A x \in {"leased", "keep", "drop"} : x \in LeasePCs /\ x \notin UserPCs
  /\ \A x \in {"look", "wait"} : x \in BuildPCs /\ x \in MadePCs /\ x \notin LoadPCs
  /\ "leased" \in MadePCs /\ "keep" \notin MadePCs /\ "drop" \notin MadePCs
  /\ "built" \in BuildPCs /\ "built" \notin MadePCs /\ "have" \in ViewPCs /\ "have" \notin MadePCs
  /\ \A x \in {"peek", "publish"} : x \in LoadPCs
  /\ \A x \in UserPCs : x \notin {"idle", "opening", "done", "build", "lease", "leasing", "leased",
                                  "keep", "drop"}
BY DEF EntryPCs, LeasePCs, UserPCs, BuildPCs, ViewPCs, LoadPCs, MadePCs

OthersSame(q) == \A p \in Requests : p # q => req'[p] = req[p]

\* A key drawn is a lease of an entry, or an entry; a key locked is a lease, or an entry closed.
KeysKeep ==
  /\ drawn' \in Nat /\ drawn =< drawn'
  /\ \A k \in 1..drawn : keys'[k].of = keys[k].of /\ (keys'[k].st = "open" => keys[k].st = "open")
  /\ \A k \in 1..drawn : keys[k].of = k => (keys'[k].st = "open" <=> keys[k].st = "open")

EntsKeep(q) ==
  /\ \A x \in Keys : x # req[q].e => ents'[x] = ents[x]
  /\ \A x \in Keys : /\ ents'[x].closed = ents[x].closed /\ ents'[x].close = ents[x].close
                     /\ ents'[x].took = ents[x].took /\ ents'[x].shuts = ents[x].shuts
  /\ \A x \in Keys, p \in Requests : p # q => (ents'[x].builder = p <=> ents[x].builder = p)
  /\ \A x \in Keys : ents[x].reader # 0 => ents'[x].reader = ents[x].reader
  /\ \A x \in Keys : ents[x].building # 0 /\ ents[x].building # req[q].r =>
                       ents'[x].building = ents[x].building

ReadersKeep(q) ==
  \A k \in Keys : k # req[q].r => /\ readers'[k].view = readers[k].view
                                  /\ readers'[k].loader = readers[k].loader
                                  /\ readers'[k].closing = readers[k].closing

\* What the request itself has.
LEMMA Own ==
  ASSUME Shapes, LockInv, NEW q \in Requests
  PROVE  /\ ReqOK(q) /\ req[q].new \in BOOLEAN
         /\ req[q].pc \in EntryPCs => /\ req[q].e \in 1..drawn /\ req[q].e \in Keys
                                      /\ keys[req[q].e].of = req[q].e
                                      /\ EntOK(req[q].e)
         /\ req[q].r # 0 => /\ req[q].pc \in LeasePCs /\ Leased(req[q].r, req[q].e)
                            /\ req[q].r \in Keys
         /\ req[q].new \/ req[q].pc \in {"lease", "leasing", "leased", "built", "keep", "drop"} =>
              /\ req[q].pc \in EntryPCs
              /\ E(q).builder = q /\ E(q).reader = 0
         /\ req[q].new => req[q].r # 0
         /\ req[q].pc \in LeasePCs => req[q].r # 0
<1>1. ReqOK(q)
  BY DEF LockInv, ReqInv
<1>2. req[q].pc \in EntryPCs => req[q].e \in 1..drawn /\ req[q].e \in Keys /\ EntOK(req[q].e)
                                /\ keys[req[q].e].of = req[q].e
  BY <1>1, PlainFacts DEF ReqOK, LockInv, EntInv
<1>3. req[q].pc \in LeasePCs => req[q].r # 0 /\ req[q].r \in Keys /\ Leased(req[q].r, req[q].e)
  BY <1>1, PlainFacts DEF ReqOK, Leased
<1>4. req[q].new => req[q].pc \in LeasePCs
  BY <1>1, PcClasses DEF ReqOK
<1>5. req[q].new \/ req[q].pc \in {"lease", "leasing", "leased", "built", "keep", "drop"} =>
        Making(q) /\ req[q].pc \in EntryPCs
  BY <1>1, <1>4, PcClasses DEF ReqOK, Making
<1>6. Making(q) /\ req[q].pc \in EntryPCs => E(q).builder = q /\ E(q).reader = 0
  BY <1>1, <1>2, PlainFacts DEF ReqOK, E, EntOK
<1>7. req[q].r # 0 => req[q].pc \in LeasePCs
  BY <1>1 DEF ReqOK
<1> QED BY <1>1, <1>2, <1>3, <1>4, <1>5, <1>6, <1>7, ReqShape

\* A reader that is being made is in the hands of one request.
LEMMA OneMaker ==
  ASSUME Shapes, LockInv, NEW q \in Requests, req[q].new, NEW p \in Requests, req[p].r = req[q].r
  PROVE  p = q
BY Own DEF ReqOK

LEMMA CalmKeeps == ASSUME Shapes, Calm PROVE KeysKeep
BY PlainFacts DEF Calm, KeysLock, KeysKeep

LEMMA OwnLockKeeps ==
  ASSUME Shapes, LockInv, NEW q \in Requests, UNCHANGED drawn, KeysLock({req[q].r})
  PROVE  KeysKeep
<1>1. \A k \in 1..drawn : k \in Keys /\ (keys[k].of = k => k # req[q].r)
  BY Own, PlainFacts DEF Leased
<1> QED BY <1>1, PlainFacts DEF KeysLock, KeysKeep

LEMMA KeysFrame == ASSUME Shapes, LockInv, NEW q \in Requests, RequestKind(q) PROVE KeysKeep
<1>1. CASE DrawKind(q)
  BY <1>1, PlainFacts DEF DrawKind, KeyDrawn, KeysKeep
<1>2. CASE Calm
  BY <1>2, CalmKeeps
<1>3. CASE GiveUpKind(q) \/ DropKind(q) \/ FailNewKind(q)
  BY <1>3, OwnLockKeeps DEF GiveUpKind, DropKind, FailNewKind
<1> QED BY <1>1, <1>2, <1>3 DEF RequestKind, AnswerKind, FindKind, WithinKind, BeginKind, LeaseKind,
           ShowKind, BuiltKind, KeepKind, DroppingKind, LoadKind, FailKind, PublishKind

LEMMA OthersFrame == ASSUME NEW q \in Requests, RequestKind(q) PROVE OthersSame(q)
<1>1. (\E s, e, r, n : Turns(q, s, e, r, n)) => OthersSame(q)
  BY DEF Turns, OthersSame
<1>2. CASE \/ AnswerKind(q) \/ FindKind(q) \/ BeginKind(q) \/ LeaseKind(q) \/ GiveUpKind(q)
           \/ DrawKind(q) \/ ShowKind(q) \/ BuiltKind(q)
  BY <1>1, <1>2 DEF AnswerKind, FindKind, BeginKind, LeaseKind, GiveUpKind, DrawKind, ShowKind,
                    BuiltKind, Goes, Ends
<1>3. CASE \/ KeepKind(q) \/ DroppingKind(q) \/ DropKind(q) \/ LoadKind(q) \/ FailNewKind(q)
           \/ FailKind(q) \/ PublishKind(q)
  BY <1>1, <1>3 DEF KeepKind, DroppingKind, DropKind, LoadKind, FailNewKind, FailKind, PublishKind,
                    Goes, Ends
<1>4. ASSUME NEW s \in UserPCs, WithinKind(q, s) PROVE OthersSame(q)
  BY <1>1, <1>4 DEF WithinKind, Goes
<1> QED BY <1>2, <1>3, <1>4 DEF RequestKind

LEMMA EntsFrame == ASSUME Shapes, LockInv, NEW q \in Requests, RequestKind(q) PROVE EntsKeep(q)
<1> DEFINE e == req[q].e
<1> USE Own, PcClasses, PlainFacts
<1>1. ASSUME NEW rd, NEW bu, NEW mk, EntMakes(e, rd, bu, mk), e \in Keys,
             E(q).builder \in {q, Nobody}, mk \in {q, Nobody},
             E(q).reader = 0 \/ rd = E(q).reader,
             E(q).building \in {0, req[q].r, bu}
      PROVE  EntsKeep(q)
  BY <1>1 DEF EntMakes, EntIs, EntsKeep, E
<1>2. CASE UNCHANGED ents
  BY <1>2 DEF EntsKeep
<1>3. CASE BeginKind(q)
  BY <1>1, <1>3 DEF BeginKind
<1>4. CASE GiveUpKind(q) \/ DropKind(q)
  BY <1>1, <1>4 DEF GiveUpKind, DropKind
<1>5. ASSUME ShowKind(q) \/ BuiltKind(q) \/ FailNewKind(q) PROVE EntsKeep(q)
  <2>1. E(q).building \in {0, req[q].r} /\ E(q).builder = q /\ e \in Keys
    BY <1>5 DEF ShowKind, BuiltKind, FailNewKind, LockInv, BuildingInv, E
  <2> QED BY <1>1, <1>5, <2>1 DEF ShowKind, BuiltKind, FailNewKind
<1>6. CASE KeepKind(q)
  BY <1>1, <1>6 DEF KeepKind
<1> QED BY <1>2, <1>3, <1>4, <1>5, <1>6 DEF RequestKind, AnswerKind, FindKind, WithinKind,
                                            LeaseKind,
           DrawKind, DroppingKind, LoadKind, FailKind, PublishKind

LEMMA ReadersFrame == ASSUME Shapes, NEW q \in Requests, RequestKind(q) PROVE ReadersKeep(q)
<1>1. CASE SameReaders
  BY <1>1 DEF SameReaders, ReadersKeep
<1>2. ASSUME NEW vw, NEW ld, NEW cs, ReaderIs(req[q].r, vw, ld, cs) PROVE ReadersKeep(q)
  BY <1>2 DEF ReaderIs, ReadersKeep
<1> QED BY <1>1, <1>2 DEF RequestKind, AnswerKind, FindKind, WithinKind, BeginKind, LeaseKind,
           GiveUpKind, DrawKind, ShowKind, BuiltKind, KeepKind, DroppingKind, DropKind, LoadKind,
           FailNewKind, FailKind, PublishKind

LEMMA LeasedFrame ==
  ASSUME Shapes, LockInv, KeysKeep
  PROVE  /\ \A k, e : Leased(k, e) => Leased(k, e)'
         /\ \A k \in 1..drawn : \A e : Leased(k, e)' => Leased(k, e)
BY PlainFacts DEF KeysKeep, Leased, LockInv, DrawnInv

(***************************************************************************)
(* The steps of a request, invariant by invariant.                         *)
(***************************************************************************)
LEMMA OtherReq ==
  ASSUME Shapes, LockInv, NEW q \in Requests, OthersSame(q), KeysKeep, EntsKeep(q),
         NEW p \in Requests, p # q, req[p].new => req'[q].r # req[p].r
  PROVE  ReqOK(p)'
<1>1. ReqOK(p) /\ req'[p] = req[p]
  BY DEF LockInv, ReqInv, OthersSame
<1>2. req[p].pc \in EntryPCs => /\ req[p].e \in 1..drawn' /\ req[p].e \in Keys
                                /\ keys'[req[p].e].of = req[p].e
  BY Own, PlainFacts DEF KeysKeep
<1>3. req[p].pc \in LeasePCs => Leased(req[p].r, req[p].e)'
  BY <1>1, LeasedFrame DEF ReqOK, Leased
<1>4. Making(p) => ents'[req[p].e].builder = p
  BY <1>1, <1>2, Own, PcClasses DEF ReqOK, Making, EntsKeep
<1>5. ASSUME req[p].new, NEW x \in Requests, req'[x].r = req[p].r PROVE x = p
  BY <1>1, <1>5 DEF ReqOK, OthersSame
<1> QED BY <1>1, <1>2, <1>3, <1>4, <1>5 DEF ReqOK, Making

LEMMA ReqInvRequests ==
  ASSUME Shapes, LockInv, NEW q \in Requests, RequestKind(q)
  PROVE  ReqInv'
<1> DEFINE e == req[q].e
           r == req[q].r
<1>0. OthersSame(q) /\ KeysKeep /\ EntsKeep(q)
  BY OthersFrame, KeysFrame, EntsFrame
<1>1. \A p \in Requests : req[p].r =< drawn /\ (req[p].new => req[p].r # 0)
  BY Own, ReqShape, PlainFacts DEF Leased
<1>2. ASSUME NEW p \in Requests, p # q, req[p].new PROVE req'[q].r # req[p].r
  <2>1. req[p].r # r
    BY <1>2, Own DEF ReqOK
  <2>2. CASE FindKind(q)
    <3>1. req'[q].r = E(q).reader /\ req[q].pc \in EntryPCs /\ E(q).reader # 0
      BY <2>2, PcClasses DEF FindKind, Turns
    <3>2. Leased(E(q).reader, e)
      BY <3>1, Own DEF EntOK, E
    <3>3. Leased(req[p].r, req[p].e) /\ E(p).reader = 0
      BY <1>2, Own
    <3> QED BY <3>1, <3>2, <3>3 DEF Leased, E
  <2>3. CASE DrawKind(q)
    BY <1>1, <2>3, PlainFacts DEF DrawKind, KeyDrawn, Turns
  <2>4. CASE req'[q].r \in {0, r}
    BY <1>1, <1>2, <2>1, <2>4
  <2> QED BY <2>2, <2>3, <2>4 DEF RequestKind, AnswerKind, WithinKind, BeginKind, LeaseKind,
             GiveUpKind, ShowKind, BuiltKind, KeepKind, DroppingKind, DropKind, LoadKind,
             FailNewKind,
             FailKind, PublishKind, Goes, Ends, Turns
<1>3. ASSUME NEW p \in Requests, p # q PROVE ReqOK(p)'
  BY <1>0, <1>2, <1>3, OtherReq
<1>4. ASSUME Ends(q) PROVE ReqOK(q)'
  BY <1>4, PcClasses DEF Ends, Turns, ReqOK, Making
<1>5. ASSUME req'[q].e = e, req'[q].r = r, req'[q].new = req[q].new,
             req[q].pc \in LeasePCs, req'[q].pc \in LeasePCs, ents'[e].builder = E(q).builder,
             req[q].new => req'[q].pc \in BuildPCs \cup {"leased", "keep", "drop"},
             req'[q].pc \in {"leased", "built", "keep", "drop"} => req[q].new
      PROVE  ReqOK(q)'
  <2>1. /\ e \in 1..drawn' /\ keys'[e].of = e /\ Leased(r, e)'
        /\ req'[q].pc \notin {"lease", "leasing"}
    BY <1>0, <1>5, Own, LeasedFrame, PcClasses, PlainFacts DEF KeysKeep, ReqOK
  <2>2. req[q].new => ents'[e].builder = q
    BY <1>5, Own
  <2>3. req[q].new => \A p \in Requests : req'[p].r = r => p = q
    BY <1>0, <1>5, Own DEF ReqOK, OthersSame
  <2> QED BY <1>5, <2>1, <2>2, <2>3, PcClasses DEF ReqOK, Making
<1>6. ASSUME FindKind(q) \/ KeepKind(q) PROVE ReqOK(q)'
  <2>1. /\ req[q].pc \in EntryPCs /\ req'[q].pc = "look" /\ req'[q].e = e
        /\ Leased(req'[q].r, e) /\ req'[q].new = FALSE
    <3>1. CASE FindKind(q)
      <4>1. req[q].pc \in EntryPCs /\ ~req[q].new /\ req[q].new \in BOOLEAN
        BY <3>1, Own, PcClasses DEF FindKind, ReqOK
      <4> QED BY <3>1, <4>1, Own DEF FindKind, Turns, EntOK, E
    <3>2. CASE KeepKind(q)
      BY <3>2, Own, PcClasses DEF KeepKind, Turns, ReqOK
    <3> QED BY <1>6, <3>1, <3>2
  <2>2. PICK n, d : n = req'[q].r /\ d = e /\ Leased(n, d)
    BY <2>1
  <2>3. Leased(n, d)'
    BY <1>0, <2>2, LeasedFrame
  <2>4. d \in 1..drawn' /\ keys'[d].of = d
    BY <2>3 DEF Leased
  <2> QED BY <2>1, <2>2, <2>3, <2>4, PcClasses DEF ReqOK, Making
<1>7. ASSUME BeginKind(q) \/ LeaseKind(q) PROVE ReqOK(q)'
  <2>1. /\ req[q].pc \in {"build", "lease"} /\ req'[q].pc \in {"lease", "leasing"}
        /\ req'[q].e = e /\ req'[q].r = r /\ req'[q].new = req[q].new
        /\ ents'[e].builder = q
    BY <1>7, Own DEF BeginKind, LeaseKind, Goes, Turns, EntMakes, EntIs, E
  <2>2. r = 0 /\ ~req[q].new /\ req[q].new \in BOOLEAN /\ req[q].pc \in EntryPCs
    BY <2>1, Own, PcClasses DEF ReqOK
  <2>3. e \in 1..drawn' /\ keys'[e].of = e
    BY <1>0, <2>2, Own, PlainFacts DEF KeysKeep
  <2> QED BY <2>1, <2>2, <2>3, PcClasses DEF ReqOK, Making
<1>8. ASSUME DrawKind(q) PROVE ReqOK(q)'
  <2>1. req[q].pc \in EntryPCs /\ e \in 1..drawn /\ e \in Keys /\ keys[e].of = e /\ E(q).builder = q
    BY <1>8, Own, PcClasses DEF DrawKind
  <2>2. /\ drawn' = drawn + 1 /\ keys'[drawn'].of = e /\ keys'[e].of = e /\ ents'[e].builder = q
        /\ req'[q].pc = "leased" /\ req'[q].e = e /\ req'[q].r = drawn' /\ req'[q].new
    BY <1>8, <2>1, PlainFacts DEF DrawKind, KeyDrawn, Turns, E
  <2>3. Leased(req[q].r, req[q].e)'
    BY <2>1, <2>2, PlainFacts DEF Leased
  <2>4. \A p \in Requests : req'[p].r = drawn' => p = q
    BY <1>0, <1>1, <2>2, PlainFacts DEF OthersSame
  <2>5. e \in 1..drawn'
    BY <2>1, <2>2, PlainFacts
  <2> QED BY <2>2, <2>3, <2>4, <2>5, PcClasses DEF ReqOK, Making
<1>9. ASSUME NEW s \in UserPCs, WithinKind(q, s) PROVE ReqOK(q)'
  BY <1>5, <1>9, PcClasses DEF WithinKind, Goes, Turns, E
<1>10. ASSUME ShowKind(q) \/ BuiltKind(q) PROVE ReqOK(q)'
  <2>1. req[q].pc \in LeasePCs /\ e \in Keys /\ req[q].new
    BY <1>10, Own, PcClasses DEF ShowKind, BuiltKind, ReqOK
  <2>2. /\ req'[q].e = e /\ req'[q].r = r /\ req'[q].new = req[q].new
        /\ req'[q].pc \in {"look", "keep"}
        /\ ents'[e].builder = E(q).builder
    BY <1>10, <2>1 DEF ShowKind, BuiltKind, Goes, Turns, EntMakes, EntIs
  <2> QED BY <1>5, <2>1, <2>2, PcClasses
<1>11. ASSUME DroppingKind(q) \/ LoadKind(q) \/ PublishKind(q) PROVE ReqOK(q)'
  <2>1. /\ req[q].pc \in LeasePCs /\ req'[q].e = e /\ req'[q].r = r /\ req'[q].new = req[q].new
        /\ UNCHANGED ents
        /\ \/ req[q].pc = "keep" /\ req'[q].pc = "drop"
           \/ req'[q].pc = "peek"
           \/ req'[q].pc = IF req[q].new THEN "built" ELSE "have"
    BY <1>11, PcClasses DEF DroppingKind, LoadKind, PublishKind, Goes, Turns
  <2>2. req[q].pc = "keep" => req[q].new
    BY Own DEF ReqOK
  <2> QED BY <1>5, <2>1, <2>2, Own, PcClasses DEF E
<1>12. ReqOK(q)'
  BY <1>4, <1>6, <1>7, <1>8, <1>9, <1>10, <1>11 DEF RequestKind, AnswerKind, GiveUpKind, DropKind,
     FailNewKind, FailKind
<1> QED BY <1>3, <1>12 DEF ReqInv

LEMMA DrawnInvRequests ==
  ASSUME Shapes, LockInv, NEW q \in Requests, RequestKind(q)
  PROVE  DrawnInv'
<1> SUFFICES ASSUME NEW k \in Keys
             PROVE  /\ k > drawn' => ents'[k] = NoEntry /\ readers'[k] = NoReader
                    /\ k =< drawn' => /\ keys'[k].of \in 1..drawn'
                                      /\ keys'[keys'[k].of].of = keys'[k].of
  BY DEF DrawnInv
<1>0. KeysKeep /\ EntsKeep(q) /\ k \in Nat
  BY KeysFrame, EntsFrame, PlainFacts
<1>1. /\ k > drawn => ents[k] = NoEntry /\ readers[k] = NoReader
      /\ k =< drawn => keys[k].of \in 1..drawn /\ keys[keys[k].of].of = keys[k].of
  BY DEF LockInv, DrawnInv
<1>2. ASSUME k > drawn PROVE ents'[k] = ents[k]
  <2>1. CASE req[q].pc \in EntryPCs
    BY <1>0, <1>2, <2>1, Own, PlainFacts DEF EntsKeep
  <2>2. CASE req[q].pc \notin EntryPCs
    <3>1. ~req[q].new /\ \A s \in {"build", "lease", "leasing", "leased", "built", "keep", "drop"} :
                          s \in EntryPCs
      BY <2>2, Own, PcClasses
    <3>2. UNCHANGED ents
      BY <2>2, <3>1 DEF RequestKind, AnswerKind, FindKind, WithinKind, BeginKind, LeaseKind,
         GiveUpKind, DrawKind, ShowKind, BuiltKind, KeepKind, DroppingKind, DropKind, LoadKind,
         FailNewKind, FailKind, PublishKind
    <3> QED BY <3>2
  <2> QED BY <2>1, <2>2
<1>3. ASSUME k > drawn PROVE readers'[k] = readers[k]
  <2>1. CASE SameReaders
    BY <1>3, <2>1 DEF SameReaders
  <2>2. CASE DropKind(q) \/ LoadKind(q) \/ FailNewKind(q) \/ FailKind(q) \/ PublishKind(q)
    <3>1. req[q].pc \in LeasePCs
      BY <2>2, PcClasses DEF DropKind, LoadKind, FailNewKind, FailKind, PublishKind
    <3>2. k # req[q].r
      BY <1>3, <3>1, Own, PlainFacts DEF Leased
    <3> QED BY <2>2, <3>2 DEF DropKind, LoadKind, FailNewKind, FailKind, PublishKind, ReaderIs
  <2> QED BY <2>1, <2>2 DEF RequestKind, AnswerKind, FindKind, WithinKind, BeginKind, LeaseKind,
             GiveUpKind, DrawKind, ShowKind, BuiltKind, KeepKind, DroppingKind
<1>4. ASSUME drawn < k, k =< drawn'
      PROVE  keys'[k].of \in 1..drawn' /\ keys'[keys'[k].of].of = keys'[k].of
  <2>0. drawn' # drawn
    BY <1>0, <1>4, PlainFacts
  <2>1. DrawKind(q)
    BY <2>0 DEF RequestKind, AnswerKind, FindKind, WithinKind, BeginKind, LeaseKind,
       GiveUpKind, ShowKind, BuiltKind, KeepKind, DroppingKind, DropKind, LoadKind, FailNewKind,
       FailKind, PublishKind, Calm
  <2>2. req[q].e \in 1..drawn /\ keys[req[q].e].of = req[q].e
    BY <2>1, Own, PcClasses DEF DrawKind
  <2> QED BY <1>4, <2>1, <2>2, PlainFacts DEF DrawKind, KeyDrawn
<1>5. ASSUME k =< drawn PROVE keys'[k].of \in 1..drawn' /\ keys'[keys'[k].of].of = keys'[k].of
  BY <1>0, <1>1, <1>5, PlainFacts DEF KeysKeep
<1> QED BY <1>0, <1>1, <1>2, <1>3, <1>4, <1>5, PlainFacts DEF KeysKeep

LEMMA FreshInvRequests ==
  ASSUME Shapes, LockInv, NEW q \in Requests, RequestKind(q)
  PROVE  FreshInv'
<1> DEFINE r == req[q].r
<1> SUFFICES ASSUME NEW p \in Requests, req'[p].new, req'[p].pc \in MadePCs
             PROVE  readers'[req'[p].r].view = NoView
  BY DEF FreshInv
<1>1. CASE p # q
  <2>1. req'[p] = req[p]
    BY <1>1, OthersFrame DEF OthersSame
  <2>2. req[p].r # r /\ req[p].r \in Keys
    BY <1>1, <2>1, Own DEF ReqOK
  <2>3. readers[req[p].r].view = NoView
    BY <2>1 DEF LockInv, FreshInv
  <2> QED BY <2>1, <2>2, <2>3, ReadersFrame DEF ReadersKeep
<1>2. CASE p = q
  <2>1. CASE DrawKind(q)
    <3>1. drawn' \in Keys /\ drawn' > drawn /\ req'[q].r = drawn'
      BY <2>1, PlainFacts DEF DrawKind, KeyDrawn, Turns
    <3>2. readers[drawn'] = NoReader
      BY <3>1 DEF LockInv, DrawnInv
    <3> QED BY <1>2, <2>1, <3>1, <3>2 DEF DrawKind, SameReaders, NoReader
  <2>2. ASSUME ~DrawKind(q) PROVE readers'[req'[p].r].view = NoView
    <3>1. req[q].new /\ req[q].pc \in MadePCs /\ req'[q].r = r /\ (SameReaders \/ LoadKind(q))
      <4>1. ASSUME NEW s \in UserPCs, WithinKind(q, s)
            PROVE  req[q].new /\ req[q].pc \in MadePCs /\ req'[q].r = r /\ SameReaders
        BY <1>2, <4>1 DEF WithinKind, Goes, Turns
      <4>2. CASE ShowKind(q) \/ LoadKind(q)
        BY <1>2, <4>2, Own, PcClasses DEF ShowKind, LoadKind, Goes, Turns, ReqOK
      <4>3. ~(\/ AnswerKind(q) \/ FindKind(q) \/ BeginKind(q) \/ LeaseKind(q) \/ GiveUpKind(q)
              \/ BuiltKind(q) \/ KeepKind(q) \/ DroppingKind(q) \/ DropKind(q) \/ FailNewKind(q)
              \/ FailKind(q) \/ PublishKind(q))
        <5>1. req[q].pc \in {"build", "lease"} => ~req[q].new
          BY Own, PcClasses
        <5> QED BY <1>2, <5>1, PcClasses DEF AnswerKind, FindKind, BeginKind, LeaseKind, GiveUpKind,
               BuiltKind, KeepKind, DroppingKind, DropKind, FailNewKind, FailKind, PublishKind,
               Ends,
               Goes, Turns
      <4>4. ShowKind(q) => SameReaders
        BY DEF ShowKind
      <4> QED BY <2>2, <4>1, <4>2, <4>3, <4>4 DEF RequestKind
    <3>2. readers[r].view = NoView /\ r \in Keys
      BY <3>1, Own DEF LockInv, FreshInv
    <3> QED BY <1>2, <3>1, <3>2 DEF SameReaders, LoadKind, ReaderIs, R
  <2> QED BY <2>1, <2>2
<1> QED BY <1>1, <1>2

\* A lease that can be used is in somebody's hands.
LEMMA OpenIsKept ==
  ASSUME Shapes, LockInv, NEW k \in 1..drawn, NEW e \in 1..drawn, Leased(k, e), keys[k].st = "open"
  PROVE  Kept(k, e)
<1>1. LeaseHeld(k, e)
  BY DEF LockInv, LeaseInv
<1>2. CASE ByMaker(k)
  BY <1>2 DEF ByMaker, Kept, InHand
<1>3. CASE ents[e].building = k
  BY <1>3, PlainFacts DEF LockInv, BuildingInv, Kept, InHand
<1>4. CASE ByClose(k, e)
  BY <1>4 DEF ByClose, Kept, Shutting
<1> QED BY <1>1, <1>2, <1>3, <1>4 DEF LeaseHeld, Kept

LEMMA OtherEnt ==
  ASSUME Shapes, LockInv, NEW q \in Requests, KeysKeep, EntsKeep(q), NEW x \in Keys,
         ents'[x].closed => ents'[x].reader = 0 /\ ents'[x].building = 0,
         ents'[x].builder # Nobody => ents'[x].reader = 0,
         ents'[x].reader # 0 => Leased(ents'[x].reader, x),
         drawn < x /\ x =< drawn' => keys'[x].of # x
  PROVE  EntOK(x)'
<1>1. EntOK(x) /\ x \in Nat
  BY PlainFacts DEF LockInv, EntInv
<1>2. /\ ents'[x].closed = ents[x].closed /\ ents'[x].close = ents[x].close
      /\ ents'[x].took = ents[x].took /\ ents'[x].shuts = ents[x].shuts
  BY DEF EntsKeep
<1>3. \A k : Leased(k, x) => Leased(k, x)'
  BY LeasedFrame
<1>4. ents'[x].reader # 0 => Leased(ents[x].reader, x)'
  BY <1>3
<1>5. ents'[x].close \in {"leases", "reader", "done"} => keys'[x].st # "open"
  <2>1. CASE x =< drawn
    BY <1>1, <1>2, <2>1, PlainFacts DEF EntOK, KeysKeep
  <2>2. CASE drawn < x
    BY <1>1, <1>2, <2>2, PlainFacts DEF LockInv, DrawnInv, NoEntry
  <2> QED BY <1>1, <2>1, <2>2, PlainFacts
<1>6. keys'[x].of = x /\ x =< drawn' /\ keys'[x].st # "open" => ents'[x].closed
  <2>1. CASE x =< drawn
    BY <1>1, <1>2, <2>1, PlainFacts DEF EntOK, KeysKeep
  <2> QED BY <1>1, <2>1, PlainFacts DEF KeysKeep
<1> QED BY <1>1, <1>2, <1>3, <1>4, <1>5, <1>6 DEF EntOK

LEMMA EntInvRequests ==
  ASSUME Shapes, LockInv, NEW q \in Requests, RequestKind(q)
  PROVE  EntInv'
<1> DEFINE e == req[q].e
<1> SUFFICES ASSUME NEW x \in Keys PROVE EntOK(x)'
  BY DEF EntInv
<1>0. KeysKeep /\ EntsKeep(q) /\ EntOK(x)
  BY KeysFrame, EntsFrame DEF LockInv, EntInv
<1>1. drawn < x /\ x =< drawn' => keys'[x].of # x
  <2>1. CASE UNCHANGED drawn
    BY <2>1, PlainFacts
  <2>2. CASE DrawKind(q)
    <3>1. e \in 1..drawn
      BY <2>2, Own, PcClasses DEF DrawKind
    <3> QED BY <2>2, <3>1, PlainFacts DEF DrawKind, KeyDrawn
  <2> QED BY <2>1, <2>2 DEF RequestKind, AnswerKind, FindKind, WithinKind, BeginKind, LeaseKind,
             GiveUpKind, ShowKind, BuiltKind, KeepKind, DroppingKind, DropKind, LoadKind,
             FailNewKind,
             FailKind, PublishKind, Calm
<1>2. CASE ents'[x] = ents[x]
  BY <1>0, <1>1, <1>2, OtherEnt DEF EntOK
<1>3. ASSUME NEW rd, NEW bu, NEW mk, EntMakes(e, rd, bu, mk), x = e,
             E(q).closed => rd = 0 /\ bu = 0, mk # Nobody => rd = 0, rd # 0 => Leased(rd, e)
      PROVE  EntOK(x)'
  BY <1>0, <1>1, <1>3, OtherEnt DEF EntMakes, EntIs, E
<1>4. CASE x = e /\ req[q].pc \in EntryPCs
  <2>1. EntOK(e) /\ e \in Keys
    BY <1>4, Own
  <2>2. CASE BeginKind(q)
    BY <1>3, <1>4, <2>1, <2>2 DEF BeginKind
  <2>3. CASE GiveUpKind(q) \/ DropKind(q)
    BY <1>3, <1>4, <2>1, <2>3 DEF GiveUpKind, DropKind, EntOK, E
  <2>4. ASSUME ShowKind(q) \/ BuiltKind(q) \/ FailNewKind(q) PROVE EntOK(x)'
    <3>1. E(q).reader = 0
      BY <2>4, Own DEF ShowKind, BuiltKind, FailNewKind
    <3> QED BY <1>3, <1>4, <2>1, <2>4, <3>1 DEF ShowKind, BuiltKind, FailNewKind, EntOK, E
  <2>5. CASE KeepKind(q)
    <3>1. Leased(req[q].r, e)
      BY <2>5, Own, PcClasses DEF KeepKind
    <3> QED BY <1>3, <1>4, <2>1, <2>5, <3>1 DEF KeepKind
  <2> QED BY <1>2, <2>2, <2>3, <2>4, <2>5 DEF RequestKind, AnswerKind, FindKind, WithinKind,
                                              LeaseKind,
             DrawKind, DroppingKind, LoadKind, FailKind, PublishKind
<1>5. CASE x = e /\ req[q].pc \notin EntryPCs
  <2>1. ~req[q].new /\ \A s \in {"build", "lease", "leasing", "leased", "built", "keep", "drop"} :
                        s \in EntryPCs
    BY <1>5, Own, PcClasses
  <2>2. UNCHANGED ents
    BY <1>5, <2>1 DEF RequestKind, AnswerKind, FindKind, WithinKind, BeginKind, LeaseKind,
                      GiveUpKind,
       DrawKind, ShowKind, BuiltKind, KeepKind, DroppingKind, DropKind, LoadKind, FailNewKind,
       FailKind, PublishKind
  <2> QED BY <1>2, <2>2
<1>6. CASE x # e
  BY <1>0, <1>2, <1>6 DEF EntsKeep
<1> QED BY <1>4, <1>5, <1>6

LEMMA BuildingInvRequests ==
  ASSUME Shapes, LockInv, NEW q \in Requests, RequestKind(q)
  PROVE  BuildingInv'
<1> DEFINE e == req[q].e
<1> SUFFICES ASSUME NEW x \in Keys, ents'[x].building # 0
             PROVE  /\ ents'[x].builder \in Requests
                    /\ LET p == ents'[x].builder IN
                         /\ req'[p].new /\ req'[p].pc \in BuildPCs /\ req'[p].e = x
                         /\ req'[p].r = ents'[x].building
  BY DEF BuildingInv
<1>0. OthersSame(q) /\ EntsKeep(q)
  BY OthersFrame, EntsFrame
<1>1. ents[x].building # 0 =>
        LET p == ents[x].builder IN
        /\ p \in Requests
        /\ req[p].new /\ req[p].pc \in BuildPCs /\ req[p].e = x /\ req[p].r = ents[x].building
  BY DEF LockInv, BuildingInv
<1>2. CASE ents'[x] = ents[x] /\ ents[x].builder # q
  BY <1>0, <1>1, <1>2 DEF OthersSame
<1>3. CASE ents'[x] = ents[x] /\ ents[x].builder = q
  <2>1. req[q].new /\ req[q].pc \in BuildPCs /\ e = x /\ req[q].r = ents[x].building
    BY <1>1, <1>3
  <2>2. req'[q].new /\ req'[q].pc \in BuildPCs /\ req'[q].e = e /\ req'[q].r = req[q].r
    <3>1. CASE \/ ShowKind(q) \/ BuiltKind(q) \/ FailNewKind(q) \/ KeepKind(q) \/ DropKind(q)
               \/ GiveUpKind(q)
      <4>1. req[q].pc = "built" \/ FailNewKind(q)
        BY <2>1, <3>1, PcClasses DEF ShowKind, BuiltKind, KeepKind, DropKind, GiveUpKind
      <4>2. e \in Keys /\ ents'[e].building = 0
        BY <2>1, <3>1, <4>1 DEF ShowKind, BuiltKind, FailNewKind, KeepKind, DropKind, GiveUpKind,
                                EntMakes, EntIs
      <4> QED BY <2>1, <4>2
    <3>2. ASSUME NEW s \in UserPCs, WithinKind(q, s)
          PROVE  req'[q].new /\ req'[q].pc \in BuildPCs /\ req'[q].e = e /\ req'[q].r = req[q].r
      BY <2>1, <3>2 DEF WithinKind, Goes, Turns
    <3>3. CASE LoadKind(q) \/ PublishKind(q)
      BY <2>1, <3>3, PcClasses DEF LoadKind, PublishKind, Goes, Turns
    <3> QED BY <2>1, <3>1, <3>2, <3>3, PcClasses DEF RequestKind, AnswerKind, FindKind, BeginKind,
               LeaseKind, DrawKind, DroppingKind, FailKind
  <2> QED BY <1>3, <2>1, <2>2
<1>4. CASE ents'[x] # ents[x]
  <2>1. x = e /\ e \in Keys
    BY <1>0, <1>4 DEF EntsKeep
  <2>2. CASE BeginKind(q)
    BY <1>1, <2>1, <2>2, PlainFacts DEF BeginKind, EntMakes, EntIs, E
  <2>3. CASE GiveUpKind(q) \/ KeepKind(q) \/ DropKind(q)
    <3>1. E(q).builder = q /\ req[q].pc \notin BuildPCs
      BY <2>3, Own, PcClasses DEF GiveUpKind, KeepKind, DropKind
    <3>2. ents[x].building = 0
      BY <1>1, <2>1, <3>1 DEF E
    <3> QED BY <2>1, <2>3, <3>2 DEF GiveUpKind, KeepKind, DropKind, EntMakes, EntIs, E
  <2>4. CASE BuiltKind(q) \/ FailNewKind(q)
    BY <2>1, <2>4 DEF BuiltKind, FailNewKind, EntMakes, EntIs
  <2>5. CASE ShowKind(q)
    <3>1. E(q).builder = q /\ req[q].new
      BY <2>5, Own DEF ShowKind, ReqOK
    <3>2. ents'[x].builder = q /\ ents'[x].building = req[q].r
      BY <2>1, <2>5, <3>1 DEF ShowKind, EntMakes, EntIs, E
    <3>3. req'[q].new /\ req'[q].pc \in BuildPCs /\ req'[q].e = e /\ req'[q].r = req[q].r
      BY <2>5, <3>1, PcClasses DEF ShowKind, Goes, Turns
    <3> QED BY <2>1, <3>2, <3>3
  <2> QED BY <1>4, <2>2, <2>3, <2>4, <2>5 DEF RequestKind, AnswerKind, FindKind, WithinKind,
                                              LeaseKind,
             DrawKind, DroppingKind, LoadKind, FailKind, PublishKind
<1> QED BY <1>2, <1>3, <1>4

\* A request that makes a reader goes on with it, unless it ends with the lease locked.
StaysMaker(q) ==
  /\ req'[q].new /\ req'[q].r = req[q].r
  /\ req[q].pc \in {"leased", "keep", "drop"} => req'[q].pc \in {"leased", "keep", "drop"}

LEMMA MakerGoesOn ==
  ASSUME Shapes, LockInv, NEW q \in Requests, RequestKind(q), req[q].new
  PROVE  \/ StaysMaker(q) \/ ShowKind(q) \/ KeepKind(q)
         \/ (GiveUpKind(q) \/ DropKind(q) \/ FailNewKind(q)) /\ KeysLock({req[q].r})
<1>1. ASSUME NEW s \in UserPCs, WithinKind(q, s) PROVE StaysMaker(q)
  BY <1>1, PcClasses DEF WithinKind, StaysMaker, Goes, Turns
<1>2. CASE BuiltKind(q) \/ DroppingKind(q) \/ LoadKind(q) \/ PublishKind(q)
  BY <1>2, PcClasses DEF BuiltKind, DroppingKind, LoadKind, PublishKind, StaysMaker, Goes, Turns
<1>3. ~(AnswerKind(q) \/ FailKind(q))
  BY DEF AnswerKind, FailKind
<1>4. req[q].pc \notin {"build", "lease", "leasing"}
  BY Own, PcClasses
<1> QED BY <1>1, <1>2, <1>3, <1>4 DEF RequestKind, FindKind, BeginKind, LeaseKind, DrawKind,
           GiveUpKind, DropKind, FailNewKind

LEMMA LeaseInvRequests ==
  ASSUME Shapes, LockInv, NEW q \in Requests, RequestKind(q)
  PROVE  LeaseInv'
<1> DEFINE r == req[q].r
<1> SUFFICES ASSUME NEW k \in 1..drawn', NEW d \in 1..drawn', Leased(k, d)', keys'[k].st = "open"
             PROVE  LeaseHeld(k, d)'
  BY DEF LeaseInv
<1>0. OthersSame(q) /\ KeysKeep /\ EntsKeep(q)
  BY OthersFrame, KeysFrame, EntsFrame
<1>1. CASE k \notin 1..drawn
  <2>1. DrawKind(q)
    BY <1>1 DEF RequestKind, AnswerKind, FindKind, WithinKind, BeginKind, LeaseKind, GiveUpKind,
       ShowKind, BuiltKind, KeepKind, DroppingKind, DropKind, LoadKind, FailNewKind, FailKind,
       PublishKind, Calm
  <2>2. k = drawn'
    BY <1>1, <2>1, PlainFacts DEF DrawKind, KeyDrawn
  <2>3. ByMaker(k)'
    BY <2>1, <2>2 DEF DrawKind, Turns, ByMaker
  <2> QED BY <2>3 DEF LeaseHeld
<1>2. ASSUME k \in 1..drawn PROVE LeaseHeld(k, d)'
  <2>1. Leased(k, d) /\ keys[k].st = "open" /\ d \in 1..drawn /\ d \in Keys
    BY <1>0, <1>2, LeasedFrame, PlainFacts DEF KeysKeep, Leased
  <2>2. LeaseHeld(k, d)
    BY <1>2, <2>1 DEF LockInv, LeaseInv
  <2>3. k # 0 /\ ents'[d].close = ents[d].close /\ ents'[d].took = ents[d].took
        /\ ents'[d].shuts = ents[d].shuts
    BY <1>0, <1>2, <2>1, PlainFacts DEF EntsKeep
  <2>4. ents[d].reader = k => ents'[d].reader = k
    BY <1>0, <2>1, <2>3 DEF EntsKeep
  <2>5. CASE ~(req[q].new /\ k = r)
    <3>1. ByMaker(k) => ByMaker(k)'
      BY <1>0, <2>5 DEF OthersSame, ByMaker
    <3>2. InHand(k) => InHand(k)'
      BY <1>0, <2>5 DEF OthersSame, InHand
    <3>3. ents[d].building = k => ents'[d].building = k
      <4>1. ASSUME ents[d].building = k PROVE k # r
        <5>1. PICK p \in Requests : req[p].new /\ req[p].r = k
          BY <2>1, <2>3, <4>1 DEF LockInv, BuildingInv
        <5> QED BY <2>5, <5>1, Own DEF ReqOK
      <4> QED BY <1>0, <2>1, <2>3, <4>1 DEF EntsKeep
    <3> QED BY <2>2, <2>3, <2>4, <3>1, <3>2, <3>3 DEF LeaseHeld, ByClose
  <2>6. CASE req[q].new /\ k = r
    <3>1. d = req[q].e /\ r # 0
      BY <2>1, <2>6, Own DEF Leased
    <3>2. ~KeysLock({r})
      BY <1>2, <2>6, PlainFacts DEF KeysLock
    <3>3. CASE ShowKind(q)
      BY <2>1, <2>6, <3>1, <3>3 DEF ShowKind, EntMakes, EntIs, LeaseHeld
    <3>4. CASE KeepKind(q)
      BY <2>1, <2>6, <3>1, <3>4 DEF KeepKind, EntMakes, EntIs, LeaseHeld
    <3>5. CASE StaysMaker(q)
      <4>1. InHand(k)'
        BY <2>6, <3>5 DEF StaysMaker, InHand
      <4>2. ByMaker(k) => ByMaker(k)'
        BY <1>0, <2>6, <3>5 DEF StaysMaker, ByMaker, OthersSame
      <4>3. ASSUME ents[d].building = k PROVE LeaseHeld(k, d)'
        <5>1. CASE BuiltKind(q)
          <6>1. ByMaker(k)'
            BY <2>6, <3>5, <5>1 DEF BuiltKind, Goes, Turns, StaysMaker, ByMaker
          <6> QED BY <6>1 DEF LeaseHeld
        <5>2. CASE ~BuiltKind(q)
          <6>0. PICK p \in Requests : p = ents[d].builder /\ req[p].r = k /\ req[p].pc \in BuildPCs
            BY <2>1, <2>3, <4>3 DEF LockInv, BuildingInv
          <6>1. ents[d].builder = q /\ req[q].pc \in BuildPCs
            BY <2>6, <6>0, OneMaker
          <6>2. req[q].pc \notin {"build", "lease", "leasing", "leased", "keep", "drop"}
            BY <6>1, PcClasses
          <6>3. ~FailNewKind(q)
            BY <3>5 DEF FailNewKind, Ends, Turns, StaysMaker
          <6>4. UNCHANGED ents
            BY <5>2, <6>2, <6>3 DEF RequestKind, AnswerKind, FindKind, WithinKind, BeginKind,
                                    LeaseKind,
               GiveUpKind, DrawKind, ShowKind, KeepKind, DroppingKind, DropKind, LoadKind, FailKind,
               PublishKind
          <6> QED BY <4>3, <6>4 DEF LeaseHeld
        <5> QED BY <5>1, <5>2
      <4> QED BY <2>2, <2>3, <2>4, <4>1, <4>2, <4>3 DEF LeaseHeld, ByClose
    <3> QED BY <2>6, <3>2, <3>3, <3>4, <3>5, MakerGoesOn
  <2> QED BY <2>5, <2>6
<1> QED BY <1>1, <1>2

LEMMA LoaderInvRequests ==
  ASSUME Shapes, LockInv, NEW q \in Requests, RequestKind(q)
  PROVE  LoaderInv'
<1> DEFINE r == req[q].r
<1>0. OthersSame(q) /\ ReadersKeep(q) /\ LoaderInv
  BY OthersFrame, ReadersFrame DEF LockInv
\* Whatever the request does to the reader, it loads or does not.
<1>1. /\ req'[q].pc \in LoadPCs => req'[q].r = r /\ r \in Keys /\ readers'[r].loader = q
      /\ r \in Keys =>
           \/ readers'[r].loader = Nobody
           \/ readers'[r].loader = q /\ req'[q].pc \in LoadPCs /\ req'[q].r = r
           \/ readers'[r].loader = readers[r].loader /\ readers[r].loader # q
      /\ r \in Keys /\ readers[r].loader \notin {q, Nobody} =>
           readers'[r].loader = readers[r].loader
  <2>0. /\ r # 0 => r \in Keys
        /\ req[q].pc \in LoadPCs => r \in Keys /\ readers[r].loader = q
        /\ r \in Keys /\ readers[r].loader = q => req[q].pc \in LoadPCs
        /\ 0 \notin Keys
    BY <1>0, Own, PcClasses, PlainFacts DEF LoaderInv
  <2>1. ASSUME NEW s \in UserPCs, WithinKind(q, s)
        PROVE  /\ req[q].pc \in LoadPCs <=> req'[q].pc \in LoadPCs
               /\ req'[q].r = r /\ SameReaders
    BY <2>1 DEF WithinKind, Goes, Turns
  <2>2. ASSUME \/ AnswerKind(q) \/ FindKind(q) \/ BeginKind(q) \/ LeaseKind(q) \/ GiveUpKind(q)
               \/ DrawKind(q) \/ ShowKind(q) \/ BuiltKind(q) \/ KeepKind(q) \/ DroppingKind(q)
        PROVE  SameReaders /\ req[q].pc \notin LoadPCs /\ req'[q].pc \notin LoadPCs
    BY <2>2, PcClasses DEF AnswerKind, FindKind, BeginKind, LeaseKind, GiveUpKind, DrawKind,
                           ShowKind,
       BuiltKind, KeepKind, DroppingKind, Goes, Ends, Turns
  <2>3. ASSUME DropKind(q)
        PROVE  /\ req[q].pc \notin LoadPCs /\ req'[q].pc \notin LoadPCs
               /\ readers'[r].loader = readers[r].loader
    BY <2>3, PcClasses DEF DropKind, ReaderIs, Ends, Turns, R
  <2>4. ASSUME LoadKind(q)
        PROVE  /\ readers[r].loader = Nobody /\ readers'[r].loader = q /\ req'[q].pc \in LoadPCs
               /\ req'[q].r = r /\ r \in Keys
    BY <2>0, <2>4, Own, PcClasses DEF LoadKind, ReaderIs, Goes, Turns, R
  <2>5. ASSUME FailNewKind(q)
        PROVE  /\ req'[q].pc \notin LoadPCs /\ readers'[r].loader = Nobody
               /\ r \in Keys => readers[r].loader \in {q, Nobody}
    <3>1. ASSUME r \in Keys, readers[r].loader # Nobody PROVE readers[r].loader = q
      BY <1>0, <2>5, <3>1, Own, PlainFacts DEF FailNewKind, LoaderInv, ReqOK
    <3> QED BY <2>5, <3>1, PcClasses DEF FailNewKind, ReaderIs, Ends, Turns
  <2>6. ASSUME FailKind(q)
        PROVE  /\ req'[q].pc \notin LoadPCs
               /\ readers'[r].loader = IF readers[r].loader = q THEN Nobody ELSE readers[r].loader
    BY <2>6, PcClasses DEF FailKind, ReaderIs, Ends, Turns, R, NotLoading, Reader
  <2>7. ASSUME PublishKind(q)
        PROVE  /\ req[q].pc \in LoadPCs /\ req'[q].pc \notin LoadPCs /\ readers'[r].loader = Nobody
    BY <2>7, PcClasses DEF PublishKind, ReaderIs, Goes, Turns
  <2> QED BY <2>0, <2>1, <2>2, <2>3, <2>4, <2>5, <2>6, <2>7 DEF RequestKind, SameReaders
<1>2. ASSUME NEW p \in Requests, req'[p].pc \in LoadPCs PROVE readers'[req'[p].r].loader = p
  <2>1. CASE p = q
    BY <1>1, <1>2, <2>1
  <2>2. CASE p # q
    <3>1. req'[p] = req[p] /\ req[p].r \in Keys /\ readers[req[p].r].loader = p
      BY <1>0, <1>2, <2>2, Own, PcClasses DEF OthersSame, LoaderInv
    <3> QED BY <1>0, <1>1, <2>2, <3>1, PlainFacts DEF ReadersKeep
  <2> QED BY <2>1, <2>2
<1>3. ASSUME NEW k \in Keys, readers'[k].loader # Nobody
      PROVE  req'[readers'[k].loader].r = k /\ req'[readers'[k].loader].pc \in LoadPCs
  <2>1. CASE readers'[k].loader = readers[k].loader /\ readers[k].loader # q
    BY <1>0, <1>3, <2>1, PlainFacts DEF LoaderInv, OthersSame
  <2>2. CASE k = r
    BY <1>1, <1>3, <2>1, <2>2
  <2>3. CASE k # r
    <3>1. readers[k].loader # q
      BY <1>0, <2>3, PlainFacts DEF LoaderInv
    <3> QED BY <1>0, <2>1, <2>3, <3>1 DEF ReadersKeep
  <2> QED BY <2>2, <2>3
<1> QED BY <1>2, <1>3 DEF LoaderInv

LEMMA KeptInvRequests ==
  ASSUME Shapes, LockInv, NEW q \in Requests, RequestKind(q)
  PROVE  KeptInv'
<1> DEFINE r == req[q].r
<1> SUFFICES ASSUME NEW k \in 1..drawn', readers'[k].loader # Nobody \/ readers'[k].view # NoView
             PROVE  Kept(k, keys[k].of)'
  BY DEF KeptInv
<1>0. OthersSame(q) /\ KeysKeep /\ EntsKeep(q) /\ ReadersKeep(q)
  BY OthersFrame, KeysFrame, EntsFrame, ReadersFrame
<1>1. k \in 1..drawn
  <2>1. ASSUME k \notin 1..drawn PROVE FALSE
    <3>1. DrawKind(q)
      BY <2>1 DEF RequestKind, AnswerKind, FindKind, WithinKind, BeginKind, LeaseKind, GiveUpKind,
         ShowKind, BuiltKind, KeepKind, DroppingKind, DropKind, LoadKind, FailNewKind, FailKind,
         PublishKind, Calm
    <3>2. k \in Keys /\ k > drawn
      BY <2>1, <3>1, PlainFacts DEF DrawKind, KeyDrawn
    <3>3. readers[k] = NoReader
      BY <3>2 DEF LockInv, DrawnInv
    <3> QED BY <3>1, <3>2, <3>3 DEF DrawKind, SameReaders, NoReader
  <2> QED BY <2>1
<1>2. PICK d \in 1..drawn : d = keys[k].of /\ d = keys'[k].of /\ d \in Keys /\ k \in Keys
  BY <1>0, <1>1, PlainFacts DEF KeysKeep, LockInv, DrawnInv
\* What the step does to the reader it works with.
<1>3. ASSUME k = r
      PROVE  /\ \/ readers[k].loader # Nobody \/ readers[k].view # NoView
                \/ keys[k].st = "open" /\ Leased(k, d)
             /\ readers[k].closing => readers'[k].closing
  <2>1. CASE SameReaders
    BY <1>2, <2>1 DEF SameReaders
  <2>2. CASE LoadKind(q)
    <3>1. Leased(k, d)
      <4>1. req[q].pc \in LeasePCs
        BY <2>2, PcClasses DEF LoadKind
      <4>2. Leased(k, req[q].e)
        BY <1>3, <4>1, Own
      <4> QED BY <1>2, <4>2 DEF Leased
    <3> QED BY <1>3, <2>2, <3>1 DEF LoadKind, ReaderIs, R
  <2>3. CASE PublishKind(q)
    <3>1. readers[k].loader = q
      BY <1>3, <2>3, PcClasses DEF PublishKind, LockInv, LoaderInv
    <3> QED BY <1>3, <2>3, <3>1, PlainFacts DEF PublishKind, ReaderIs, R
  <2>4. CASE DropKind(q) \/ FailNewKind(q) \/ FailKind(q)
    BY <1>3, <2>4 DEF DropKind, FailNewKind, FailKind, ReaderIs, R, NotLoading, Reader
  <2> QED BY <2>1, <2>2, <2>3, <2>4 DEF RequestKind, AnswerKind, FindKind, WithinKind, BeginKind,
             LeaseKind, GiveUpKind, DrawKind, ShowKind, BuiltKind, KeepKind, DroppingKind
<1>4. Kept(k, d)
  <2>1. CASE readers[k].loader # Nobody \/ readers[k].view # NoView
    BY <1>1, <1>2, <2>1 DEF LockInv, KeptInv
  <2>2. CASE keys[k].st = "open" /\ Leased(k, d)
    BY <1>1, <2>2, OpenIsKept
  <2> QED BY <1>0, <1>2, <1>3, <2>1, <2>2 DEF ReadersKeep
<1>5. ASSUME InHand(k) PROVE Kept(k, d)'
  <2>1. PICK p \in Requests : req[p].r = k /\ req[p].new
    BY <1>5 DEF InHand
  <2>2. CASE p # q
    BY <1>0, <2>1, <2>2 DEF OthersSame, Kept, InHand
  <2>3. ASSUME p = q PROVE Kept(k, d)'
    <3>0. k = r /\ req[q].new /\ req[q].pc \in LeasePCs /\ d = req[q].e
      BY <1>2, <2>1, <2>3, Own DEF Leased
    <3>1. CASE StaysMaker(q)
      BY <3>0, <3>1 DEF StaysMaker, Kept, InHand
    <3>2. CASE ShowKind(q)
      BY <3>0, <3>2 DEF ShowKind, Goes, Turns, Kept, InHand
    <3>3. CASE KeepKind(q)
      BY <3>0, <3>3 DEF KeepKind, EntMakes, EntIs, Kept
    <3>4. CASE DropKind(q)
      BY <3>0, <3>4 DEF DropKind, ReaderIs, Kept
    <3>5. ASSUME GiveUpKind(q) \/ FailNewKind(q) PROVE FALSE
      <4>1. req[q].pc \in MadePCs
        BY <3>0, <3>5, PcClasses DEF GiveUpKind, FailNewKind
      <4>2. readers[k].view = NoView
        BY <3>0, <4>1 DEF LockInv, FreshInv
      <4>3. CASE FailNewKind(q)
        BY <3>0, <4>2, <4>3 DEF FailNewKind, ReaderIs, R
      <4>4. ASSUME GiveUpKind(q), readers[k].loader # Nobody PROVE FALSE
        <5>1. readers[k].loader = q /\ req[q].pc \in LoadPCs
          <6> DEFINE l == readers[k].loader
          <6>1. l \in Requests /\ req[l].r = k /\ req[l].pc \in LoadPCs
            BY <1>2, <4>4, PlainFacts DEF LockInv, LoaderInv
          <6> QED BY <3>0, <6>1, OneMaker
        <5> QED BY <4>4, <5>1, PcClasses DEF GiveUpKind
      <4> QED BY <1>2, <3>5, <4>2, <4>3, <4>4 DEF GiveUpKind, SameReaders
    <3> QED BY <3>0, <3>1, <3>2, <3>3, <3>4, <3>5, MakerGoesOn
  <2> QED BY <2>2, <2>3
<1>6. ents[d].reader = k => ents'[d].reader = k
  BY <1>0, <1>2, PlainFacts DEF EntsKeep
<1>7. Shutting(k, d, {"key", "leases", "reader"}) => Shutting(k, d, {"key", "leases", "reader"})'
  BY <1>0, <1>2 DEF EntsKeep, Shutting
<1>8. readers[k].closing => readers'[k].closing
  BY <1>0, <1>2, <1>3 DEF ReadersKeep
<1>9. Kept(k, d)'
  BY <1>4, <1>5, <1>6, <1>7, <1>8 DEF Kept
<1> QED BY <1>2, <1>9

(***************************************************************************)
(* The views of a reader.                                                  *)
(***************************************************************************)
LEMMA PlacesHold ==
  ASSUME Shapes, ReqInv, DrawnInv, NEW q \in Requests
  PROVE  Places(q)
BY PlainFacts DEF ReqInv, ReqOK, Leased, Places

LEMMA SameViews ==
  ASSUME Shapes, ViewsInv, UNCHANGED views, \A k \in Keys : readers'[k].view = readers[k].view
  PROVE  ViewsInv'
BY DEF ViewsInv

LEMMA GoneAre ==
  ASSUME Shapes, ViewsInv, NEW r \in Keys
  PROVE  \A v \in Vers : /\ Gone(views, r)[r][v].st # "open"
                         /\ \A x \in Keys : x # r => Gone(views, r)[x][v] = views[x][v]
<1>1. CASE readers[r].view = NoView
  BY <1>1, VerFacts DEF ViewsInv, Gone
<1>2. CASE readers[r].view # NoView
  <2>1. readers[r].view \in Vers
    BY <1>2, ReaderShape
  <2> QED BY <1>2, <2>1 DEF ViewsInv, Gone, Shapes, ViewT
<1> QED BY <1>1, <1>2

LEMMA GoneViews ==
  ASSUME Shapes, ViewsInv, NEW r \in Keys, views' = Gone(views, r), readers'[r].view = NoView,
         \A x \in Keys : x # r => readers'[x].view = readers[x].view
  PROVE  ViewsInv'
<1>1. \A v \in Vers : /\ views'[r][v].st # "open" /\ v # NoView
                      /\ \A x \in Keys : x # r => views'[x][v] = views[x][v]
  BY GoneAre, VerFacts
<1> QED BY <1>1 DEF ViewsInv

LEMMA CloseViews ==
  ASSUME Shapes, ViewsInv, NEW r \in Keys, NEW now \in BOOLEAN, CloseReader(r, now)
  PROVE  ViewsInv'
<1>0. \A x \in Keys : x # r => readers'[x].view = readers[x].view
  BY ReaderDomain DEF CloseReader
<1>1. CASE now
  <2>1. readers'[r].view = NoView /\ views' = Gone(views, r)
    BY <1>1, ReaderDomain DEF CloseReader
  <2> QED BY <1>0, <2>1, GoneViews
<1>2. CASE ~now
  <2>1. readers'[r].view = readers[r].view /\ UNCHANGED views
    BY <1>2, ReaderDomain DEF CloseReader
  <2> QED BY <1>0, <2>1, SameViews
<1> QED BY <1>1, <1>2

LEMMA FailViews ==
  ASSUME Shapes, ViewsInv, NEW q \in Requests, req[q].r \in Keys,
         FailLocked(q) \/ \E w \in Told : Fail(q, w)
  PROVE  ViewsInv'
<1>1. ASSUME NEW w, Fail(q, w) PROVE ViewsInv'
  <2>1. UNCHANGED views /\ \A k \in Keys : readers'[k].view = readers[k].view
    BY <1>1, ReaderDomain DEF Fail
  <2> QED BY <2>1, SameViews
<1>2. CASE FailLocked(q) /\ ~Fail(q, "locked")
  <2>1. /\ views' = Gone(views, req[q].r) /\ readers'[req[q].r].view = NoView
        /\ \A x \in Keys : x # req[q].r => readers'[x].view = readers[x].view
    BY <1>2, ReaderDomain DEF FailLocked
  <2> QED BY <2>1, GoneViews
<1> QED BY <1>1, <1>2

LEMMA PublishViews ==
  ASSUME Shapes, ViewsInv, NEW q \in Requests, req[q].r \in Keys, Publish(q)
  PROVE  ViewsInv'
<1> DEFINE r == req[q].r
           p == req[q].peek
           g == Gone(views, r)
<1>1. /\ readers'[r].view = p /\ \A x \in Keys : x # r => readers'[x].view = readers[x].view
  BY ReaderDomain DEF Publish
<1>2. g \in [Keys -> [Vers -> ViewT]]
  BY GoneShape, Bounds
<1>3. \A v \in Vers : g[r][v].st # "open" /\ \A x \in Keys : x # r => g[x][v] = views[x][v]
  BY GoneAre
<1>4. views' = [g EXCEPT ![r][p] = [st |-> "open", gen |-> req[q].got]]
  BY DEF Publish
<1>5. p \in Vers \cup {NoView}
  BY ReqShape
<1> HIDE DEF g
<1>6. ASSUME NEW x \in Keys, NEW v \in Vers PROVE (views[x][v].st = "open" <=> readers[x].view = v)'
  <2>1. CASE x # r
    BY <1>1, <1>2, <1>3, <1>4, <2>1 DEF ViewsInv
  <2>2. CASE x = r /\ v # p
    BY <1>1, <1>2, <1>3, <1>4, <2>2
  <2>3. CASE x = r /\ v = p
    BY <1>1, <1>2, <1>3, <1>4, <2>3
  <2> QED BY <2>1, <2>2, <2>3
<1> QED BY <1>6 DEF ViewsInv

LEMMA ViewsRequests ==
  ASSUME Shapes, ReqInv, DrawnInv, ViewsInv, NEW q \in Requests, Request(q)
  PROVE  ViewsInv'
<1> DEFINE r == req[q].r
<1>0. /\ req[q].pc \in EntryPCs => req[q].e \in Keys
      /\ req[q].pc \in LeasePCs => r \in Keys
  BY PlacesHold DEF Places
<1>1. CASE \/ Ask(q) \/ FindReader(q) \/ BeginLease(q) \/ EndLease(q) \/ BeginBuild(q)
           \/ EndBuild(q) \/ KeepReader(q) \/ PeekBefore(q) \/ ReadPointer(q)
           \/ ReadChunks(q) \/ Used(q) \/ ReadUnit(q) \/ OpenUnit(q)
  <2>1. UNCHANGED <<readers, views>>
    BY <1>1 DEF Ask, FindReader, BeginLease, EndLease, BeginBuild, EndBuild, KeepReader, PeekBefore,
                ReadPointer, ReadChunks, Used, ReadUnit, OpenUnit
  <2> QED BY <2>1, SameViews
<1>2. CASE DropReader(q)
  <2>1. r \in Keys
    BY <1>0, <1>2 DEF DropReader, LeasePCs
  <2>2. PICK now \in {TRUE, ~shut} : CloseReader(r, now)
    BY <1>2 DEF DropReader
  <2>3. now \in BOOLEAN
    BY DEF Shapes
  <2> QED BY <2>1, <2>2, <2>3, CloseViews
<1>3. CASE Look(q) \/ LookAgain(q) \/ PeekAfter(q) \/ UseIndex(q) \/ Missed(q)
  <2>1. r \in Keys /\ {"locked", "refused", "busy"} \subseteq Told
    BY <1>0, <1>3 DEF Look, LookAgain, PeekAfter, UseIndex, Missed, LeasePCs, UserPCs, BuildPCs,
                      ViewPCs, LoadPCs, Told
  <2>2. CASE FailLocked(q) \/ \E w \in Told : Fail(q, w)
    BY <2>1, <2>2, FailViews
  <2>3. CASE ~(FailLocked(q) \/ \E w \in Told : Fail(q, w))
    <3>1. UNCHANGED views /\ \A k \in Keys : readers'[k].view = readers[k].view
      BY <1>3, <2>1, <2>3, ReaderDomain DEF Look, LookAgain, PeekAfter, UseIndex, Missed
    <3> QED BY <3>1, SameViews
  <2> QED BY <2>2, <2>3
<1>4. CASE Publish(q)
  <2>1. r \in Keys
    BY <1>0, <1>4 DEF Publish, LeasePCs, UserPCs, BuildPCs, LoadPCs
  <2> QED BY <1>4, <2>1, PublishViews
<1> QED BY <1>1, <1>2, <1>3, <1>4 DEF Request

(***************************************************************************)
(* The other steps, field by field.                                        *)
(***************************************************************************)
\* Nothing that a lease, a reader or a request is: the record, the registry, a view closed.
QuietKind == UNCHANGED <<drawn, keys, ents, readers, req>>

\* The entry goes, and is to be closed.
GoingKind ==
  /\ UNCHANGED <<drawn, keys, readers, req>>
  /\ entry \in Keys
  /\ EntCloses(entry, "begin", ents[entry].took, ents[entry].shuts)

AskKind(q) ==
  /\ UNCHANGED <<drawn, keys, ents, readers>>
  /\ req[q].pc = "idle"
  /\ \/ entry # 0 /\ Turns(q, "build", entry, 0, FALSE)
     \/ Turns(q, "opening", 0, 0, FALSE)
     \/ Ends(q)

FailOpenKind(q) ==
  /\ UNCHANGED <<drawn, keys, ents, readers>>
  /\ req[q].pc = "opening"
  /\ Ends(q)

\* The archive opened, by the person or by a request.
OpenKind ==
  /\ UNCHANGED <<ents, readers>>
  /\ KeyDrawn(drawn', drawn')
  /\ \/ UNCHANGED req
     \/ \E q \in Requests : req[q].pc = "opening" /\ Turns(q, "build", drawn', 0, FALSE)

TakeKind(e) ==
  /\ UNCHANGED <<drawn, keys, readers, req>>
  /\ ents[e].close = "begin"
  /\ EntIs(e, 0, 0, TRUE, ents[e].builder, "key", Taken(e), ents[e].reader)

KeyKind(e) ==
  /\ UNCHANGED <<drawn, readers, req>>
  /\ KeysLock({e})
  /\ ents[e].close = "key"
  /\ EntCloses(e, "leases", ents[e].took, ents[e].shuts)

LeasesKind(e) ==
  /\ UNCHANGED <<drawn, readers, req>>
  /\ KeysLock(ents[e].took)
  /\ ents[e].close = "leases"
  /\ EntCloses(e, "reader", ents[e].took, ents[e].shuts)

ShutKind(e) ==
  /\ UNCHANGED <<drawn, keys, req>>
  /\ ents[e].close = "reader"
  /\ EntCloses(e, "done", {}, 0)
  /\ LET s == ents[e].shuts IN
     IF s = 0 THEN UNCHANGED readers
     ELSE \/ ReaderIs(s, readers[s].view, readers[s].loader, TRUE)
          \/ ReaderIs(s, NoView, readers[s].loader, TRUE)

EndKind(r) ==
  /\ UNCHANGED <<drawn, keys, ents, req>>
  /\ readers[r].closing /\ readers[r].loader = Nobody
  /\ ReaderIs(r, NoView, Nobody, FALSE)

OtherKind ==
  \/ QuietKind \/ GoingKind \/ OpenKind
  \/ \E q \in Requests : AskKind(q) \/ FailOpenKind(q)
  \/ \E e \in Keys : TakeKind(e) \/ KeyKind(e) \/ LeasesKind(e) \/ ShutKind(e) \/ EndKind(e)

LEMMA AskDoes == ASSUME Shapes, NEW q \in Requests, Ask(q) PROVE AskKind(q)
<1>1. CASE Answer(q, "locked")
  BY <1>1, AnswerDoes DEF Ask, AskKind, opened
<1>2. CASE ~Answer(q, "locked")
  <2>1. PICK op \in {"unit", "index"} :
          LET asked == [Idle EXCEPT !.op = op, !.since = ver] IN
          \/ entry # 0 /\ req' = [req EXCEPT ![q] = [asked EXCEPT !.pc = "build", !.e = entry]]
          \/ req' = [req EXCEPT ![q] = [asked EXCEPT !.pc = "opening"]]
    BY <1>2 DEF Ask
  <2> DEFINE asked == [Idle EXCEPT !.op = op, !.since = ver]
             a == [asked EXCEPT !.pc = "build", !.e = entry]
             b == [asked EXCEPT !.pc = "opening"]
  <2>2. a.pc = "build" /\ a.e = entry /\ a.r = 0 /\ a.new = FALSE
    BY DEF Idle
  <2>3. b.pc = "opening" /\ b.e = 0 /\ b.r = 0 /\ b.new = FALSE
    BY DEF Idle
  <2>4. \/ entry # 0 /\ req' = [req EXCEPT ![q] = a]
        \/ req' = [req EXCEPT ![q] = b]
    BY <2>1
  <2> HIDE DEF a, b
  <2>5. \/ entry # 0 /\ Turns(q, "build", entry, 0, FALSE)
        \/ Turns(q, "opening", 0, 0, FALSE)
    BY <2>2, <2>3, <2>4, ReqDomain DEF Turns
  <2> QED BY <2>5 DEF Ask, AskKind, opened
<1> QED BY <1>1, <1>2

LEMMA OpenEndsDoes ==
  ASSUME Shapes, RegInv, ReqInv, OpenEnds
  PROVE  QuietKind \/ OpenKind \/ \E q \in Requests : FailOpenKind(q)
<1> DEFINE q == opening.by
<1>0. q \in Requests \cup {Person} /\ (q \in Requests => req[q].pc = "opening" /\ q # Person)
  BY RequestsAssumption DEF OpenEnds, RegInv, Shapes
<1>1. CASE entry' = entry
  <2>1. drawn' = drawn /\ keys' = keys
    BY <1>1, Bounds DEF OpenEnds, RegInv, Shapes
  <2>2. CASE q = Person
    BY <2>1, <2>2 DEF OpenEnds, QuietKind
  <2>3. CASE q # Person
    <3>1. Ends(q) /\ q \in Requests
      BY <1>0, <1>1, <2>3, AnswerDoes DEF OpenEnds
    <3> QED BY <1>0, <2>1, <3>1 DEF OpenEnds, FailOpenKind
  <2> QED BY <2>2, <2>3
<1>2. CASE entry' # entry
  <2>1. /\ drawn' = drawn + 1 /\ keys' = Drawn(keys, drawn', drawn') /\ entry' = drawn'
        /\ drawn' \in Keys
    BY <1>2, Bounds DEF OpenEnds, Shapes, Keys
  <2>2. KeyDrawn(drawn', drawn')
    BY <2>1 DEF KeyDrawn, Drawn, Shapes, KeyT
  <2>3. CASE q = Person
    BY <2>2, <2>3 DEF OpenEnds, OpenKind
  <2>4. CASE q # Person
    <3>1. req' = [req EXCEPT ![q].pc = "build", ![q].e = drawn'] /\ q \in Requests
      BY <1>0, <1>2, <2>1, <2>4 DEF OpenEnds
    <3>2. req[q].r = 0 /\ req[q].new = FALSE
      BY <1>0, <3>1, ReqShape DEF ReqInv, ReqOK, LeasePCs, UserPCs, BuildPCs, ViewPCs, LoadPCs
    <3>3. Turns(q, "build", drawn', 0, FALSE)
      BY <3>1, <3>2, ReqDomain DEF Turns
    <3> QED BY <1>0, <2>2, <3>1, <3>3 DEF OpenEnds, OpenKind
  <2> QED BY <2>3, <2>4
<1> QED BY <1>1, <1>2

LEMMA ClosesDoes ==
  ASSUME Shapes, RegInv, DrawnInv,
         LockArchive \/ Reap \/ LockExcept \/ ShutDown \/ HushCloses \/ LockForDelete
  PROVE  /\ entry' = 0
         /\ entry = 0 => QuietKind
         /\ entry # 0 => GoingKind
<1>1. /\ UNCHANGED <<drawn, keys, readers, req>> /\ entry' = 0
      /\ \E now \in BOOLEAN :
           ents' = IF entry = 0 THEN ents
                   ELSE [ents EXCEPT ![entry].close = "begin", ![entry].now = now]
  BY DEF LockArchive, Reap, LockExcept, ShutDown, HushCloses, LockForDelete, CloseWhere, CloseEntry
<1>2. ASSUME entry # 0 PROVE GoingKind
  <2>1. entry \in Keys
    BY <1>2, PlainFacts DEF RegInv
  <2> QED BY <1>1, <1>2, <2>1, EntDomain DEF GoingKind, EntCloses, EntIs
<1> QED BY <1>1, <1>2 DEF QuietKind

LEMMA ClosingDoes ==
  ASSUME Shapes, DrawnInv, EntInv, NEW e \in Keys
  PROVE  /\ CloseTakes(e) => TakeKind(e)
         /\ CloseLocksKey(e) => KeyKind(e)
         /\ CloseLocksLeases(e) => LeasesKind(e)
         /\ CloseLocksReader(e) => ShutKind(e)
<1>1. ASSUME CloseTakes(e) PROVE TakeKind(e)
  BY <1>1, EntDomain DEF CloseTakes, TakeKind, EntIs
<1>2. ASSUME CloseLocksKey(e) PROVE KeyKind(e)
  BY <1>2, EntDomain, LockDoes DEF CloseLocksKey, KeyKind, EntCloses, EntIs
<1>3. ASSUME CloseLocksLeases(e) PROVE LeasesKind(e)
  BY <1>3, EntDomain, LockDoes DEF CloseLocksLeases, LeasesKind, EntCloses, EntIs
<1>4. ASSUME CloseLocksReader(e) PROVE ShutKind(e)
  <2>1. EntCloses(e, "done", {}, 0)
    BY <1>4, EntDomain DEF CloseLocksReader, EntCloses, EntIs
  <2>2. ents[e].shuts # 0 => ents[e].shuts \in Keys
    BY PlainFacts DEF EntInv, EntOK, Leased
  <2>3. ASSUME NEW s \in Keys, s = ents[e].shuts, s # 0
        PROVE  \/ ReaderIs(s, readers[s].view, readers[s].loader, TRUE)
               \/ ReaderIs(s, NoView, readers[s].loader, TRUE)
    BY <1>4, <2>3, ReaderDomain DEF CloseLocksReader, CloseReader, ReaderIs
  <2> QED BY <1>4, <2>1, <2>2, <2>3 DEF CloseLocksReader, ShutKind
<1> QED BY <1>1, <1>2, <1>3, <1>4

LEMMA EndDoes == ASSUME Shapes, NEW r \in Keys, EndClose(r) PROVE EndKind(r)
BY ReaderDomain DEF EndClose, EndKind, ReaderIs, opened

(***************************************************************************)
(* What the other steps leave as it is.                                    *)
(***************************************************************************)
\* A request that begins has no reader yet.
Starts(p) ==
  /\ req[p].pc \in {"idle", "opening"} /\ req'[p].pc \in {"opening", "build", "done"}
  /\ req'[p].r = 0 /\ ~req'[p].new
  /\ req'[p].pc = "build" => req'[p].e \in 1..drawn' /\ keys'[req'[p].e].of = req'[p].e

OthersKeep ==
  /\ drawn' \in Nat /\ drawn =< drawn'
  /\ \A k \in 1..drawn : keys'[k].of = keys[k].of /\ (keys'[k].st = "open" => keys[k].st = "open")
  /\ \A p \in Requests : req'[p] = req[p] \/ Starts(p)
  /\ \A x \in Keys : /\ ents'[x].builder = ents[x].builder
                     /\ ents'[x].building \in {0, ents[x].building}
  /\ \A k \in Keys : /\ readers'[k].loader = readers[k].loader
                     /\ readers'[k].view \in {NoView, readers[k].view}

LEMMA OthersAre == ASSUME Shapes, LockInv, OtherKind PROVE OthersKeep
<1>1. CASE QuietKind
  BY <1>1, PlainFacts DEF QuietKind, OthersKeep
<1>2. CASE GoingKind
  BY <1>2, PlainFacts DEF GoingKind, OthersKeep, EntCloses, EntIs
<1>3. ASSUME NEW q \in Requests, AskKind(q) \/ FailOpenKind(q) PROVE OthersKeep
  <2>1. \A p \in Requests : p # q => req'[p] = req[p]
    BY <1>3 DEF AskKind, FailOpenKind, Ends, Turns
  <2>2. entry # 0 => entry \in 1..drawn /\ keys[entry].of = entry
    BY DEF LockInv, RegInv
  <2>3. Starts(q)
    BY <1>3, <2>2 DEF AskKind, FailOpenKind, Ends, Turns, Starts
  <2>4. UNCHANGED <<drawn, keys, ents, readers>>
    BY <1>3 DEF AskKind, FailOpenKind
  <2> QED BY <2>1, <2>3, <2>4, PlainFacts DEF OthersKeep
<1>4. CASE OpenKind
  <2>1. drawn' \in 1..drawn' /\ keys'[drawn'].of = drawn'
    BY <1>4, PlainFacts DEF OpenKind, KeyDrawn
  <2>2. \A p \in Requests : req'[p] = req[p] \/ Starts(p)
    BY <1>4, <2>1 DEF OpenKind, Turns, Starts
  <2> QED BY <1>4, <2>2, PlainFacts DEF OpenKind, KeyDrawn, OthersKeep
<1>5. ASSUME NEW d \in Keys, TakeKind(d) \/ KeyKind(d) \/ LeasesKind(d) PROVE OthersKeep
  BY <1>5, PlainFacts DEF TakeKind, KeyKind, LeasesKind, OthersKeep, KeysLock, EntCloses, EntIs
<1>6. ASSUME NEW d \in Keys, ShutKind(d) PROVE OthersKeep
  BY <1>6, PlainFacts DEF ShutKind, OthersKeep, EntCloses, EntIs, ReaderIs
<1>7. ASSUME NEW r \in Keys, EndKind(r) PROVE OthersKeep
  BY <1>7, PlainFacts DEF EndKind, OthersKeep, ReaderIs
<1> QED BY <1>1, <1>2, <1>3, <1>4, <1>5, <1>6, <1>7 DEF OtherKind

\* Who makes a reader, or has one, is who did.
LEMMA HandsAre ==
  ASSUME Shapes, LockInv, OthersKeep
  PROVE  /\ \A p \in Requests :
              req'[p].new \/ req'[p].r # 0 \/ req'[p].pc \in LeasePCs \cup {"lease", "leasing"}
                => req'[p] = req[p]
         /\ \A p \in Requests : req[p].new \/ req[p].pc \in LeasePCs => req'[p] = req[p]
         /\ \A k : InHand(k)' <=> InHand(k)
         /\ \A k : ByMaker(k)' <=> ByMaker(k)
         /\ \A k, e : Leased(k, e) => Leased(k, e)'
<1>1. \A p \in Requests : Starts(p) => req'[p].pc \notin LeasePCs \cup {"lease", "leasing"}
  BY PcClasses DEF Starts
<1>2. \A p \in Requests : Starts(p) => req[p].pc \notin LeasePCs /\ ~req[p].new
  BY Own, PcClasses DEF Starts
<1>3. \A p \in Requests :
        req'[p].new \/ req'[p].r # 0 \/ req'[p].pc \in LeasePCs \cup {"lease", "leasing"}
          => req'[p] = req[p]
  BY <1>1 DEF OthersKeep, Starts
<1>4. \A p \in Requests : req[p].new \/ req[p].pc \in LeasePCs => req'[p] = req[p]
  BY <1>2 DEF OthersKeep
<1>5. \A k : InHand(k)' <=> InHand(k)
  BY <1>3, <1>4 DEF InHand
<1>6. \A k : ByMaker(k)' <=> ByMaker(k)
  BY <1>3, <1>4 DEF ByMaker
<1>7. \A k, e : Leased(k, e) => Leased(k, e)'
  BY PlainFacts DEF OthersKeep, Leased
<1> QED BY <1>3, <1>4, <1>5, <1>6, <1>7

\* The closes are the only other steps that touch an entry.
LEMMA OtherEnts ==
  ASSUME OtherKind, NEW e \in Keys
  PROVE  \/ ents'[e] = ents[e] \/ TakeKind(e) \/ KeyKind(e) \/ LeasesKind(e) \/ ShutKind(e)
         \/ GoingKind /\ e = entry
<1>1. ASSUME NEW d \in Keys, d # e, TakeKind(d) \/ KeyKind(d) \/ LeasesKind(d) \/ ShutKind(d)
      PROVE  ents'[e] = ents[e]
  BY <1>1 DEF TakeKind, KeyKind, LeasesKind, ShutKind, EntCloses, EntIs
<1>2. CASE QuietKind \/ OpenKind
  BY <1>2 DEF QuietKind, OpenKind
<1>3. ASSUME NEW q \in Requests, AskKind(q) \/ FailOpenKind(q) PROVE ents'[e] = ents[e]
  BY <1>3 DEF AskKind, FailOpenKind
<1>4. ASSUME NEW d \in Keys, EndKind(d) PROVE ents'[e] = ents[e]
  BY <1>4 DEF EndKind
<1>5. CASE GoingKind
  BY <1>5 DEF GoingKind, EntCloses, EntIs
<1> QED BY <1>1, <1>2, <1>3, <1>4, <1>5 DEF OtherKind

(***************************************************************************)
(* What the other steps keep.                                              *)
(***************************************************************************)
LEMMA ReqInvOthers == ASSUME Shapes, LockInv, OtherKind PROVE ReqInv'
<1> SUFFICES ASSUME NEW p \in Requests PROVE ReqOK(p)'
  BY DEF ReqInv
<1>0. OthersKeep /\ ReqOK(p)
  BY OthersAre DEF LockInv, ReqInv
<1>1. CASE req'[p] = req[p]
  <2>1. req[p].pc \in EntryPCs => req[p].e \in 1..drawn' /\ keys'[req[p].e].of = req[p].e
    BY <1>0, Own, PlainFacts DEF OthersKeep
  <2>2. req[p].pc \in LeasePCs => Leased(req[p].r, req[p].e)'
    BY <1>0, <1>1, HandsAre DEF ReqOK
  <2>3. Making(p) => ents'[req[p].e].builder = p
    BY <1>0, Own, PcClasses DEF ReqOK, OthersKeep, Making
  <2>4. req[p].new => \A x \in Requests : req'[x].r = req[p].r => p = x
    <3>1. req[p].new => req[p].r # 0
      BY Own
    <3> QED BY <1>0, <3>1, HandsAre DEF ReqOK
  <2> QED BY <1>0, <1>1, <2>1, <2>2, <2>3, <2>4 DEF ReqOK, Making
<1>2. CASE Starts(p)
  BY <1>2, PcClasses DEF Starts, ReqOK, Making
<1> QED BY <1>0, <1>1, <1>2 DEF OthersKeep

LEMMA DrawnInvOthers == ASSUME Shapes, LockInv, OtherKind PROVE DrawnInv'
<1> SUFFICES ASSUME NEW k \in Keys
             PROVE  /\ k > drawn' => ents'[k] = NoEntry /\ readers'[k] = NoReader
                    /\ k =< drawn' => /\ keys'[k].of \in 1..drawn'
                                      /\ keys'[keys'[k].of].of = keys'[k].of
  BY DEF DrawnInv
<1>0. OthersKeep /\ k \in Nat
  BY OthersAre, PlainFacts
<1>1. /\ k > drawn => ents[k] = NoEntry /\ readers[k] = NoReader
      /\ k =< drawn => keys[k].of \in 1..drawn /\ keys[keys[k].of].of = keys[k].of
  BY DEF LockInv, DrawnInv
<1>2. CASE OpenKind
  BY <1>0, <1>1, <1>2, PlainFacts DEF OpenKind, KeyDrawn, OthersKeep
<1>3. CASE ~OpenKind
  <2>1. UNCHANGED drawn
    BY <1>3 DEF OtherKind, QuietKind, GoingKind, AskKind, FailOpenKind, TakeKind, KeyKind,
                LeasesKind,
                ShutKind, EndKind
  <2>2. ASSUME k > drawn PROVE ents'[k] = ents[k]
    <3>1. k # entry /\ ents[k].close = "no" /\ k \in Nat
      BY <1>1, <2>2, PlainFacts DEF LockInv, RegInv, NoEntry
    <3> QED BY <1>3, <3>1 DEF OtherKind, QuietKind, GoingKind, AskKind, FailOpenKind, TakeKind,
                              KeyKind,
               LeasesKind, ShutKind, EndKind, EntCloses, EntIs
  <2>3. ASSUME k > drawn PROVE readers'[k] = readers[k]
    <3>1. ~readers[k].closing /\ \A d \in Keys : ents[d].shuts # k
      BY <1>1, <2>3, PlainFacts DEF LockInv, EntInv, EntOK, Leased, NoReader
    <3> QED BY <1>3, <3>1 DEF OtherKind, QuietKind, GoingKind, AskKind, FailOpenKind, TakeKind,
                              KeyKind,
               LeasesKind, ShutKind, EndKind, ReaderIs
  <2> QED BY <1>0, <1>1, <2>1, <2>2, <2>3, PlainFacts DEF OthersKeep
<1> QED BY <1>2, <1>3

LEMMA BuildingInvOthers == ASSUME Shapes, LockInv, OtherKind PROVE BuildingInv'
BY OthersAre, HandsAre DEF LockInv, BuildingInv, OthersKeep

LEMMA LoaderInvOthers == ASSUME Shapes, LockInv, OtherKind PROVE LoaderInv'
<1>1. OthersKeep
  BY OthersAre
<1>2. ASSUME NEW p \in Requests, req'[p].pc \in LoadPCs PROVE readers'[req'[p].r].loader = p
  <2>1. req'[p] = req[p] /\ req[p].r \in Keys
    BY <1>1, <1>2, HandsAre, Own, PcClasses
  <2> QED BY <1>1, <1>2, <2>1 DEF OthersKeep, LockInv, LoaderInv
<1>3. ASSUME NEW k \in Keys, readers'[k].loader # Nobody
      PROVE  req'[readers'[k].loader].r = k /\ req'[readers'[k].loader].pc \in LoadPCs
  <2> DEFINE p == readers[k].loader
  <2>1. p \in Requests /\ readers'[k].loader = p /\ req[p].r = k /\ req[p].pc \in LoadPCs
    BY <1>1, <1>3, PlainFacts DEF OthersKeep, LockInv, LoaderInv
  <2> QED BY <1>1, <2>1, HandsAre, PcClasses
<1> QED BY <1>2, <1>3 DEF LoaderInv

LEMMA FreshInvOthers == ASSUME Shapes, LockInv, OtherKind PROVE FreshInv'
<1> SUFFICES ASSUME NEW p \in Requests, req'[p].new, req'[p].pc \in MadePCs
             PROVE  readers'[req'[p].r].view = NoView
  BY DEF FreshInv
<1>1. OthersKeep
  BY OthersAre
<1>2. req'[p] = req[p] /\ req[p].r \in Keys
  BY <1>1, HandsAre, Own
<1>3. readers[req[p].r].view = NoView
  BY <1>2 DEF LockInv, FreshInv
<1> QED BY <1>1, <1>2, <1>3 DEF OthersKeep

LEMMA LeaseInvOthers == ASSUME Shapes, LockInv, OtherKind PROVE LeaseInv'
<1> SUFFICES ASSUME NEW k \in 1..drawn', NEW e \in 1..drawn', Leased(k, e)', keys'[k].st = "open"
             PROVE  LeaseHeld(k, e)'
  BY DEF LeaseInv
<1>0. OthersKeep
  BY OthersAre
<1>1. k \in 1..drawn
  <2>1. CASE OpenKind
    BY <2>1, PlainFacts DEF OpenKind, KeyDrawn, Leased
  <2>2. CASE UNCHANGED drawn
    BY <2>2
  <2> QED BY <2>1, <2>2 DEF OtherKind, QuietKind, GoingKind, AskKind, FailOpenKind, TakeKind,
                            KeyKind,
             LeasesKind, ShutKind, EndKind
<1>2. Leased(k, e) /\ keys[k].st = "open" /\ e \in 1..drawn /\ e \in Keys /\ k \in Keys /\ k # 0
  <2>1. keys[k].of = e /\ keys[k].of \in 1..drawn /\ keys[e].of = e
    BY <1>0, <1>1, PlainFacts DEF OthersKeep, Leased, LockInv, DrawnInv
  <2> QED BY <1>0, <1>1, <2>1, PlainFacts DEF OthersKeep, Leased
<1>3. LeaseHeld(k, e)
  BY <1>1, <1>2 DEF LockInv, LeaseInv
<1>4. (InHand(k)' <=> InHand(k)) /\ (ByMaker(k)' <=> ByMaker(k))
  BY <1>0, HandsAre
<1>5. CASE TakeKind(e)
  <2>1. ents[e].building = k => InHand(k)
    BY <1>2 DEF LockInv, BuildingInv, InHand
  <2>2. ~ByClose(k, e)
    BY <1>5 DEF TakeKind, ByClose
  <2> QED BY <1>2, <1>3, <1>4, <1>5, <2>1, <2>2 DEF TakeKind, EntIs, Taken, LeaseHeld, ByClose
<1>6. CASE KeyKind(e)
  BY <1>3, <1>4, <1>6 DEF KeyKind, EntCloses, EntIs, LeaseHeld, ByClose
<1>7. CASE LeasesKind(e)
  <2>1. k \notin ents[e].took
    BY <1>2, <1>7 DEF LeasesKind, KeysLock
  <2> QED BY <1>3, <1>4, <1>7, <2>1 DEF LeasesKind, EntCloses, EntIs, LeaseHeld, ByClose
<1>8. CASE ShutKind(e)
  BY <1>3, <1>4, <1>8 DEF ShutKind, EntCloses, EntIs, LeaseHeld, ByClose
<1>9. CASE GoingKind /\ e = entry
  <2>1. ents[e].close = "no"
    BY <1>2, <1>9, PlainFacts DEF LockInv, RegInv
  <2> QED BY <1>3, <1>4, <1>9, <2>1 DEF GoingKind, EntCloses, EntIs, LeaseHeld, ByClose
<1>10. CASE ents'[e] = ents[e]
  BY <1>3, <1>4, <1>10 DEF LeaseHeld, ByClose
<1> QED BY <1>2, <1>5, <1>6, <1>7, <1>8, <1>9, <1>10, OtherEnts

LEMMA KeptInvOthers == ASSUME Shapes, LockInv, OtherKind PROVE KeptInv'
<1> SUFFICES ASSUME NEW k \in 1..drawn', readers'[k].loader # Nobody \/ readers'[k].view # NoView
             PROVE  Kept(k, keys[k].of)'
  BY DEF KeptInv
<1>0. OthersKeep
  BY OthersAre
<1>1. k \in 1..drawn
  <2>1. CASE OpenKind
    <3>1. k \in Keys /\ UNCHANGED readers
      BY <2>1, PlainFacts DEF OpenKind, KeyDrawn
    <3> QED BY <3>1, PlainFacts DEF LockInv, DrawnInv, NoReader
  <2>2. CASE UNCHANGED drawn
    BY <2>2
  <2> QED BY <2>1, <2>2 DEF OtherKind, QuietKind, GoingKind, AskKind, FailOpenKind, TakeKind,
                            KeyKind,
             LeasesKind, ShutKind, EndKind
<1>2. PICK e \in 1..drawn : e = keys[k].of /\ e = keys'[k].of /\ e \in Keys /\ k \in Keys
  BY <1>0, <1>1, PlainFacts DEF OthersKeep, LockInv, DrawnInv
<1>3. Kept(k, e)
  BY <1>0, <1>1, <1>2 DEF OthersKeep, LockInv, KeptInv
<1>4. InHand(k)' <=> InHand(k)
  BY <1>0, HandsAre
<1>5. readers[k].closing => readers'[k].closing
  <2>1. CASE UNCHANGED readers
    BY <2>1
  <2>2. ASSUME NEW d \in Keys, ShutKind(d) PROVE readers[k].closing => readers'[k].closing
    BY <1>2, <2>2 DEF ShutKind, ReaderIs
  <2>3. ASSUME NEW d \in Keys, EndKind(d) PROVE readers[k].closing => readers'[k].closing
    BY <1>2, <2>3 DEF EndKind, ReaderIs
  <2> QED BY <2>1, <2>2, <2>3 DEF OtherKind, QuietKind, GoingKind, OpenKind, AskKind, FailOpenKind,
             TakeKind, KeyKind, LeasesKind
<1>6. ASSUME ents[e].reader = k \/ Shutting(k, e, {"key", "leases", "reader"})
      PROVE  \/ ents'[e].reader = k \/ Shutting(k, e, {"key", "leases", "reader"})'
             \/ readers'[k].closing
  <2>1. CASE ents'[e] = ents[e]
    BY <1>6, <2>1 DEF Shutting
  <2>2. CASE TakeKind(e) \/ KeyKind(e) \/ LeasesKind(e)
    BY <1>6, <2>2 DEF TakeKind, KeyKind, LeasesKind, EntCloses, EntIs, Shutting
  <2>3. CASE ShutKind(e)
    <3>1. CASE ents[e].reader = k
      BY <2>3, <3>1 DEF ShutKind, EntCloses, EntIs
    <3>2. CASE ents[e].shuts = k
      BY <1>2, <2>3, <3>2, PlainFacts DEF ShutKind, ReaderIs
    <3> QED BY <1>6, <3>1, <3>2 DEF Shutting
  <2>4. CASE GoingKind /\ e = entry
    <3>1. ents[e].close = "no"
      BY <1>2, <2>4, PlainFacts DEF LockInv, RegInv
    <3> QED BY <1>6, <2>4, <3>1 DEF GoingKind, EntCloses, EntIs, Shutting
  <2> QED BY <1>2, <2>1, <2>2, <2>3, <2>4, OtherEnts
<1>7. Kept(k, e)'
  BY <1>3, <1>4, <1>5, <1>6 DEF Kept
<1> QED BY <1>2, <1>7

LEMMA EntInvOthers == ASSUME Shapes, LockInv, OtherKind PROVE EntInv'
<1> SUFFICES ASSUME NEW x \in Keys PROVE EntOK(x)'
  BY DEF EntInv
<1>0. OthersKeep /\ EntOK(x) /\ x \in Nat
  BY OthersAre, PlainFacts DEF LockInv, EntInv
<1>1. \A k, e : Leased(k, e) => Leased(k, e)'
  BY <1>0, HandsAre
<1>2. CASE OpenKind
  <2>1. ents'[x] = ents[x] /\ (x # drawn' /\ x =< drawn' => x =< drawn)
    BY <1>0, <1>2, PlainFacts DEF OpenKind, KeyDrawn
  <2>2. /\ x # drawn' => keys'[x].of = keys[x].of /\ (keys'[x].st = "open" <=> keys[x].st = "open")
        /\ x = drawn' => keys'[x].st = "open" /\ x > drawn
    BY <1>2, PlainFacts DEF OpenKind, KeyDrawn
  <2>3. x > drawn => ents[x].close = "no"
    BY DEF LockInv, DrawnInv, NoEntry
  <2> QED BY <1>0, <1>1, <2>1, <2>2, <2>3 DEF EntOK
<1>3. ASSUME ~OpenKind
      PROVE  UNCHANGED drawn /\ keys'[x].of = keys[x].of
             /\ (x =< drawn => (keys'[x].st = "open" => keys[x].st = "open"))
  <2>1. UNCHANGED drawn
    BY <1>3 DEF OtherKind, QuietKind, GoingKind, AskKind, FailOpenKind, TakeKind, KeyKind,
                LeasesKind,
                ShutKind, EndKind
  <2>2. UNCHANGED keys \/ \E S : KeysLock(S)
    BY <1>3 DEF OtherKind, QuietKind, GoingKind, AskKind, FailOpenKind, TakeKind, KeyKind,
                LeasesKind,
                ShutKind, EndKind
  <2> QED BY <2>1, <2>2 DEF KeysLock
\* Only the close of an entry locks its key, and a lease is no entry.
<1>4. ASSUME ~OpenKind, ~KeyKind(x), keys[x].of = x, x =< drawn
      PROVE  keys'[x].st = "open" <=> keys[x].st = "open"
  <2>1. CASE UNCHANGED keys
    BY <2>1
  <2>2. ASSUME NEW d \in Keys, KeyKind(d) PROVE keys'[x].st = "open" <=> keys[x].st = "open"
    BY <1>4, <2>2 DEF KeyKind, KeysLock
  <2>3. ASSUME NEW d \in Keys, LeasesKind(d) PROVE keys'[x].st = "open" <=> keys[x].st = "open"
    <3>1. x \notin ents[d].took
      BY <1>4 DEF LockInv, EntInv, EntOK, Leased
    <3> QED BY <2>3, <3>1 DEF LeasesKind, KeysLock
  <2> QED BY <1>4, <2>1, <2>2, <2>3 DEF OtherKind, QuietKind, GoingKind, AskKind, FailOpenKind,
                                        TakeKind,
             ShutKind, EndKind
<1>5. CASE ~OpenKind /\ ents'[x] = ents[x]
  <2>1. ~KeyKind(x)
    BY <1>5 DEF KeyKind, EntCloses, EntIs
  <2>2. ents[x].close \in {"leases", "reader", "done"} => keys'[x].st # "open"
    <3>1. x > drawn => ents[x].close = "no"
      BY DEF LockInv, DrawnInv, NoEntry
    <3> QED BY <1>0, <1>3, <1>5, <3>1, PlainFacts DEF EntOK
  <2> QED BY <1>0, <1>1, <1>3, <1>4, <1>5, <2>1, <2>2 DEF EntOK
<1>6. CASE TakeKind(x)
  <2>1. ents[x].reader # 0 => Leased(ents[x].reader, x)
    BY <1>0 DEF EntOK
  <2>2. ents[x].building # 0 => Leased(ents[x].building, x)
    BY PcClasses DEF LockInv, BuildingInv, ReqInv, ReqOK
  <2>3. ~OpenKind /\ ~KeyKind(x)
    BY <1>6 DEF OpenKind, TakeKind, KeyKind, EntIs
  <2> QED BY <1>0, <1>1, <1>6, <2>1, <2>2, <2>3 DEF TakeKind, EntIs, Taken, EntOK
<1>7. CASE KeyKind(x)
  <2>1. ~OpenKind
    BY <1>7 DEF OpenKind, KeyKind, EntCloses, EntIs
  <2>2. keys'[x].st # "open"
    BY <1>7 DEF KeyKind, KeysLock
  <2> QED BY <1>0, <1>1, <1>3, <1>7, <2>1, <2>2 DEF KeyKind, EntCloses, EntIs, EntOK
<1>8. CASE LeasesKind(x) \/ ShutKind(x)
  <2>1. ~OpenKind /\ ~KeyKind(x)
    BY <1>8 DEF OpenKind, LeasesKind, ShutKind, KeyKind, EntCloses, EntIs
  <2>2. x =< drawn
    <3>1. x > drawn => ents[x].close = "no"
      BY DEF LockInv, DrawnInv, NoEntry
    <3>2. ents[x].close # "no"
      BY <1>8 DEF LeasesKind, ShutKind
    <3> QED BY <1>0, <3>1, <3>2, PlainFacts
  <2> QED BY <1>0, <1>1, <1>3, <1>4, <1>8, <2>1, <2>2 DEF LeasesKind, ShutKind, EntCloses, EntIs,
                                                          EntOK
<1>9. CASE GoingKind /\ x = entry
  <2>1. ~OpenKind /\ ~KeyKind(x) /\ ents[x].close = "no"
    BY <1>9, PlainFacts DEF OpenKind, GoingKind, KeyKind, EntCloses, EntIs, LockInv, RegInv
  <2> QED BY <1>0, <1>1, <1>3, <1>4, <1>9, <2>1 DEF GoingKind, EntCloses, EntIs, EntOK
<1> QED BY <1>2, <1>5, <1>6, <1>7, <1>8, <1>9, OtherEnts

(***************************************************************************)
(* The registry, through every step.                                       *)
(***************************************************************************)
LEMMA RegInvRequests ==
  ASSUME Shapes, LockInv, NEW q \in Requests, RequestKind(q), UNCHANGED registry
  PROVE  RegInv'
<1> USE PlainFacts DEF LockInv, RegInv, HeldIsLocked, registry
<1>0. req[q].pc # "opening"
  BY DEF RequestKind, AnswerKind, FindKind, WithinKind, BeginKind, LeaseKind, GiveUpKind, DrawKind,
         ShowKind, BuiltKind, KeepKind, DroppingKind, DropKind, LoadKind, FailNewKind, FailKind,
         PublishKind, UserPCs, ViewPCs, BuildPCs, LoadPCs, MadePCs
<1>1. OthersSame(q) /\ KeysKeep /\ EntsKeep(q)
  BY OthersFrame, KeysFrame, EntsFrame
<1>2. entry # 0 => entry \in 1..drawn' /\ keys'[entry].of = entry /\ ents'[entry].close = "no"
  BY <1>1 DEF KeysKeep, EntsKeep
<1>3. opening.by \in Requests => opening.by # q \/ opening.by = Nobody
  BY <1>0
<1>4. opening'.by # Nobody /\ opening'.by \in Requests => req'[opening'.by].pc = "opening"
  BY <1>1, <1>3 DEF OthersSame
<1> QED BY <1>2, <1>4

LEMMA RegInvAsk == ASSUME Shapes, LockInv, NEW q \in Requests, Ask(q) PROVE RegInv'
<1> USE PlainFacts DEF LockInv, RegInv, HeldIsLocked
<1>1. AskKind(q) /\ UNCHANGED <<entry, held, shut, away, gen, drawn, keys, ents>>
  BY AskDoes DEF Ask, opened
<1>2. \A p \in Requests : p # q => req'[p] = req[p]
  BY <1>1 DEF AskKind, Ends, Turns
<1>3. CASE UNCHANGED opening
  <2>1. opening.by \in Requests /\ opening.by # Nobody => opening.by # q
    BY DEF Ask
  <2> QED BY <1>1, <1>2, <1>3, <2>1
<1>4. CASE ~UNCHANGED opening
  <2>1. /\ entry = 0 /\ MayOpen(TRUE) /\ opening' = [by |-> q, gen |-> gen]
        /\ \E op \in {"unit", "index"} :
             req' = [req EXCEPT ![q] = [[Idle EXCEPT !.op = op, !.since = ver]
                                         EXCEPT !.pc = "opening"]]
    BY <1>4 DEF Ask
  <2>2. req'[q].pc = "opening"
    BY <2>1, ReqDomain DEF Idle
  <2> QED BY <1>1, <1>2, <2>1, <2>2 DEF MayOpen, Hushed, Shapes
<1> QED BY <1>3, <1>4

LEMMA RegInvOpen == ASSUME Shapes, LockInv, OpenEnds PROVE RegInv'
<1> USE PlainFacts DEF LockInv, RegInv, HeldIsLocked
<1>1. opening'.by = Nobody /\ UNCHANGED <<shut, away, gen, ents>>
  BY DEF OpenEnds, NoOpening
<1>2. CASE KeepsOpen /\ drawn' = drawn + 1
  <2>1. /\ entry' = drawn' /\ keys' = Drawn(keys, drawn', drawn')
        /\ held' = (held /\ opening.by # Person) /\ drawn' \in Keys
    BY <1>2, Bounds DEF OpenEnds, Keys, Shapes
  <2>2. ents'[drawn'].close = "no" /\ keys'[drawn'].of = drawn'
    BY <1>1, <1>2, <2>1 DEF Drawn, Shapes, DrawnInv, NoEntry
  <2>3. ~held' /\ ~shut' /\ away' \notin {"forgotten", "deleted"}
    BY <1>1, <1>2, <2>1 DEF KeepsOpen, Deleting, OpenEnds, Shapes
  <2> QED BY <1>1, <1>2, <2>1, <2>2, <2>3
<1>3. CASE UNCHANGED <<drawn, keys, entry, held>>
  BY <1>1, <1>3
<1> QED BY <1>2, <1>3 DEF OpenEnds

LEMMA RegInvRegistry ==
  ASSUME Shapes, LockInv,
         \/ CommitPointer \/ CommitMirror \/ SweepOld \/ Unlock \/ Hush \/ MarkDelete \/ EndAway
         \/ LockArchive \/ Reap \/ LockExcept \/ ShutDown \/ HushCloses \/ LockForDelete
  PROVE  RegInv'
<1> USE PlainFacts DEF LockInv, RegInv, HeldIsLocked, Shapes
<1>1. CASE CommitPointer \/ CommitMirror \/ SweepOld
  BY <1>1 DEF CommitPointer, CommitMirror, SweepOld, registry, opened
<1>2. CASE Unlock
  <2>1. opening'.by = Person /\ opening'.gen = gen /\ Person \notin Requests
    BY <1>2, RequestsAssumption DEF Unlock
  <2> QED BY <1>2, <2>1 DEF Unlock, MayOpen, Hushed, opened
<1>3. CASE Hush \/ MarkDelete \/ EndAway
  BY <1>3 DEF Hush, MarkDelete, EndAway, Count, opened
<1>4. CASE LockArchive \/ LockForDelete
  BY <1>4 DEF LockArchive, LockForDelete, CloseEntry, Count
<1>5. CASE Reap \/ LockExcept \/ ShutDown \/ HushCloses
  BY <1>5 DEF Reap, LockExcept, ShutDown, HushCloses, CloseWhere, CloseEntry, Count
<1> QED BY <1>1, <1>2, <1>3, <1>4, <1>5

LEMMA RegInvCloses ==
  ASSUME Shapes, LockInv, UNCHANGED <<registry, req, drawn>>, NEW e \in Keys,
         \/ QuietKind \/ TakeKind(e) \/ KeyKind(e) \/ LeasesKind(e) \/ ShutKind(e) \/ EndKind(e)
  PROVE  RegInv'
<1>1. entry # 0 => keys'[entry].of = entry /\ ents'[entry].close = "no"
  BY PlainFacts DEF LockInv, RegInv, QuietKind, TakeKind, KeyKind, LeasesKind, ShutKind, EndKind,
                    KeysLock, EntCloses, EntIs
<1> QED BY <1>1 DEF LockInv, RegInv, HeldIsLocked, registry

(***************************************************************************)
(* Every step.                                                             *)
(***************************************************************************)
LEMMA ViewsOthers ==
  ASSUME Shapes, LockInv, NEW k \in Keys,
         \/ CloseTakes(k) \/ CloseLocksKey(k) \/ CloseLocksLeases(k) \/ CloseLocksReader(k)
         \/ EndClose(k) \/ \E v \in Vers : CloseView(k, v)
  PROVE  ViewsInv'
<1> USE DEF LockInv
<1>1. CASE CloseTakes(k) \/ CloseLocksKey(k) \/ CloseLocksLeases(k)
  BY <1>1, SameViews DEF CloseTakes, CloseLocksKey, CloseLocksLeases
<1>2. CASE CloseLocksReader(k) /\ ents[k].shuts = 0
  BY <1>2, SameViews DEF CloseLocksReader
<1>3. CASE CloseLocksReader(k) /\ ents[k].shuts # 0
  <2>1. ents[k].shuts \in Keys
    BY <1>3, PlainFacts DEF EntInv, EntOK, Leased
  <2>2. ents[k].now \in BOOLEAN
    BY DEF Shapes, EntT
  <2> QED BY <1>3, <2>1, <2>2, CloseViews DEF CloseLocksReader
<1>4. CASE EndClose(k)
  <2>1. /\ views' = Gone(views, k) /\ readers'[k].view = NoView
        /\ \A x \in Keys : x # k => readers'[x].view = readers[x].view
    BY <1>4, ReaderDomain DEF EndClose
  <2> QED BY <2>1, GoneViews
<1>5. ASSUME NEW v \in Vers, CloseView(k, v) PROVE ViewsInv'
  BY <1>5 DEF CloseView, ViewsInv, Shapes, ViewT
<1> QED BY <1>1, <1>2, <1>3, <1>4, <1>5

LEMMA RequestDoes ==
  ASSUME Shapes, LockInv, NEW q \in Requests, Request(q), ~Ask(q)
  PROVE  RequestKind(q) /\ UNCHANGED registry
<1> USE PlacesHold DEF LockInv
<1>1. RequestKind(q)
  BY LeaseDoes, BuildDoes, LookDoes, LoadDoes, ViewDoes DEF Request
<1>2. UNCHANGED registry
  BY DEF Request, FindReader, BeginLease, EndLease, BeginBuild, EndBuild, KeepReader, DropReader,
         Look, LookAgain, PeekBefore, ReadPointer, ReadChunks, PeekAfter, Publish, UseIndex, Used,
         ReadUnit, OpenUnit, Missed
<1> QED BY <1>1, <1>2

LEMMA OtherDoes ==
  ASSUME Shapes, LockInv, Next, ~\E q \in Requests : Request(q) /\ ~Ask(q)
  PROVE  OtherKind /\ RegInv' /\ ViewsInv'
<1> USE DEF LockInv
<1>1. CASE CommitPointer \/ CommitMirror \/ SweepOld \/ Unlock \/ Hush \/ MarkDelete \/ EndAway
  <2>1. QuietKind /\ UNCHANGED views
    BY <1>1 DEF CommitPointer, CommitMirror, SweepOld, Unlock, Hush, MarkDelete, EndAway, QuietKind,
                opened, registry
  <2> QED BY <1>1, <2>1, SameViews, RegInvRegistry DEF OtherKind, QuietKind
<1>2. CASE LockArchive \/ Reap \/ LockExcept \/ ShutDown \/ HushCloses \/ LockForDelete
  <2>1. QuietKind \/ GoingKind
    BY <1>2, ClosesDoes
  <2>2. UNCHANGED <<views, readers>>
    BY <1>2 DEF LockArchive, Reap, LockExcept, ShutDown, HushCloses, LockForDelete
  <2> QED BY <1>2, <2>1, <2>2, SameViews, RegInvRegistry DEF OtherKind
<1>3. CASE OpenEnds
  <2>1. UNCHANGED <<views, readers>>
    BY <1>3 DEF OpenEnds
  <2> QED BY <1>3, <2>1, SameViews, OpenEndsDoes, RegInvOpen DEF OtherKind
<1>4. ASSUME NEW q \in Requests, Ask(q) PROVE OtherKind /\ RegInv' /\ ViewsInv'
  <2>1. ViewsInv'
    BY <1>4, ViewsRequests DEF Request
  <2> QED BY <1>4, <2>1, AskDoes, RegInvAsk DEF OtherKind
<1>5. ASSUME NEW k \in Keys,
             \/ CloseTakes(k) \/ CloseLocksKey(k) \/ CloseLocksLeases(k) \/ CloseLocksReader(k)
             \/ EndClose(k) \/ \E v \in Vers : CloseView(k, v)
      PROVE  OtherKind /\ RegInv' /\ ViewsInv'
  <2>1. UNCHANGED <<registry, req, drawn>>
    BY <1>5 DEF CloseTakes, CloseLocksKey, CloseLocksLeases, CloseLocksReader, EndClose, CloseView,
                opened
  <2>2. TakeKind(k) \/ KeyKind(k) \/ LeasesKind(k) \/ ShutKind(k) \/ EndKind(k) \/ QuietKind
    <3>1. ASSUME NEW v \in Vers, CloseView(k, v) PROVE QuietKind
      BY <3>1 DEF CloseView, QuietKind, opened
    <3> QED BY <1>5, <3>1, ClosingDoes, EndDoes
  <2> QED BY <1>5, <2>1, <2>2, ViewsOthers, RegInvCloses DEF OtherKind
<1> QED BY <1>1, <1>2, <1>3, <1>4, <1>5 DEF Next

LEMMA LockStep == ASSUME Shapes, LockInv, Next PROVE Shapes' /\ LockInv'
<1>1. Shapes'
  <2>1. \A q \in Requests : Places(q)
    BY PlacesHold DEF LockInv
  <2>2. entry \in Keys \cup {0} /\ \A k \in Keys : ents[k].shuts \in Keys \cup {0}
    BY PlainFacts DEF LockInv, RegInv, EntInv, EntOK, Leased
  <2> QED BY <2>1, <2>2, ShapesStep
<1>2. ASSUME NEW q \in Requests, Request(q), ~Ask(q) PROVE LockInv'
  <2>1. RequestKind(q) /\ UNCHANGED registry
    BY <1>2, RequestDoes
  <2>2. ViewsInv'
    BY <1>2, ViewsRequests DEF LockInv
  <2>3. RegInv' /\ DrawnInv' /\ EntInv' /\ ReqInv' /\ BuildingInv'
    BY <2>1, RegInvRequests, DrawnInvRequests, EntInvRequests, ReqInvRequests, BuildingInvRequests
  <2>4. LeaseInv' /\ LoaderInv' /\ FreshInv' /\ KeptInv'
    BY <2>1, LeaseInvRequests, LoaderInvRequests, FreshInvRequests, KeptInvRequests
  <2> QED BY <2>2, <2>3, <2>4 DEF LockInv
<1>3. ASSUME ~\E q \in Requests : Request(q) /\ ~Ask(q) PROVE LockInv'
  <2>1. OtherKind /\ RegInv' /\ ViewsInv'
    BY <1>3, OtherDoes
  <2>2. DrawnInv' /\ EntInv' /\ ReqInv' /\ BuildingInv'
    BY <2>1, DrawnInvOthers, EntInvOthers, ReqInvOthers, BuildingInvOthers
  <2>3. LeaseInv' /\ LoaderInv' /\ FreshInv' /\ KeptInv'
    BY <2>1, LeaseInvOthers, LoaderInvOthers, FreshInvOthers, KeptInvOthers
  <2> QED BY <2>1, <2>2, <2>3 DEF LockInv
<1> QED BY <1>1, <1>2, <1>3

LEMMA LockInit == Init => Shapes /\ LockInv
<1> SUFFICES ASSUME Init PROVE Shapes /\ LockInv
  OBVIOUS
<1>1. Shapes
  <2>1. Idle \in ReqT /\ NoKey \in KeyT /\ NoEntry \in EntT /\ NoReader \in ReaderT
    BY IdleShape DEF NoKey, KeyT, NoEntry, EntT, NoReader, ReaderT
  <2>2. [st |-> "none", gen |-> 0] \in ViewT
    BY DEF ViewT
  <2>3. NoOpening \in [by : Requests \cup {Person, Nobody}, gen : Nat]
    BY DEF NoOpening
  <2>4. ver \in Vers /\ chunks \subseteq Gens /\ units \subseteq Gens /\ drawn \in 0..MaxKeys
    BY VerFacts, Bounds DEF Init
  <2> HIDE DEF Idle
  <2> QED BY <2>1, <2>2, <2>3, <2>4 DEF Init, Shapes
<1>2. RegInv /\ DrawnInv
  BY PlainFacts, <1>1 DEF Init, RegInv, HeldIsLocked, DrawnInv, NoOpening
<1>3. EntInv /\ BuildingInv /\ LeaseInv
  BY PlainFacts, <1>1 DEF Init, EntInv, EntOK, BuildingInv, LeaseInv, NoEntry, NoKey
<1>4. ReqInv
  BY PlainFacts, <1>1 DEF Init, ReqInv, ReqOK, Idle, EntryPCs, LeasePCs, UserPCs, BuildPCs,
                          ViewPCs, LoadPCs,
                         Making
<1>5. LoaderInv /\ FreshInv /\ KeptInv
  BY PlainFacts, <1>1 DEF Init, LoaderInv, FreshInv, KeptInv, Idle, NoReader, LoadPCs
<1>6. ViewsInv
  BY VerFacts DEF Init, ViewsInv, NoReader
<1> QED BY <1>1, <1>2, <1>3, <1>4, <1>5, <1>6 DEF LockInv

LEMMA LockFinal == ASSUME Shapes, LockInv PROVE LockIsFinal
<1>1. HeldIsLocked
  BY DEF LockInv, RegInv
<1> SUFFICES ASSUME NEW k \in 1..drawn, ents[keys[k].of].close = "done" PROVE
               /\ keys[k].st = "open" =>
                    \E q \in Requests : req[q].r = k /\ req[q].pc \in {"leased", "keep", "drop"}
               /\ \A v \in Vers : views[k][v].st = "open" => readers[k].closing \/ InHand(k)
  BY <1>1 DEF LockIsFinal, EndsWithEntry
<1>2. PICK e \in 1..drawn : e = keys[k].of /\ keys[e].of = e /\ e \in Keys /\ k \in Keys
  BY PlainFacts DEF LockInv, DrawnInv
<1>3. /\ ents[e].close = "done" /\ ents[e].closed /\ ents[e].reader = 0 /\ ents[e].building = 0
      /\ keys[e].st # "open"
  BY <1>2 DEF LockInv, EntInv, EntOK
<1>4. ASSUME keys[k].st = "open"
      PROVE  \E q \in Requests : req[q].r = k /\ req[q].pc \in {"leased", "keep", "drop"}
  <2>1. Leased(k, e)
    BY <1>2, <1>3, <1>4 DEF Leased
  <2>2. LeaseHeld(k, e)
    BY <1>4, <2>1 DEF LockInv, LeaseInv
  <2> QED BY <1>2, <1>3, <2>2, PlainFacts DEF LeaseHeld, ByMaker, ByClose
<1>5. ASSUME NEW v \in Vers, views[k][v].st = "open" PROVE readers[k].closing \/ InHand(k)
  <2>1. readers[k].view # NoView
    BY <1>2, <1>5, VerFacts DEF LockInv, ViewsInv
  <2>2. Kept(k, e)
    BY <1>2, <2>1 DEF LockInv, KeptInv
  <2> QED BY <1>2, <1>3, <2>2, PlainFacts DEF Kept, Shutting
<1> QED BY <1>4, <1>5

LEMMA LockQuiet == ASSUME Shapes, LockInv, UNCHANGED vars PROVE Shapes' /\ LockInv'
<1>1. UNCHANGED <<ver, chunks, units, lost, entry, held, shut, away, gen, opening, locks, keys,
                  drawn, ents, readers, views, req>>
  BY DEF vars, record, registry, opened
<1>2. Shapes'
  BY <1>1 DEF Shapes
<1>3. QuietKind /\ UNCHANGED <<registry, req, drawn, views, readers>>
  BY <1>1 DEF QuietKind, registry
<1>4. OtherKind
  BY <1>3 DEF OtherKind
<1>5. RegInv' /\ ViewsInv'
  BY <1>1 DEF LockInv, RegInv, HeldIsLocked, ViewsInv
<1>6. DrawnInv' /\ EntInv' /\ ReqInv' /\ BuildingInv'
  BY <1>4, DrawnInvOthers, EntInvOthers, ReqInvOthers, BuildingInvOthers
<1>7. LeaseInv' /\ LoaderInv' /\ FreshInv' /\ KeptInv'
  BY <1>4, LeaseInvOthers, LoaderInvOthers, FreshInvOthers, KeptInvOthers
<1> QED BY <1>2, <1>5, <1>6, <1>7 DEF LockInv

(* Whoever holds a lease, a reader or a view of an archive is known to the archive, to the
   request that makes it or to the close that ends it (openarchive.go, reader.go), at every
   step of every request, of the registry and of every close. *)
THEOREM LockInvariant == Spec => [](Shapes /\ LockInv)
BY LockInit, LockStep, LockQuiet, PTL DEF Spec

(* What was locked, forgotten, deleted or shut down is in the registry no more (keys.go); and
   once the close of an archive has ended (keyEntry.close, Reader.Close), no key of it is in
   the clear but a lease that its maker is about to end, and no view of it is open but one of
   a reader that is still being made or is being closed. *)
THEOREM LockIsFinalHolds == Spec => []LockIsFinal
BY LockInvariant, LockFinal, PTL

(***************************************************************************)
(* What a request is told: what the record, the readers and the requests   *)
(* keep for it.                                                            *)
(***************************************************************************)
\* What the pointer names is there, but what was lost from the first.
RecordInv ==
  /\ Ptr(ver) \in chunks \/ (lost = "chunk" /\ Ptr(ver) = 0)
  /\ Ptr(ver) \in units \/ (lost = "unit" /\ Ptr(ver) = 0)

Loaded(k, v) == views[k][v].st # "none"

\* A reader's views are of what their peek saw, its last one the newest, and stale only when
\* the record has moved.
ReaderOK(k) ==
  /\ readers[k].closing => readers[k].locked
  /\ readers[k].stale => readers[k].view < ver
  /\ \A v \in Vers : Loaded(k, v) =>
       /\ v =< ver /\ views[k][v].gen = Ptr(v)
       /\ v =< readers[k].view \/ readers[k].locked

ReaderInv == \A k \in Keys : ReaderOK(k)

\* Where a load is: its peek, or the one it is about to make.
From(q) == IF req[q].pc = "peek" THEN ver ELSE req[q].peek

\* What a load has read, if the record has held still since its peek.
GotOK(q, p) ==
  /\ req[q].pc = "chunks" => req[q].got \in Gens /\ (ver = p => req[q].got = Ptr(p))
  /\ req[q].pc \in {"check", "publish"} => req[q].got \in Gens \cup {Unread, KeyGone}
  /\ req[q].pc \in {"check", "publish"} /\ ver = p =>
       /\ req[q].got = Unread => lost = "chunk" /\ Ptr(p) = 0
       /\ req[q].got \notin {Unread, KeyGone} => req[q].got = Ptr(p)
  /\ req[q].pc \in {"check", "publish"} /\ req[q].got = KeyGone => keys[req[q].r].st # "open"
  /\ req[q].pc = "publish" => req[q].got = Ptr(p)

\* A load is newer than every view of its reader; a second one begins after a change.
LoadOK(q) ==
  /\ From(q) \in Vers /\ From(q) =< ver
  /\ req[q].since + req[q].loads =< From(q)
  /\ \A v \in Vers : Loaded(req[q].r, v) => v < From(q)
  /\ GotOK(q, From(q))

LoadInv == \A q \in Requests : req[q].pc \in LoadPCs => LoadOK(q)

\* A request with a view: another one than it missed in.
HaveOK(q) ==
  /\ req[q].v \in Vers /\ req[q].missed # req[q].v
  /\ Loaded(req[q].r, req[q].v)
  /\ req[q].pc = "missed" /\ ver = req[q].v => lost = "unit" /\ Ptr(ver) = 0

HaveInv == \A q \in Requests : req[q].pc \in ViewPCs => HaveOK(q)

\* The view a request missed in is not what it finds when it looks again.
LooksOK(q) ==
  /\ Loaded(req[q].r, req[q].missed)
  /\ readers[req[q].r].view = req[q].missed => readers[req[q].r].stale

MissOK(q) ==
  /\ req[q].since =< ver
  /\ req[q].tries = 1 <=> req[q].missed # NoView
  /\ req[q].missed # NoView =>
       /\ req[q].pc \in UserPCs /\ ~req[q].new
       /\ req[q].pc \notin ViewPCs => LooksOK(q)

MissInv == \A q \in Requests : MissOK(q)

\* The archive is the registry's no more.
Left(e) == ents[e].closed \/ entry # e

\* A lease that is locked is of such an archive, unless its maker has just ended it.
EndedInv ==
  /\ \A q \in Requests :
       /\ req[q].pc \in LeasePCs /\ IsLocked(req[q].r) => Left(req[q].e)
       /\ req[q].pc = "drop" => Left(req[q].e)
  /\ \A e \in Keys :
       /\ ents[e].reader # 0 /\ IsLocked(ents[e].reader) => Left(e)
       /\ ents[e].close # "no" => keys[e].of = e

AnswerInv ==
  /\ Shapes /\ LockInv
  /\ RecordInv /\ ReaderInv /\ LoadInv /\ HaveInv /\ MissInv /\ EndedInv

(***************************************************************************)
(* What a step leaves of the record and of the views.                      *)
(***************************************************************************)
RecordKeeps == ver' \in Vers /\ ver =< ver' /\ lost' = lost /\ RecordInv'

LEMMA PtrFacts ==
  /\ \A v \in Vers : Ptr(v) \in Nat
  /\ \A v, w \in Vers : v =< w /\ Ptr(w) = 0 => Ptr(v) = 0
  /\ \A v \in Nat : v % 2 = 1 => Ptr(v + 1) = Ptr(v)
BY OpenBoundsAssumption DEF Vers, Ptr

LEMMA RecordStays == ASSUME Shapes, RecordInv, [Next]_vars PROVE RecordKeeps
<1>1. CASE CommitPointer
  <2>1. ver + 1 \in Vers
    BY <1>1, Bounds DEF CommitPointer, Shapes, Vers
  <2> QED BY <1>1, <2>1 DEF CommitPointer, RecordKeeps, RecordInv, Shapes, Vers
<1>2. CASE CommitMirror
  <2>1. ver + 1 \in Vers
    BY <1>2, Bounds DEF CommitMirror, Shapes, Vers
  <2>2. Ptr(ver + 1) = Ptr(ver)
    BY <1>2, PtrFacts DEF CommitMirror, Shapes, Vers
  <2> QED BY <1>2, <2>1, <2>2 DEF CommitMirror, RecordKeeps, RecordInv, Shapes, Vers
<1>3. CASE SweepOld
  BY <1>3 DEF SweepOld, RecordKeeps, RecordInv, Shapes, Vers
<1>4. ASSUME UNCHANGED record PROVE RecordKeeps
  BY <1>4 DEF record, RecordKeeps, RecordInv, Shapes, Vers
<1>5. ASSUME NEW q \in Requests, Request(q) PROVE UNCHANGED record
  BY <1>5 DEF Request, Ask, FindReader, BeginLease, EndLease, BeginBuild, EndBuild, KeepReader,
              DropReader, Look, LookAgain, PeekBefore, ReadPointer, ReadChunks, PeekAfter, Publish,
              UseIndex, Used, ReadUnit, OpenUnit, Missed
<1>6. CASE \/ Unlock \/ OpenEnds \/ LockArchive \/ Reap \/ LockExcept \/ ShutDown
           \/ Hush \/ HushCloses \/ MarkDelete \/ LockForDelete \/ EndAway
  BY <1>4, <1>6 DEF Unlock, OpenEnds, LockArchive, Reap, LockExcept, ShutDown, Hush, HushCloses,
              MarkDelete, LockForDelete, EndAway
<1>7. ASSUME NEW k \in Keys,
             \/ CloseTakes(k) \/ CloseLocksKey(k) \/ CloseLocksLeases(k) \/ CloseLocksReader(k)
             \/ EndClose(k) \/ \E v \in Vers : CloseView(k, v)
      PROVE  UNCHANGED record
  BY <1>7 DEF CloseTakes, CloseLocksKey, CloseLocksLeases, CloseLocksReader, EndClose, CloseView
<1>8. CASE UNCHANGED vars
  BY <1>4, <1>8 DEF vars
<1> QED BY <1>1, <1>2, <1>3, <1>4, <1>5, <1>6, <1>7, <1>8 DEF Next

\* All that a step other than Publish does to a reader, as far as its views go.
ReaderStays(k) ==
  /\ readers[k].locked => readers'[k].locked
  /\ readers'[k].closing => readers'[k].locked
  /\ \/ readers'[k].view = readers[k].view
     \/ readers'[k].view = NoView /\ readers'[k].locked
  /\ readers[k].stale => readers'[k].stale
  /\ readers'[k].stale => readers[k].view < ver

ViewsStay ==
  /\ \A k \in Keys : ReaderStays(k)
  /\ \A k \in Keys : \A v \in Vers : /\ Loaded(k, v)' <=> Loaded(k, v)
                                     /\ views'[k][v].gen = views[k][v].gen

ViewsOf(vs) ==
  \A k \in Keys : \A v \in Vers :
    /\ vs[k][v].st # "none" <=> Loaded(k, v)
    /\ vs[k][v].gen = views[k][v].gen

LEMMA GoneOf == ASSUME Shapes, ViewsInv, NEW r \in Keys PROVE ViewsOf(Gone(views, r))
<1>1. CASE readers[r].view = NoView
  BY <1>1 DEF Gone, ViewsOf, Loaded
<1>2. CASE readers[r].view # NoView
  <2>1. readers[r].view \in Vers
    BY <1>2, ReaderShape
  <2>2. views[r][readers[r].view].st = "open"
    BY <2>1 DEF ViewsInv
  <2> QED BY <1>2, <2>1, <2>2 DEF Gone, ViewsOf, Loaded, Shapes, ViewT
<1> QED BY <1>1, <1>2

\* A reader r is written, the others not.
LEMMA OneReader ==
  ASSUME Shapes, ReaderInv, NEW r \in Keys, \A k \in Keys : k # r => readers'[k] = readers[k],
         ReaderStays(r), ViewsOf(views')
  PROVE  ViewsStay
<1>1. ASSUME NEW k \in Keys, readers'[k] = readers[k] PROVE ReaderStays(k)
  BY <1>1 DEF ReaderInv, ReaderOK, ReaderStays
<1> QED BY <1>1 DEF ViewsStay, ViewsOf, Loaded

LEMMA SameOf == UNCHANGED views => ViewsOf(views')
BY DEF ViewsOf, Loaded

LEMMA NoReaderMoves ==
  ASSUME Shapes, ReaderInv, UNCHANGED <<readers, views>>
  PROVE  ViewsStay
<1>1. ASSUME NEW k \in Keys PROVE ReaderStays(k)
  BY <1>1 DEF ReaderInv, ReaderOK, ReaderStays
<1> QED BY <1>1 DEF ViewsStay, Loaded

LEMMA CloseReaderStays ==
  ASSUME Shapes, ViewsInv, ReaderInv, NEW r \in Keys, NEW now \in BOOLEAN, CloseReader(r, now)
  PROVE  ViewsStay
<1>1. /\ \A k \in Keys : k # r => readers'[k] = readers[k]
      /\ readers'[r].locked /\ readers'[r].stale = readers[r].stale
      /\ readers'[r].view = IF now THEN NoView ELSE readers[r].view
  BY ReaderDomain DEF CloseReader
<1>2. ReaderStays(r)
  BY <1>1 DEF ReaderInv, ReaderOK, ReaderStays
<1>3. ViewsOf(views')
  BY GoneOf, SameOf DEF CloseReader
<1> QED BY <1>1, <1>2, <1>3, OneReader

LEMMA FailStays ==
  ASSUME Shapes, ViewsInv, ReaderInv, NEW q \in Requests, req[q].r \in Keys,
         FailLocked(q) \/ \E w \in Told : Fail(q, w)
  PROVE  ViewsStay
<1> DEFINE r == req[q].r
<1>1. ASSUME NEW w, Fail(q, w) PROVE ViewsStay
  <2>1. /\ \A k \in Keys : k # r => readers'[k] = readers[k]
        /\ readers'[r].view = readers[r].view /\ readers'[r].stale = readers[r].stale
        /\ readers'[r].closing = readers[r].closing
        /\ readers[r].locked => readers'[r].locked
    BY <1>1, ReaderDomain DEF Fail
  <2>2. ReaderStays(r)
    BY <2>1 DEF ReaderInv, ReaderOK, ReaderStays
  <2>3. UNCHANGED views
    BY <1>1 DEF Fail
  <2> QED BY <2>1, <2>2, <2>3, OneReader, SameOf
<1>2. CASE FailLocked(q) /\ ~Fail(q, "locked")
  <2>1. /\ \A k \in Keys : k # r => readers'[k] = readers[k]
        /\ readers'[r].view = NoView /\ readers'[r].stale = readers[r].stale
        /\ readers'[r].locked
    BY <1>2, ReaderDomain DEF FailLocked
  <2>2. ReaderStays(r)
    BY <2>1 DEF ReaderInv, ReaderOK, ReaderStays
  <2>3. ViewsOf(views')
    BY <1>2, GoneOf DEF FailLocked
  <2> QED BY <2>1, <2>2, <2>3, OneReader
<1> QED BY <1>1, <1>2

LEMMA RequestStays ==
  ASSUME AnswerInv, NEW q \in Requests, Request(q), ~Publish(q)
  PROVE  ViewsStay
<1> DEFINE r == req[q].r
<1> USE DEF AnswerInv
<1>0. req[q].pc \in LeasePCs => r \in Keys
  BY PlacesHold DEF Places, LockInv
<1>1. CASE \/ Ask(q) \/ FindReader(q) \/ BeginLease(q) \/ EndLease(q) \/ BeginBuild(q)
           \/ EndBuild(q) \/ KeepReader(q) \/ PeekBefore(q) \/ ReadPointer(q)
           \/ ReadChunks(q) \/ Used(q) \/ ReadUnit(q) \/ OpenUnit(q)
  <2>1. UNCHANGED <<readers, views>>
    BY <1>1 DEF Ask, FindReader, BeginLease, EndLease, BeginBuild, EndBuild, KeepReader, PeekBefore,
                ReadPointer, ReadChunks, Used, ReadUnit, OpenUnit
  <2> QED BY <2>1, NoReaderMoves
<1>2. CASE DropReader(q)
  <2>1. r \in Keys
    BY <1>0, <1>2 DEF DropReader, LeasePCs
  <2>2. PICK now \in {TRUE, ~shut} : CloseReader(r, now)
    BY <1>2 DEF DropReader
  <2>3. now \in BOOLEAN
    BY DEF Shapes
  <2> QED BY <2>1, <2>2, <2>3, CloseReaderStays DEF LockInv
<1>3. CASE Look(q) \/ LookAgain(q) \/ PeekAfter(q) \/ UseIndex(q) \/ Missed(q)
  <2>1. r \in Keys /\ {"locked", "refused", "busy"} \subseteq Told
    BY <1>0, <1>3 DEF Look, LookAgain, PeekAfter, UseIndex, Missed, LeasePCs, UserPCs, BuildPCs,
                      ViewPCs, LoadPCs, Told
  <2>2. CASE FailLocked(q) \/ \E w \in Told : Fail(q, w)
    BY <2>1, <2>2, FailStays DEF LockInv
  <2>3. CASE UNCHANGED <<readers, views>>
    BY <2>3, NoReaderMoves
  <2>4. CASE readers' = [readers EXCEPT ![r].loader = q] /\ UNCHANGED views
    <3>1. /\ \A k \in Keys : k # r => readers'[k] = readers[k]
          /\ readers'[r].locked = readers[r].locked /\ readers'[r].view = readers[r].view
          /\ readers'[r].stale = readers[r].stale /\ readers'[r].closing = readers[r].closing
      BY <2>1, <2>4, ReaderDomain
    <3>2. ReaderStays(r)
      BY <2>1, <3>1 DEF ReaderInv, ReaderOK, ReaderStays
    <3> QED BY <2>1, <2>4, <3>1, <3>2, OneReader, SameOf
  <2>5. CASE Missed(q) /\ readers' # readers
    <3>1. /\ req[q].pc \in ViewPCs /\ ver # req[q].v /\ UNCHANGED views
          /\ readers' = [readers EXCEPT ![r].stale = @ \/ Reader(q).view = req[q].v]
      BY <2>5 DEF Missed, ViewPCs
    <3>2. /\ \A k \in Keys : k # r => readers'[k] = readers[k]
          /\ readers'[r].locked = readers[r].locked /\ readers'[r].view = readers[r].view
          /\ readers[r].stale => readers'[r].stale
          /\ readers'[r].stale => readers[r].stale \/ readers[r].view = req[q].v
          /\ readers'[r].closing = readers[r].closing
      BY <2>1, <3>1, ReaderDomain DEF Reader
    <3>3. req[q].v \in Vers /\ Loaded(r, req[q].v)
      BY <3>1 DEF HaveInv, HaveOK
    <3>4. req[q].v =< ver /\ req[q].v \in Nat /\ ver \in Nat
      BY <2>1, <3>3, VerFacts DEF ReaderInv, ReaderOK, Shapes
    <3>5. ReaderStays(r)
      BY <2>1, <3>1, <3>2, <3>4 DEF ReaderInv, ReaderOK, ReaderStays
    <3> QED BY <2>1, <3>1, <3>2, <3>5, OneReader, SameOf
  <2> QED BY <1>3, <2>1, <2>2, <2>3, <2>4, <2>5 DEF Look, LookAgain, PeekAfter, UseIndex, Missed
<1> QED BY <1>1, <1>2, <1>3 DEF Request

LEMMA OtherStays ==
  ASSUME AnswerInv, [Next]_vars, ~\E q \in Requests : Request(q)
  PROVE  ViewsStay
<1> USE DEF AnswerInv
<1>1. CASE UNCHANGED <<readers, views>>
  BY <1>1, NoReaderMoves
<1>2. ASSUME NEW k \in Keys, CloseLocksReader(k), ents[k].shuts # 0 PROVE ViewsStay
  <2>1. ents[k].shuts \in Keys
    BY <1>2, PlainFacts DEF LockInv, EntInv, EntOK, Leased
  <2>2. ents[k].now \in BOOLEAN
    BY DEF Shapes, EntT
  <2> QED BY <1>2, <2>1, <2>2, CloseReaderStays DEF CloseLocksReader, LockInv
<1>3. ASSUME NEW k \in Keys, EndClose(k) PROVE ViewsStay
  <2>1. /\ \A x \in Keys : x # k => readers'[x] = readers[x]
        /\ readers'[k].locked = readers[k].locked /\ readers'[k].view = NoView
        /\ readers'[k].stale = readers[k].stale /\ readers[k].closing /\ ~readers'[k].closing
    BY <1>3, ReaderDomain DEF EndClose
  <2>2. ReaderStays(k)
    BY <2>1 DEF ReaderInv, ReaderOK, ReaderStays
  <2>3. ViewsOf(views')
    BY <1>3, GoneOf DEF EndClose, LockInv
  <2> QED BY <2>1, <2>2, <2>3, OneReader
<1>4. ASSUME NEW k \in Keys, NEW v \in Vers, CloseView(k, v) PROVE ViewsStay
  <2>1. ViewsOf(views')
    BY <1>4 DEF CloseView, ViewsOf, Loaded, Shapes, ViewT
  <2>2. \A x \in Keys : ReaderStays(x)
    BY <1>4 DEF CloseView, ReaderInv, ReaderOK, ReaderStays
  <2> QED BY <2>1, <2>2 DEF ViewsStay, ViewsOf, Loaded
<1>5. CASE \/ CommitPointer \/ CommitMirror \/ SweepOld \/ Unlock \/ OpenEnds
           \/ LockArchive \/ Reap \/ LockExcept \/ ShutDown
           \/ Hush \/ HushCloses \/ MarkDelete \/ LockForDelete \/ EndAway \/ UNCHANGED vars
  BY <1>1, <1>5 DEF CommitPointer, CommitMirror, SweepOld, Unlock, OpenEnds, LockArchive, Reap,
                    LockExcept, ShutDown, Hush, HushCloses, MarkDelete, LockForDelete, EndAway, vars
<1>6. ASSUME NEW k \in Keys, CloseTakes(k) \/ CloseLocksKey(k) \/ CloseLocksLeases(k)
      PROVE  ViewsStay
  BY <1>1, <1>6 DEF CloseTakes, CloseLocksKey, CloseLocksLeases
<1>7. ASSUME NEW k \in Keys, CloseLocksReader(k), ents[k].shuts = 0 PROVE ViewsStay
  BY <1>1, <1>7 DEF CloseLocksReader
<1> QED BY <1>2, <1>3, <1>4, <1>5, <1>6, <1>7 DEF Next

LoadedNext(k, v) == views'[k][v].st # "none"

\* What Publish does to the reader of q: one view more, newer than the others.
PublishMove(q) ==
  LET r == req[q].r
      p == req[q].peek IN
  /\ req[q].pc = "publish" /\ r \in Keys /\ LoadOK(q) /\ p \in Vers
  /\ \A k \in Keys : k # r => readers'[k] = readers[k]
  /\ readers'[r].view = p /\ ~readers'[r].stale
  /\ readers'[r].locked = readers[r].locked /\ readers'[r].closing = readers[r].closing
  /\ LoadedNext(r, p) /\ views'[r][p].gen = Ptr(p)
  /\ \A k \in Keys : \A v \in Vers : k # r \/ v # p =>
       (LoadedNext(k, v) <=> Loaded(k, v)) /\ views'[k][v].gen = views[k][v].gen

LEMMA PublishMoves == ASSUME AnswerInv, NEW q \in Requests, Publish(q) PROVE PublishMove(q)
<1> DEFINE r == req[q].r
           p == req[q].peek
           g == Gone(views, r)
<1> USE DEF AnswerInv
<1>1. req[q].pc = "publish" /\ req[q].pc \in LoadPCs /\ req[q].pc \in LeasePCs
  BY DEF Publish, LoadPCs, LeasePCs, UserPCs, BuildPCs
<1>2. r \in Keys
  BY <1>1, PlacesHold DEF Places, LockInv
<1>3. LoadOK(q)
  BY <1>1 DEF LoadInv
<1>4. p = From(q)
  BY <1>1 DEF From
<1>5. p \in Vers /\ req[q].got = Ptr(p)
  BY <1>1, <1>3, <1>4 DEF LoadOK, GotOK
<1>6. /\ \A k \in Keys : k # r => readers'[k] = readers[k]
      /\ readers'[r].view = p /\ ~readers'[r].stale
      /\ readers'[r].locked = readers[r].locked /\ readers'[r].closing = readers[r].closing
  BY <1>2, ReaderDomain DEF Publish
<1>7. g \in [Keys -> [Vers -> ViewT]] /\ ViewsOf(g)
  BY <1>2, GoneShape, GoneOf, Bounds DEF LockInv
<1>8. views' = [g EXCEPT ![r][p] = [st |-> "open", gen |-> req[q].got]]
  BY DEF Publish
<1> HIDE DEF g
<1>9. LoadedNext(r, p) /\ views'[r][p].gen = Ptr(p)
  BY <1>2, <1>5, <1>7, <1>8 DEF LoadedNext
<1>10. \A k \in Keys : \A v \in Vers : k # r \/ v # p =>
         (LoadedNext(k, v) <=> Loaded(k, v)) /\ views'[k][v].gen = views[k][v].gen
  BY <1>2, <1>5, <1>7, <1>8 DEF Loaded, LoadedNext, ViewsOf
<1> QED BY <1>1, <1>2, <1>3, <1>5, <1>6, <1>9, <1>10 DEF PublishMove

LEMMA ReaderInvStays ==
  ASSUME AnswerInv, RecordKeeps, ViewsStay
  PROVE  ReaderInv'
<1> USE DEF AnswerInv
<1> SUFFICES ASSUME NEW k \in Keys PROVE ReaderOK(k)'
  BY DEF ReaderInv
<1>1. ReaderOK(k) /\ ReaderStays(k)
  BY DEF ReaderInv, ViewsStay
<1>2. ver \in Nat /\ ver' \in Nat /\ ver =< ver' /\ readers[k].view \in Vers \cup {NoView}
  BY VerFacts, ReaderShape DEF RecordKeeps, Shapes
<1>3. readers'[k].stale => readers'[k].view < ver'
  BY <1>1, <1>2, VerFacts DEF ReaderStays, NoView
<1>4. ASSUME NEW v \in Vers, Loaded(k, v)'
      PROVE  /\ v =< ver' /\ views'[k][v].gen = Ptr(v)
             /\ v =< readers'[k].view \/ readers'[k].locked
  <2>1. Loaded(k, v) /\ views'[k][v].gen = views[k][v].gen /\ v \in Nat
    BY <1>4, VerFacts DEF ViewsStay
  <2>2. v =< ver /\ views[k][v].gen = Ptr(v) /\ (v =< readers[k].view \/ readers[k].locked)
    BY <1>1, <2>1 DEF ReaderOK
  <2>3. v =< ver'
    BY <1>2, <2>1, <2>2
  <2> QED BY <1>1, <2>1, <2>2, <2>3 DEF ReaderStays
<1> QED BY <1>1, <1>3, <1>4 DEF ReaderStays, ReaderOK

LEMMA ReaderInvPublish ==
  ASSUME AnswerInv, RecordKeeps, NEW q \in Requests, PublishMove(q)
  PROVE  ReaderInv'
<1> DEFINE r == req[q].r
           p == req[q].peek
<1> USE DEF AnswerInv
<1> SUFFICES ASSUME NEW k \in Keys PROVE ReaderOK(k)'
  BY DEF ReaderInv
<1>1. ReaderOK(k) /\ p \in Vers /\ r \in Keys
  BY DEF ReaderInv, PublishMove
<1>2. ver \in Nat /\ ver' \in Nat /\ ver =< ver' /\ readers[k].view \in Vers \cup {NoView}
  BY VerFacts, ReaderShape DEF RecordKeeps, Shapes
<1>3. p = From(q) /\ p =< ver /\ p \in Nat
  BY <1>1, VerFacts DEF PublishMove, From, LoadOK
<1>4. CASE k # r
  <2>1. readers'[k] = readers[k]
    BY <1>4 DEF PublishMove
  <2>2. readers[k].stale => readers[k].view < ver'
    BY <1>1, <1>2, VerFacts DEF ReaderOK, NoView
  <2>3. ASSUME NEW v \in Vers, Loaded(k, v)'
        PROVE  /\ v =< ver' /\ views'[k][v].gen = Ptr(v)
               /\ v =< readers[k].view \/ readers[k].locked
    <3>1. Loaded(k, v) /\ views'[k][v].gen = views[k][v].gen /\ v \in Nat
      BY <1>4, <2>3, VerFacts DEF PublishMove, Loaded, LoadedNext
    <3> QED BY <1>1, <1>2, <3>1 DEF ReaderOK
  <2> QED BY <1>1, <2>1, <2>2, <2>3 DEF ReaderOK
<1>5. CASE k = r
  <2>1. readers'[k].view = p /\ ~readers'[k].stale /\ (readers'[k].closing => readers'[k].locked)
    BY <1>1, <1>5 DEF PublishMove, ReaderOK
  <2>2. ASSUME NEW v \in Vers, Loaded(k, v)'
        PROVE  v =< ver' /\ views'[k][v].gen = Ptr(v) /\ v =< p
    <3>1. CASE v = p
      BY <1>2, <1>3, <1>5, <3>1 DEF PublishMove
    <3>2. CASE v # p
      <4>1. Loaded(k, v) /\ views'[k][v].gen = views[k][v].gen /\ v \in Nat
        BY <1>5, <2>2, <3>2, VerFacts DEF PublishMove, Loaded, LoadedNext
      <4>2. v < p
        BY <1>3, <1>5, <4>1 DEF PublishMove, LoadOK
      <4> QED BY <1>1, <1>2, <1>3, <4>1, <4>2 DEF ReaderOK
    <3> QED BY <3>1, <3>2
  <2> QED BY <2>1, <2>2 DEF ReaderOK
<1> QED BY <1>4, <1>5

(***************************************************************************)
(* A request that does not move.                                           *)
(***************************************************************************)
DataOK(p) ==
  /\ req[p].pc \in LoadPCs => LoadOK(p)
  /\ req[p].pc \in ViewPCs => HaveOK(p)
  /\ MissOK(p)

KeysStayLocked == \A k \in 1..drawn : keys'[k].st = "open" => keys[k].st = "open"

LEMMA Numbers ==
  ASSUME Shapes, NEW p \in Requests
  PROVE  /\ ver \in Nat /\ req[p].since \in Nat /\ req[p].loads \in Nat
         /\ req[p].peek \in Int /\ req[p].v \in Int /\ req[p].missed \in Int /\ Vers \subseteq Nat
         /\ req[p].missed # NoView => req[p].missed \in Vers
BY ReqShape, VerFacts DEF Shapes, NoView

\* What matters to a request of what others did to its reader's views.
SeesOK(p) ==
  LET r == req[p].r IN
  /\ \A v \in Vers : Loaded(r, v) => LoadedNext(r, v)
  /\ req[p].pc \in LoadPCs => \A v \in Vers : LoadedNext(r, v) => Loaded(r, v)
  /\ \A v \in Vers : Loaded(r, v) /\ readers'[r].view = v =>
       readers[r].view = v /\ (readers[r].stale => readers'[r].stale)

LEMMA SeesStay == ASSUME AnswerInv, ViewsStay, NEW p \in Requests, req[p].r \in Keys PROVE SeesOK(p)
<1> DEFINE r == req[p].r
<1>1. \A v \in Vers : LoadedNext(r, v) <=> Loaded(r, v)
  BY DEF ViewsStay, Loaded, LoadedNext
<1>2. ReaderStays(r)
  BY DEF ViewsStay
<1> QED BY <1>1, <1>2, VerFacts DEF SeesOK, ReaderStays

LEMMA SeesPublish ==
  ASSUME AnswerInv, NEW p \in Requests, req[p].r \in Keys, NEW q \in Requests, q # p, PublishMove(q)
  PROVE  SeesOK(p)
<1> DEFINE r == req[p].r
<1> USE DEF AnswerInv
<1>1. CASE r # req[q].r
  BY <1>1 DEF PublishMove, SeesOK
<1>2. CASE r = req[q].r
  <2>1. req[q].peek = From(q) /\ req[q].pc \in LoadPCs
    BY DEF PublishMove, From, LoadPCs
  <2>2. req[p].pc \notin LoadPCs
    BY <1>2, <2>1 DEF LockInv, LoaderInv
  <2>3. readers'[r].view = From(q) /\ From(q) \in Vers
    BY <1>2, <2>1 DEF PublishMove
  <2>4. \A v \in Vers : Loaded(r, v) => v # From(q)
    BY <1>2, <2>3, VerFacts DEF PublishMove, LoadOK
  <2> QED BY <1>2, <2>2, <2>3, <2>4 DEF PublishMove, SeesOK
<1> QED BY <1>1, <1>2

LEMMA DataStays ==
  ASSUME AnswerInv, RecordKeeps, NEW p \in Requests, req'[p] = req[p], KeysStayLocked,
         req[p].r \in Keys => SeesOK(p)
  PROVE  DataOK(p)'
<1> DEFINE r == req[p].r
<1> USE DEF AnswerInv
<1>0. ver \in Nat /\ ver' \in Nat /\ ver =< ver' /\ lost' = lost
  BY VerFacts DEF RecordKeeps, Shapes
<1>1. req[p].pc \in UserPCs => r \in Keys /\ r \in 1..drawn /\ SeesOK(p)
  BY Own, PcClasses DEF Leased
<1>2. ASSUME req[p].pc \in LoadPCs PROVE LoadOK(p)'
  <2>1. LoadOK(p) /\ r \in 1..drawn /\ SeesOK(p)
    BY <1>1, <1>2, PcClasses DEF LoadInv
  <2>2. /\ From(p) \in Vers /\ From(p) =< ver
        /\ From(p)' = IF req[p].pc = "peek" THEN ver' ELSE From(p)
        /\ req[p].pc = "peek" => From(p) = ver
    BY <2>1 DEF LoadOK, From
  <2>8. From(p)' \in Vers /\ From(p)' =< ver' /\ From(p) =< From(p)' /\ From(p) \in Nat
        /\ From(p)' \in Nat
    <3>1. ver' \in Vers /\ From(p) \in Nat
      BY <2>2, VerFacts DEF RecordKeeps
    <3>2. CASE req[p].pc = "peek"
      BY <1>0, <2>2, <3>1, <3>2
    <3>3. CASE req[p].pc # "peek"
      BY <1>0, <2>2, <3>1, <3>3
    <3> QED BY <3>2, <3>3
  <2>3. req[p].since + req[p].loads =< From(p)'
    BY <2>1, <2>8, Numbers DEF LoadOK
  <2>4. ASSUME NEW v \in Vers, LoadedNext(r, v) PROVE v < From(p)'
    <3>1. v < From(p) /\ v \in Nat
      BY <1>2, <2>1, <2>4, VerFacts DEF SeesOK, LoadOK
    <3> QED BY <2>8, <3>1
  <2>5. req[p].pc # "peek" => From(p)' = From(p) /\ (ver' = From(p) => ver = From(p))
    BY <1>0, <2>2, <2>8
  <2>6. keys[r].st # "open" => keys'[r].st # "open"
    BY <2>1 DEF KeysStayLocked
  <2>7. GotOK(p, From(p))'
    BY <1>0, <2>1, <2>5, <2>6 DEF LoadOK, GotOK
  <2> QED BY <2>8, <2>3, <2>4, <2>7 DEF LoadOK, Loaded, LoadedNext
<1>3. ASSUME req[p].pc \in ViewPCs PROVE HaveOK(p)'
  <2>1. HaveOK(p) /\ SeesOK(p) /\ r \in Keys
    BY <1>1, <1>3, PcClasses DEF HaveInv
  <2>2. req[p].v \in Vers /\ req[p].v \in Nat /\ req[p].v =< ver
    BY <2>1, VerFacts DEF HaveOK, ReaderInv, ReaderOK
  <2>3. ver' = req[p].v => ver = req[p].v /\ ver' = ver
    BY <1>0, <2>2
  <2> QED BY <1>0, <2>1, <2>2, <2>3 DEF HaveOK, SeesOK, Loaded, LoadedNext
<1>4. MissOK(p)'
  <2>1. MissOK(p) /\ req[p].since =< ver'
    BY <1>0, Numbers DEF MissInv, MissOK
  <2>2. ASSUME req[p].missed # NoView, req[p].pc \notin ViewPCs PROVE LooksOK(p)'
    <3>1. LooksOK(p) /\ SeesOK(p) /\ req[p].missed \in Vers
      BY <1>1, <2>1, <2>2, Numbers DEF MissOK
    <3> QED BY <3>1 DEF LooksOK, SeesOK, Loaded, LoadedNext
  <2> QED BY <2>1, <2>2 DEF MissOK
<1> QED BY <1>2, <1>3, <1>4 DEF DataOK

(***************************************************************************)
(* A request's own step.                                                   *)
(***************************************************************************)
SameData(q) ==
  /\ req'[q].since = req[q].since /\ req'[q].tries = req[q].tries /\ req'[q].missed = req[q].missed

LEMMA AnswerData ==
  ASSUME Shapes, RecordKeeps, NEW q \in Requests, NEW w, Answer(q, w)
  PROVE  DataOK(q)'
<1> DEFINE x == [Idle EXCEPT !.pc = "done", !.told = w]
<1>1. x.pc = "done" /\ x.since = 0 /\ x.tries = 0 /\ x.missed = NoView
  BY DEF Idle
<1>2. req'[q] = x
  BY ReqDomain DEF Answer
<1> HIDE DEF x
<1>3. "done" \notin LoadPCs /\ "done" \notin ViewPCs
  BY DEF LoadPCs, ViewPCs
<1>4. ver' \in Nat
  BY VerFacts DEF RecordKeeps
<1> QED BY <1>1, <1>2, <1>3, <1>4 DEF DataOK, MissOK

LEMMA FailAnswers ==
  ASSUME NEW q \in Requests, FailLocked(q) \/ \E w : Fail(q, w)
  PROVE  \E w : Answer(q, w)
BY DEF FailLocked, Fail

\* Neither loading nor with a view.
LEMMA AsideData ==
  ASSUME AnswerInv, RecordKeeps, NEW q \in Requests, SameData(q),
         req'[q].pc \notin LoadPCs, req'[q].pc \notin ViewPCs,
         req[q].missed # NoView =>
           req'[q].pc \in UserPCs /\ ~req'[q].new /\ LooksOK(q)'
  PROVE  DataOK(q)'
<1>1. MissOK(q) /\ req[q].since =< ver'
  <2>1. MissOK(q)
    BY DEF AnswerInv, MissInv
  <2>2. ver \in Nat /\ ver' \in Nat /\ ver =< ver' /\ req[q].since \in Nat
    BY Numbers, VerFacts DEF RecordKeeps, AnswerInv
  <2> QED BY <2>1, <2>2 DEF MissOK
<1> QED BY <1>1 DEF DataOK, MissOK, SameData

\* A request that has not looked before has missed in nothing.
LEMMA FirstLook ==
  ASSUME AnswerInv, NEW q \in Requests, req[q].pc \notin UserPCs \/ req[q].new
  PROVE  req[q].missed = NoView
BY DEF AnswerInv, MissInv, MissOK

LEMMA MakingData ==
  ASSUME AnswerInv, RecordKeeps, NEW q \in Requests,
         \/ FindReader(q) \/ BeginLease(q) \/ EndLease(q) \/ BeginBuild(q) \/ EndBuild(q)
         \/ KeepReader(q) \/ DropReader(q)
  PROVE  DataOK(q)'
<1> USE DEF AnswerInv
<1>1. CASE \E w : Answer(q, w)
  BY <1>1, AnswerData
<1>2. CASE ~\E w : Answer(q, w)
  <2>1. req[q].pc \notin UserPCs \/ req[q].new
    BY Own DEF FindReader, BeginLease, EndLease, BeginBuild, EndBuild, KeepReader, DropReader,
               UserPCs, BuildPCs, ViewPCs, LoadPCs, ReqOK
  <2>2. req[q].missed = NoView
    BY <2>1, FirstLook
  <2>3. SameData(q) /\ req'[q].pc \in {"look", "lease", "leasing", "leased", "keep", "drop"}
    <3>1. CASE FindReader(q)
      BY <1>2, <3>1, ReqDomain DEF FindReader, Step, SameData
    <3>2. CASE BeginLease(q)
      BY <1>2, <3>2, ReqDomain DEF BeginLease, GiveUp, Step, SameData
    <3>3. CASE EndLease(q)
      BY <1>2, <3>3, ReqDomain DEF EndLease, GiveUp, SameData
    <3>4. CASE BeginBuild(q)
      BY <1>2, <3>4, ReqDomain DEF BeginBuild, GiveUp, Step, SameData
    <3>5. CASE EndBuild(q) \/ KeepReader(q)
      BY <3>5, ReqDomain DEF EndBuild, KeepReader, Step, SameData
    <3>6. CASE DropReader(q)
      BY <1>2, <3>6 DEF DropReader, GiveUp
    <3> QED BY <3>1, <3>2, <3>3, <3>4, <3>5, <3>6
  <2>4. req'[q].pc \notin LoadPCs /\ req'[q].pc \notin ViewPCs
    BY <2>3 DEF LoadPCs, ViewPCs
  <2> QED BY <2>2, <2>3, <2>4, AsideData
<1> QED BY <1>1, <1>2

\* A view that is found: the reader's, or the one just loaded.
LEMMA HaveData ==
  ASSUME AnswerInv, RecordKeeps, NEW q \in Requests, req[q].r \in Keys, req[q].pc \in BuildPCs,
         NEW v \in Vers, Have(q, v), LoadedNext(req[q].r, v), req[q].missed # v
  PROVE  DataOK(q)'
<1>1. /\ SameData(q) /\ req'[q].v = v /\ req'[q].r = req[q].r /\ req'[q].new = req[q].new
      /\ req'[q].pc = IF req[q].new THEN "built" ELSE "have"
  BY ReqDomain DEF Have, SameData, AnswerInv
<1>2. /\ "built" \notin LoadPCs /\ "built" \notin ViewPCs
      /\ "have" \notin LoadPCs /\ "have" \in ViewPCs /\ "have" \in UserPCs
  BY DEF LoadPCs, ViewPCs, UserPCs
<1>3. CASE req[q].new
  BY <1>1, <1>2, <1>3, AsideData, FirstLook
<1>4. CASE ~req[q].new
  <2>1. HaveOK(q)'
    BY <1>1, <1>4 DEF SameData, HaveOK, Loaded, LoadedNext
  <2>2. MissOK(q) /\ req[q].since =< ver'
    <3>1. MissOK(q)
      BY DEF AnswerInv, MissInv
    <3>2. ver \in Nat /\ ver' \in Nat /\ ver =< ver' /\ req[q].since \in Nat
      BY Numbers, VerFacts DEF RecordKeeps, AnswerInv
    <3> QED BY <3>1, <3>2 DEF MissOK
  <2>3. MissOK(q)'
    BY <1>1, <1>2, <1>4, <2>2 DEF SameData, MissOK
  <2> QED BY <1>1, <1>2, <1>4, <2>1, <2>3 DEF DataOK
<1> QED BY <1>3, <1>4

\* The reader's view, when it is current, is not the one that the request missed in.
LEMMA CurrentIs ==
  ASSUME AnswerInv, NEW q \in Requests, req[q].pc \in {"look", "wait"}, Current(q)
  PROVE  /\ req[q].r \in Keys /\ Reader(q).view \in Vers /\ Loaded(req[q].r, Reader(q).view)
         /\ req[q].missed # Reader(q).view /\ Reader(q).view =< ver
<1> DEFINE r == req[q].r
<1> USE DEF AnswerInv
<1>1. r \in Keys /\ req[q].pc \notin ViewPCs
  BY Own, PcClasses DEF UserPCs, ViewPCs
<1>2. readers[r].view \in Vers /\ ~readers[r].stale /\ readers[r].view # NoView
  BY <1>1, ReaderShape DEF Current, Reader
<1>3. Loaded(r, readers[r].view)
  BY <1>1, <1>2 DEF LockInv, ViewsInv, Loaded
<1>4. req[q].missed # readers[r].view
  BY <1>1, <1>2 DEF MissInv, MissOK, LooksOK
<1> QED BY <1>1, <1>2, <1>3, <1>4 DEF Reader, ReaderInv, ReaderOK

LEMMA LookData ==
  ASSUME AnswerInv, RecordKeeps, NEW q \in Requests, Look(q) \/ LookAgain(q)
  PROVE  DataOK(q)'
<1> DEFINE r == req[q].r
<1> USE DEF AnswerInv
<1>0. /\ req[q].pc \in {"look", "wait"} /\ req[q].pc \in BuildPCs /\ req[q].pc \in LeasePCs
      /\ req[q].pc \in UserPCs /\ req[q].pc \notin ViewPCs /\ r \in Keys
  BY Own, PcClasses DEF Look, LookAgain
<1>1. CASE \E w : Answer(q, w)
  BY <1>1, AnswerData
<1>2. CASE Current(q) /\ Have(q, Reader(q).view) /\ UNCHANGED views
  <2>1. LoadedNext(r, Reader(q).view)
    BY <1>0, <1>2, CurrentIs DEF Loaded, LoadedNext
  <2> QED BY <1>0, <1>2, <2>1, CurrentIs, HaveData
<1>3. CASE Step(q, "wait") /\ UNCHANGED <<readers, views>>
  <2>1. SameData(q) /\ req'[q].pc = "wait" /\ req'[q].r = r /\ req'[q].new = req[q].new
    BY <1>3, ReqDomain DEF Step, SameData
  <2>2. "wait" \notin LoadPCs /\ "wait" \notin ViewPCs /\ "wait" \in UserPCs
    BY DEF LoadPCs, ViewPCs, UserPCs, BuildPCs
  <2>3. req[q].missed # NoView => ~req[q].new /\ LooksOK(q)
    BY <1>0 DEF MissInv, MissOK
  <2>4. LooksOK(q) => LooksOK(q)'
    BY <1>3, <2>1 DEF LooksOK, Loaded, SameData
  <2> QED BY <2>1, <2>2, <2>3, <2>4, AsideData
<1>4. CASE /\ ~IsLocked(r) /\ ~(Current(q) /\ ver = Reader(q).view)
           /\ readers' = [readers EXCEPT ![r].loader = q]
           /\ req' = [req EXCEPT ![q].pc = "peek", ![q].loads = 0]
           /\ UNCHANGED <<ver, views>>
  <2>1. /\ SameData(q) /\ req'[q].pc = "peek" /\ req'[q].loads = 0 /\ req'[q].r = r
        /\ req'[q].new = req[q].new
    BY <1>4, ReqDomain DEF SameData
  <2>2. MissOK(q) /\ ver \in Vers /\ ver \in Nat /\ req[q].since \in Nat
    BY Numbers DEF MissInv, Shapes
  <2>3. ASSUME NEW v \in Vers, Loaded(r, v) PROVE v < ver
    <3>1. v =< ver /\ v =< readers[r].view /\ v \in Nat
      BY <1>0, <1>4, <2>3, VerFacts DEF ReaderInv, ReaderOK, IsLocked
    <3>2. readers[r].view \in Vers /\ readers[r].view # NoView
      BY <1>0, <3>1, ReaderShape DEF NoView
    <3>3. Loaded(r, readers[r].view)
      BY <1>0, <3>2 DEF LockInv, ViewsInv, Loaded
    <3>4. readers[r].view =< ver /\ readers[r].view \in Nat
      BY <1>0, <3>2, <3>3, VerFacts DEF ReaderInv, ReaderOK
    <3>5. readers[r].stale => readers[r].view < ver
      BY <1>0 DEF ReaderInv, ReaderOK
    <3>6. readers[r].view # ver
      BY <1>4, <2>2, <3>2, <3>4, <3>5 DEF Current, Reader
    <3> QED BY <2>2, <3>1, <3>4, <3>6
  <2>4. LoadOK(q)'
    <3>1. From(q)' = ver
      BY <1>4, <2>1 DEF From
    <3>2. req[q].since + 0 =< ver
      BY <2>2 DEF MissOK
    <3>3. GotOK(q, From(q))'
      BY <2>1 DEF GotOK
    <3>4. ver' = ver /\ req'[q].since + req'[q].loads =< ver
      BY <1>4, <2>1, <3>2 DEF SameData
    <3>5. \A v \in Vers : LoadedNext(req'[q].r, v) => v < ver
      BY <1>4, <2>1, <2>3 DEF Loaded, LoadedNext
    <3> QED BY <2>2, <3>1, <3>3, <3>4, <3>5 DEF LoadOK, Loaded, LoadedNext
  <2>5. readers'[r].view = readers[r].view /\ readers'[r].stale = readers[r].stale
    BY <1>0, <1>4, ReaderDomain
  <2>6. MissOK(q)'
    <3>1. "peek" \in UserPCs /\ "peek" \notin ViewPCs
      BY DEF UserPCs, BuildPCs, LoadPCs, ViewPCs
    <3>2. req[q].missed # NoView => LooksOK(q)'
      BY <1>0, <1>4, <2>1, <2>2, <2>5 DEF MissOK, LooksOK, SameData, Loaded
    <3> QED BY <1>4, <2>1, <2>2, <3>1, <3>2 DEF MissOK, SameData
  <2>7. "peek" \notin ViewPCs
    BY DEF ViewPCs
  <2> QED BY <2>1, <2>4, <2>6, <2>7 DEF DataOK
<1>5. CASE FailLocked(q)
  BY <1>1, <1>5, FailAnswers
<1> QED BY <1>1, <1>2, <1>3, <1>4, <1>5 DEF Look, LookAgain, record


\* A load that goes on.
LEMMA LoadGoesOn ==
  ASSUME AnswerInv, RecordKeeps, NEW q \in Requests, UNCHANGED <<ver, lost, readers, views>>,
         req[q].pc \in LoadPCs, req'[q].pc \in LoadPCs, SameData(q),
         req'[q].r = req[q].r, req'[q].new = req[q].new, NEW f \in Vers,
         f = IF req'[q].pc = "peek" THEN ver ELSE req'[q].peek,
         From(q) =< f, f =< ver, req[q].since + req'[q].loads =< f, GotOK(q, f)'
  PROVE  DataOK(q)'
<1> DEFINE r == req[q].r
<1> USE DEF AnswerInv
<1>1. LoadOK(q) /\ MissOK(q) /\ req[q].pc \notin ViewPCs /\ req'[q].pc \notin ViewPCs
  BY PcClasses DEF LoadInv, MissInv
<1>2. From(q)' = f
  BY DEF From
<1>3. \A v \in Vers : LoadedNext(req'[q].r, v) => v < f
  <2> SUFFICES ASSUME NEW v \in Vers, LoadedNext(req'[q].r, v) PROVE v < f
    OBVIOUS
  <2>1. v < From(q) /\ v \in Nat /\ From(q) \in Nat /\ f \in Nat
    BY <1>1, VerFacts DEF LoadOK, Loaded, LoadedNext
  <2> QED BY <2>1
<1>4. LoadOK(q)'
  BY <1>2, <1>3 DEF LoadOK, Loaded, LoadedNext, SameData
<1>5. MissOK(q)'
  <2>1. LooksOK(q) => LooksOK(q)'
    BY DEF LooksOK, Loaded, SameData
  <2> QED BY <1>1, <2>1, PcClasses DEF MissOK, SameData
<1> QED BY <1>1, <1>4, <1>5 DEF DataOK

LEMMA LoadData ==
  ASSUME AnswerInv, RecordKeeps, NEW q \in Requests,
         PeekBefore(q) \/ ReadPointer(q) \/ ReadChunks(q) \/ PeekAfter(q)
  PROVE  DataOK(q)'
<1> DEFINE r == req[q].r
           p == req[q].peek
<1> USE DEF AnswerInv
<1>0. /\ req[q].pc \in {"peek", "pointer", "chunks", "check"} /\ req[q].pc \in LoadPCs
      /\ LoadOK(q) /\ ver \in Vers /\ ver \in Nat /\ ver = ver' /\ lost = lost'
      /\ MissOK(q) /\ req[q].since =< ver /\ UNCHANGED chunks
  BY VerFacts DEF PeekBefore, ReadPointer, ReadChunks, PeekAfter, LoadPCs, LoadInv, Shapes, record,
                  MissInv, MissOK
<1>1. CASE \E w : Answer(q, w)
  BY <1>1, AnswerData
<1>2. CASE PeekBefore(q)
  <2>1. /\ req'[q].pc = "pointer" /\ req'[q].peek = ver /\ SameData(q) /\ req'[q].r = r
        /\ req'[q].new = req[q].new /\ req'[q].loads = req[q].loads
    BY <1>2, ReqDomain DEF PeekBefore, SameData
  <2>2. From(q) = ver
    BY <1>2 DEF PeekBefore, From
  <2>3. PICK f \in Vers : f = ver
    BY <1>0
  <2>6. GotOK(q, f)'
    BY <2>1 DEF GotOK
  <2>4. "pointer" \in LoadPCs /\ UNCHANGED <<ver, lost, readers, views>>
    BY <1>2 DEF PeekBefore, LoadPCs, record
  <2>5. req[q].since + req'[q].loads =< ver
    BY <1>0, <2>1, <2>2 DEF LoadOK
  <2> QED BY <1>0, <2>1, <2>2, <2>3, <2>4, <2>5, <2>6, LoadGoesOn
<1>3. CASE ReadPointer(q) \/ ReadChunks(q)
  <2>1. /\ req'[q].pc \in {"chunks", "check"} /\ req'[q].peek = p /\ SameData(q) /\ req'[q].r = r
        /\ req'[q].new = req[q].new /\ req'[q].loads = req[q].loads
        /\ UNCHANGED <<ver, lost, readers, views>>
    BY <1>3, ReqDomain DEF ReadPointer, ReadChunks, SameData, record
  <2>2. From(q) = p /\ p \in Vers /\ p =< ver /\ req[q].since + req[q].loads =< p
    BY <1>0, <1>3 DEF ReadPointer, ReadChunks, From, LoadOK
  <2>9. PICK f \in Vers : f = p
    BY <2>2
  <2>3. /\ Ptr(ver) \in Gens /\ Unread \notin Gens /\ KeyGone \notin Gens /\ Unread # KeyGone
    BY <1>0, VerFacts, Bounds DEF Gens, Unread, KeyGone
  <2>4. ASSUME ReadPointer(q) PROVE GotOK(q, f)'
    <3>1. CASE keys[r].st = "open"
      <4>1. req'[q].pc = "chunks" /\ req'[q].got = Ptr(ver)
        BY <2>4, <3>1, ReqDomain DEF ReadPointer
      <4> QED BY <1>0, <2>1, <2>3, <2>9, <4>1 DEF GotOK
    <3>2. CASE keys[r].st # "open"
      <4>1. req'[q].pc = "check" /\ req'[q].got = KeyGone /\ keys' = keys
        BY <2>4, <3>2, ReqDomain DEF ReadPointer
      <4> QED BY <2>1, <2>3, <2>9, <3>2, <4>1 DEF GotOK
    <3> QED BY <3>1, <3>2
  <2>5. ASSUME ReadChunks(q) PROVE GotOK(q, f)'
    <3>1. /\ req'[q].pc = "check" /\ req[q].pc = "chunks"
          /\ req'[q].got = IF req[q].got \in chunks THEN req[q].got ELSE Unread
      BY <2>5, ReqDomain DEF ReadChunks
    <3>2. req[q].got \in Gens /\ (ver = p => req[q].got = Ptr(p))
      BY <1>0, <2>2, <3>1 DEF LoadOK, GotOK
    <3>3. Ptr(ver) \in chunks \/ (lost = "chunk" /\ Ptr(ver) = 0)
      BY DEF RecordInv
    <3>4. ver = p => /\ req'[q].got = Unread => lost = "chunk" /\ Ptr(p) = 0
                     /\ req'[q].got # Unread => req'[q].got = Ptr(p)
      BY <2>3, <3>1, <3>2, <3>3
    <3> QED BY <1>0, <2>1, <2>3, <2>9, <3>1, <3>2, <3>4 DEF GotOK
  <2>6. {"chunks", "check"} \subseteq LoadPCs /\ "peek" \notin {"chunks", "check"}
    BY DEF LoadPCs
  <2>7. GotOK(q, f)'
    BY <1>3, <2>4, <2>5
  <2> QED BY <1>0, <2>1, <2>2, <2>6, <2>7, <2>9, LoadGoesOn
<1>4. CASE PeekAfter(q) /\ ~\E w : Answer(q, w)
  <2>1. UNCHANGED <<keys, ver, lost, readers, views>>
    BY <1>4, FailAnswers DEF PeekAfter, record
  <2>2. From(q) = p /\ p \in Vers /\ p \in Nat /\ p =< ver /\ req[q].since + req[q].loads =< p
    BY <1>0, <1>4, VerFacts DEF PeekAfter, From, LoadOK
  <2>5. PICK f \in Vers : f = ver
    BY <1>0
  <2>3. CASE ver = p
    <3>1. Step(q, "publish") /\ req[q].got \notin {Unread, KeyGone} /\ req[q].pc = "check"
      BY <1>4, <2>3, FailAnswers DEF PeekAfter, HeldStill
    <3>2. /\ req'[q].pc = "publish" /\ req'[q].peek = p /\ SameData(q) /\ req'[q].r = r
          /\ req'[q].new = req[q].new /\ req'[q].loads = req[q].loads /\ req'[q].got = req[q].got
      BY <3>1, ReqDomain DEF Step, SameData
    <3>3. GotOK(q, p)
      BY <1>0, <2>2 DEF LoadOK
    <3>4. GotOK(q, f)'
      BY <1>0, <2>1, <2>3, <2>5, <3>1, <3>2, <3>3 DEF GotOK
    <3>5. "publish" \in LoadPCs
      BY DEF LoadPCs
    <3> QED BY <1>0, <2>1, <2>2, <2>3, <2>5, <3>2, <3>4, <3>5, LoadGoesOn
  <2>4. CASE ver # p
    <3>1. req' = [req EXCEPT ![q].pc = "peek", ![q].loads = 1] /\ req[q].loads # 1
      BY <1>4, <2>4, FailAnswers DEF PeekAfter, HeldStill
    <3>2. /\ req'[q].pc = "peek" /\ SameData(q) /\ req'[q].r = r
          /\ req'[q].new = req[q].new /\ req'[q].loads = 1
      BY <3>1, ReqDomain DEF SameData
    <3>3. req[q].since + 1 =< ver
      BY <1>0, <2>2, <2>4, <3>1, Numbers
    <3>4. GotOK(q, f)'
      BY <3>2 DEF GotOK
    <3>5. "peek" \in LoadPCs
      BY DEF LoadPCs
    <3> QED BY <1>0, <2>1, <2>2, <2>5, <3>2, <3>3, <3>4, <3>5, LoadGoesOn
  <2> QED BY <2>3, <2>4
<1> QED BY <1>1, <1>2, <1>3, <1>4

LEMMA PublishData ==
  ASSUME AnswerInv, RecordKeeps, NEW q \in Requests, Publish(q)
  PROVE  DataOK(q)'
<1> DEFINE p == req[q].peek
<1> USE DEF AnswerInv
<1>1. PublishMove(q)
  BY PublishMoves
<1>2. /\ req[q].r \in Keys /\ p \in Vers /\ LoadedNext(req[q].r, p) /\ LoadOK(q)
      /\ req[q].pc = "publish" /\ From(q) = p
  BY <1>1 DEF PublishMove, From
<1>3. req[q].pc \in BuildPCs /\ req[q].pc \notin ViewPCs
  BY <1>2, PcClasses
<1>4. req[q].missed # p
  <2>1. CASE req[q].missed = NoView
    BY <1>2, <2>1, VerFacts
  <2>2. CASE req[q].missed # NoView
    <3>1. Loaded(req[q].r, req[q].missed) /\ req[q].missed \in Vers /\ req[q].missed \in Nat
      BY <1>3, <2>2, Numbers DEF MissInv, MissOK, LooksOK
    <3>2. req[q].missed < p /\ p \in Nat
      BY <1>2, <3>1, VerFacts DEF LoadOK
    <3> QED BY <3>1, <3>2
  <2> QED BY <2>1, <2>2
<1>5. Have(q, p)
  BY DEF Publish
<1> QED BY <1>2, <1>3, <1>4, <1>5, HaveData

(***************************************************************************)
(* With a view.                                                            *)
(***************************************************************************)
\* It goes on with the view, or looks for another.
LEMMA ViewGoesOn ==
  ASSUME AnswerInv, RecordKeeps, NEW q \in Requests, UNCHANGED <<ver, lost, readers, views>>,
         req[q].pc \in ViewPCs, NEW s \in ViewPCs, Step(q, s),
         s = "missed" /\ ver = req[q].v => lost = "unit" /\ Ptr(ver) = 0
  PROVE  DataOK(q)'
<1> USE DEF AnswerInv
<1>1. /\ req'[q].pc = s /\ SameData(q) /\ req'[q].r = req[q].r /\ req'[q].v = req[q].v
      /\ req'[q].new = req[q].new
  BY ReqDomain DEF Step, SameData
<1>2. HaveOK(q) /\ MissOK(q)
  BY DEF HaveInv, MissInv
<1>3. HaveOK(q)'
  BY <1>1, <1>2 DEF HaveOK, SameData, Loaded
<1>4. MissOK(q)'
  BY <1>1, <1>2, PcClasses DEF MissOK, SameData
<1> QED BY <1>1, <1>3, <1>4, PcClasses DEF DataOK

LEMMA LookMore ==
  ASSUME AnswerInv, RecordKeeps, NEW q \in Requests, UNCHANGED <<ver, views>>,
         req[q].pc \in ViewPCs, LooksAgain(q),
         readers'[req[q].r].view = req[q].v => readers'[req[q].r].stale
  PROVE  DataOK(q)'
<1> USE DEF AnswerInv
<1>1. /\ req'[q].pc = "look" /\ req'[q].tries = 1 /\ req'[q].missed = req[q].v
      /\ req'[q].r = req[q].r /\ req'[q].new = req[q].new /\ req'[q].since = req[q].since
  BY ReqDomain DEF LooksAgain
<1>2. HaveOK(q) /\ MissOK(q)
  BY DEF HaveInv, MissInv
<1>3. ~req[q].new
  <2>1. req[q].pc \notin BuildPCs \cup {"leased", "keep", "drop"}
    BY PcClasses
  <2> QED BY <2>1, Own DEF ReqOK
<1>4. LooksOK(q)'
  <2>1. LoadedNext(req'[q].r, req'[q].missed)
    BY <1>1, <1>2 DEF HaveOK, Loaded, LoadedNext
  <2> QED BY <1>1, <2>1 DEF LooksOK, Loaded, LoadedNext
<1>5. req[q].v # NoView
  BY <1>2, VerFacts DEF HaveOK
<1>6. MissOK(q)'
  BY <1>1, <1>2, <1>3, <1>4, <1>5, PcClasses DEF MissOK
<1> QED BY <1>1, <1>6, PcClasses DEF DataOK

LEMMA ViewData ==
  ASSUME AnswerInv, RecordKeeps, NEW q \in Requests,
         UseIndex(q) \/ Used(q) \/ ReadUnit(q) \/ OpenUnit(q) \/ Missed(q)
  PROVE  DataOK(q)'
<1> DEFINE r == req[q].r
           v == req[q].v
<1> USE DEF AnswerInv
<1>0. /\ req[q].pc \in ViewPCs /\ HaveOK(q) /\ r \in Keys /\ v \in Vers
      /\ views[r][v].gen = Ptr(v) /\ UNCHANGED <<ver, lost>>
  <2>1. req[q].pc \in ViewPCs /\ UNCHANGED <<ver, lost>>
    BY DEF UseIndex, Used, ReadUnit, OpenUnit, Missed, ViewPCs, record
  <2>2. HaveOK(q) /\ r \in Keys
    BY <2>1, Own, PcClasses DEF HaveInv
  <2> QED BY <2>1, <2>2 DEF HaveOK, ReaderInv, ReaderOK
<1>1. CASE \E w : Answer(q, w)
  BY <1>1, AnswerData
<1>2. CASE UseIndex(q) /\ Step(q, "using") /\ UNCHANGED <<readers, views>>
  BY <1>0, <1>2, ViewGoesOn DEF ViewPCs
<1>3. CASE UseIndex(q) /\ View(q).st = "closed" /\ LooksAgain(q) /\ UNCHANGED <<readers, views>>
  <2>1. readers[r].view # v
    BY <1>0, <1>3 DEF View, LockInv, ViewsInv
  <2> QED BY <1>0, <1>3, <2>1, LookMore
<1>4. CASE ReadUnit(q) /\ ~\E w : Answer(q, w)
  <2>1. PICK s \in {"read", "missed"} : /\ Step(q, s) /\ (s = "missed" => View(q).gen \notin units)
                                        /\ UNCHANGED <<readers, views>>
    BY <1>4 DEF ReadUnit
  <2>2. s = "missed" /\ ver = v => lost = "unit" /\ Ptr(ver) = 0
    BY <1>0, <2>1 DEF View, RecordInv
  <2> QED BY <1>0, <2>1, <2>2, ViewGoesOn DEF ViewPCs
<1>5. CASE /\ LooksAgain(q) /\ UNCHANGED views
           /\ readers' = [readers EXCEPT ![r].stale = @ \/ Reader(q).view = v]
  <2>1. readers'[r].view = readers[r].view /\ (readers[r].view = v => readers'[r].stale)
    BY <1>0, <1>5, ReaderDomain DEF Reader
  <2> QED BY <1>0, <1>5, <2>1, LookMore
<1>6. CASE FailLocked(q)
  BY <1>1, <1>6, FailAnswers
<1> QED BY <1>1, <1>2, <1>3, <1>4, <1>5, <1>6 DEF UseIndex, Used, ReadUnit, OpenUnit, Missed

LEMMA AskData ==
  ASSUME AnswerInv, RecordKeeps, NEW q \in Requests, Ask(q)
  PROVE  DataOK(q)'
<1>1. CASE \E w : Answer(q, w)
  BY <1>1, AnswerData DEF AnswerInv
<1>2. CASE ~\E w : Answer(q, w)
  <2>1. PICK op \in {"unit", "index"} :
          LET asked == [Idle EXCEPT !.op = op, !.since = ver] IN
          \/ req' = [req EXCEPT ![q] = [asked EXCEPT !.pc = "build", !.e = entry]]
          \/ req' = [req EXCEPT ![q] = [asked EXCEPT !.pc = "opening"]]
    BY <1>2 DEF Ask
  <2> DEFINE asked == [Idle EXCEPT !.op = op, !.since = ver]
             x == [asked EXCEPT !.pc = "build", !.e = entry]
             y == [asked EXCEPT !.pc = "opening"]
  <2>2. /\ x.pc = "build" /\ x.since = ver /\ x.tries = 0 /\ x.missed = NoView
        /\ y.pc = "opening" /\ y.since = ver /\ y.tries = 0 /\ y.missed = NoView
    BY DEF Idle
  <2>3. req'[q] = x \/ req'[q] = y
    BY <2>1, ReqDomain DEF AnswerInv
  <2> HIDE DEF x, y
  <2>4. {"build", "opening"} \cap (LoadPCs \cup ViewPCs) = {}
    BY DEF LoadPCs, ViewPCs
  <2>5. req'[q].since =< ver'
    BY <2>2, <2>3 DEF RecordKeeps
  <2> QED BY <2>2, <2>3, <2>4, <2>5 DEF DataOK, MissOK
<1> QED BY <1>1, <1>2

LEMMA OpenData ==
  ASSUME AnswerInv, RecordKeeps, OpenEnds, NEW p \in Requests, req'[p] # req[p]
  PROVE  DataOK(p)'
<1> USE DEF AnswerInv
<1>1. p = opening.by
  BY ReqDomain DEF OpenEnds, Answer
<1>2. CASE \E w : Answer(p, w)
  BY <1>2, AnswerData
<1>3. CASE ~\E w : Answer(p, w)
  <2>1. req' = [req EXCEPT ![p].pc = "build", ![p].e = entry']
    BY <1>1, <1>3 DEF OpenEnds
  <2>2. req'[p].pc = "build" /\ SameData(p)
    BY <2>1, ReqDomain DEF SameData
  <2>3. req[p].pc = "opening"
    BY <1>1 DEF OpenEnds, LockInv, RegInv
  <2>4. req[p].missed = NoView
    BY <2>3, FirstLook, PcClasses
  <2>5. "build" \notin LoadPCs /\ "build" \notin ViewPCs
    BY DEF LoadPCs, ViewPCs
  <2> QED BY <2>2, <2>4, <2>5, AsideData
<1> QED BY <1>2, <1>3

LEMMA RequestFrame ==
  ASSUME AnswerInv, NEW q \in Requests, Request(q)
  PROVE  OthersSame(q) /\ KeysStayLocked
<1> USE DEF AnswerInv
<1>1. CASE Ask(q)
  <2>1. AskKind(q)
    BY <1>1, AskDoes
  <2> QED BY <2>1 DEF AskKind, Turns, Ends, OthersSame, KeysStayLocked
<1>2. CASE ~Ask(q)
  BY <1>2, RequestDoes, OthersFrame, KeysFrame DEF KeysKeep, KeysStayLocked
<1> QED BY <1>1, <1>2

LEMMA OwnData ==
  ASSUME AnswerInv, RecordKeeps, NEW q \in Requests, Request(q)
  PROVE  DataOK(q)'
BY AskData, MakingData, LookData, LoadData, PublishData, ViewData DEF Request

LEMMA DataStep ==
  ASSUME AnswerInv, [Next]_vars
  PROVE  ReaderInv' /\ \A p \in Requests : DataOK(p)'
<1> USE DEF AnswerInv
<1>0. RecordKeeps
  BY RecordStays
<1>1. ASSUME NEW q \in Requests, Request(q) PROVE ReaderInv' /\ \A p \in Requests : DataOK(p)'
  <2>1. OthersSame(q) /\ KeysStayLocked /\ DataOK(q)'
    BY <1>0, <1>1, RequestFrame, OwnData
  <2>2. CASE Publish(q)
    <3>1. PublishMove(q)
      BY <2>2, PublishMoves
    <3>2. ASSUME NEW p \in Requests, p # q PROVE DataOK(p)'
      <4>1. req'[p] = req[p] /\ (req[p].r \in Keys => SeesOK(p))
        BY <2>1, <3>1, <3>2, SeesPublish DEF OthersSame
      <4> QED BY <1>0, <2>1, <4>1, DataStays
    <3> QED BY <1>0, <2>1, <3>1, <3>2, ReaderInvPublish
  <2>3. CASE ~Publish(q)
    <3>1. ViewsStay
      BY <1>1, <2>3, RequestStays
    <3>2. ASSUME NEW p \in Requests, p # q PROVE DataOK(p)'
      <4>1. req'[p] = req[p] /\ (req[p].r \in Keys => SeesOK(p))
        BY <2>1, <3>1, <3>2, SeesStay DEF OthersSame
      <4> QED BY <1>0, <2>1, <4>1, DataStays
    <3> QED BY <1>0, <2>1, <3>1, <3>2, ReaderInvStays
  <2> QED BY <2>2, <2>3
<1>2. CASE ~\E q \in Requests : Request(q)
  <2>1. ViewsStay
    BY <1>2, OtherStays
  <2>2. KeysStayLocked
    <3>1. CASE Next
      <4>1. OtherKind
        BY <1>2, <3>1, OtherDoes
      <4> QED BY <4>1, OthersAre DEF OthersKeep, KeysStayLocked
    <3>2. CASE UNCHANGED vars
      BY <3>2 DEF vars, opened, KeysStayLocked
    <3> QED BY <3>1, <3>2
  <2>3. ASSUME NEW p \in Requests PROVE DataOK(p)'
    <3>1. CASE req'[p] = req[p]
      <4>1. req[p].r \in Keys => SeesOK(p)
        BY <2>1, SeesStay
      <4> QED BY <1>0, <2>2, <3>1, <4>1, DataStays
    <3>2. CASE req'[p] # req[p]
      <4>1. OpenEnds
        BY <1>2, <3>2 DEF Next, CommitPointer, CommitMirror, SweepOld, Unlock, LockArchive, Reap,
                          LockExcept, ShutDown, Hush, HushCloses, MarkDelete, LockForDelete,
                          EndAway, CloseTakes, CloseLocksKey, CloseLocksLeases, CloseLocksReader,
                          EndClose, CloseView, vars
      <4> QED BY <1>0, <3>2, <4>1, OpenData
    <3> QED BY <3>1, <3>2
  <2> QED BY <1>0, <2>1, <2>3, ReaderInvStays
<1> QED BY <1>1, <1>2

(***************************************************************************)
(* A lease that is locked.                                                 *)
(***************************************************************************)
LEMMA FailLocks ==
  ASSUME AnswerInv, NEW q \in Requests, req[q].r \in Keys, NEW k \in Keys,
         \/ \E w : Fail(q, w)
         \/ FailLocked(q) /\ IsLocked(req[q].r)
  PROVE  readers'[k].locked => IsLocked(k) \/ (k = req[q].r /\ req[q].new /\ req'[q].pc = "done")
<1>1. ASSUME NEW w, Fail(q, w)
      PROVE  readers'[k].locked => readers[k].locked
                                   \/ (k = req[q].r /\ req[q].new /\ req'[q].pc = "done")
  <2>1. req'[q].pc = "done"
    BY <1>1, AnswerDoes DEF Fail, Ends, Turns, AnswerInv
  <2> QED BY <1>1, <2>1, ReaderDomain DEF Fail, AnswerInv
<1>2. CASE FailLocked(q) /\ ~(\E w : Fail(q, w)) /\ IsLocked(req[q].r)
  BY <1>2, ReaderDomain DEF FailLocked, AnswerInv, IsLocked
<1> QED BY <1>1, <1>2 DEF IsLocked

\* Only its maker locks a lease that was not locked, as it ends.
LEMMA LockedBy ==
  ASSUME AnswerInv, NEW q \in Requests, Request(q), NEW k \in 1..drawn, IsLocked(k)'
  PROVE  IsLocked(k) \/ (k = req[q].r /\ req[q].new /\ req'[q].pc = "done")
<1> DEFINE r == req[q].r
           Ended == k = req[q].r /\ req[q].new /\ req'[q].pc = "done"
<1> USE DEF AnswerInv
<1>0. k \in Keys /\ k # 0 /\ k =< drawn
  BY PlainFacts
<1>1. keys'[k].st # "open" => keys[k].st # "open" \/ Ended
  <2>1. CASE Ask(q)
    BY <2>1 DEF Ask, opened
  <2>2. CASE ~Ask(q)
    <3>1. RequestKind(q)
      BY <2>2, RequestDoes
    <3>2. CASE Calm
      BY <1>0, <3>2 DEF Calm, KeysLock
    <3>3. CASE DrawKind(q)
      BY <1>0, <3>3, PlainFacts DEF DrawKind, KeyDrawn
    <3>4. CASE GiveUpKind(q) \/ DropKind(q) \/ FailNewKind(q)
      <4>1. KeysLock({r}) /\ req'[q].pc = "done"
        BY <3>4 DEF GiveUpKind, DropKind, FailNewKind, Ends, Turns
      <4>2. k = r => req[q].new
        <5>1. k = r => req[q].pc \notin {"lease", "leasing"}
          BY <1>0, Own, PcClasses
        <5>2. req[q].pc \in {"leased", "drop"} => req[q].new
          BY Own DEF ReqOK
        <5> QED BY <3>4, <5>1, <5>2 DEF GiveUpKind, DropKind, FailNewKind
      <4> QED BY <1>0, <4>1, <4>2 DEF KeysLock
    <3> QED BY <3>1, <3>2, <3>3, <3>4 DEF RequestKind, AnswerKind, FindKind, WithinKind, BeginKind,
              LeaseKind, ShowKind, BuiltKind, KeepKind, DroppingKind, LoadKind, FailKind,
              PublishKind
  <2> QED BY <2>1, <2>2
<1>2. readers'[k].locked => IsLocked(k) \/ Ended
  <2>0. req[q].pc \in LeasePCs => r \in Keys
    BY PlacesHold DEF Places, LockInv
  <2>1. CASE UNCHANGED readers
    BY <2>1 DEF IsLocked
  <2>2. CASE DropReader(q)
    <3>1. req[q].pc = "drop" /\ r \in Keys /\ req[q].new
      BY <2>0, <2>2, Own, PcClasses DEF DropReader, ReqOK
    <3>2. req'[q].pc = "done"
      BY <2>2, AnswerDoes DEF DropReader, GiveUp, Ends, Turns
    <3>3. PICK now : CloseReader(r, now)
      BY <2>2 DEF DropReader
    <3> QED BY <1>0, <3>1, <3>2, <3>3, ReaderDomain DEF CloseReader, IsLocked
  <2>3. CASE Look(q) \/ LookAgain(q) \/ PeekAfter(q) \/ UseIndex(q) \/ Missed(q) \/ Publish(q)
    <3>1. r \in Keys
      BY <2>0, <2>3, PcClasses DEF Look, LookAgain, PeekAfter, UseIndex, Missed, Publish, LeasePCs,
                                   UserPCs, BuildPCs, ViewPCs, LoadPCs
    <3>2. CASE \/ \E w : Fail(q, w)
               \/ FailLocked(q) /\ IsLocked(r)
      BY <1>0, <3>1, <3>2, FailLocks
    <3>3. CASE \/ readers' = [readers EXCEPT ![r].loader = q]
               \/ \E b : readers' = [readers EXCEPT ![r].stale = b]
      BY <1>0, <3>1, <3>3, ReaderDomain DEF IsLocked
    <3>4. CASE Publish(q)
      BY <1>0, <3>1, <3>4, ReaderDomain DEF Publish, IsLocked
    <3>5. CASE Missed(q)
      BY <1>0, <3>1, <3>5, ReaderDomain DEF Missed, IsLocked
    <3> QED BY <2>1, <2>3, <3>2, <3>3, <3>4, <3>5 DEF Look, LookAgain, PeekAfter, UseIndex
  <2> QED BY <2>1, <2>2, <2>3 DEF Request, Ask, FindReader, BeginLease, EndLease, BeginBuild,
            EndBuild, KeepReader, PeekBefore, ReadPointer, ReadChunks, Used, ReadUnit, OpenUnit
<1> QED BY <1>1, <1>2 DEF IsLocked

\* What another step locks, it locks for an archive that is closed.
LEMMA LockedByOthers ==
  ASSUME AnswerInv, OtherKind,
         NEW k, NEW e, Leased(k, e), IsLocked(k)'
  PROVE  IsLocked(k) \/ ents[e].closed
<1> USE DEF AnswerInv
<1>0. k \in Keys /\ e \in Keys /\ k \in 1..drawn /\ keys[k].of = e /\ k # e
  BY PlainFacts DEF Leased
<1>1. CASE UNCHANGED <<keys, readers>>
  BY <1>1 DEF IsLocked
<1>2. CASE OpenKind
  BY <1>0, <1>2, PlainFacts DEF OpenKind, KeyDrawn, IsLocked
<1>3. ASSUME NEW d \in Keys, KeyKind(d) PROVE IsLocked(k) \/ ents[e].closed
  <2>1. keys[d].of = d
    BY <1>3 DEF KeyKind, EndedInv
  <2> QED BY <1>0, <1>3, <2>1 DEF KeyKind, KeysLock, IsLocked
<1>4. ASSUME NEW d \in Keys, LeasesKind(d) PROVE IsLocked(k) \/ ents[e].closed
  <2>1. EntOK(d)
    BY DEF LockInv, EntInv
  <2>2. k \in ents[d].took => d = e
    BY <1>0, <2>1 DEF EntOK, Leased
  <2>3. ents[d].closed
    BY <1>4, <2>1 DEF EntOK, LeasesKind
  <2> QED BY <1>0, <1>4, <2>2, <2>3 DEF LeasesKind, KeysLock, IsLocked
<1>5. ASSUME NEW d \in Keys, ShutKind(d) PROVE IsLocked(k) \/ ents[e].closed
  <2>1. EntOK(d)
    BY DEF LockInv, EntInv
  <2>2. k = ents[d].shuts => d = e
    BY <1>0, <2>1, PlainFacts DEF EntOK, Leased
  <2>3. ents[d].closed
    BY <1>5, <2>1 DEF EntOK, ShutKind
  <2> QED BY <1>0, <1>5, <2>2, <2>3 DEF ShutKind, ReaderIs, IsLocked
<1>6. ASSUME NEW d \in Keys, EndKind(d) PROVE IsLocked(k) \/ ents[e].closed
  <2>1. readers[d].locked
    BY <1>6 DEF EndKind, ReaderInv, ReaderOK
  <2> QED BY <1>0, <1>6, <2>1 DEF EndKind, ReaderIs, IsLocked
<1> QED BY <1>1, <1>2, <1>3, <1>4, <1>5, <1>6 DEF OtherKind, QuietKind, GoingKind, AskKind,
           FailOpenKind, TakeKind

LeftNext(e) == ents'[e].closed \/ entry' # e
LockedNext(k) == readers'[k].locked \/ keys'[k].st # "open"

LEMMA LeftStaysRequests ==
  ASSUME AnswerInv, NEW q \in Requests, Request(q), NEW e \in 1..drawn
  PROVE  Left(e) <=> LeftNext(e)
<1> USE DEF AnswerInv
<1>0. e \in Keys
  BY PlainFacts
<1>1. CASE Ask(q)
  BY <1>1 DEF Ask, Left, LeftNext, opened
<1>2. CASE ~Ask(q)
  <2>1. RequestKind(q) /\ UNCHANGED registry
    BY <1>2, RequestDoes
  <2>2. EntsKeep(q)
    BY <2>1, EntsFrame
  <2> QED BY <1>0, <2>1, <2>2 DEF EntsKeep, Left, LeftNext, registry
<1> QED BY <1>1, <1>2

\* The registry does not take an archive back.
LEMMA EntryMoves ==
  ASSUME AnswerInv, [Next]_vars
  PROVE  entry' \in {entry, 0} \/ entry' = drawn + 1
<1>1. CASE OpenEnds
  BY <1>1 DEF OpenEnds
<1>2. CASE LockArchive \/ Reap \/ LockExcept \/ ShutDown \/ HushCloses \/ LockForDelete
  BY <1>2 DEF LockArchive, Reap, LockExcept, ShutDown, HushCloses, LockForDelete, CloseWhere,
              CloseEntry
<1>3. ASSUME NEW q \in Requests, Request(q) PROVE UNCHANGED entry
  <2>1. CASE Ask(q)
    BY <2>1 DEF Ask
  <2>2. CASE ~Ask(q)
    BY <1>3, <2>2, RequestDoes DEF registry, AnswerInv
  <2> QED BY <2>1, <2>2
<1>4. ASSUME NEW k \in Keys,
             \/ CloseTakes(k) \/ CloseLocksKey(k) \/ CloseLocksLeases(k) \/ CloseLocksReader(k)
             \/ EndClose(k) \/ \E v \in Vers : CloseView(k, v)
      PROVE  UNCHANGED entry
  BY <1>4 DEF CloseTakes, CloseLocksKey, CloseLocksLeases, CloseLocksReader, EndClose, CloseView,
              registry
<1>5. CASE \/ CommitPointer \/ CommitMirror \/ SweepOld \/ Unlock \/ Hush \/ MarkDelete \/ EndAway
           \/ UNCHANGED vars
  BY <1>5 DEF CommitPointer, CommitMirror, SweepOld, Unlock, Hush, MarkDelete, EndAway, vars,
              registry
<1> QED BY <1>1, <1>2, <1>3, <1>4, <1>5 DEF Next

LEMMA LeftStaysOthers ==
  ASSUME AnswerInv, [Next]_vars, OtherKind, NEW e \in 1..drawn, Left(e)
  PROVE  LeftNext(e)
<1> USE DEF AnswerInv
<1>0. e \in Keys /\ e # 0 /\ e # drawn + 1
  BY PlainFacts
<1>1. ents[e].closed => ents'[e].closed
  BY <1>0, OtherEnts DEF TakeKind, KeyKind, LeasesKind, ShutKind, GoingKind, EntCloses, EntIs
<1>2. entry # e => entry' # e
  BY <1>0, EntryMoves
<1> QED BY <1>1, <1>2 DEF Left, LeftNext

LEMMA EndedInvRequests ==
  ASSUME AnswerInv, NEW q \in Requests, Request(q), ~Ask(q)
  PROVE  EndedInv'
<1> DEFINE r == req[q].r
<1> USE DEF AnswerInv
<1>0. RequestKind(q)
  BY RequestDoes
<1>1. OthersSame(q) /\ KeysKeep /\ EntsKeep(q)
  BY <1>0, OthersFrame, KeysFrame, EntsFrame
\* A lease that was covered is, unless its maker ends.
<1>2. ASSUME NEW k, NEW e, Leased(k, e), IsLocked(k) => Left(e), LockedNext(k),
             ~(k = r /\ req[q].new /\ req'[q].pc = "done")
      PROVE  LeftNext(e)
  BY <1>2, LockedBy, LeftStaysRequests DEF Leased, LockedNext, IsLocked
<1>3. ASSUME NEW p \in Requests, p # q, req'[p].pc \in LeasePCs, LockedNext(req'[p].r)
      PROVE  LeftNext(req'[p].e)
  <2>1. req'[p] = req[p]
    BY <1>1, <1>3 DEF OthersSame
  <2>2. Leased(req[p].r, req[p].e) /\ (IsLocked(req[p].r) => Left(req[p].e))
    BY <1>3, <2>1, Own DEF EndedInv
  <2>3. ~(req[p].r = r /\ req[q].new)
    BY <1>3, OneMaker
  <2>4. PICK k, e : k = req[p].r /\ e = req[p].e
    OBVIOUS
  <2> QED BY <1>2, <1>3, <2>1, <2>2, <2>3, <2>4
<1>4. ASSUME req'[q].pc \in LeasePCs, LockedNext(req'[q].r)
      PROVE  LeftNext(req'[q].e)
  <2>0. req'[q].pc # "done"
    BY <1>4, PcClasses
  <2>4. PICK k, e : k = req'[q].r /\ e = req'[q].e
    OBVIOUS
  <2>1. CASE FindKind(q)
    <3>1. k = E(q).reader /\ e = req[q].e /\ k # 0 /\ req[q].pc = "build"
      BY <2>1, <2>4 DEF FindKind, Turns
    <3>2. e \in Keys /\ EntOK(e)
      BY <3>1, Own, PcClasses
    <3>3. Leased(k, e) /\ (IsLocked(k) => Left(e))
      BY <3>1, <3>2 DEF EntOK, EndedInv, E
    <3> QED BY <1>2, <1>4, <2>0, <2>4, <3>3
  <2>2. CASE DrawKind(q)
    <3>1. k = drawn' /\ k \in Keys /\ k > drawn /\ keys'[k].st = "open"
      BY <2>2, <2>4, PlainFacts DEF DrawKind, KeyDrawn, Turns
    <3>2. ~readers'[k].locked
      BY <2>2, <3>1 DEF DrawKind, SameReaders, LockInv, DrawnInv, NoReader
    <3>3. ~LockedNext(k)
      BY <3>1, <3>2 DEF LockedNext
    <3> QED BY <1>4, <2>4, <3>3
  <2>3. CASE ~FindKind(q) /\ ~DrawKind(q)
    <3>1. k = r /\ e = req[q].e /\ req[q].pc \in LeasePCs
      BY <1>0, <1>4, <2>0, <2>3, <2>4, PcClasses DEF RequestKind, AnswerKind, WithinKind, BeginKind,
         LeaseKind, GiveUpKind, ShowKind, BuiltKind, KeepKind, DroppingKind, DropKind, LoadKind,
         FailNewKind, FailKind, PublishKind, Ends, Goes, Turns
    <3>2. Leased(k, e) /\ (IsLocked(k) => Left(e))
      BY <3>1, Own DEF EndedInv
    <3> QED BY <1>2, <1>4, <2>0, <2>4, <3>2
  <2> QED BY <2>1, <2>2, <2>3
<1>5. ASSUME NEW p \in Requests, req'[p].pc = "drop" PROVE LeftNext(req'[p].e)
  <2>1. CASE req[p].pc = "drop" /\ req'[p] = req[p]
    <3>1. Left(req[p].e) /\ req[p].e \in 1..drawn
      BY <2>1, Own, PcClasses DEF EndedInv
    <3>2. PICK e \in 1..drawn : e = req[p].e
      BY <3>1
    <3> QED BY <2>1, <3>1, <3>2, LeftStaysRequests
  <2>2. CASE ~(req[p].pc = "drop" /\ req'[p] = req[p])
    <3>1. p = q /\ DroppingKind(q)
      BY <1>0, <1>1, <1>5, <2>2, PcClasses DEF OthersSame, RequestKind, AnswerKind, FindKind,
         WithinKind, BeginKind, LeaseKind, GiveUpKind, DrawKind, ShowKind, BuiltKind, KeepKind,
         DropKind, LoadKind, FailNewKind, FailKind, PublishKind, Ends, Goes, Turns
    <3>2. req[q].pc = "keep" /\ req'[q].e = req[q].e /\ req'[q].pc = "drop"
      BY <3>1 DEF DroppingKind, Goes, Turns
    <3>3. KeepReader(q)
      BY <3>2, AnswerDoes DEF Request, Ask, FindReader, BeginLease, EndLease, BeginBuild, EndBuild,
         DropReader, Look, LookAgain, PeekBefore, ReadPointer, ReadChunks, PeekAfter, Publish,
         UseIndex, Used, ReadUnit, OpenUnit, Missed
    <3>4. ~KeepsReader(q)
      BY <3>2, <3>3, ReqDomain DEF KeepReader
    <3>5. PICK e \in 1..drawn : e = req[q].e
      BY <3>2, Own, PcClasses
    <3>6. Left(e)
      BY <3>4, <3>5 DEF KeepsReader, Entry, Left
    <3> QED BY <3>1, <3>2, <3>5, <3>6, LeftStaysRequests
  <2> QED BY <2>1, <2>2
<1>6. ASSUME NEW x \in Keys, ents'[x].reader # 0, LockedNext(ents'[x].reader) PROVE LeftNext(x)
  <2>4. PICK k : k = ents'[x].reader
    OBVIOUS
  <2>1. CASE ents'[x].reader = ents[x].reader
    <3>1. Leased(k, x) /\ (IsLocked(k) => Left(x))
      BY <1>6, <2>1, <2>4 DEF LockInv, EntInv, EntOK, EndedInv
    <3>2. ~(k = r /\ req[q].new)
      <4>1. k = r /\ req[q].new => x = req[q].e /\ E(q).reader = 0
        BY <3>1, Own DEF Leased
      <4> QED BY <1>6, <2>1, <4>1 DEF E
    <3> QED BY <1>2, <1>6, <2>4, <3>1, <3>2
  <2>2. CASE ents'[x].reader # ents[x].reader
    <3>1. KeepKind(q) /\ x = req[q].e /\ k = r
      BY <1>0, <1>6, <2>2, <2>4 DEF RequestKind, AnswerKind, FindKind, WithinKind, BeginKind,
         LeaseKind, GiveUpKind, DrawKind, ShowKind, BuiltKind, KeepKind, DroppingKind, DropKind,
         LoadKind, FailNewKind, FailKind, PublishKind, EntMakes, EntIs, E
    <3>2. req[q].pc = "keep" /\ req'[q].pc # "done"
      BY <3>1 DEF KeepKind, Turns
    <3>3. Leased(k, x) /\ (IsLocked(k) => Left(x))
      BY <3>1, <3>2, Own, PcClasses DEF EndedInv
    <3> QED BY <1>2, <1>6, <2>4, <3>2, <3>3
  <2> QED BY <2>1, <2>2
<1>7. ASSUME NEW x \in Keys, ents'[x].close # "no" PROVE keys'[x].of = x
  <2>1. ents[x].close # "no" /\ keys[x].of = x
    BY <1>1, <1>7 DEF EntsKeep, EndedInv
  <2>2. x =< drawn
    BY <2>1, PlainFacts DEF LockInv, DrawnInv, NoEntry
  <2> QED BY <1>1, <2>1, <2>2, PlainFacts DEF KeysKeep, Keys
<1> QED BY <1>3, <1>4, <1>5, <1>6, <1>7 DEF EndedInv, Left, LeftNext, IsLocked, LockedNext

LEMMA EndedInvOthers ==
  ASSUME AnswerInv, [Next]_vars, OtherKind
  PROVE  EndedInv'
<1> USE DEF AnswerInv
<1>0. OthersKeep
  BY OthersAre
<1>2. ASSUME NEW k, NEW e, Leased(k, e), IsLocked(k) => Left(e), LockedNext(k)
      PROVE  LeftNext(e)
  <2>1. e \in 1..drawn
    BY <1>2 DEF Leased
  <2>2. IsLocked(k)'
    BY <1>2 DEF LockedNext, IsLocked
  <2>3. Left(e)
    BY <1>2, <2>2, LockedByOthers DEF Left
  <2> QED BY <2>1, <2>3, LeftStaysOthers
<1>3. ASSUME NEW p \in Requests, req'[p].pc \in LeasePCs
      PROVE  /\ LockedNext(req'[p].r) => LeftNext(req'[p].e)
             /\ req'[p].pc = "drop" => LeftNext(req'[p].e)
  <2>1. req'[p] = req[p]
    BY <1>0, <1>3, HandsAre
  <2>2. PICK k, e : k = req[p].r /\ e = req[p].e
    OBVIOUS
  <2>3. /\ Leased(k, e) /\ e \in 1..drawn /\ (IsLocked(k) => Left(e))
        /\ req[p].pc = "drop" => Left(e)
    BY <1>3, <2>1, <2>2, Own DEF EndedInv, Leased
  <2> QED BY <1>2, <2>1, <2>2, <2>3, LeftStaysOthers
<1>6. ASSUME NEW x \in Keys, ents'[x].reader # 0, LockedNext(ents'[x].reader) PROVE LeftNext(x)
  <2>1. PICK k : k = ents'[x].reader
    OBVIOUS
  <2>2. k = ents[x].reader
    BY <1>6, <2>1, OtherEnts DEF TakeKind, KeyKind, LeasesKind, ShutKind, GoingKind, EntCloses,
                                 EntIs
  <2>3. Leased(k, x) /\ (IsLocked(k) => Left(x))
    BY <1>6, <2>1, <2>2 DEF LockInv, EntInv, EntOK, EndedInv
  <2> QED BY <1>2, <1>6, <2>1, <2>3
<1>7. ASSUME NEW x \in Keys, ents'[x].close # "no" PROVE keys'[x].of = x
  <2>1. keys[x].of = x /\ x \in 1..drawn
    <3>1. CASE ents[x].close # "no"
      <4>1. x =< drawn
        BY <3>1, PlainFacts DEF LockInv, DrawnInv, NoEntry
      <4> QED BY <3>1, <4>1, PlainFacts DEF EndedInv, Keys
    <3>2. CASE ents[x].close = "no"
      <4>1. GoingKind /\ x = entry
        BY <1>7, <3>2, OtherEnts DEF TakeKind, KeyKind, LeasesKind, ShutKind
      <4> QED BY <4>1, PlainFacts DEF LockInv, RegInv
    <3> QED BY <3>1, <3>2
  <2> QED BY <1>0, <2>1 DEF OthersKeep
<1> QED BY <1>3, <1>6, <1>7, PcClasses DEF EndedInv, Left, LeftNext, IsLocked, LockedNext

LEMMA QuietStep == ASSUME UNCHANGED vars PROVE OtherKind
BY DEF vars, opened, OtherKind, QuietKind

LEMMA AnswerStep == ASSUME AnswerInv, [Next]_vars, Shapes', LockInv' PROVE AnswerInv'
<1> USE DEF AnswerInv
<1>1. RecordInv'
  BY RecordStays DEF RecordKeeps
<1>2. ReaderInv' /\ LoadInv' /\ HaveInv' /\ MissInv'
  BY DataStep DEF DataOK, LoadInv, HaveInv, MissInv
<1>3. EndedInv'
  <2>1. ASSUME NEW q \in Requests, Request(q), ~Ask(q) PROVE EndedInv'
    BY <2>1, EndedInvRequests
  <2>2. CASE ~\E q \in Requests : Request(q) /\ ~Ask(q)
    <3>1. OtherKind
      BY <2>2, OtherDoes, QuietStep
    <3> QED BY <3>1, EndedInvOthers
  <2> QED BY <2>1, <2>2
<1> QED BY <1>1, <1>2, <1>3

LEMMA AnswerInit == ASSUME Init, Shapes, LockInv PROVE AnswerInv
<1>1. Idle.pc = "idle" /\ Idle.tries = 0 /\ Idle.missed = NoView /\ Idle.since = 0
  BY DEF Idle
<1>2. Ptr(0) = 0
  BY DEF Ptr
<1>3. RecordInv
  BY <1>2 DEF Init, RecordInv
<1>4. ReaderInv
  BY PlainFacts DEF Init, ReaderInv, ReaderOK, Loaded, NoReader
<1>5. LoadInv /\ HaveInv /\ MissInv
  BY <1>1, PcClasses DEF Init, LoadInv, HaveInv, MissInv, MissOK
<1>6. EndedInv
  BY <1>1, PcClasses DEF Init, EndedInv, NoEntry
<1> QED BY <1>3, <1>4, <1>5, <1>6 DEF AnswerInv

(***************************************************************************)
(* What a request is told is true.                                         *)
(***************************************************************************)
LEMMA AnswerTells ==
  ASSUME Shapes, NEW q \in Requests, NEW w, Answer(q, w) PROVE req'[q].told = w
<1>1. LET x == [Idle EXCEPT !.pc = "done", !.told = w] IN x.told = w
  BY DEF Idle
<1> QED BY <1>1, ReqDomain DEF Answer

LEMMA Truths ==
  ASSUME NEW q \in Requests
  PROVE  /\ Truth(q, "served")
         /\ entry = 0 \/ Left(req[q].e) \/ Twice(q) => Truth(q, "locked")
         /\ (lost = "unit" /\ View(q).gen = 0) \/ Twice(q) => Truth(q, "notfound")
         /\ lost = "chunk" /\ Ptr(req[q].since) = 0 => Truth(q, "refused")
         /\ Moved(q) >= 2 => Truth(q, "busy")
BY DEF Truth, Left, Entry

\* Its second look, and a view that is not the one it missed in.
LEMMA SecondIsOther ==
  ASSUME AnswerInv, NEW q \in Requests, req[q].pc \in ViewPCs, req[q].tries = 1
  PROVE  Twice(q)
BY DEF AnswerInv, HaveInv, HaveOK, MissInv, MissOK, Twice

LEMMA FailTells ==
  ASSUME AnswerInv, NEW q \in Requests, NEW w, Fail(q, w), Truth(q, w)
  PROVE  Truth(q, req'[q].told)
<1>1. PICK a : Answer(q, a) /\ (a = w \/ (a = "locked" /\ Entry(q).closed))
  BY DEF Fail
<1>2. req'[q].told = a
  BY <1>1, AnswerTells DEF AnswerInv
<1> QED BY <1>1, <1>2, Truths DEF Left, Entry

LEMMA FailLockedTells ==
  ASSUME AnswerInv, NEW q \in Requests, FailLocked(q), Truth(q, "locked")
  PROVE  Truth(q, req'[q].told)
<1>1. CASE Fail(q, "locked")
  BY <1>1, FailTells
<1>2. CASE ~Fail(q, "locked")
  BY <1>2, AnswerTells DEF FailLocked, AnswerInv
<1> QED BY <1>1, <1>2

LEMMA MakingTells ==
  ASSUME AnswerInv, NEW q \in Requests, req'[q].pc = "done",
         FindReader(q) \/ BeginLease(q) \/ EndLease(q) \/ BeginBuild(q) \/ DropReader(q)
  PROVE  Truth(q, req'[q].told)
<1> USE DEF AnswerInv
<1>1. Answer(q, "locked")
  <2>1. CASE FindReader(q)
    BY <2>1, ReqDomain DEF FindReader, Step
  <2>2. CASE BeginLease(q)
    BY <2>2, ReqDomain DEF BeginLease, GiveUp, Step
  <2>3. CASE EndLease(q)
    BY <2>3, ReqDomain DEF EndLease, GiveUp
  <2>4. CASE BeginBuild(q)
    BY <2>4, ReqDomain DEF BeginBuild, GiveUp, Step
  <2>5. CASE DropReader(q)
    BY <2>5 DEF DropReader, GiveUp
  <2> QED BY <2>1, <2>2, <2>3, <2>4, <2>5
<1>2. req'[q].told = "locked"
  BY <1>1, AnswerTells
<1>3. Left(req[q].e)
  <2>1. CASE FindReader(q) \/ BeginBuild(q)
    BY <2>1, ReqDomain DEF FindReader, BeginBuild, Step, Entry, Left
  <2>2. CASE BeginLease(q) \/ EndLease(q)
    <3>1. keys[req[q].e].st # "open" /\ req[q].pc \in EntryPCs
      BY <2>2, ReqDomain, PcClasses DEF BeginLease, EndLease, Step
    <3>2. EntOK(req[q].e) /\ req[q].e =< drawn /\ keys[req[q].e].of = req[q].e
      BY <3>1, Own, PlainFacts
    <3> QED BY <3>1, <3>2 DEF EntOK, Left
  <2>3. CASE DropReader(q)
    BY <2>3 DEF DropReader, EndedInv
  <2> QED BY <2>1, <2>2, <2>3
<1> QED BY <1>2, <1>3, Truths

LEMMA LoadTells ==
  ASSUME AnswerInv, NEW q \in Requests, req'[q].pc = "done", PeekAfter(q)
  PROVE  Truth(q, req'[q].told)
<1> DEFINE r == req[q].r
           p == req[q].peek
<1> USE DEF AnswerInv
<1>1. req[q].pc = "check" /\ req[q].pc \in LoadPCs /\ req[q].pc \in LeasePCs
  BY PcClasses DEF PeekAfter, LoadPCs
<1>2. /\ LoadOK(q) /\ MissOK(q) /\ From(q) = p /\ p \in Vers /\ p \in Nat /\ p =< ver
      /\ ver \in Nat /\ req[q].since \in Nat /\ req[q].since \in Vers
  BY <1>1, Numbers, ReqShape, VerFacts DEF LoadInv, LoadOK, MissInv, From
<1>3. IsLocked(r) => Left(req[q].e)
  BY <1>1 DEF EndedInv
<1>4. CASE HeldStill(q) /\ req[q].got = Unread
  <2>1. lost = "chunk" /\ Ptr(p) = 0
    BY <1>1, <1>2, <1>4 DEF LoadOK, GotOK, HeldStill
  <2>2. req[q].since =< p
    BY <1>2, Numbers DEF LoadOK
  <2>3. Ptr(req[q].since) = 0
    BY <1>2, <2>1, <2>2, PtrFacts
  <2>4. Fail(q, "refused")
    BY <1>4 DEF PeekAfter
  <2> QED BY <2>1, <2>3, <2>4, Truths, FailTells
<1>5. CASE HeldStill(q) /\ req[q].got = KeyGone
  <2>1. Left(req[q].e)
    BY <1>1, <1>2, <1>3, <1>5 DEF LoadOK, GotOK, IsLocked
  <2>2. Fail(q, "locked")
    BY <1>5 DEF PeekAfter, Unread, KeyGone
  <2> QED BY <2>1, <2>2, Truths, FailTells
<1>6. CASE HeldStill(q) /\ req[q].got \notin {Unread, KeyGone}
  <2>1. IsLocked(r) /\ FailLocked(q)
    BY <1>6, ReqDomain DEF PeekAfter, Step
  <2> QED BY <1>3, <2>1, Truths, FailLockedTells
<1>7. CASE ~HeldStill(q)
  <2>1. req[q].loads = 1 /\ Fail(q, "busy")
    BY <1>7, ReqDomain DEF PeekAfter
  <2>2. req[q].since + 1 =< p /\ p # ver
    BY <1>2, <1>7, <2>1 DEF LoadOK, HeldStill
  <2>3. ver - req[q].since >= 2
    BY <1>2, <2>2
  <2> QED BY <2>1, <2>3, Truths, FailTells DEF Moved
<1> QED BY <1>4, <1>5, <1>6, <1>7

LEMMA LookTells ==
  ASSUME AnswerInv, NEW q \in Requests, req'[q].pc = "done", Look(q) \/ LookAgain(q)
  PROVE  Truth(q, req'[q].told)
<1> USE DEF AnswerInv
<1>1. IsLocked(req[q].r) /\ FailLocked(q)
  BY ReqDomain DEF Look, LookAgain, Step, Have
<1>2. Left(req[q].e)
  BY <1>1, PcClasses DEF Look, LookAgain, EndedInv
<1> QED BY <1>1, <1>2, Truths, FailLockedTells

LEMMA ViewTells ==
  ASSUME AnswerInv, NEW q \in Requests, req'[q].pc = "done",
         UseIndex(q) \/ Used(q) \/ ReadUnit(q) \/ OpenUnit(q) \/ Missed(q)
  PROVE  Truth(q, req'[q].told)
<1> DEFINE r == req[q].r
           v == req[q].v
<1> USE DEF AnswerInv
<1>1. req[q].pc \in ViewPCs /\ req[q].pc \in LeasePCs /\ r \in Keys
  BY Own, PcClasses DEF UseIndex, Used, ReadUnit, OpenUnit, Missed, ViewPCs
<1>2. HaveOK(q) /\ View(q).gen = Ptr(v)
  BY <1>1 DEF HaveInv, HaveOK, ReaderInv, ReaderOK, View
<1>3. IsLocked(r) => Left(req[q].e)
  BY <1>1 DEF EndedInv
<1>4. CASE UseIndex(q)
  <2>1. \/ IsLocked(r) /\ FailLocked(q)
        \/ req[q].tries = 1 /\ Answer(q, "locked")
    BY <1>4, ReqDomain DEF UseIndex, Step, LooksAgain
  <2>2. CASE IsLocked(r) /\ FailLocked(q)
    BY <1>3, <2>2, Truths, FailLockedTells
  <2>3. CASE req[q].tries = 1 /\ Answer(q, "locked")
    BY <1>1, <2>3, SecondIsOther, AnswerTells, Truths
  <2> QED BY <2>1, <2>2, <2>3
<1>5. CASE Used(q)
  BY <1>5, AnswerTells, Truths DEF Used
<1>6. CASE ReadUnit(q) \/ OpenUnit(q)
  <2>1. \/ keys[r].st # "open" /\ Answer(q, "locked")
        \/ Answer(q, "served")
    BY <1>6, ReqDomain DEF ReadUnit, OpenUnit, Step
  <2>2. CASE keys[r].st # "open" /\ Answer(q, "locked")
    BY <1>3, <2>2, AnswerTells, Truths DEF IsLocked
  <2> QED BY <2>1, <2>2, AnswerTells, Truths
<1>7. CASE Missed(q)
  <2>1. /\ req[q].pc = "missed" /\ Answer(q, "notfound")
        /\ req[q].tries = 1 \/ ver = v
    BY <1>7, ReqDomain, ReqShape DEF Missed, LooksAgain
  <2>2. Twice(q) \/ (lost = "unit" /\ View(q).gen = 0)
    BY <1>1, <1>2, <2>1, SecondIsOther DEF HaveOK
  <2> QED BY <2>1, <2>2, AnswerTells, Truths
<1> QED BY <1>4, <1>5, <1>6, <1>7

LEMMA AnswersTrue ==
  ASSUME AnswerInv, [Next]_vars
  PROVE  \A q \in Requests :
           req[q].pc # "done" /\ req'[q].pc = "done" => Truth(q, req'[q].told)
<1> USE DEF AnswerInv
<1> SUFFICES ASSUME NEW p \in Requests, req[p].pc # "done", req'[p].pc = "done"
             PROVE  Truth(p, req'[p].told)
  OBVIOUS
<1>1. ASSUME NEW q \in Requests, Request(q) PROVE Truth(p, req'[p].told)
  <2>1. p = q
    BY <1>1, RequestFrame DEF OthersSame
  <2>2. CASE Ask(q)
    <3>1. entry = 0 /\ Answer(q, "locked")
      <4>1. ASSUME NEW op,
                   LET asked == [Idle EXCEPT !.op = op, !.since = ver] IN
                   \/ req' = [req EXCEPT ![q] = [asked EXCEPT !.pc = "build", !.e = entry]]
                   \/ req' = [req EXCEPT ![q] = [asked EXCEPT !.pc = "opening"]]
            PROVE  FALSE
        <5> DEFINE asked == [Idle EXCEPT !.op = op, !.since = ver]
                   x == [asked EXCEPT !.pc = "build", !.e = entry]
                   y == [asked EXCEPT !.pc = "opening"]
        <5>1. x.pc = "build" /\ y.pc = "opening"
          BY DEF Idle
        <5>2. req'[q] = x \/ req'[q] = y
          BY <4>1, ReqDomain
        <5> HIDE DEF x, y
        <5> QED BY <2>1, <5>1, <5>2
      <4> QED BY <2>2, <4>1 DEF Ask
    <3> QED BY <2>1, <3>1, AnswerTells, Truths
  <2>3. CASE EndBuild(q) \/ KeepReader(q)
    BY <2>1, <2>3, ReqDomain DEF EndBuild, KeepReader, Step
  <2>4. CASE PeekBefore(q) \/ ReadPointer(q) \/ ReadChunks(q)
    BY <2>1, <2>4, ReqDomain DEF PeekBefore, ReadPointer, ReadChunks
  <2>5. CASE Publish(q)
    BY <2>1, <2>5, ReqDomain DEF Publish, Have
  <2> QED BY <1>1, <2>1, <2>2, <2>3, <2>4, <2>5, MakingTells, LoadTells, LookTells, ViewTells
            DEF Request
<1>2. CASE ~\E q \in Requests : Request(q)
  <2>1. OpenEnds
    BY <1>2 DEF Next, CommitPointer, CommitMirror, SweepOld, Unlock, LockArchive, Reap, LockExcept,
                ShutDown, Hush, HushCloses, MarkDelete, LockForDelete, EndAway, CloseTakes,
                CloseLocksKey, CloseLocksLeases, CloseLocksReader, EndClose, CloseView, vars
  <2>2. entry = 0
    BY <2>1 DEF OpenEnds, LockInv, RegInv
  <2>3. Answer(p, "locked")
    BY <2>1, ReqDomain DEF OpenEnds, Answer
  <2> QED BY <2>2, <2>3, AnswerTells, Truths
<1> QED BY <1>1, <1>2

(* What a request needs to be answered truly (reader.go, load.go) holds at every step: its load
   is newer than every view there is, what it found missing it looks for in another view, and a
   lease that is locked is of an archive the registry has let go. *)
THEOREM AnswerInvariant == Spec => []AnswerInv
<1>1. ASSUME AnswerInv, [Next]_vars PROVE AnswerInv'
  <2>1. Shapes' /\ LockInv'
    <3>1. CASE Next
      BY <1>1, <3>1, LockStep DEF AnswerInv
    <3>2. CASE UNCHANGED vars
      BY <1>1, <3>2, LockQuiet DEF AnswerInv
    <3> QED BY <1>1, <3>1, <3>2
  <2> QED BY <1>1, <2>1, AnswerStep
<1>2. Init => AnswerInv
  BY LockInit, AnswerInit
<1> QED BY <1>1, <1>2, PTL DEF Spec

(* What a request is told is true (openFor, Reader.ensure, readUnit): "not found" only for a
   message that was lost, or that two different views lack; "refused" only for a record that was
   lost; "busy" only when the record moved twice under the load; "locked" only when the archive
   was locked, or when reloads closed two views under a search. *)
THEOREM AnswersAlwaysTrue == Spec => AnswersAreTrue
<1>1. AnswerInv /\ [Next]_vars =>
        [\A q \in Requests :
           req[q].pc # "done" /\ req'[q].pc = "done" => Truth(q, req'[q].told)]_vars
  BY AnswersTrue
<1> QED BY <1>1, AnswerInvariant, PTL DEF Spec, AnswersAreTrue
=============================================================================
