---------------------------- MODULE VaultKeyFile ----------------------------
(***************************************************************************)
(* The key file of an encrypted archive (internal/vault: store.go,         *)
(* vault.go, restore.go): two copies of one record, its generation, an     *)
(* entry for the password, one for the recovery key, and a code over all   *)
(* of it that only the archive's key makes.  Several processes of this     *)
(* computer change it under the archive's lock (ArchiveLock); the other    *)
(* computer of a synced folder changes it without.  A process may be       *)
(* killed and a write may fail anywhere.                                   *)
(*                                                                         *)
(* A secret is a number, drawn when it is made; an entry is the secret     *)
(* that opens it.  A record whose code does not verify is one that was     *)
(* altered.  A copy from a newer program, or of another archive, is        *)
(* Foreign: the same refusal meets both.  This archive's key is Key.       *)
(***************************************************************************)
EXTENDS ArchiveLock, FiniteSetsExt, Functions

CONSTANTS
  MaxSecrets,   \* bound: secrets made here, one more for each change under way
  MaxTroubles,  \* bound: damage, and changes that arrive from the other computer
  MaxOutside,   \* bound: those, probes and touches of the lock file, together
  Now,          \* the clock's time, later than any count of changes
  Trouble       \* what may fail: a "write", or the removal of one

ASSUME SecretsAssumption == MaxSecrets \in Nat \ {0, 1} /\ MaxTroubles \in Nat
ASSUME ClockAssumption == Now \in Nat /\ Now > 2 * (MaxSecrets + MaxTroubles)

Copies  == {"primary", "mirror"}
AllDrawn == MaxSecrets + MaxTroubles + Cardinality(Procs)
Secrets == 1..AllDrawn
Key     == 0
Absent  == [what |-> "absent"]
Junk    == [what |-> "junk"]
Foreign == [what |-> "foreign"]

Vault(gen, pw, rc) == [what |-> "vault", gen |-> gen, pw |-> pw, rc |-> rc, sound |-> TRUE]
NoVault == Vault(0, 0, 0)

VARIABLES
  copies,    \* the two files
  vpc,       \* where each process is in its change
  op,        \* its change: what kind, the secret given, base and next record, outcome
  drawn,     \* secrets made so far
  handed,    \* a create handed out the archive's key
  ever,      \* secrets that opened the archive at some time
  troubles   \* damage and arrivals so far

keyVars == <<copies, vpc, op, drawn, handed, ever, troubles>>
vars == <<keyVars, lockVars>>

NoOp == [kind |-> "none", with |-> Key, base |-> NoVault, next |-> NoVault,
         seen |-> [c \in Copies |-> Absent], out |-> "none"]

Generations == 0..(Now + AllDrawn)
Records == [what : {"vault"}, gen : Generations, pw : Secrets \cup {0}, rc : Secrets \cup {0},
            sound : BOOLEAN]
Contents == {Absent, Junk, Foreign} \cup Records

\* The types of what the key file adds to the lock's.
TypeOK ==
  /\ LockTypeOK
  /\ copies \in [Copies -> Contents]
  /\ vpc \in [Procs -> {"idle", "shown", "lock", "judge", "write", "mirror", "clean", "end"}]
  /\ \A p \in Procs :
       /\ op[p].kind \in {"none", "create", "password", "recovery", "heal", "restore"}
       /\ op[p].with \in Secrets \cup {Key}
       /\ op[p].base \in Records /\ op[p].next \in Records
       /\ op[p].seen \in [Copies -> Contents]
       /\ op[p].out \in {"none", "saved", "partly", "failed", "spent", "left"}
  /\ drawn \in 0..AllDrawn
  /\ handed \in BOOLEAN
  /\ ever \subseteq Secrets
  /\ troubles \in 0..MaxTroubles

(***************************************************************************)
(* Reading: readCopies and openVault.                                      *)
(***************************************************************************)
Parsed(c)    == {k \in Copies : c[k].what = "vault"}

\* Mutant: whatever parses counts.
AuthenticMutant(c) == Parsed(c)

Authentic(c) == {k \in Parsed(c) : c[k].sound}
Readable(c)  == Parsed(c) # {} /\ Foreign \notin Range(c)

\* Those of the highest generation; on a tie the primary is tried first.
Highest(c, among) == {k \in among : \A j \in among : c[j].gen <= c[k].gen}
First(among)      == IF "primary" \in among THEN "primary" ELSE "mirror"

Unlocks(s, v)  == v.sound /\ s \in {Key, v.pw, v.rc}
Opening(c, s)  == {k \in Parsed(c) : Unlocks(s, c[k])}

\* Mutant: the copy the secret opened is trusted, whatever the other one says.
OpenedMutant(c, s) ==
  {k \in Opening(c, s) : Readable(c) /\ k = First(Highest(c, Opening(c, s)))}

\* The copy an open with this secret trusts: none when it is refused, as it is when it
\* opens only a generation that another authentic copy has left behind.
Opened(c, s) ==
  {k \in Opening(c, s) : /\ Readable(c)
                         /\ k = First(Highest(c, Opening(c, s)))
                         /\ k \in Highest(c, Authentic(c))}

\* The secrets that open the archive: only those of an authentic copy can.
InForce(c) ==
  {s \in UNION {{c[k].pw, c[k].rc} : k \in Authentic(c)} \ {Key} : Opened(c, s) # {}}

Forked(c, k) == \E j \in Authentic(c) : c[j].gen = c[k].gen /\ c[j] # c[k]
NeedsHeal(c, k) == \E j \in Copies : c[j] # c[k]

(***************************************************************************)
(* Init: no archive yet, a whole key file, or one that no secret opens.    *)
(***************************************************************************)
Init ==
  /\ LockInit
  /\ \E start \in {"new", "whole", "lost"} :
       /\ copies = CASE start = "new"   -> [k \in Copies |-> Absent]
                     [] start = "whole" -> [k \in Copies |-> Vault(1, 1, 2)]
                     [] start = "lost"  -> [k \in Copies |->
                          IF k = "primary" THEN Junk ELSE [Vault(1, 1, 2) EXCEPT !.sound = FALSE]]
       /\ drawn = IF start = "new" THEN 0 ELSE 2
       /\ handed = (start # "new")
       /\ ever = IF start = "new" THEN {} ELSE {1, 2}
  /\ vpc = [p \in Procs |-> "idle"]
  /\ op = [p \in Procs |-> NoOp]
  /\ troubles = 0

(***************************************************************************)
(* Before the lock: what is asked for, and what is prepared and shown.     *)
(***************************************************************************)
At(p, s) == vpc[p] = s
Goto(p, s) == vpc' = [vpc EXCEPT ![p] = s]

Begin(p, s, o) ==
  /\ At(p, "idle")
  /\ Goto(p, s)
  /\ op' = [op EXCEPT ![p] = o]
  /\ UNCHANGED <<copies, handed, ever, troubles, lockVars>>

\* PrepareCreate.
PrepareCreate(p) ==
  /\ \A k \in Copies : copies[k] = Absent
  /\ ~handed
  /\ drawn + 2 <= MaxSecrets
  /\ drawn' = drawn + 2
  /\ Begin(p, "shown", [NoOp EXCEPT !.kind = "create", !.next = Vault(1, drawn + 1, drawn + 2)])

\* ChangePasswordAt, called.  The new password is drawn where it first counts.
AskPassword(p) ==
  /\ drawn < MaxSecrets
  /\ UNCHANGED drawn
  /\ \E s \in InForce(copies) \cup {Key} :
       Begin(p, "lock", [NoOp EXCEPT !.kind = "password", !.with = s])

\* PrepareNewRecovery: opened without the lock.
PrepareNewRecovery(p) ==
  /\ drawn < MaxSecrets
  /\ drawn' = drawn + 1
  /\ \E s \in InForce(copies) \cup {Key} : \E k \in Opened(copies, s) :
       Begin(p, "shown", [NoOp EXCEPT !.kind = "recovery", !.base = copies[k],
                                      !.next = [copies[k] EXCEPT !.gen = @ + 1, !.rc = drawn + 1]])

\* Heal, called with the key itself.
AskHeal(p) ==
  /\ \E k \in Opened(copies, Key) : NeedsHeal(copies, k)
  /\ UNCHANGED drawn
  /\ Begin(p, "lock", [NoOp EXCEPT !.kind = "heal"])

\* judgeRestore: no copy is foreign or still opens.
Restorable == Foreign \notin Range(copies) /\ Authentic(copies) = {}

\* Above every generation a copy claims, and the time at least.
RestoredGen == Max({Now} \cup {copies[k].gen + 1 : k \in Parsed(copies)})

PrepareRestore(p) ==
  /\ handed
  /\ Restorable
  /\ drawn + 2 <= MaxSecrets
  /\ drawn' = drawn + 2
  /\ Begin(p, "shown", [NoOp EXCEPT !.kind = "restore", !.seen = copies,
                                    !.next = Vault(RestoredGen, drawn + 1, drawn + 2)])

\* The person confirms what was shown, once more if an attempt changed nothing; to
\* discard it instead does what a kill does here.
Confirm(p) ==
  /\ At(p, "shown")
  /\ Goto(p, "lock")
  /\ op' = [op EXCEPT ![p].out = "none"]
  /\ UNCHANGED <<copies, drawn, handed, ever, troubles, lockVars>>

(***************************************************************************)
(* Under the lock.                                                         *)
(***************************************************************************)
TakeLock(p) ==
  /\ At(p, "lock")
  /\ LockStep(p)
  /\ IF lock'[p].at = "in" THEN Goto(p, "judge") /\ UNCHANGED op
     ELSE IF lock'[p].at = "refused"
     THEN Goto(p, "end") /\ op' = [op EXCEPT ![p].out = "failed"]
     ELSE UNCHANGED <<vpc, op>>
  /\ UNCHANGED <<copies, drawn, handed, ever, troubles>>

\* What the copies read under the lock let the change write: a record in a set, none
\* when the change is refused.
Passworded(o) == {[copies[k] EXCEPT !.gen = @ + 1, !.pw = drawn + 1] : k \in Opened(copies, o.with)}
Healed        == {copies[k] : k \in {j \in Opened(copies, Key) :
                                       ~Forked(copies, j) /\ NeedsHeal(copies, j)}}

\* Mutant: the base is looked for, a newer authentic copy is not.
StillNewestMutant(o) == Readable(copies) /\ \E k \in Authentic(copies) : copies[k] = o.base

\* The prepared change's base is one of the newest authentic copies, on either side
\* of a fork.
StillNewest(o) ==
  /\ Readable(copies)
  /\ \E k \in Highest(copies, Authentic(copies)) : copies[k] = o.base

Allowed(o) ==
  CASE o.kind = "create"   -> {o.next : x \in {y \in {0} : \A k \in Copies : copies[k] = Absent}}
    [] o.kind = "password" -> Passworded(o)
    [] o.kind = "recovery" -> {o.next : x \in {y \in {0} : StillNewest(o)}}
    [] o.kind = "heal"     -> Healed
    [] o.kind = "restore"  -> {o.next : x \in {y \in {0} : Restorable /\ copies = o.seen}}

\* A refusal that says the prepared change is of no use any more.
Spends(o) == o.kind = "restore" \/ (o.kind = "recovery" /\ Readable(copies))

Judge(p) ==
  /\ At(p, "judge")
  /\ LET may == Allowed(op[p]) IN
     IF may = {}
     THEN /\ Goto(p, "end")
          /\ op' = [op EXCEPT ![p].out = IF Spends(op[p]) THEN "spent" ELSE "failed"]
     ELSE /\ Goto(p, "write")
          /\ \E v \in may : op' = [op EXCEPT ![p].next = v]
  /\ drawn' = IF op[p].kind = "password" /\ vpc'[p] = "write" THEN drawn + 1 ELSE drawn
  /\ UNCHANGED <<copies, handed, ever, troubles, lockVars>>

End(p, what) ==
  /\ Goto(p, "end")
  /\ op' = [op EXCEPT ![p].out = what]

\* save: the lock proved, and the primary written, which is the commit.
WritePrimary(p) ==
  /\ At(p, "write")
  /\ \E w \in IF StillHeld(p) THEN {"done"} \cup Trouble ELSE {"lost"} :
       /\ copies' = IF w = "done" THEN [copies EXCEPT !["primary"] = op[p].next]
                    ELSE copies
       /\ IF w = "done" THEN Goto(p, "mirror") /\ UNCHANGED op
          ELSE IF w # "lost" /\ op[p].kind = "create" THEN Goto(p, "clean") /\ UNCHANGED op
          ELSE End(p, "failed")
  /\ ever' = ever \cup InForce(copies')
  /\ UNCHANGED <<drawn, handed, troubles, lockVars>>

\* Mutant: a mirror that could not be written is told as a change that was not made.
WriteMirrorMutant(p) ==
  /\ At(p, "mirror")
  /\ \E w \in {"done"} \cup Trouble :
       /\ copies' = IF w = "done" THEN [copies EXCEPT !["mirror"] = op[p].next] ELSE copies
       /\ IF w # "done" /\ op[p].kind = "create" THEN Goto(p, "clean") /\ UNCHANGED <<op, handed>>
          ELSE /\ End(p, IF w = "done" THEN "saved" ELSE "failed")
               /\ handed' = (handed \/ op[p].kind = "create")
  /\ ever' = ever \cup InForce(copies')
  /\ UNCHANGED <<drawn, troubles, lockVars>>

WriteMirror(p) ==
  /\ At(p, "mirror")
  /\ \E w \in {"done"} \cup Trouble :
       /\ copies' = IF w = "done" THEN [copies EXCEPT !["mirror"] = op[p].next] ELSE copies
       /\ IF w # "done" /\ op[p].kind = "create" THEN Goto(p, "clean") /\ UNCHANGED <<op, handed>>
          ELSE /\ End(p, IF w = "done" THEN "saved" ELSE "partly")
               /\ handed' = (handed \/ op[p].kind = "create")
  /\ ever' = ever \cup InForce(copies')
  /\ UNCHANGED <<drawn, troubles, lockVars>>

\* Mutant: a create that failed removes the key file without the lock's proof.
CleanMutant(p) ==
  /\ At(p, "clean")
  /\ copies' = [k \in Copies |-> Absent]
  /\ End(p, "failed")
  /\ ever' = {}
  /\ UNCHANGED <<drawn, handed, troubles, lockVars>>

\* A create that could not be written removes what it wrote, its lock proved again.
Clean(p) ==
  /\ At(p, "clean")
  /\ IF StillHeld(p)
     THEN /\ \E left \in SUBSET {k \in Copies : "write" \in Trouble} :
               copies' = [k \in Copies |-> IF k \in left THEN copies[k] ELSE Absent]
          /\ End(p, IF Range(copies') = {Absent} THEN "failed" ELSE "left")
     ELSE /\ End(p, "left")
          /\ UNCHANGED copies
  /\ ever' = IF InForce(copies') = {} THEN {} ELSE ever
  /\ UNCHANGED <<drawn, handed, troubles, lockVars>>

\* The lock released.  A prepared change that changed nothing may be confirmed again.
Return(p) ==
  /\ At(p, "end")
  /\ LetGo(p)
  /\ IF op[p].kind \in {"create", "recovery", "restore"} /\ op[p].out \in {"failed", "left"}
     THEN Goto(p, "shown") /\ UNCHANGED op
     ELSE Goto(p, "idle") /\ op' = [op EXCEPT ![p] = NoOp]
  /\ UNCHANGED <<copies, drawn, handed, ever, troubles>>

Kill(p) ==
  /\ ~At(p, "idle")
  /\ LetGo(p)
  /\ Goto(p, "idle")
  /\ op' = [op EXCEPT ![p] = NoOp]
  /\ UNCHANGED <<copies, drawn, handed, ever, troubles>>

(***************************************************************************)
(* From outside.  Nothing in the code could tell a file that changes       *)
(* between its last reading under the lock and the writes that follow, so  *)
(* trouble keeps out of those instants.                                    *)
(***************************************************************************)
Troubled ==
  /\ troubles < MaxTroubles /\ troubles + upsets + probes < MaxOutside
  /\ troubles' = troubles + 1
  /\ \A p \in Procs : vpc[p] \notin {"write", "mirror", "clean"}
  /\ ever' = IF handed THEN ever \cup InForce(copies') ELSE InForce(copies')
  /\ UNCHANGED <<vpc, op, handed, lockVars>>

\* A copy lost, damaged, altered, or taken over by another archive's or a newer program's.
Damage ==
  /\ \E k \in Copies :
       /\ copies[k] # Absent
       /\ \E new \in {Absent, Junk, Foreign} \cup
                     {[v EXCEPT !.sound = FALSE, !.gen = @ + 1] : v \in {copies[k]} \cap Records} :
            copies' = [copies EXCEPT ![k] = new]
  /\ UNCHANGED drawn
  /\ Troubled

\* The other computer's change, in one of the files or in both.
Arrive ==
  /\ handed
  /\ \E k \in Authentic(copies), at \in (SUBSET Copies) \ {{}}, entry \in {"pw", "rc"} :
       LET new == [copies[k] EXCEPT !.gen = @ + 1, ![entry] = drawn + 1]
       IN copies' = [j \in Copies |-> IF j \in at THEN new ELSE copies[j]]
  /\ drawn' = drawn + 1
  /\ Troubled

LockOutside ==
  /\ ProbeEnds \/ (troubles + upsets + probes < MaxOutside /\ (Probe \/ Upset))
  /\ UNCHANGED keyVars

Next ==
  \/ \E p \in Procs :
       \/ PrepareCreate(p) \/ AskPassword(p) \/ PrepareNewRecovery(p) \/ AskHeal(p)
       \/ PrepareRestore(p) \/ Confirm(p) \/ TakeLock(p) \/ Judge(p)
       \/ WritePrimary(p) \/ WriteMirror(p) \/ Clean(p) \/ Return(p) \/ Kill(p)
  \/ Damage \/ Arrive \/ LockOutside

Spec == Init /\ [][Next]_vars

(***************************************************************************)
(* Properties.                                                             *)
(***************************************************************************)
\* The key file keeps KeyPromise: a replaced secret never opens the archive again,
\* a heal changes nothing and settles no fork, no change is undone by a prepared one
\* or by a process that lost the lock, nobody who was given the key loses its file.
Promised == INSTANCE KeyPromise WITH force <- InForce(copies)
Promise == Promised!Spec

\* What a change is told is true: a new secret that was saved, wholly or in one copy,
\* has opened the archive; one that was not does not, and may be confirmed again.  A
\* create that never got as far as writing says nothing of the key file it may find.
Made(o) == (IF o.kind = "recovery" THEN {} ELSE {o.next.pw}) \cup
           (IF o.kind = "password" THEN {} ELSE {o.next.rc})
ReportIsTrue ==
  [][\A p \in Procs : ~At(p, "end") /\ vpc'[p] = "end" /\ op[p].kind # "heal" =>
       /\ op'[p].out \in {"saved", "partly"} => {op'[p].next.pw, op'[p].next.rc} \subseteq ever'
       /\ op'[p].out \in {"failed", "spent"} /\ ~(op[p].kind = "create" /\ vpc[p] \in {"lock", "judge"}) =>
            Made(op[p]) \cap InForce(copies') = {}]_vars

\* Two copies that agree are worth their price: any damage to one of them, other than
\* a foreign file in its place, leaves what opens the archive as it was.
OneLossIsSurvived ==
  [][\A k \in Copies :
       /\ \A j \in Copies : copies[j] \in Records /\ copies[j] = copies[k] /\ copies[j].sound
       /\ Damage /\ copies'[k] # copies[k] /\ copies'[k] # Foreign
       => InForce(copies') = InForce(copies)]_vars
=============================================================================
