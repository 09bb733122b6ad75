# MailArchive: TLA+ models, model checking and proofs

MailArchive is a Go program that turns mail on a person's computer (Outlook PST files,
Thunderbird and other mbox stores, Microsoft 365 through Graph) into an archive folder: HTML
pages or, in an encrypted archive, sealed "units" plus a sealed record that says what was
captured. Backups run unattended (cron, launchd, the Windows scheduler), from a dashboard in the
browser, and from the command line, on folders that may sit on removable drives, in cloud-synced
directories, or be restored from elsewhere. There is no server: whatever goes wrong is met by the
next run, alone, from the files it finds.

This directory models the parts of that program whose correctness depends on the *order* of steps,
on failures between steps, and on several actors: every module is a translation of the source
under `src/internal`, TLC checks it on small instances, and TLAPS proves the central results for
every value of the constants. `PROJECT.json` holds the component list, the runs, the mutants each
property is tried against, the map from every definition to source lines, the hazards and the
findings.

## 1. Inventory of the system

How the parts meet, in a backup run (`app.Run`):

```
 schedule / dashboard / CLI
        |  one run = one process (or one goroutine of the desktop)
        v
 presync  ---- starts Thunderbird, waits for mail, asks it to quit ----> the person's Thunderbird
        |  (profile lock handed on until the mail has been read)
        v
 app.Run --- archive lock (lockfile) --- delete markers (delmark, archdelete)
        |--- keyring -> vault (key file) -> memguard (memory of derivations and reads)
        |--- container.LoadManifest ... Commit (sealed record)  <---- keyring.Reader (other processes)
        |--- source readers -> export.Exporter -> units (sealed) or pages (plain)
        |--- state.Save (manifest, gaps, last run) -> backupalert / alert
        v
 index, server, dashboard read what the run left
```

| Component | State it keeps | Operations | What is hard about it |
|---|---|---|---|
| sealed record, `container/store.go` | pointer and its mirror, chunk files written twice, envelope, the file list (shards and a top file); in memory: the last committed pointer, the last list, files superseded in this run | LoadManifest, the start sweep, Init, Commit, writeInventory | killed between any two writes; a rename that reports an error and has landed; power cuts; lost or damaged files; an older copy put back |
| units, `export/units.go` | one sealed file per message, kind and revision | Write, Remove, sweep, Check | a name taken by a crashed run's orphan; who may remove what |
| export, `export/exporter.go` | the manifest entry and the staged files of the message under way | exportMessage, sealKind, endStage | a capture that fails half way; a second capture in one run |
| memory guard, `memguard` | bytes in use, the derivation turn, waiters | Lock, Unlock, Reserve, release, cancel | a condition variable shared by two kinds of waiter |
| pre-sync, `presync` | state record on disk, profile lock, the watchdog's memory of the session, the Thunderbird it started | runSession S1 to S9, runWatchdog, applyRecovery, releaseLatch | the person starts, uses and quits Thunderbird at any moment; a watchdog abandons a session that goes on running; kills and reboots |
| deletion, `archdelete`, `delmark` | the delete marker, the log of the deletion, key records, settings | Plan, Execute (lock, stop schedules, remove files, anchor last, marker, key), rerun, RefuseUnfinishedDelete | killed at any step; a scheduled backup in between; a person's own files in the folder |
| key file, `vault` | two copies of the key file, a generation, secrets | openVault, save, change of a secret, prepared recovery, heal | a half-written change; a superseded secret; two devices forking the file |
| archive lock, `lockfile` | the lock file and the nonce written in it | Acquire, Held, StillHeld, Release | a probe that takes the lock for an instant; a lock file replaced under its holder |
| capture run, `app/run.go`, `app/localrun.go` | the manifest in memory, what the walk remembers (folders that cannot be written or were not fully read, places answered), the index's open batch, the last-run record | Run: checks, lock, checks again, opening, one item after the other, checkpoints, the walk's end, final save, outcome | everything checked before the lock is stale under it; any item, folder, source, index row or save may fail; cancelled, killed or the lock lost anywhere |
| plain state, `state` | the manifest: records and the ledger of capture gaps; last run, streaks | Load, Save, ObserveGap, CloseGap, CloseGapInFolder, CloseUnobserved, streaks | one locator stands for several files or copies; who may close a gap, and when |
| copy export, `app/copyexport_*.go`, `desktop/exports.go` | the export folder with its marker, a run record per run, the exports' journal, the fingerprint ledger; in memory: the export slot | start, the loop over the messages, finalization, the seal, cancel, wedge, Finish as partial, Check and finish, gone, reconcile, the launch sweep, compaction | stopped at any step and finished later from the record alone; two runs of one chain share a ledger; an abandoned goroutine |
| keyring and the open archives, `keyring`, `desktop/keys.go` | the registry of open archives (entries, generations, what the person locked, marks of a delete or a forget-all), keys with their uses and leases, a reader's view of the record | open, readerFor, Lease, Lock, Close, ensure, load, moved, withIndex, readUnit, lock, reap, lockExcept, lockAll, hush, LockForDelete | everything slow goes on outside the locks, so a lock may land in it; the record moves under a reader that holds no lock on it |
| encryption records, `encrecord`, `encmark` | this computer's two-copy list of encrypted folders | Put, Forget, the answer "is this encrypted" | one copy lost; fail closed |
| single instance, `instance` | desktop lock, instance file with a token | Claim, handoff by challenge | a second start during the first one's end |
| program copies, `progcache` | cache of released programs | Fetch, Prune | pruned while fetched |
| Graph client, `graph` | delta links and retry state | List, Get, backoff | throttling and resumption |
| alerts, `backupalert`, `alert` | alert streak | Decide, Send | said once, not every day |
| schedules, `schedule`, `job` | entries of the system's scheduler, a job file | Install, Remove | text and system calls |
| readers of mail, `source`, `outlookcom`, `thunderbird` | a cursor | Next | parsing |
| search, `index`, `server`, `pages`, `localweb`, `browser` | SQLite, one-time sessions | Build, Query, Serve | the database's own transactions |
| dashboard and commands, `desktop`, `dialogfront`, `wizard`, `cmd` | one job at a time, confirmation windows | handlers | user interface over the parts above |
| pause sentinel `seal`, `archindex`, `health`, `uninstall`, support | one file, lists, reports | Check, List | none worth a model |

What makes each core part correct:

* **sealed record and units**: whatever instant a run is stopped at, the record that a load would
  take names files that are there with the recorded bytes; a kill never produces a record the next
  run refuses; a generation is never used for two records; one lost file costs nothing; a full
  save makes every part twofold again; an older copy put back is refused or complete.
* **memory guard**: derivations and reads never hold more than the larger of their budgets; nobody
  sleeps on a condition that already holds; a derivation is not starved; a cancelled read leaves.
* **pre-sync**: only a Thunderbird the session started is asked to quit; the profile's lock lasts
  until the caller has read the mail and is always freed; what the run tells the person about the
  Thunderbird it left is true; a leftover is recognised by the next run; the archive never waits
  for ever.
* **deletion**: the file that makes the folder an archive goes last; a backup never writes into a
  half-deleted folder; the person's own files stay; the key is forgotten only after the files;
  deleting again completes.
* **key file**: a secret that was replaced never opens the archive again; a change that was
  reported done survives; a fork is never resolved silently.
* **capture run**: a message the run met is archived or named by a gap, and "ok" means that none is
  missing; a later run fills what an earlier one could not; a gap is closed only by a capture or
  by a walk that could have seen the item; a saved record has its page, its zip and its index row.
* **archive lock**: it refuses only when another run holds it, and a run that took it goes on
  proving it while the lock file is left alone.
* **open archives**: what is locked stays locked: no open, lease, reader or view begun before it outlives
  it; what a request is told (damaged, busy, not found, locked) is so.
* **copy export**: a folder without its marker is exactly what its documents say; the fingerprint of
  a chain of exports goes on from part to part; a message that was selected is exported, failed for
  good, or still offered.

## 2. Plan

Modules, in the order they are written:

1. `MemGuard`: small, self-contained, complete. **Done**, with `MemGuardProofs` for all its safety
   properties.
2. `SealedRecord`: the heart of an encrypted archive: record, list, sweep, units, capture.
   **Done** for the manifest's section; with `SealedRecordProofs` for all its properties.
   Left: the timeline's and the index's chunks (two more tables of the same pointer), an abstract
   `RecordPromise` (a register of saved manifests: a load returns the last save that reported
   success or a later one) and the refinement to it, and two writers in the lock's window.
3. `PresyncSession`: one session, its watchdog and its caller, the person and reboots, over several
   runs. **Done**, with `PresyncSessionProofs`.
4. `ArchiveDelete`: the deletion's steps with the marker, the backup's guards, kills and reruns.
   **Done** for steps 0, 1 and 6 to 9, with `ArchiveDeleteProofs` for all its properties; left: the new
   archive of an encrypted backup, the abstract folder below and the refinement to it.
5. `VaultKeyFile`: two copies, generations, secrets, prepared recovery keys, forks. **Done**, on top
   of 6, with the abstract `KeyPromise` and the refinement to it.
6. `ArchiveLock`: the file lock's protocol. **Done**, composed with 5, with `ArchiveLockProofs`; left:
   its composition with `SealedRecord` for two writers.
7. `CopyExport`: a chain of copy exports, stopped anywhere and finished from its records. **Done**
   but for the parts section 3 names, with `CopyExportProofs`; left: an abstract folder ("unfinished,
   or what its documents say") and the refinement to it.
8. `OpenArchive`: the Desktop's open archives, their keys and readers, on top of what 2 shows a
   reader. **Done**, with `OpenArchiveProofs` for all its properties; left: its composition with `SealedRecord`
   itself.
9. `CaptureRun`: runs of a plain archive over one local source: the decision per message, the gap
   ledger, the writes, checkpoints, commit order and the index. **Done**, with `CaptureRunProofs` for all
   its properties; left: the checks before and under the lock (composing the guards of 4 and the lock of
   6), several sources, the live path of Microsoft 365 with its timeline, and the ledger's caps.
10. Pure algorithms against a reference definition: `applyRecovery`, the quiet tracker, the gap and
   streak books of `state`, the alert streak.
11. `SingleInstance` and `ProgramCache`, small interleaving models.

Runs are kept few, at most a dozen for the whole project, each with the largest mix of troubles
that still ends in a few minutes: a new question joins an existing run where its instance shows the
case.

Abstract specifications worth stating: what a key file promises its holders for 5 (done:
`KeyPromise`), a register for 2, "the folder is an archive, is being deleted, or is gone, in this
order" for 4.

Theorems worth proving, in order: the properties of 2 (done); those of 1 (done); the two of 6 (done);
those of 3 (done); the three of 7 (done); those of 4 (done); the refinement of 5; `LockIsFinal` of 8 (done);
those of 9 (done); the refinement of 2.

## 3. The modules and the code

### MemGuard (`internal/memguard/memguard.go`)

State: the three fields of `Guard` (`used`, `deriving`, `waiting`) and, per goroutine, where it is
(`out`, `asleep` on the condition variable, `ready` after a broadcast, `in`), what it asked for, and
its request's context. Each section between `mu.Lock` and `mu.Unlock` is one action; a sleeper
that a broadcast made ready evaluates its loop again in a step of its own. `context.AfterFunc`'s
goroutine is `Announce`, later than `Cancel`. Every caller calls its release twice (an early one and
a deferred one), the second doing nothing.

`NoLostWakeup` is the property a missing or misplaced broadcast breaks. Liveness: `DerivationGetsTurn`
and `CancelledReadLeaves` under weak fairness of the wake-ups and of the announcements only: a ready
goroutine is runnable and Go's mutex does not starve. Nothing else is owed: no goroutine has to ask,
no request has to be cancelled, and that holders give back (callers release by `defer`) is the
condition `DerivationGetsTurn` states for itself.

### SealedRecord (`internal/container/store.go`, `internal/export/units.go`, `internal/app/encrypted.go`)

State: the folder (`files`, `ptr`, `mirror`, `top`, `shards`, `env`), what of the root files a power
cut would leave (`hard*`), and the run's memory, variable by field (`sptr` is `Store.ptr`,
`attempted`, `inv`, `listed` for `shards`/`invLive`/`invRetained`, `reseal`, `prevLive`, `retained`,
`recs` for the manifest in memory, `orphanAfter`). One action per write:

| Code | Action |
|---|---|
| LoadManifest with readPointers, readInventory, readSections, checkF12, checkFresh | `Refuse`, `LoadFresh`, `Load` by `Decision` |
| prepareEncrypted's sweep (SweepUnits, SweepContainersSplit under MayRemove) | `Sweep` |
| exportMessage / sealKind / Units.Write, and its failure | `Capture`, `CaptureFails`, `Drop` |
| Store.Init | `Prepare` |
| Store.Commit | `Seal`, `SealFails`, `ProveLock`, `LockLost`, `Land`, `RenameFails`, `WriteMirror`, `HealEnvelope` |
| writeInventory | `WriteShard`, `WriteTop` |
| a kill, or the end of the run | `Stop` |
| a drive that does not flush folders | `Flush`, `PowerCut` |
| damage and restore from outside | `Damage`, `Keep`, `Restore` |

Abstractions. The manifest is one section of `Units` kinds of unit of one message each; the list has
one shard; a digest is the serial number of the bytes drawn; a time is the number of the run that it
starts, because every file a run writes carries the run's fixed time. Chunk and unit files are taken to
be on the drive once written (each is synced before its rename and its name is new), while a rename of
a root file may be lost, by itself, until the next run: `WriteFileAtomic0600Temp` does not report a
folder that cannot be synced. `RecordedGen`, which no caller sets, is left out with its check.

The power cut is bounded together with damage (`MaxDamage`): a cut is one of the troubles.

### PresyncSession (`internal/presync`: `session.go`, `run.go`, `recovery.go`, `ownership.go`, `record.go`; the caller in `internal/app/run.go`)

Four actors share the state: the session's goroutine, the watchdog that stands between it and the
run, the run itself (which reads the mail), and the person at the computer. Around them the computer
may be restarted and the program killed, for `MaxRuns` runs one after the other.

| Code | Action |
|---|---|
| runSession, S2 to S9, a state of the source per action | `AcquireLock`, `Recover`, `Detect`, `Recheck`, `Snapshot`, `Write`, `Mark`, `Check`, `Start`, `Adopt`/`Await`, `Poll`, `Wait`, `Leave`, `LeaveRunning`, `Close`, `PreQuit`, `Ask`, `Post`, `Exit` |
| runWatchdog: the session's answer, the deadline, what the run is told | `Return`, `Deliver`, `Interrupt`, `GiveUp`, `Tell` |
| releaseLatch: the lock is freed by the later of its two holders | `FreedBy` in the session's return, `FreedByReading` in the caller's |
| app.Run: start of a run, end of its reading of the mail | `Begin`, `Release` |

`GiveUp` and `Tell` are two steps because the watchdog stores `abandoned` before it reads what the
session has left: a session between its last look at `abandoned` and its start may still start
Thunderbird in between (`ToldIsTrue` is about this).

Abstractions. A Thunderbird is the number of its appearance, which stands for the pair of process id and
start time the code compares; a restart of the computer ends all of them. The person's own Thunderbird
never carries this session's `-profile` argument, and Thunderbird's restart of itself is not modelled.
Limits of time (start, wait, close, the watchdog's) are choices: any of them may have passed. What a
probe shows depends on the platform, `BundleWide` being macOS: processes a probe misses, a quit request
that reaches the whole bundle, a launcher that ends before the program it starts shows. By the time of
the next run's recovery an earlier start has shown or failed, unless the launcher was `slow`. `Trouble`
names what else may go wrong: among it saves of the record ("store") and its removals ("clear", whose
error the code ignores, session.go:202) fail.

What is not claimed: with `BundleWide` a request to quit reaches every Thunderbird of the bundle, and
one the person opens between the last check and the request is asked too; the design states
that window as its residual PC1 (docs/design-thunderbird-presync.md:115-120), so `AsksOnlyItsOwn` is
checked without it. A probe that fails at the recovery makes it forget a leftover; and a record of a
launch that never proved its child matches the person's own later Thunderbird of the same profile
(SAF-5 of the design): the models contain both and no property excludes them. A record whose removal
failed as its Thunderbird was left to the person stays, and the next run takes that Thunderbird for a
leftover (section 6). So `LeftByRuleIsTheirs` claims that it is never asked to quit, and that no record
but this very one (`kept`) names it.


### ArchiveDelete (`internal/archdelete`, `internal/delmark`, `internal/keyring/forget.go`; a backup's guards in `internal/app`)

State: the folder (its identity, its names, the delete marker, the lock, whether its drive is plugged
in); of each computer its open deletes as its deletion log tells them (`log`), its record of the
encrypted archive (`keys`), the delete it runs (`dpc`, `job`) and the backup it runs (`bpc`). Only the
folder travels between computers. `half`, `kept` and `arch` are history, read by properties only.

| Code | Definition |
|---|---|
| Plan: planOf, planUnfinished, planMarkerNoAnchor, planNoAnchor, planFolderGone | `Plans` and the five plans it chooses from |
| DeleteLog.UnfinishedFor, with the marker's run | `Unfinished`, `OfFolder`, `Marked` |
| Execute, steps 0 and 1 | `LogStarted`, `LockAndRecheck` (with `SamePlan`), `LookGone` |
| removeFiles, markFolder, logMarked, removeMarker | `MarkFolder`, `LogMarked`, `RemoveName`, `BeginLast`, `RemoveLast`, `RemoveMarker` |
| release, tidyFolder, logFolder, stopNoAnchor | `Release`, `TidyFolder`, `LogFolder`, `StopNoAnchor` |
| keyring, Forget, finish, step10 | `ForgetKey` or `SkipKey`, `LogForgotten`, `Finish` |
| an error or a panic before a step, a kill | `StopDelete` |
| app.Run: RefuseUnfinishedDelete, outGuard.before, the lock, both again, the save | `BackupChecks`, `BackupLocks`, `BackupSaves`, `KillBackup` |

A name of the folder is one of five: a recorded mail file (`Mail`), the state files that go late, the anchor
(a plain archive's manifest, an encrypted one's vault), a mail copy that is not recorded, a file of the
person's. The sizes, digests and times by which the code compares a manifest are one number, `rev`,
that a save changes. A run's number stands for its identifier; -1 is a marker whose run cannot be read.

Abstractions. Steps 2 to 5 (schedules, settings, working folders) change nothing here and are a place
where the delete may stop. A computer runs one delete at a time. The lock and the check under it are
one step: nobody else acts on a folder that is locked. A drive goes only while no lock is
held in it; during step 6 the code sees its absence as names it cannot remove, which is the "held" case. Between
the release of the lock and the tidying it goes only when `Trouble` contains "away" (see Findings).
The person answers truthfully that a delete was finished elsewhere. A marker copied by hand into
another folder, a marker taken out by hand, links, protected folders and read-only files are left out, and
so are a new encrypted archive in a deleted one's folder and a backup that a person starts while the
drive is not there.
### ArchiveLock, VaultKeyFile and KeyPromise (`internal/lockfile`; `internal/vault`: `store.go`, `vault.go`, `restore.go`)

`ArchiveLock` is a layer: its actions take the process, and `VaultKeyFile` extends it and says when a
process acquires. A process's place in the lock has its tries and whom they met: a probe that goes on,
or a rival. The system's lock belongs to a file, not to a path, so the state has the file at the
path (`path`), what each file says (`says`) and who has the lock of each (`owner`). Removing, replacing
or overwriting the lock file is `Upset`; a probe holds the lock for an instant.

| Code | Action |
|---|---|
| AcquireWait, tryLockFor, the nonce written | `OpenLock`, `TryLock`, `TryAgain`, `Refused`, `Stamp` |
| Lock.StillHeld, Release, Held | `StillHeld`, `LetGo`, `Probe`/`ProbeEnds` |
| readCopies, openVault | `Readable`, `Opening`, `Opened` (the copy an open trusts), `Forked`, `NeedsHeal` |
| PrepareCreate, PrepareNewRecovery, PrepareRestore, shown and confirmed | `PrepareCreate`, `PrepareNewRecovery`, `PrepareRestore`, `Confirm` |
| ChangePasswordAt, Heal | `AskPassword`, `AskHeal` |
| mutate: lock, read again, judge, save | `TakeLock`, `Judge` (by `Allowed`), `WritePrimary`, `WriteMirror` |
| PendingCreate.Commit's clean-up; the end of a change | `Clean`, `Return` |
| a kill; damage; the other computer of a synced folder | `Kill`, `Damage`, `Arrive` |

`KeyPromise` says what the holders of the secrets may rely on, with no copies, locks or processes: the
secrets that open the archive change by one whole step at a time. `VaultKeyFile` implements it under the
refinement mapping `force <- InForce(copies)` (the other variables are its own), checked as the property
`Promise`: each step of the key file is a step of the promise or changes nothing it can see.

Abstractions. The copies cost the same to open, so the order of tries is generation, then primary. A copy
that cannot be read for an I/O error, an older copy of this archive put back, the highest possible
generation and the reading back of what was written are left out. The part of the restore that
compares the folder and the sealed record with the key file is taken to succeed. A create is offered only
in a folder whose key was never handed out. A password's secret is drawn where the change is judged.
Discarding a prepared change does what a kill does. The code ignores the folder's sync, so a write lands
or fails. Trouble keeps out of the instants between the last reading under the lock and the writes that
follow it, which nothing in the code could tell.

### CaptureRun (`internal/app/run.go`, `localrun.go`; `internal/state/gaps.go`; `internal/export/exporter.go`; `internal/index/index.go`)

State: the run (`kind` of reader, stamp, mode, the stem its naming rule gives), where it is and what its
walk remembers (`walk`: `sourceRun` and the run's own errors), the message being captured (`cur`), the
manifest in memory and on disk (`mem`, `saved`: records and gaps), the index's open batch and rows
(`pend`, `rows`), and the pages and zips by key and stem. A file, row or record carries the number of the
capture that made it, so that a property can ask for the same one. `outcome`, `missed`, `partly`, `gone`
and `calm` are what the last run said and what was true of it; `unindexed` is what the index errors count.

| Code | Action |
|---|---|
| Run to the source loop: load, sweep of orphan zips | `Begin` |
| the reader: the next item, its faults, a table that breaks off | `AtItem`, `ReaderFault`, `Vanishes`, `TableFault`, `Delivered`, `Absent` |
| handle: stop, a folder not attempted; Export: keepDegraded, the split of a reused Message-ID, the skip, the retry | `Stops`, `LeaveUnwritable`, `Keep`, `Skip`, `StartCapture` by `Key`, `KeepsDegraded`, `Archived`, `Improves` |
| Export's writes: zip, page with record and row, the former stem's files | `WriteZip`, `WritePage`, `RemoveOldPage`, `RemoveOldZip` |
| handle: whose fault a failed write is; probe; the breaker | `FolderFails`, `ItemFails`, `Panics`, `ArchiveFails` by `WriteFault`, `Probed` |
| observe, recovered, closeReadGap, closeVanishedThisRun | `Observe`, `Recovered`, `LateClose`, `VanishedNow` |
| checkpoint, commitInOrder | `Checkpoint`, `Flush`, `Save` |
| finish of a walk, settleReadGaps, CloseUnobserved | `Finish` |
| Run's end: outcome; lock lost | `Report`; `Lost` |
| a kill, a lock file removed | `Kill`, `LoseLock` |

`Observe` and a capture's end go on through `Goto`, which is the callback that checkpoints when enough
was processed. The last commit after a walk does not look at the lock; the model neither.

Abstractions. A message's content is its envelope: two items are one message when Message-ID, folder and
envelope agree. A read is whole, with attachments that hold no bytes, or without some attachments. A PST
has a store id (without one, faults are counted per folder). The ledger's locators are kept as what they
name. Left out: preserved originals, the ledger's caps and overflow entries, settling a partly read
record under another key, legacy and unknown records, stubs of unparsed mail, `-since`, folder pages and
the report, working copies, what an Outlook export skipped, search folders, several sources, the
last-run record (`outcome` stands for it) and the index's commit at a thousand rows.

Two cases are excused by name in `OutcomeIsTrue` because the code does not meet them (section 6): a message
whose Message-ID another message of its folder bears (`Shadowed`), and a maildir place of which a second
file vanished (`gone`). Rows the index reported as errors are excused in `IndexIsSuperset` (`unindexed`).

### CopyExport (`internal/app/copyexport_{run,final,reconcile,record,history}.go`, `internal/desktop/exports.go`)

State: per run of one chain its folder (marker, message files, the three documents by the number of the
attempt that wrote them, what the sums list), its record (plan, a line per message, gone), its sealed
line and its journal lines; the chain's lines of the ledger; the export slot; and where each run's
goroutine, and the handler of the Finish button, is (`job`).

| Code | Action |
|---|---|
| start: folder, record, journal, marker; refusedStart | `Start`, `CreateRecord`, `JournalStart`, `WriteMarker`, `RefusedStart`, `RemoveRefused` |
| the loop, exportOne, placeFinal, the record's line | `NextMessage`, `Fetch`, `Place`, `RecordLine` |
| finalize, ceFinish.run | `Presence`, `WriteDocument` (README, manifest, sums) |
| ceSeal.run under ledgerMu | `Seal`, `AppendLedger`, `MarkerAction`, `JournalEnd` |
| cancelAction, wedged | `Cancel`, `Wedged` |
| FinishAsPartial, CheckAndFinish, MarkGone | `Finish`, `CheckAndFinish`, `MarkGone` |
| ReconcileRun, the launch sweep, CompactJournal | `RecoverLedger`, `Observe`, `Launch`, `Compact` |
| a panic, a kill, damage, the destination's drive | `Panic`, `Kill`, `Damage`, `Unplug`, `Plug` |

A sealed line carries `parts`, the runs its set fingerprint covers, for the hash's state: two equal states
are two equal lists of parts. `WedgeAt` names the steps in which a call may hang, `Torn` the removals that
may fail or that a kill may cut short; both are constants because some of those instants are known not to
hold (section 6). A download that ends after the run was abandoned is still placed, beside a Finish as
partial of the same run: only its line is not written. A stop because the archive went away takes back lines
of messages that failed for good (`removedMayBeBack`, in `RecordLine`).

Abstractions. One chain, whose messages are exported in one order. The preview and the start are one step.
One finisher is at work at a time, and "gone" is not answered while it works on that run. "Gone" is
answered through a card, so after a reconcile that has appended a sealed run's ledger line. Identity
verdicts other than present and absent, Locate, readable copies and attachments, the reasons of a stop,
and the sign-in's posture are left out. Amendments of the presence check are appended in message order, as
many as succeed. A cancel that nobody reads is left out, and so is a loss of files after the end, which no
step sees. A run is finalized at most `MaxTries` times.

### OpenArchive (`internal/desktop/keys.go`; `internal/keyring`: `keyring.go`, `reader.go`)

State: one archive's place in the registry (`entry`, `held`, `shut`, `away` for a delete or a forget-all,
`gen`, `opening`); every key drawn, as open, locked or destroyed, with its uses; the entries with their
reader, the lease of a reader being made, and how far a close of it has come; the readers and the views
they loaded; the requests, each at the call it is in; and what a peek sees of the record (`ver`), which
moves twice in a commit, with the generations whose files are there.

| Code | Action |
|---|---|
| open, for the person or for a request (remembered) | `Unlock`, `Ask`, `OpenEnds` (kept by `KeepsOpen`) |
| readerFor, Lease, ReaderSource | `FindReader`, `BeginLease`, `EndLease`, `BeginBuild`, `EndBuild`, `KeepReader`, `DropReader` |
| acquire, release, Lock of a key | `Acquired`, `Released`, `LockKeys` |
| ensure, fresh, load, loadOnce | `Look`, `LookAgain`, `PeekBefore`, `ReadPointer`, `ReadChunks`, `PeekAfter`, `Publish` |
| withIndex; readUnit, moved | `UseIndex`, `Used`; `ReadUnit`, `OpenUnit`, `Missed` |
| keyEntry.close, Reader.Close, readView.close | `CloseTakes`, `CloseLocksKey`, `CloseLocksLeases`, `CloseLocksReader`; `EndClose`; `CloseView` |
| lock, reap, lockExcept, lockAll | `LockArchive`, `Reap`, `LockExcept`, `ShutDown` |
| hush; LockForDelete, EndDelete | `Hush`, `HushCloses`; `MarkDelete`, `LockForDelete`; `EndAway` |

The backup (`CommitPointer`, `CommitMirror`, `SweepOld`) is not translated here but taken from what
`SealedRecord` shows of it to a reader: files first, the pointer's rename, the mirror's rename, a later
sweep of what neither names.

Abstractions. The two seconds in which a view counts as fresh are a choice. Every commit seals every message
again, the worst case for a reader. A peek's two readings are one step, and so are a failed load and
what its caller ends. The bounded waits of a close and of a forget-all are left out (the steps they wait
for may come later here too), and so are an uninstall (which does what Shut down does, and may be undone), the
watchers a lock calls, the memory reservation (`MemGuard`), the go-back page, the scratch index's file, a
delete's other spellings of the folder, and a key file that cannot be read during a lease.

## 4. The runs

| Run | Instance | What it shows |
|---|---|---|
| `memguard` | 2 derivations, 3 reads, budget 3, sizes from below zero to the budget | mutual exclusion of peaks, no lost wakeup, both liveness properties. Three reads against a budget of three make one read, two reads and all three fit or not; two derivations queue behind each other |
| `record_kill` | 1 unit, 3 runs, 4 writes of chunks or units more than a save needs, 3 generations; writes, removals and the lock proof fail | kills anywhere: three runs are one that is killed, one that loads what it left and saves, and one that sweeps what that superseded |
| `record_damage` | two troubles, each a damage of any kind or a power cut in which root files go back, each by itself | redundancy: one loss is survived, a full save heals two |
| `record_restore` | 4 runs, an older pointer put back | a restore needs one run to back up, two to supersede and sweep, one to load |
| `record_drop` | violation | see Findings |
| `presync_own` | Windows, both ways to start a run, 2 runs, 2 Thunderbirds, no restart; saves and removals of the record fail, Cancel, Stop, kills | whose Thunderbird is asked, what the run is told, what the next run recognises. Two Thunderbirds are the session's and the person's; the second run is the one that meets a leftover |
| `presync_lock` | macOS, scheduled, 2 runs, 1 Thunderbird, 1 restart; probes that miss, slow starts, a record that is not removed or is spoilt | the lock covers every reading and is freed once; a session that hangs keeps nobody from reading |
| `delete` | 2 computers (symmetric), a drive that is not unplugged between the release and the tidying, plain and encrypted, 2 deletes, 1 backup, 2 identities of the folder; held names, a full drive, a log that cannot be written | a half-deleted archive is marked, keeps its anchor and no backup enters it, no key is forgotten before its vault, "complete" is true, no archive is begun among the person's files. Two deletes are one that stops anywhere and one that finishes it, on the same computer or on the other; two identities are a folder made again, or a drive plugged in again |
| `keyfile` | 2 processes (symmetric), 4 secrets, 2 tries, one of: a probe, a touched lock file, a damaged copy, a change from the other computer; writes fail, kills anywhere; a new archive, a whole key file, or one nothing opens (890,270 states) | the key file keeps `KeyPromise`, what a change is told is true, damage to one of two equal copies costs nothing; the lock refuses for a rival only and its holder is left alone. Two processes are the two creates, or the change and the one prepared before it; one trouble is enough to take the lock or a copy from either |
| `copyexport` | 2 runs, 2 messages, 2 upsets (kills, failed writes, panics, lost files, an unplugged drive, a compaction), 2 finalizations of a run; the placing of a file may hang past an abandonment (3,533,322 states under the `VIEW LiveState`, which leaves out what was asked of a run that is out of its loop: nothing reads it any more) | an unmarked folder is whole, the set fingerprint never forks, no message is forgotten. Two runs are the export and its retry, two messages one that is exported and one that is left; the second upset meets what the first has left behind |
| `open_archive` | 2 requests (symmetric), for a message or the index; 3 keys; two of: a commit, a lock of any kind, a lost chunk or unit (4,085,304 states) | a lock is final for everything opened with the archive, whatever was on its way; answers are true. Three keys are an entry, its reader's lease and the entry of a second opening; two commits are needed for a message to be missed twice, a lock and a commit to land in one load |
| `capture_run` | 3 runs, 2 upsets of 18 kinds; a PST or a maildir of 2 folders and 5 items: two files of one message, a message of the same unique part, a copy in the other folder, and another message that reuses the Message-ID; a checkpoint after 2 items (1,465,219 states) | what a run says is true of what it saved; a calm run ends ok with every message captured whole; gaps are kept; records have their files and rows. Three runs are one that fails, one that builds on what it saved and fails again, and one that heals. Two runs with three upsets (7,173,704 states) and three runs with three upsets over four items (12,282,768) were checked too, beyond the time of a regular run |

`KillNeverLocksOut` says "without damage": after a power cut on a drive that loses renames the list
may be one generation ahead of the pointer, which `checkF12` refuses as an unfinished save;
docs/design-encrypted-archives-phase2b.md lists this as an accepted residual. That the files a record
names survive a power cut is not run but proved, for any number of cuts (section 5). The type invariant of a module is
`TypeOK`; it is checked where a theorem states it (`record_kill`), and was checked while the other
modules were written. Deadlock is off in
every run but `memguard`'s because a bounded number of runs, generations, secrets and draws ends.

Fairness. `memguard`: wake-ups and announcements. `presync_lock`: only the watchdog's steps (its
timer, the delivery of an answer, what it tells the run); the session, which may hang on a dead mount
for ever, and the person owe nothing, and `ArchiveGoesOn` holds all the same. It is checked for
scheduled runs because the watchdog is the same code for both.

## 5. What is proved

Every theorem holds for any values of the constants that satisfy the named assumptions
(`BudgetAssumption`, `SizesAssumption`, `PartiesAssumption`; `BoundsAssumption`: the bounds are
naturals; `MarksAssumption`: "no file" and "unreadable" differ from every file; `GraceAssumption`: an acquirer
tries more often than programs probe, which `acquireGrace`, fifty times the pause between two tries, is
for; `UpsetsAssumption`; of `CaptureRun`, `WalkAssumption`: the source is a sequence that lists a folder's
messages together, as its readers do; `PlaceAssumption`: files of one unique part are of one folder, because a
maildir file's locator has its folder in it (localwalk.go:355); `BodyAssumption`: a fingerprint is
never the mark of the plain key; `NoneAssumption`: "no record" and "no gap" are neither;
`ProcsAssumption`: no process has the name of one of the lock's marks;
`RequestsAssumption`: no request has the name of the person or of nobody).

* `MemGuardProofs!NoWakeupIsLost`: `Spec => []NoLostWakeup`, from the types and from `waiting`, `used` and
  `deriving` changing to a lower or false value only in steps that broadcast.
  `PeakIsTheLarger`: `Spec => []PeakIsBounded`. `Books` says that `used` is the sum of what the reads in hold,
  `OneTurn` that one derivation at most has the turn and no read holds bytes beside it. That
  a sum over a finite set grows and shrinks with its members, which would be an induction, is proved by way of
  a smallest set at which it would not.
* `SealedRecordProofs!TypesAreKept`: `Spec => []TypeOK`. `TypeOK` is not inductive by itself: what a
  commit puts on disk is read from the memory at its step. `TInv` adds `PositionOK`, what is known at
  each program counter.
* `SealedRecordProofs!SavedRecordIsWhole`: under `Quiet` (nothing is damaged or put back from outside, and
  no unit is dropped, with which the property fails, see Findings), `Spec => []NamedFilesIntact`.
  The property speaks of the one pointer a load would take now, but a power cut may bring back an
  older one, so the invariant speaks of *every* copy a cut could leave: `TakableWhole` says that each
  copy that is not older than what has reached the drive is whole. To keep it, `Running` says that
  the run's generations are ahead of every copy and that its records never go below a takable copy's
  revisions (so a capture's new name is never one that a copy names), `Ordered` that two
  copies of one generation are the same record, and `AtStep` what each program counter adds. The
  sweep's step rests on the record loaded being the best copy with nothing lost to a cut any more.
* `SealedRecordProofs!ListedFilesStay`: under `Quiet`, `Spec => []ListedFilesIntact`. `ListInv` says of the
  list on disk, and of the one a cut may bring back, that what it calls live is whole and that the
  records of a run do not fall below those it was made for.
* `SealedRecordProofs!SaveAlwaysHeals` and `OneLossAlwaysSurvived`: `Spec => FullSaveHeals` and
  `Spec => OneLossIsSurvived`, with every kind of damage, restore, cut and failure, in any number. `HealInv`
  says that every list is of its pointer's generation and names no later one, that the last durable list is
  no later than the run's generations, and what is on disk by each step of a save: its section
  twice, the pointer, its shard before its list.
* `SealedRecordProofs!AlwaysLandsAsNewest`: `Spec => LandsAsNewest` unless a shard of the file list is lost.
  A list whose shard is lost is not read; with a lost pointer as well, an older pointer then
  lands on a generation the list has had, and TLC shows that case with `Damages = {"pointer", "shard"}` and two
  troubles. `NewestInv`: no copy on disk is ahead of the run's generations, nor is a list, a cut's included,
  and every list has its shard.
* `SealedRecordProofs!KillNeverLocksAnyoneOut`: `Spec => []KillNeverLocksOut`, unless an old copy is put back;
  the property is itself about a folder without damage or cuts. `KillInv`: no mirror and no list is ever
  ahead of the pointer, a list of its generation is its own, the list it was made after is still there or
  replaced by a later one, and before the first pointer there is no unit and no shard; so what a
  kill leaves is the record to go on with, or no record yet.
* `SealedRecordProofs!PutBackIsWholeOrRefused`: `Spec => []AcceptedIsIntact` under `Handled`: any number of old
  copies put back between runs, with kills and failing writes and removals, but nothing damaged, no
  power cut and no unit dropped. With dropped units the property fails (see Findings); with one power
  cut the run's instance passes (1,550,902 states), and its proof is left. `BackInv` follows the copy in the user's hands
  beside the one in the folder: unless the list tells that the copy is old, which is when it is refused, its files
  are all there (`KeptWhole`), because the sweep removes only what was retired before the run started and the list of
  the run that retires it is on disk by then (`Memory`, `AtSave`).
* `ArchiveLockProofs!RefusalsAreFair` and `HolderIsSafe`: `Spec => []RefusedByRivalOnly` and
  `Spec => []HolderIsLeftAlone`, of the key file's specification, whose steps are the lock's or leave the
  lock alone (`LockSteps`). The invariant `LockInv` needs three things besides the types. `TriesInv`: a
  process that has met no rival has met a probe of its own at each failed try, so its tries are at most the probes, and fewer
  than its `Tries`. `AloneInv`: while nobody has touched the lock file, everybody's file is the one at the
  path, so two owners of it would be one. `AstrayInv`: files in use that are not at the path are at most
  as many as the touches, so that a file that is created is always a fresh one.
* `CaptureRunProofs!SupersetAlways` and `WrittenAlways`: `Spec => []IndexIsSuperset` and
  `Spec => []RecordedIsWritten`, for any source and without its assumptions. Neither is inductive: both speak
  of the manifest on disk, which is what is in memory at some step. `IndexInv` says of the manifest in memory
  that each record has its row on disk, in the open batch or counted as lost; of the one on disk the same
  without the batch; and that the batch is empty at the save, which is the order of a checkpoint.
  `FilesInv` says of both manifests that every record is written, and of the capture in hand what its
  steps rely on: its number is above both manifests' until its record is made, its page is there before
  the old one goes, the stem to remove is not the one it wrote. Most actions are proved once to be steps
  `Aside`, which touch neither records nor files.
* `CaptureRunProofs!OutcomeIsTrueHolds`, `GapsAreKeptHolds` and `CalmRunHealsAlways`: `Spec => []OutcomeIsTrue`,
  `Spec => GapsAreKept` and `Spec => []CalmRunHeals`, for any source, reader, breaker, checkpoint distance, number
  of runs and upsets. What a run says at its end rests on what its walk keeps up at every item
  (`RunInv`). `RecsOK`: the plain key's record is of some message of that Message-ID and folder, and
  another message's own record comes after it. `MetInv`: what the walk has met is in hand, recorded, named
  by a gap of this run, or a file vanished at its place; `GoneInv`: a gap of this run says "vanished" only of such a
  place. `PartInv`: a message of a PST that is recorded as partly
  read has a gap of this run that no other message's capture closes, unless the run read something in part itself. `FaultedInv`: a
  folder the walk could not read has its gap, so `EndInv`, what the last look at the ledger leaves, is of
  this run or of such a folder. `EndsOK`: where the run can be once its walk is over. These carry over to what
  `Report` says (`ToldInv`), because the manifest in memory is then the one on disk. For `GapsAreKept`, `OldInv`
  compares the two manifests of a PST's run: what the one on disk names is named or archived in memory too, or was
  not met by a completed walk; `PstInv` says that such a ledger never names a message by a locator another
  one shares. For `CalmRunHeals`, `CalmInv` says of a run without trouble so far (`AllWell`) that whatever it met
  is recorded whole (`Healed`), also where an earlier run had left less.
* `ArchiveDeleteProofs!HalfAlwaysMarked`, `BackupsAlwaysKeepOut` and `AlwaysRemovesWhatItShowed`:
  `Spec => []HalfIsMarked`, `Spec => BackupsKeepOut` and `Spec => []RemovesWhatItShowed`, from one invariant and
  `MailAssumption` (the anchor is not among the mail). `Inv` says that a delete in its locked steps and a
  backup that writes hold the lock; what the plan made again under the lock found (`Rechecked`: a
  re-run without an anchor really has none, a whole plan names the anchor and is of this save), which nobody
  without the lock can undo; that a delete which may remove names has the marker or no anchor to spare;
  and that the marker goes only after the anchor. No step of the log is needed for it: what a computer logs
  decides only which plan it makes.
* `ArchiveDeleteProofs!VaultGoesFirst`, `NeverAmongTheirs` and `CompleteAlwaysTrue`: `Spec => KeyOutlivesVault`,
  `Spec => NoArchiveAmongTheirs` and, assuming `Stays` (no drive is "away" while its folder is tidied),
  `Spec => CompleteIsTrue`; with `KindsAssumption` (an archive is plain or encrypted) as well. These are about what a
  delete concludes at its end, and that does rest on the log; `FolderInv` is `Inv` with what a plan,
  a marker and a line of the log can be trusted for. `PlaceInv`: an encrypted or a marked folder that has
  lost its anchor has no mail left. `PlanInv`: how far the removals are at each step. `VaultInv`: while the vault is
  there, no delete of any computer is past its removals and no log says that the folder was
  removed, so a key may be forgotten when one is or does. `KeptInv` and `WritingInv`: where the folder was kept
  nothing of an archive is left, nobody's plan names the files that stay, and an unattended backup writes
  only where its guards saw no reason against it. For `CompleteIsTrue`, `Sound` says that a marker is
  there or nothing recorded of the archive is left; `DoneStays`, `SoundStays` and `SettledStays` show that no step of
  anybody ends what they say of one archive, because a new one has a number of its own. `MarkedInv` and `NoteInv`
  give this for each archive that a `marked` line names; `EndInv` adds that a `folder removed` line and the plan
  that rests on it are of a folder that has another identity now or holds nothing recorded. With a
  drive that goes between the release and the tidying, this last part is not an invariant: the proof
  attempt led to the finding below.

* `PresyncSessionProofs`: the types, and every safety property the runs check, each from a part of the
  invariant. `LockIsAlwaysNeeded` and `NobodySyncsDuringRead` rest on `LockInv`, which run holds the
  profile's lock at each place of its session, its watchdog and its caller. `AlwaysAsksOnlyItsOwn` and
  `AlwaysTheirs` assume `Addressed` (a request to quit goes to one process; on macOS it goes to every Thunderbird,
  and the person may open one between the check and the request) and rest on `OlderInv`: what was left
  to the person is older than the start of any session that goes on, and what is asked to quit is younger;
  and the record is the one that could not be removed as the last was left, or names none of them.
  `ToldIsAlwaysTrue` assumes `Prompt` (no slow or late launcher) and `LeftoverAlwaysRecognised` assumes
  `Plain` (the only trouble is a record that cannot be saved or removed); with the others they do not hold, see
  Findings. `StartedInv` says that a run starts one Thunderbird at most, and what its session may have said by
  then; `RecordedInv` that it is on record from before its start until it has gone or is left to the person.
* `CopyExportProofs`: the types, and all three properties, for chains of any length. `UnmarkedIsAlwaysWhole`
  assumes `LoopHangs` (a call hangs for good only in the loop over the messages), `SetNeverForksAtAll` and
  `NothingIsEverForgotten` also `WholeRefusals` (a refused start's record goes in the step after its
  ledger line: no kill between them, no failed removal); without them the properties fail, see Findings, and the run's instance satisfies both.
  Each part of the invariant rests on the ones before. `ApartInv`: a run has its own writer only, or it was
  abandoned in the loop and the finisher has it, and a run that finalizes is not sealed yet.
  `DocumentsInv`: the attempt's documents are on disk as far as its writer has come, and those of a sealed run
  stay. `LedgerInv`: at most one sealed run has no line yet, and its parts go on from the last sealed
  line; a run in hand has its record, is not gone and has no line. `MessagesInv`: the loop has an outcome for
  every message it passed and none for the next ones (a verdict "failed for good" counts once the run is out of
  its loop, as a stop may take it back until then); and each message of a sealed run is provided for or planned by
  a kept record, which the removal of a complete chain's records keeps because it is judged by
  what is exported, not by what is listed. `WithLines` appends the lines of a sweep one after the other; what
  it returns is proved by way of the least number of runs at which it would not hold.
* `OpenArchiveProofs!LockIsFinalHolds`: `Spec => []LockIsFinal`. What is open is under locks of its own (the
  registry's, the key's, the reader's, the view's), each held for an instant, so a lock of the archive may
  come between any two steps of a request; the invariant `LockInv` says who answers for what is open at each of
  them. `RegInv`: an opening that a lock has overtaken is of an older generation, and does not come in. `EntInv`: a
  closed entry hands out nothing, and its close has what it took from it. `ReqInv` and `BuildingInv`: one
  request makes the entry's reader, and its lease is shown to a close as long as it is being made. `LeaseInv`: a
  lease with a key in the clear is its maker's, its entry's or in the hands of the close. `LoaderInv` and `ViewsInv`:
  one request loads a reader, which has one open view at most; `KeptInv`: a reader that loads or
  has a view is reached by a close. `LeaseInv` and `KeptInv` with a close that has ended are the property. The steps
  are first proved to be of kinds told by what they do to the records (`RequestKind`, `OtherKind`), and
  what a request leaves alone of the others' is proved once (`OthersFrame`, `EntsFrame`, `ReadersFrame`).
* `OpenArchiveProofs!AnswersAlwaysTrue`: `Spec => AnswersAreTrue`, from `AnswerInv`, which adds to `LockInv` how the
  record, the views and the requests stand to each other. `RecordInv`: what the pointer names is on disk, but for
  what was lost from the first. `ReaderInv`: a view is of the generation its peek saw, a reader's last one is its newest
  unless it is locked, and it is stale only when the record has moved since. `LoadInv`: a load is newer than every view of
  its reader, what it read is what its peek saw if the record has held still, and a second load begins after a
  change; so a load that finds the record where it was has a true reason to refuse, and two that were overtaken make
  two moves. `HaveInv` and `MissInv`: a request that looks again ends up with another view than the one
  it missed in, since that one is closed, or stale, or older than what is loaded. `EndedInv`: a lease that is
  locked is of an archive the registry has let go, unless its maker has just ended it; this is why "locked" is
  true although a request learns it from the lease and not from the registry. Steps other than `Publish` leave the views
  as they are to others (`ViewsStay`), so a request that does not move keeps what it has (`DataStays`).

Only model-checked: liveness (out of the prover's reach);
`VaultKeyFile` apart from its lock, with its refinement; `AcceptedIsIntact` with power cuts.

## 6. Findings

* **A dropped unit and a second capture in one run** (`record_drop`). exporter.go:891 and units.go:128
  say a unit is never rewritten in place. When a capture of a message has nothing to seal of a kind, the
  record's entry goes, and a second capture of the same message in the same run starts again at
  revision 1: `Write` may then replace the file the durable record still names. Killed before
  the next save, the record names bytes that are gone.
Seen on the way, without a run of their own:

* A drive unplugged while its folder is tidied. archdelete.go:271-273 says of a re-run without an anchor that it
  is never complete while the folder holds files it can no longer identify, and execute.go:256 "never complete".
  The lock is given back before the folder is tidied, and `tidyFolder` takes a folder it does not find for one
  that is gone (execute.go:778-781). Unplugged in between, the drive's folder is logged as `folder removed`;
  the next Delete rests on that line without asking about the drive or the person (rerun.go:46-61) and ends
  "Deleted. The folder is gone" (execute.go:1158-1159), with the archive's mail on the drive. It takes an archive
  that has lost its manifest to something else than the delete, and a folder whose parent can still be
  reached, such as a mount point. `CompleteIsTrue` fails when `Trouble` contains "away", with one computer, one mail file
  and three deletes: one that is stopped, one that loses the drive, one that says complete (the theorem assumes
  `Stays`).
* A launcher may report an error and have started Thunderbird. session.go:303-304 says that a Thunderbird the
  session starts can always be told from the person's own next time, but any error of the launcher removes
  the record (session.go:326). On macOS the launcher is ended at a deadline (env_darwin.go:496-503), also
  after its request went out: the Thunderbird that comes up then is named by no record, and the next run takes
  it for the person's. `LeftoverIsRecognised` fails when `Trouble` contains "late" (the theorem assumes `Plain`).
* session.go:202 ignores the error of the record's removal. session.go:345-348 says that the record of a
  Thunderbird left open to the person is cleared "so the next run treats it as an open Thunderbird and leaves it
  alone"; when the removal fails, the next run announces that Thunderbird as its leftover instead. It does not ask
  it to quit. In the same way a launching record whose removal failed before the start matches the
  person's own later Thunderbird.
* A message that a request missed is looked for once more "in what is current" (reader.go:267-268), but `moved`
  marks the view stale only while it is the one that was missed in. When another request has replaced it
  meanwhile, the second look takes the replacement, fresh for two seconds, although the record has moved
  on: after two commits and a sweep in that time a message that is there is answered with not found. So
  `AnswersAreTrue` asks for two different views, not for a current one.
* errBusy's comment (reader.go:98) speaks of two commits in a row. The peek covers the pointer and its mirror,
  which a commit renames one after the other, so one commit can overtake both loads. `AnswersAreTrue` counts
  renames.
* withIndex (reader.go:421-423) answers a search whose view two reloads closed in turn with the locked page,
  with nothing locked.
* A key's lock that lands between ensure's last check and the publication leaves a view that `Reader.Lock`'s
  take came too early for (reader.go:242-249). Every caller of Lock calls Close after it, which waits for the
  load and takes that view; `LockIsFinal` rests on this.
* A run of the sealed record killed between the pointer's rename and the list's leaves superseded files
  that no later list names and no sweep removes (store.go:714-717 takes such files as foreign). Nothing is
  lost but disk space.
* A kill between a refused start's ledger line and the removal of its record, or a removal that fails
  (copyexport_run.go:403 ignores it), leaves a record that the launch adopts. Finished as partial it is sealed
  without a sealed line in the ledger, and the chain's set state goes on without it: `SetNeverForks` fails when
  `Torn` contains "refused" (the theorem assumes `WholeRefusals`).
* Errors of the removals of a complete chain's records are ignored (copyexport_reconcile.go:686). When
  some stay, their cards may offer a message that a removed part exported.
* A "finishing" outcome is journaled and not looked at again: after a kill between the marker's removal and
  the journal's end, only Check and finish brings the end.
* Compaction drops the journal lines of an old settled run whose chain is not complete; the launch adopts
  its record without the end. When its marker stayed, its card offers Check and finish in place of the
  remaining messages, and that refuses if the person has changed the folder since.
* copyexport_run.go:144-148 promises that an export abandoned 30 s after Cancel makes no further writes when its
  hung call returns. Only the loop over the messages reads the flag (copyexport_run.go:240, 514, 546): a download
  that ends late is still placed, and a finalization that hangs in one write goes on to write the other
  documents, seals, acts on the marker and journals the end. When Finish as partial works on the same run meanwhile, the two mix their documents:
  `UnmarkedIsWhole` fails when `WedgeAt` names a step of the finalization (the theorems assume `LoopHangs`).
* Two different messages of one folder may bear one Message-ID. When the first one's write fails, its gap is at
  the Message-ID, and the second one's capture closes it (localrun.go:299): the run ends "ok" and the first is
  neither archived nor named, against P4 and P11 of docs/design-fault-isolation.md. In the same way a
  partly read message that was never captured is "kept" against the other's record. `OutcomeIsTrue`
  excuses these (`Shadowed`).
* Three files of one maildir unique part: the first cannot be read, the second vanishes and replaces the gap's
  reason, the third is captured and closes the gap. The first is unnamed (excused as `gone`).
* A capture that fails in one folder takes over the gap that an earlier run recorded for another folder's copy
  of the message (only a gap of this run gets a locator of its own, localrun.go:227). Until the walk comes to
  that copy it is unnamed, and stays so when the run is cancelled before.
* A full run that reads in part a message which bears another's Message-ID replaces the other's record at the plain
  key, and the message's own older record, with what was missing then, stays beside it
  (exporter.go:231 and 298-309). Captured whole later, the message is so at the plain key; its older record still
  says that attachments are missing. `CalmRunHeals` therefore asks that each message is recorded whole at one
  of its keys, not that no record tells of anything missing; that this is not the same showed in its proof.
* settleReadGaps also runs after a walk that was cut short, when the sibling that could not be read was
  not reached (localrun.go:538). So `GapsAreKept` is claimed for a PST.
* run.go:979-981 says of a run whose lock is lost that nothing is written to the index. The deferred close commits
  the open batch (index.go:568); nothing is harmed, as rows are replaced by key.
* run.go:981-982 says the pages already written are reconciled by the next incremental run. After the naming rule
  has changed, a full run that is killed before its save has removed the page the saved record names, and
  the next incremental run skips the message. `RecordedIsWritten` therefore asks for the page of the
  record only when no later capture of the message was begun, and for some page of it always.
* A visible page does not always have its zip: a failed zip, and attachments that are all empty, leave none,
  and the record says so.
* Index rows that are lost in a run that is then killed are counted nowhere.

## 7. Not modelled

See the components in `PROJECT.json`, each with its reason: parsing and rendering (pure), the
database, the user interface (its handlers call the parts above), calls to the system's schedulers.
Time is not modelled beyond order: a deadline that has passed is a nondeterministic choice.
Of the copy exports, planning and preview, Locate, derived files and two finishers at once are left out; of
the key file, the codec, reading errors and an older copy put back. The map covers the parts whose
correctness depends on order and failure; most of the program by lines is parsing, rendering, user
interface and system calls, for which a model would only repeat the code.
