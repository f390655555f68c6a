# A formal model of walrust

walrust replicates SQLite databases to object storage: it reads committed frames
out of the write-ahead log (WAL), publishes them as numbered changesets next to
whole-file snapshots, and rebuilds a database from the newest snapshot and the
changesets behind it. This directory holds TLA+ modules for the parts of it in
which several steps can go wrong together, TLC configurations that check them on
small instances, and TLAPS proofs of central invariants for instances of any
size. `PROJECT.json` maps every definition to the lines it models.

## 1. Inventory

| component | state | operations | hard behaviours | module |
|---|---|---|---|---|
| owned stream (`replicator.rs`, `sync.rs`) | `SyncState` (sequence number, WAL offset, salt, frame chain, checksum), `state.json`, the publish intent | add, reopen, sync tick, flush, remove, snapshot tick, crash | crash between a put and the save; a put that landed although it failed; a WAL reset between two ticks; a busy checkpoint | `OwnedStream` |
| checkpoint blocker (`shadow.rs`, `sync.rs`) | a read transaction on the WAL | open, release, reacquire | other connections while it is released | `OwnedStream` |
| failover of the owned stream (`sync.rs`, `replay_sink.rs`) | the same on several nodes, a lease, cursors of followers | found, run_replication, restore, resume, pull into a file or a sink | racing founders, a deposed writer, uploads of a resume that are not answered, pulls cut short | `OwnedFailover` |
| WAL reader, codec, merge (`wal.rs`, `ltx.rs`, `merge.rs`, `layout.rs`) | WAL cursor | read in two passes, encode, decode, apply, merge | a WAL written, rolled back, restarted or truncated under the reader; databases that grow and shrink | `PagePipeline` |
| external base and fenced delta (`sync.rs`, `external_delta.rs`) | base cursor, progress file, delta chain | register, adopt a base, re-anchor, sync, follow | progress file behind the store, a new base during a sync, a deposed writer | `ExternalDelta` |
| leveled compaction (`compaction/`) | files by level, trigger counts | select, merge, write, read back, delete one by one | crash or failure between any two requests | `LevelCompaction` |
| retention (`prune.rs`, `compaction/prune.rs`, `legacy_manifest.rs`) | none | list, plan, delete | a plan out of date, restore points that need a deleted object | `LegacyFleet` |
| restore of a compacted backup (`legacy_restore.rs`, `planner.rs`) | staged file | list, plan, apply | objects merged or deleted between listing and reading | `LegacyFleet` |
| verify (`verify.rs`, `coverage.rs`) | none | list, check | listings of different moments | `LegacyFleet` |
| replica (`legacy_replica.rs`, `replicate.rs`) | local copy, its transaction number, state file | bootstrap, poll, apply, re-bootstrap | gaps, files compacted before it sees them, stops | `LegacyFleet` |
| upload cache and uploader (`legacy_cache.rs`, `legacy_uploader.rs`) | files and manifest on disk, upload channel | write, enqueue, upload, retry, mark, recompute, clean up, drain, resume; restore through the cache | uploads finishing out of order, a failure in the middle, restarts | `UploadCache` |
| watch, independent tasks (`watch_independent.rs`, `legacy_wal_sync.rs`) | cursor (TXID, checksum, WAL offset and salt), mode direct or cache | anchor, poll, snapshot, shut down | a WAL reset between the steps of a sync, re-anchoring after a crash | `IndependentWatch` |
| watch, default mode (`watch_shadow.rs`, `shadow.rs`, `legacy_shadow*.rs`) | segments of the shadow WAL by generation, progress file, two cursors, mode direct or cache | copy frames, publish, snapshot, checkpoint, clean up, shut down | commits around a checkpoint, crash between copy, publish and save, uploads that are late for a checkpoint | `ShadowWatch` |
| legacy stream and restore (`legacy_ltx.rs`, `legacy_manifest.rs`, `legacy_restore.rs`) | objects by generation and TXID range | discover, plan, apply, verify | objects overwritten, missing, or of another page layout | `LegacyStream` |
| process lock (`lock.rs`) | lock file | acquire, release | stale locks | |
| command line, configuration, reports, dashboard, webhooks, Python bindings, simulation harness | | | none that a state machine shows | |

## 2. Plan

The modules were built in the order in which they support each other.

| step | module | state |
|---|---|---|
| 1 | `DurableLog`, the promise common to all modes, and `OwnedStream`, which implements it | done, proved: no gaps, exact restores, the safety part of `DurableLog`, acknowledged is durable (as long as no put fails) |
| 2 | `LevelCompaction` with its restore planner | done, model-checked (through `LegacyFleet`), nothing lost proved |
| 3 | `LegacyStream`, `UploadCache`, `IndependentWatch` (which composes the other two) | done, model-checked, no wrong restore proved |
| 4 | `ShadowWatch` on `LegacyStream` and `UploadCache`, direct and cache mode | done, model-checked |
| 5 | `LegacyFleet`: retention, restore, verify and a replica beside the compacting writer | done, model-checked, nothing lost and the exact replica proved |
| 6 | `ExternalDelta`: external base, delta envelope, fence and followers | done, model-checked |
| 7 | `OwnedFailover`: founding, restore, resume, pull | done, model-checked, lineage proved |
| 8 | `PagePipeline`: pages from the WAL through objects and merges | done, model-checked |
| 9 | proofs: no wrong restore in `ShadowWatch`, exact followers in `OwnedFailover`, the durable cursor of `UploadCache` | open |

## 3. The modules and the code

Where checksums, not contents, decide, the content of a database is a *version*:
the number of transactions committed, or, where two nodes can commit
(`ExternalDelta`, `OwnedFailover`), the sequence of commits, each named by its
node. A checksum is the term it was computed from; collisions are left out. Code
that awaits is split at the awaits at which something else can happen: every
storage request, every checkpoint, every read of the WAL. What happens between
two of them is one action. Faults and environment steps have a *budget* per kind;
a run names a set of mixes of budgets and checks all of them.

**DurableLog** is the promise: transactions are committed, and a restore returns
a prefix that never shrinks and catches up.

**OwnedStream** is one database of a `Replicator`. `mem` is its `SyncState`, `pc`
the await it is at, `job` the locals that live across it; `snap`, `incr` and
`stateJson` are the store, `intent` is the publish intent on disk, `pin` the
checkpoint blocker. The `Sync*` actions are `sync_wal_with_sequence` up to the
put; `Publish*` are the outcomes of the conditional put (stored; already there
and ours; already there and not ours; failed, with or without effect);
`CheckpointOk`, `CheckpointBusy`, `Reacquire`, `Encode` and `Upload*` are
`take_snapshot`; `Save*` are `save_state`. `Add`, `Reopen`, `SnapshotTick`,
`Sync("remove")` and `Crash` are calls of the embedding process. A snapshot is
read page by page while others may backfill, hence its two versions `lo` and
`ver`. `ExtBackfill` and `ExtTruncate` are checkpoints by other connections, as
far as the pin allows them.

**OwnedFailover** is the same stream on several nodes. `Add*` found it (all
founders race for `state.json`), `RunReplication` is the second way to start one,
`Restore*` and `Resume*` are what a node does that takes the lease, one action
per request; `Follow` and `Pull*` are the followers, into a file or a
`ReplaySink`. The lease is the embedder's: the node that lost it may go on
publishing. WAL, checkpoints and failed syncs are left to `OwnedStream`.

**PagePipeline** looks inside a batch: SQLite writes the WAL frame by frame,
rolls back, restarts it in place or truncates it; the reader goes over it twice,
frame by frame (`Pass1` verifies frame by frame up to the last commit, `Pass2`
reads the pages), and the pages are encoded and merged, in both formats. The WAL is not pinned, as when an embedder
calls the public read functions, or in external-base mode.

**ExternalDelta** has the base owned by a layer above. Manifest and lease are
external and modelled from how `sync.rs` uses them. `Register`, `AdoptBase` and
`SetDeltaBase` are the calls of that layer; `ReadBatch`, `Publish`, `PublishRefused`,
`PutFails`, `SaveProgress` and `RefuseRollover` a sync; `Follower` is what a follower
computes from base and store, with plain changesets or fenced envelopes.

**LevelCompaction** is one backup and its compactor: `files` by level, `trig` the
trigger counts, `job` the merge under way. There is one action per storage
request of `run_level_compaction`; each may fail, a merged object may not read
back, and the process may stop between any two and come back with another
`l1_batch` (`Configured`). `PlanRestore` is the greedy planner.

**LegacyFleet** extends it with what runs beside the writer: `prune`, `rest`,
`ver` and `rep` are a retention run, a restore, a verification and a replica.
Each makes its listings one after the other and then reads or deletes object by
object. `verify` lists each level of merged files and then reads their headers; if one
is gone, or a request fails, it goes on without any merged range (`Blinded`). An object is its range; generations are left out. Which snapshots the
retention tiers keep, by date, is arbitrary.

**LegacyStream** is the objects of the watch commands and the restore from them,
with exact page maps: transaction `v` writes page `v % Pages`. A restored file is
a version, an error (`Refused`) or a file that never existed (`Mixed`). A snapshot
numbers the pages as `VACUUM INTO` does (`Vacuumed`), an incremental as the live file
does. Where these differ, an incremental goes over the wrong pages of the snapshot, and
`IntegrityOk` notices it only if pages of several kinds change places.

**UploadCache** is `legacy_cache.rs` and `legacy_uploader.rs`: the manifest, the
channel, uploads in flight that land, are confirmed, retried or given up in any
order, resumption at startup, the drain at shutdown, and restore through the
cache.

**IndependentWatch** puts both under `walrust watch --independent-tasks`, in
direct and in cache mode: `Start` with the anchor, `CheckWal`, `ReadWal`,
`PublishBatch` or `CacheBatch` and `Notify`, snapshots after a rollover and by
the timer, `Signal` and the final sync. `layout` says how the live file is laid out:
as `VACUUM INTO` would (`packed`), or otherwise, with pages of one kind (`alike`) or of
several kinds (`apart`) at the numbers that differ.

**ShadowWatch** is `walrust watch` without the flag, in both modes. `segs` are the
segment files, `progress` the progress file, `shadow` the `ShadowWal` and `st`
the `ShadowWatchState`, with a sync cursor into the segments and a copy cursor
into the WAL. A copy is atomic but for `CrashInCopy`; a batch is encoded, put (or
cached), and only then recorded. In cache mode a checkpoint waits for the uploads
(`AwaitUploads`, `AwaitFails`). The page layout is taken as packed.

The watch modules, `ExternalDelta` and `PagePipeline` carry a history variable
`caveats`. It records what has happened that the design does not provide for.
Type invariants are conjuncts of the property that
needs them most. Properties that do not survive a caveat name it, and section 6 lists what each name
means. `MC*` modules name the mixes.

## 4. Runs

`tlc -config <run>.cfg <module>` in this directory; `PROJECT.json` names the
module of each run. The counts are of distinct states.

| run | states | shows |
|---|---|---|
| `OwnedStream_crash` | 953,987 | under a stop, a failed or unanswered put, a failed save and a foreign checkpoint, under a stop, a foreign checkpoint and a snapshot tick, and under a busy and a foreign checkpoint, no incremental spans a gap (`ChainSound`), a restore that succeeds is exact, and no cursor is ahead of its checksum (`CursorsSound`) |
| `OwnedStream_live` | 34,307 | without failed requests, under a stop, foreign and busy checkpoints, a lost pin and snapshot ticks: what was acknowledged is restorable, restores are exact, a restore point once there never goes away, the stream is never refused its own sequence number, and it implements `DurableLog`, liveness included |
| `OwnedFailover_faults` | 125,240 | what a lease holder was told is stored is restored by the next one, nothing restorable is hidden, all publish into one lineage, a follower has what its cursor says, and the stream is taken over in the end |
| `PagePipeline_faults` | 542,829 | whole transactions, and in the end all of them, come out of a WAL that changes under the reader; every run of objects merges to the same database and the same place in the chain |
| `ExternalDelta_faults` | 664,113 | a follower that succeeds has a database the writer of its base had; what the writer counts as shipped it has; a reopened process goes on where the chain ends; followers catch up |
| `LegacyFleet_faults` | 394,131 | what is listed stays restorable and exact, the fine restore points are kept; an interrupted merge converges and the backlog drains, unless the merge was of another length than the next one (`Superseded`); a restore beside all that fails or is right; verify raises no alarm, unless its listing of the merged files failed (`blind`); the replica is exact, never goes back and converges |
| `IndependentWatch_faults` | 267,165 | no restore passes with a wrong file (but for the caveats `unguarded` and `scattered`), what is synced is restorable, a clean exit has shipped everything, the durable cursor can be restored, a restore through the cache agrees, every cached object is settled |
| `ShadowWatch_faults` | 276,511 | the same for the default mode; what the progress file skips is in storage, no segment is removed before its frames are shipped, everything committed is shipped in the end |
| `OwnedStream_v_failed_put`, `ShadowWatch_v_checkpoint`, `IndependentWatch_v_layout`, `LegacyFleet_v_rerun` | | expected violations, section 6 |

**Bounds.** Budgets bound commits, faults and ticks. `MaxVersion` and `MaxSeq` cut
off behaviours that go on re-anchoring after the budgets are spent; in
`OwnedStream_live` they are never reached (it would deadlock or not catch up), and
`MaxTxid` is never reached either, which the types of the watch modules check.
One fault of a kind and two commits are enough for the known shapes of failure:
each needs one badly placed fault with a commit before and one behind it. What
needs a second fault is in section 6. Two pages are enough to mix two versions,
three to grow and to shrink; two nodes for a writer and a deposed one; merges of
two for a run, its leftovers and a file behind it. Merges of three can be shorter than
they should be, behind a lone file, or of another length than the merges before a
restart; the first two mixes of `LegacyFleet_faults` have both lengths (`Larger`), and
`LegacyFleet_v_rerun` has room for the lone file. A base numbered above the writer's
sequence is one above (`Skips`).

**Deadlock** is checked in `OwnedStream_live` and `LegacyFleet_faults`. In the
others a process that is told to stop and not restarted, or a spent budget, ends
the behaviour.

**Fairness.** Where a liveness property is checked, this is assumed:

- `OwnedStream`: the sync timer ticks, awaits return, and the embedder registers
  the database again after a stop. Commits, other connections, crashes and
  snapshot ticks are not fair.
- `LevelCompaction`, `LegacyFleet`: requests are answered, the poll timer ticks,
  files age, the process is restarted, and the replica keeps polling while there
  is something new.
- `IndependentWatch`: an uploader with work takes a step (the tokio scheduler),
  and the watch task does not stop between cache and channel.
- `ShadowWatch`: while it runs its `select!` loop keeps taking steps, and so does
  the uploader.
- `ExternalDelta`: the timer keeps calling `sync_all`, and the layer above
  registers the database and has new bases adopted, on the lease holder.
- `OwnedFailover`: the lease holder goes on with what it began, takes over if it
  has not, and its timer ships.
- `PagePipeline`: the timer ticks and file operations end.

Most modules write this as `[]<>~Ready \/ []<><<A>>_vars` with an explicit
predicate for when there is work, because evaluating `ENABLED` of these actions is
costly; each is weak fairness of the steps it names.

## 5. Proofs

`tlapm` checks eight modules. The provers do every step; nothing is assumed but the
named assumptions on constants and, where a theorem says so, on the budgets of
faults.

**OwnedStream**, for every number of versions, sequence numbers, commits, crashes,
failed requests, foreign checkpoints and ticks.

| module | content |
|---|---|
| `OwnedTip` | the invariants `TipInv` and `QuietInv` and the conditions on faults (definitions only) |
| `OwnedStreamProofs` | every step keeps `StreamInv`; what a restore returns as a function of the objects stored; the theorems `StreamInvariant`, `CursorsStaySound`, `NoIncrementalAcrossGap`, `TypeCorrect`, `RestoresADatabase` |
| `OwnedTipProofs` | every step keeps `TipInv`, the cursor at the tip of the chain |
| `OwnedDurableProofs` | every step keeps what an acknowledgement promises; the theorems `RestorePointsStay`, `StreamImplementsLog`, `FlushesAreDurable`, `NeverEquivocates` |

*No gaps* (`NoIncrementalAcrossGap`: `ChainSound`). Assumed are `BoundsAssumption`
and `NeverBusy`, that no checkpoint ends busy. The second is needed: the mix
`BusyGap` is the counterexample without it. `ChainSound` is not inductive.
`StreamInv` (`CursorsSound`, which the run checks, and no busy checkpoint left in the
budget) adds that the cursor in memory, the one in `state.json` and the one a
batch was read with are each sound (`CursorSound`): as long as the WAL has the salt
of the cursor, every frame in front of its offset is in the state its checksum
names. A reset WAL has another salt, so a stale cursor claims nothing and the
rollover check catches it. From the checkpoint of a snapshot to its upload the
cursor in memory is superseded (`CursorSuperseded`), and the snapshot is at least
as new as everything below the pinned WAL (`SnapshotSound`). There is one lemma per
action.

*Restores are exact* (`RestoresADatabase`: `RestoreExact`), under the same
assumptions. `RestoreInv` adds to `StreamInv` that a snapshot hashes a file that is
not ahead of the commits. What the recursive `Content` returns is then read off the
checksum a restore ends with (`ContentOfSum`): a least counterexample along the
chain would have a predecessor, which is none (`LeastExists`, from the well-founded
order of the naturals).

*Restore points stay* (`RestorePointsStay`: `RestorePointsSurvive`) and *the stream
is a durable log* (`StreamImplementsLog`: `Log!Spec`, the abstract specification
without its fairness, step by step). Assumed is `StopsAlone`: no checkpoint ends
busy, and the process is not stopped at all, or stopped once while no put and no save
fails and no snapshot tick comes. Section 6 has the counterexamples for a stop with a
failed put or save, and for a second stop. With a stop and a tick no counterexample is
known (TLC finds none with `TickCrash`), but the invariant does not cover it, and
`NoSelfEquivocation` fails there. The invariant is `TipInv`. There is one
chain that restores follow, its *tip* is where the replicator goes on (`Tips`), and
at most one object is behind the tip, which follows it (`Tip`). A snapshot behind
the tip is of a newer WAL than the cursor (`Sealed`), so that the next sync rolls
over before it could publish beside it. A snapshot is not older than what was
published (`SnapshotNewer`), the first one of a lineage is alone (`Founding`), and
until the one stop nothing lies behind the cursor, and `state.json` is one
incremental behind at most (`Calm`). The lemmas `IncrementalExtends` and
`SnapshotCovers` say what an object behind the tip does to every restore point;
`StoreSteps` says that no other step changes what is stored. TLC has confirmed
`TipInv` on mixes with two commits and a stop, with a failed put, a failed save and
a foreign checkpoint, and with ticks.

*Acknowledged is durable* (`FlushesAreDurable`: `FlushIsDurable`) and *the stream is
not refused its own number* (`NeverEquivocates`: `NoSelfEquivocation`). Assumed is
`PutsSucceed`: `StopsAlone`, and no put fails. A put that fails is the first finding
of section 6, and the other exclusions have their counterexamples there as well. The
first two mixes of `OwnedStream_live` satisfy it; the third, with a busy checkpoint,
is only model-checked. `QuietInv` adds four things to `TipInv`. Nothing is stored
behind the cursor, except the incremental that the publish intent on disk records
(`Unblocked`, `Ours`). The running checksum is the one at the offset, so that no
batch looks torn (`Chained`). What was committed when the operation began is in the
object it is about to store (`Goals`). And what has been acknowledged is at or below
what a restore returns, which by `TipInv` does not get older. TLC has confirmed
`QuietInv` on mixes with two commits, a stop, a failed save, foreign checkpoints and
ticks (up to 1,383,837 states).

**LegacyFleet and LevelCompaction**, for any number of transactions, batches of any
length, and any number of crashes, failed requests, torn merged files, retention
runs, polls and stops of the replica. Assumed are `BoundsAssumption` and
`FleetAssumption`.

| module | content |
|---|---|
| `FleetInvariants` | the invariants `KeepsInv`, `NumbersInv` and `ReplicaInv` (definitions only) |
| `FleetProofs` | how a file comes to a level and goes; publishing, a merge that was selected, and the deletions of retention keep `KeepsInv`; every step keeps `NumbersInv` and `ReplicaInv` |
| `CompactionProofs` | what the planning operators return, the steps that plan, and the theorems `NothingIsLost`, `ReplicaStaysExact`, `FindsNewestNumber` |

*Nothing is lost* (`NothingIsLost`: `NothingLost`). The planning operators do what
their names say: a listing lists its level, a batch is a run without holes, the
merged file has exactly the transactions of its sources. `NothingLost` is not
inductive. `KeepsInv` adds that the files of a level are disjoint ranges
(`StoreInv`); that the transactions of a merge are below until the merged file was
read back, and above from then until the last source is deleted (`JobInv`); that
what a torn L1 file should have is still in L0; and that a retention run spares one
snapshot it has listed (`PruneInv`). The condition that every source of a merge is
there and decodes (`Readable`) came out of this proof: without it a merge that has
listed a source could be written after retention or a torn file took it away.

*No number is used twice* (`FindsNewestNumber`): what a starting process discovers in
the store is the newest number ever published. It needs that retention keeps a
snapshot and deletes only below the newest number, which a run decides from a listing
that is old by the time it deletes (`NumbersInv`), and `NothingLost`.

*The replica is exact* (`ReplicaStaysExact`: `ReplicaExact`, an action property). A
poll works from the state file and two listings, each older than the next, and a stop
between the rename and the state file leaves the file ahead of the number from which
the replica goes on. `ReplicaInv` says why that does no harm: a live file that
follows the state file ends at the database or behind it; a live file a poll has not
listed is behind every snapshot it has listed; and a file that is ahead of the state
file is at a snapshot that is listed or dropped, or no snapshot lies between the two.
The last case is why `ReplicaExact` excepts a state that retention dropped before it
was saved. TLC has confirmed `NumbersInv` and `ReplicaInv` on the mixes of the run
and on others with a stop of the replica beside retention and a restart (up to
6,191,981 states).

**OwnedFailover**, for every set of nodes, and any number of commits, crashes,
failed requests, compactions and moves of the lease: `OwnedFailoverProofs` proves
`AllInOneLineage` (every registered database publishes into the lineage of
`state.json`) and `LineageStays` (no step of any node replaces that lineage).
Assumed are `NodesAssumption`, `NoRun` and `NoneIsNoState` (`None` is no value of
`state.json`). `NoRun`, that nobody calls `run_replication`, is needed: it gives
the stream a new lineage. `OneLineage` is not inductive: `LineageInv` adds the jobs
under way, namely that a resume keeps the lineage it restored from and that whoever
publishes is registered.

**IndependentWatch**, in both modes, for any number of pages, commits, crashes,
failed requests, anchors, resets of the WAL, and uploads that are late, repeated or
reordered. Assumed are `PagesAssumption`, `UploaderAssumption` and
`SetupsAssumption`.

| module | content |
|---|---|
| `LegacyHistory` | what a checksum of the watch commands stands for, and what ties a cursor to the WAL (definitions only) |
| `LegacyRestoreProofs` | a restore from such objects returns a version or an error (`RestoreIsSound`); what the application, other connections, cache and uploader do to them |
| `WatchInvariants` | the invariant `WatchInv` (definitions only) |
| `WatchProofs` | every step of the task keeps it; the theorem `NeverAWrongFile` |

*No wrong restore* (`NeverAWrongFile`: `NoWrongRestore`). A checksum is the term it
was computed from, hence a history: a snapshot and the batches behind it. It is
*sound* (`SoundSum`) if the snapshot is the file of one version and every batch takes
the file of one version to that of the next. A restore applies whatever it finds
behind a snapshot and compares checksums; if all of them are sound, the file after
each step is the version the checksum stands for, whatever objects are missing, stale
or overwritten (`RestoreIsSound`; the recursive planner is followed along a least
counterexample, as above). That every checksum is sound is not inductive: a batch is
sound because the frames it was read from begin at or below the version its cursor's
checksum stands for. `Tied` says that of a cursor at an offset, as long as the WAL has
the salt of the cursor, and `CursorTied` and `JobTied` say when the task relies on it:
in direct mode the salt read at the start of a tick gives a reset away; in cache mode
the checkpoint blocker keeps the WAL from being reset. A reset that neither prevents
nor notices is the caveat `unguarded`. A live file that does not number its pages as its
snapshots do is the caveat `scattered`: there a batch does not take the snapshot to the
next version, and no checksum tells. `NoWrongRestore` excepts both, section 6 describes
them, and the invariant claims soundness only where neither has happened (`Spared`).
`StoreSound` carries the soundness through the cache,
the uploads in flight and storage. TLC has confirmed `WatchInv` (with the existential
bounds of `Bounded` left out) on the mixes of the run and on a larger one (4.9 million
states).

Only model-checked: everything with fairness (the liveness properties, and the
liveness half of `ImplementsLog`), which is out of the prover's reach; and of the
safety properties those that rest on recursive operators for which no invariant
carries the result along (the restores of `LegacyFleet`, `ExternalDelta`,
`OwnedFailover` and `PagePipeline`, with the follower and merge properties on them,
which need induction over data), `ShadowWatch`, and what `IndependentWatch` promises
beyond `NoWrongRestore`.

## 6. Where code and documentation disagree

Four runs are expected to be violated; each is a finding in `PROJECT.json`.

- **A failed put, then a flush** (`sync.rs:1190`, `OwnedStream_v_failed_put`).
  `read_next_wal_batch` moves the checksum chain on before the put and the offset
  after it. The next read takes the frames at the old offset for a torn tail, and
  `flush` returns Ok with nothing shipped.
- **A commit during a shadow checkpoint** (`watch_shadow.rs:178`,
  `ShadowWatch_v_checkpoint`). Frames committed between the copy before a
  checkpoint and the checkpoint are in no object; a later restore passes with a
  file that never existed.
- **A snapshot with other page numbers** (`legacy_ltx.rs:130`,
  `IndependentWatch_v_layout`). A snapshot is a copy made by `VACUUM INTO`, which may
  number the pages anew; the incrementals behind it have the numbers of the live file.
  Their checksums chain from the snapshot all the same, and `integrity_check` looks at
  structure only: where leaves of two tables have changed places, a restore succeeds
  with a file that never existed. "Restores are verified or they fail loudly."
- **A merge that is not repeated alike** (`compaction/engine.rs:265`,
  `LegacyFleet_v_rerun`). Behind a lone file (`:243`) fewer files are merged than
  `l1_batch` says. If this is cut short before the deletions and another file is
  published, the next run is longer than the merged file, overlaps it, and is refused
  on every pass: L0 is not merged any more. "A crash between 5 and 7 leaves harmless
  overlap; re-running converges via step 2." The same happens if `l1_batch` is changed
  at a restart behind a merge that was cut short. `CompactionConverges` and
  `BacklogDrains` say that these are the only cases.

These have no run of their own. To see one, check the property named with the
module's configuration, or with the mix or constant named. Paths are relative to
the crate or to `src/src/sync`.

| what happens | where | shown by |
|---|---|---|
| A checkpoint that ends busy after a rollover is followed by an incremental across the gap, although the message says "publishing a new snapshot instead of an incremental across the gap" | `sync.rs:1252`, `:1260` | `ChainSound` with `BusyGap` |
| After a crash behind a periodic snapshot the stream is refused its own sequence number; the test says "Recovery must adopt the durable object and re-anchor with a fresh snapshot (no wedge, no data loss), not hard-fail." | `replicator.rs:955`, test `sync.rs:5353` | `NoSelfEquivocation` with `TickCrash` |
| The same after a second crash before a conflict is resolved | `sync.rs:1355` | `NoSelfEquivocation`, two stops |
| A snapshot published before a crash stays above the chain; when the chain reaches it, it takes restore points away | `sync.rs:1405` | `RestorePointsSurvive`, a stop with a failed put, a failed save or a second stop |
| The blocker is not retaken after a busy checkpoint; a foreign truncation then makes a flush acknowledge what it did not ship | `sync.rs:607` | `FlushIsDurable`, busy and foreign checkpoint |
| A bare snapshot read while others backfill mixes versions until the first incremental | `sync.rs:2107` | the versions `lo` and `ver` of `OwnedStream` |
| A restore to a point above the newest object gives the newest | `sync.rs:2304` | definition of the restore in `OwnedStream` |
| A periodic snapshot takes a sequence number that no incremental has; a pull from below it finds a gap and fails from then on, although a restore would do: "Call it in a loop (e.g., every 1s) to stay in sync with the leader" | `sync.rs`, `pull_incremental` | `PullStaysInSync`, 7 states |
| A follower whose pull was cut short holds more than its cursor says, until the pull is repeated | `sync.rs`, `pull_incremental` | `OwnedFailover`, `cut` |
| A fenced follower cannot go on from its result: the first payload is checked against the hash of the file, and names the running checksum of the deltas: "the anchor a resuming follower threads back in as its next base_envelope_checksum" | `external_delta.rs` | `FollowerResumes`, 9 states |
| "refusing to publish deltas until the external base is re-anchored": adopting a base keeps the cursor, so the refusal stays until the database is registered again | `sync.rs:1282`, `:1991` | `ReanchorLiftsRefusal` |
| A page written and cut off by a later transaction of the same batch (`VACUUM`) stays in the page map, and the batch cannot be encoded, now or later: `end_page_count` "Handles shrink / grow / VACUUM / truncate." | `ltx.rs:534`, `external_delta.rs:16` | `NeverRefused` with the mixes of `PagePipeline_faults`, 13 states |
| A replica in a gap does not take a snapshot that ends right before the next file, and waits: "re-bootstraps from the newest snapshot (same handler as any other chain gap), converging automatically" | `legacy_replica.rs` | `GapRebootstraps`, 10 states |
| Retention deletes a snapshot between two it keeps; its number is in no incremental, so that the points behind it cannot be reached from the older one: "prune keeps every object a retained point-in-time restore still needs" | `legacy_manifest.rs`, `plan_legacy_prune` | `PruneKeepsPoints`, 21 states |
| Where the pages that change places are of several kinds, `integrity_check` notices it, and what was synced behind the snapshot cannot be restored: "everything synced is restorable" | `legacy_ltx.rs:130` | `EverythingSyncedRestorable` with `LayoutSetups` |
| `cache.max_size` is not enforced: cleanup finds nothing it may remove | `legacy_cache.rs:494` | stated by `CachedRestoreAgrees` |
| The wait before a checkpoint in cache mode compares the last uploaded TXID with the current one; after a snapshot without new frames it is never confirmed, times out and ends the watcher, though everything is durable | `watch_shadow.rs:167`, `legacy_shadow_watch.rs:193` | `AwaitFails`, 16 states |
| An uploader that has halted leaves cached objects unshipped while empty ticks go on; the next batch ends the process | `legacy_uploader.rs` | `ShadowWatch`, cache mode with `fail` |
| Where TXIDs are reused the cached snapshot can be older than the one in storage: a restore through the cache then gives an older version, never a wrong file | `restore.rs` | `CachedRestoreAgrees` under `reused` |
| `verify` and the periodic validation take a failed listing of the merged files for an empty one, also if a file was only merged on between the listing and the read of its header; the holes it explains are then reported: "it must not false-alarm on a folded L0 pool" | `verify.rs:251`, `:662` | `NoFalseAlarm` with `With(Faults(4, 0, 0, 0, 0), "verify")`, 31 states |

The names in `caveats`:

| module | caveat | what has happened |
|---|---|---|
| `IndependentWatch` | `unguarded` | the WAL was reset between two steps of a sync: behind a snapshot whose WAL salt is not noted yet, or between the check of the salt and the read (`legacy_wal_sync.rs:590`) |
| | `emptied` | the WAL was truncated under the running task, or the snapshot after a rollover failed (`legacy_wal_sync.rs:675`) |
| | `reused` | an object was named like one still waiting in the cache (`legacy_wal_sync.rs:626`) |
| | `unanchored` | the anchor failed and the task goes on (`watch_independent.rs:178`; also `ShadowWatch`, `watch_shadow.rs:571`) |
| | `scattered` | a commit left a page layout that `VACUUM INTO` changes, the third finding (`legacy_ltx.rs:130`) |
| `ShadowWatch` | `overtaken` | a checkpoint took frames that were not copied, the second finding |
| | `orphaned` | a snapshot was given up although it, or others, lie above the cursor the process goes on with (`wal_sync.rs:259`) |
| | `behind` | the last copy began a generation that the one final batch does not reach (`watch_shadow.rs:1115`); the changelog says that remaining data is synced |
| | `unsaved` | a start found segments and no progress file (`watch_shadow.rs:263`); in `ExternalDelta`: a crash between a put and the progress file |
| `ExternalDelta` | `overtaken` | a base was adopted without commits that are shipped already |
| | `unaligned` | `set_external_delta_base` left a running checksum that is not the base's |
| | `unseen` | the WAL was restarted before its salt was noted |
| | `unfenced` | a changeset went out outside the fence |
| | `rollover`, `refused` | a sync was refused, because of a restarted WAL or of other bytes under its number |
| | `stalled`, `unanswered` | a put failed behind the start of the WAL (the first finding again); a put took effect but failed |
| | `raced` | a batch read before a new base was published after it |
| `PagePipeline` | `forgot` | the cursor was rewound for a rollover and the read then failed, so that the rollover snapshot is not taken (`sync.rs`, `read_next_wal_batch`; `copy_new_frames` of `shadow.rs` has the same order) |
| | `missed` | the WAL was restarted between the header the sync read and the one the reader read; the next rollover snapshot heals it |
| | `refused` | a batch could not be encoded, after which reads behind the start of the WAL are silently empty |

## 7. Not modelled

- Several databases in one process: they share nothing but the process and its
  exit on an error. A second writer on the prefix of a legacy stream: the process
  lock excludes it on one host.
- Byte formats, checksum collisions, SQLite's own recovery, and a transaction torn
  at the end of a generation of the shadow WAL.
- Dates: `retention.rs` and `retry.rs` only re-export another crate. Which snapshots
  are kept is arbitrary in `LegacyFleet`; a retry is a failed request or a success.
- A restore is one step in `OwnedStream`, `IndependentWatch` and `ShadowWatch`, where
  what is asked is what the objects mean. It goes object by object in `LegacyFleet`
  and `OwnedFailover`, where objects disappear beside it.
- Generations in `LegacyFleet`, failed syncs and the WAL in `OwnedFailover`, failed
  requests in `PagePipeline`: each is another module's subject, and the product of
  both is out of TLC's reach.
- Page layouts other than `packed` outside `IndependentWatch`: `ShadowWatch` takes its
  snapshots in the same way and is exposed to the same finding.
- Readers of the application. In `ShadowWatch` the WAL restarts with the first commit
  behind a checkpoint, which a reader at the end of the old WAL may put off.
- `explain`, `list`, manifest reports, configuration, dashboard, webhooks, bindings,
  the process lock and the simulation harness have no protocol state.
