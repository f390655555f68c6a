----------------------------- MODULE ShadowWatch -----------------------------
(***************************************************************************)
(* `walrust watch` in its default mode, for one database (watch_shadow.rs, *)
(* shadow.rs, legacy_shadow.rs, legacy_shadow_watch.rs).  A read           *)
(* transaction pins the WAL; its frames are copied to segment files, the   *)
(* shadow WAL, one per life of the WAL; batches are encoded from the       *)
(* segments, and a progress file says how far both steps have come.  In    *)
(* mode "direct" batches are put to storage, in mode "cache" they go       *)
(* through the upload cache; snapshots are always put to storage.          *)
(*                                                                         *)
(* Frame i of the WAL is transaction wal.base + i; a segment is a sequence *)
(* of such frames.                                                         *)
(***************************************************************************)
EXTENDS UploadCache

CONSTANTS
  MinCheckpointFrames,  \* min_checkpoint_page_count
  Setups                \* the mode and the budget of faults and environment steps

\* Commits; WAL resets while no process runs; starts and stops of the process;
\* requests that fail; snapshot and checkpoint ticks; uploads that are retried
\* and uploads that are given up.
Kinds == {"app", "reset", "start", "stop", "put", "snap", "ckpt", "retry", "fail"}

ASSUME SetupsAssumption ==
  /\ MinCheckpointFrames \in Nat
  /\ Setups \subseteq [mode : {"direct", "cache"}, budget : [Kinds -> Nat]]

VARIABLES
  mode,      \* whether the upload cache is configured
  db,        \* SQLite: the newest committed version
  wal,       \* SQLite: the WAL's salt, the version below it, whether it has a header
  segs,      \* the shadow directory: the frames of every segment, by generation
  progress,  \* the shadow directory: the progress file
  shadow,    \* ShadowWal: generation, segment_offset and salt
  st,        \* ShadowWatchState: TXID, checksum, sync generation and offset, copy offset
  pc,        \* where the process is
  job,       \* the snapshot or batch under way
  goal,      \* version committed when the shutdown signal was handled, 0 before
  caveats    \* what has happened that the design does not provide for

watch   == <<mode, db, wal, segs, progress, shadow, st, pc, job, goal, caveats>>
caching == <<manifest, tasks, mode>>
vars    == <<remote, entries, pending, failed, uploaded, contig, top, resume, queue, flights,
             uploader, budget, mode, db, wal, segs, progress, shadow, st, pc, job, goal, caveats>>

NoSalt == 0
NoShadow == [gen |-> 0, off |-> 0, salt |-> NoSalt]
NoState == [txid |-> 0, sum |-> FileSum, gen |-> 0, off |-> 0, copy |-> 0]

\* at: what asked for it; obj: the encoded object; len: the frames it holds.
Job(at) == [at |-> at, obj |-> Snapshot(0, 0, 0, "packed"), len |-> 0]

\* save_shadow_progress: a whole file replaces the last one.
Saved(s, salt) == [state |-> s, salt |-> salt]

\* No manifest.json is written by this version: without a progress file the
\* stream starts at TXID 0 with the checksum of the main file.
Init ==
  /\ \E s \in Setups : mode = s.mode /\ budget = s.budget
  /\ db = 1 /\ wal = [salt |-> 0, base |-> 1, open |-> FALSE]
  /\ remote = {} /\ segs = <<>> /\ progress = Saved(NoState, NoSalt)
  /\ shadow = NoShadow /\ st = NoState /\ pc = "down" /\ job = Job("tick")
  /\ goal = 0 /\ caveats = {}
  /\ entries = <<>> /\ pending = {} /\ failed = {} /\ uploaded = {} /\ contig = 0 /\ top = 0
  /\ resume = <<>> /\ queue = <<>> /\ flights = {} /\ uploader = "off"

\* The process is gone, its memory and its uploader with it.
Halt ==
  /\ pc' = "down" /\ shadow' = NoShadow /\ st' = NoState /\ job' = Job("tick") /\ goal' = 0
  /\ DropUploader("off")

-----------------------------------------------------------------------------
(* SQLite.  While the process runs it pins the WAL.                         *)

Down == pc \in {"down", "closed"}

AppendTo(w) == IF w.open THEN w ELSE [salt |-> w.salt + 1, base |-> db, open |-> TRUE]

Restarted(w) == [salt |-> w.salt + 1, base |-> db, open |-> TRUE]

Commit ==
  /\ Spend("app")
  /\ db' = db + 1 /\ wal' = AppendTo(wal)
  /\ UNCHANGED <<caching, remote, segs, progress, shadow, st, pc, job, goal, caveats>>

\* A checkpoint of every frame; the next commit starts the WAL anew.
CheckpointedElsewhere ==
  /\ Down /\ wal.open
  /\ Spend("reset")
  /\ wal' = [wal EXCEPT !.open = FALSE]
  /\ UNCHANGED <<caching, remote, db, segs, progress, shadow, st, pc, job, goal, caveats>>

-----------------------------------------------------------------------------
(* The shadow WAL.                                                          *)

Segment(s, gen) == IF gen \in DOMAIN s THEN s[gen] ELSE <<>>

LatestGeneration == Max(DOMAIN segs \cup {0})

\* read_frames_as_pages_checked: the frames behind offset off when v is committed.
NewFrames(w, off, v) == [i \in 1 .. v - w.base - off |-> w.base + off + i]

\* Mutant: a WAL with another salt is read on from the old offset.
CopiedOnward(sh, off, w, v) ==
  LET frames == NewFrames(w, off, v)
      n      == Len(frames)
  IN  [shadow |-> [gen |-> sh.gen, off |-> sh.off + n, salt |-> w.salt],
       segs   |-> IF n = 0 THEN segs
                  ELSE [g \in DOMAIN segs \cup {sh.gen} |->
                          IF g = sh.gen THEN Segment(segs, g) \o frames ELSE segs[g]],
       copy   |-> off + n]

\* copy_frames: the frames behind off, in a new generation and from the start
\* if the WAL has another salt, appended to the segment of the generation.
Copied(sh, off, w, v) ==
  LET rolled == sh.salt \notin {NoSalt, w.salt}
      gen    == IF rolled THEN sh.gen + 1 ELSE sh.gen
      from   == IF rolled THEN 0 ELSE off
      frames == NewFrames(w, from, v)
      n      == Len(frames)
  IN  [shadow |-> [gen |-> gen, off |-> n + (IF rolled THEN 0 ELSE sh.off), salt |-> w.salt],
       segs   |-> IF n = 0 THEN segs
                  ELSE [g \in DOMAIN segs \cup {gen} |->
                          IF g = gen THEN Segment(segs, g) \o frames ELSE segs[g]],
       copy   |-> IF n = 0 THEN off ELSE from + n]

Copy ==
  LET c == Copied(shadow, st.copy, wal, db)
  IN  shadow' = c.shadow /\ segs' = c.segs /\ st' = [st EXCEPT !.copy = c.copy]

\* Mutant: the cursor stays in the generation it is in.
AdvancedNever(s) == s

\* advance_shadow_sync_cursor_if_drained.
Advanced(s) ==
  IF s.gen >= shadow.gen \/ s.off < Len(Segment(segs, s.gen)) THEN s
  ELSE [s EXCEPT !.off = 0,
                 !.gen = Min({g \in s.gen + 1 .. shadow.gen :
                                g = shadow.gen \/ Segment(segs, g) # <<>>})]

\* The frames of the generation being synced that are not.
Unsynced ==
  LET seg == Segment(segs, st.gen) IN SubSeq(seg, st.off + 1, Len(seg))

-----------------------------------------------------------------------------
(* Startup.                                                                 *)

\* ShadowWal::new and restore_read_cursor: the salt comes from the progress file
\* or else from the live WAL, if that has a header.
Opened ==
  [gen |-> LatestGeneration, off |-> 0,
   salt |-> IF progress.salt # NoSalt THEN progress.salt
            ELSE IF wal.open THEN wal.salt ELSE NoSalt]

\* load_shadow_progress, and the cache, bail out when it is not.
Startable == progress.state.gen <= LatestGeneration /\ (mode = "cache" => Reopenable)

\* initial_shadow_copy, when the WAL is w and version v is committed.
InitialCopy(w, v) == Copied(Opened, progress.state.copy, w, v)

\* ShadowWal::new commits a row to pin the WAL; then the progress is loaded, the
\* cache opened and the initial copy made.  A WAL reset in the meantime asks for a snapshot
\* whether or not on_startup does.  The first tick of the snapshot timer is
\* immediate.
Start ==
  /\ Down /\ Startable
  /\ Spend("start")
  /\ IF mode = "cache" THEN OpenCache ELSE UNCHANGED <<manifest, tasks>>
  /\ db' = db + 1 /\ wal' = AppendTo(wal)
  /\ LET c == InitialCopy(wal', db')
     IN  /\ shadow' = c.shadow /\ segs' = c.segs
         /\ st' = [progress.state EXCEPT !.copy = c.copy]
         /\ job' \in IF c.shadow.gen > LatestGeneration THEN {Job("startup")}
                     ELSE {Job("startup"), Job("timer")}
  /\ caveats' = caveats
       \cup (IF progress.salt = NoSalt /\ segs # <<>> THEN {"unsaved"} ELSE {})
  /\ pc' = "encode" /\ goal' = 0
  /\ UNCHANGED <<remote, mode, progress>>

-----------------------------------------------------------------------------
(* Snapshots: at startup, and when a timer or a trigger fires.              *)

SnapshotTick ==
  /\ pc = "idle"
  /\ Spend("snap")
  /\ pc' = "encode" /\ job' = Job("timer")
  /\ UNCHANGED <<caching, remote, db, wal, segs, progress, shadow, st, goal, caveats>>

EncodeSnapshot ==
  /\ pc = "encode"
  /\ job' = [job EXCEPT !.obj =
               Snapshot(DiscoverGeneration(remote) + 1, DiscoverTxid(remote) + 1, db, "packed")]
  /\ pc' = "snap"
  /\ caveats' = IF Clashes(pending \cup failed, job'.obj.max) THEN caveats \cup {"reused"}
                ELSE caveats
  /\ UNCHANGED <<caching, remote, db, wal, segs, progress, shadow, st, goal, budget>>

\* Where the process goes when a snapshot is done or given up.
AfterSnapshot ==
  IF job.at = "startup" THEN pc' = "encode" /\ job' = Job("timer")
                        ELSE pc' = "idle" /\ job' = Job("tick")

\* progress_from_state: the cursors of the next state, and the salt behind them.
SaveProgress == progress' = Saved(st', shadow.salt)

\* Only a snapshot at startup moves the cursors: the sync cursor behind what
\* this process has copied, the copy cursor to the start of the WAL.
PublishSnapshot ==
  /\ pc = "snap"
  /\ remote' = Put(remote, job.obj)
  /\ LET s == [st EXCEPT !.txid = job.obj.max, !.sum = job.obj.sum]
     IN  st' = IF job.at = "timer" THEN s
               ELSE [s EXCEPT !.gen = shadow.gen, !.off = shadow.off, !.copy = 0]
  /\ SaveProgress
  /\ AfterSnapshot
  /\ UNCHANGED <<caching, db, wal, segs, shadow, goal, budget, caveats>>

\* The listing or the put fails, the put with or without effect: the snapshot
\* is tried again or given up with a line in the log.
SnapshotFails ==
  /\ pc \in {"encode", "snap"}
  /\ Spend("put")
  /\ remote' \in {remote} \cup (IF pc = "snap" THEN {Put(remote, job.obj)} ELSE {})
  /\ \/ pc' = "encode" /\ job' = Job(job.at) /\ UNCHANGED caveats
     \/ /\ AfterSnapshot
        /\ caveats' = caveats
             \cup (IF st.txid = 0 \/ st.gen < shadow.gen THEN {"unanchored"} ELSE {})
             \cup (IF \E o \in remote' : o.gen > 0 /\ o.max > st.txid THEN {"orphaned"} ELSE {})
  /\ UNCHANGED <<caching, db, wal, segs, progress, shadow, st, goal>>

-----------------------------------------------------------------------------
(* Batches: on a sync tick, before a checkpoint, at shutdown.               *)

SyncTick ==
  /\ pc = "idle"
  /\ Copy
  /\ pc' = "sync" /\ job' = Job("tick")
  /\ UNCHANGED <<caching, remote, db, wal, progress, goal, budget, caveats>>

CheckpointTick ==
  /\ pc = "idle"
  /\ Len(Segment(segs, shadow.gen)) >= MinCheckpointFrames
  /\ Spend("ckpt")
  /\ Copy
  /\ pc' = "sync" /\ job' = Job("checkpoint")
  /\ UNCHANGED <<caching, remote, db, wal, progress, goal, caveats>>

\* Mutant: only what is in the segments already is shipped.
SignalWithoutCopy ==
  /\ pc = "idle"
  /\ pc' = "sync" /\ job' = Job("final") /\ goal' = db
  /\ UNCHANGED <<caching, remote, db, wal, segs, progress, shadow, st, budget, caveats>>

\* copy_final_shadow_frames, then one more batch.
Signal ==
  /\ pc = "idle"
  /\ Copy
  /\ pc' = "sync" /\ job' = Job("final") /\ goal' = db
  /\ caveats' = IF st.gen < shadow'.gen THEN caveats \cup {"behind"} ELSE caveats
  /\ UNCHANGED <<caching, remote, db, wal, progress, budget>>

AfterBatch ==
  /\ pc' = CASE job.at = "tick" -> "idle" [] job.at = "checkpoint" -> "checkpoint"
             [] job.at = "final" -> IF mode = "cache" THEN "drain" ELSE "closed"
  /\ job' = Job("tick")

\* apply_shadow_sync_result_to_state: the cursors, then the progress file.
Settle ==
  /\ st' = Advanced(IF job.len = 0 THEN st
                    ELSE [st EXCEPT !.txid = job.obj.max, !.sum = job.obj.sum, !.off = @ + job.len])
  /\ SaveProgress
  /\ AfterBatch

\* Before a checkpoint that waits for the uploads.
SettleDurable ==
  IF mode = "cache" /\ job.at = "checkpoint"
    THEN pc' = "wait" /\ UNCHANGED <<st, progress, job>>
    ELSE Settle

\* Mutant: the progress is saved before the put.
EncodeBatchSaved ==
  /\ pc = "sync"
  /\ IF Unsynced = <<>>
       THEN SettleDurable
       ELSE /\ job' = [job EXCEPT !.obj = Incremental(st.txid, PagesOf(Unsynced), st.sum),
                                  !.len = Len(Unsynced)]
            /\ progress' = Saved([st EXCEPT !.off = @ + Len(Unsynced)], shadow.salt)
            /\ pc' = "put" /\ UNCHANGED st
  /\ UNCHANGED <<caching, remote, db, wal, segs, shadow, goal, budget, caveats>>

\* encode_shadow_to_ltx; without a frame to ship only the cursor may advance.
EncodeBatch ==
  /\ pc = "sync"
  /\ IF Unsynced = <<>>
       THEN SettleDurable
       ELSE /\ job' = [job EXCEPT !.obj = Incremental(st.txid, PagesOf(Unsynced), st.sum),
                                  !.len = Len(Unsynced)]
            /\ pc' = "put" /\ UNCHANGED <<st, progress>>
  /\ UNCHANGED <<caching, remote, db, wal, segs, shadow, goal, budget, caveats>>

\* sync_shadow_to_storage.
PublishBatch ==
  /\ mode = "direct" /\ pc = "put"
  /\ remote' = Put(remote, job.obj)
  /\ Settle
  /\ UNCHANGED <<caching, db, wal, segs, shadow, goal, budget, caveats>>

\* sync_shadow_to_cache: the cache first, then the notification.
CacheBatch ==
  /\ mode = "cache" /\ pc = "put"
  /\ WriteLtx(job.obj)
  /\ pc' = "cached"
  /\ UNCHANGED <<remote, tasks, mode, db, wal, segs, progress, shadow, st, job, goal, budget, caveats>>

\* Nobody receives it once the uploader has halted: every retry fails, and the
\* process ends.
Notify ==
  /\ pc = "cached"
  /\ \/ uploader = "run" /\ NotifyUploader(job.obj.max) /\ SettleDurable
        /\ UNCHANGED <<shadow, goal>>
     \/ uploader # "run" /\ Halt /\ UNCHANGED progress
  /\ UNCHANGED <<remote, manifest, mode, db, wal, segs, budget, caveats>>

\* A failed put, or write to the cache, is tried again, or ends the process.
BatchFails ==
  /\ pc = "put"
  /\ Spend("put")
  /\ remote' \in {remote} \cup (IF mode = "direct" THEN {Put(remote, job.obj)} ELSE {})
  /\ Halt \/ UNCHANGED <<shadow, st, pc, job, goal, tasks>>
  /\ UNCHANGED <<manifest, mode, db, wal, segs, progress, caveats>>

-----------------------------------------------------------------------------
(* wait_for_cache_checkpoint_durability and the end of the uploader.        *)

RequiredTxid == IF job.len = 0 THEN st.txid ELSE job.obj.max

\* Mutant: what lies below the TXID is not looked at.
DurableAbove == failed = {} /\ top >= RequiredTxid

Durable == failed = {} /\ pending = {} /\ top >= RequiredTxid

AwaitUploads ==
  /\ pc = "wait" /\ Durable
  /\ Settle
  /\ UNCHANGED <<caching, remote, db, wal, segs, shadow, goal, budget, caveats>>

\* An upload has failed, or the time is up: 30 seconds in which uploads are
\* slow, or in which nothing is left that could confirm the TXID.
AwaitFails ==
  /\ pc = "wait" /\ ~Durable
  /\ IF failed # {} \/ ~UploadReady THEN UNCHANGED budget ELSE Spend("put")
  /\ Halt
  /\ UNCHANGED <<remote, manifest, mode, db, wal, segs, progress, caveats>>

\* shutdown_shadow_uploaders: the Shutdown message, which a halted uploader
\* does not receive, then its result.
SendShutdown ==
  /\ pc = "drain"
  /\ \/ uploader = "run" /\ pc' = "closing" /\ UNCHANGED <<shadow, st, job, goal, tasks>>
     \/ uploader = "halted" /\ Halt
  /\ UNCHANGED <<remote, manifest, mode, db, wal, segs, progress, budget, caveats>>

Close ==
  /\ pc = "closing"
  /\ \/ uploader = "done" /\ pc' = "closed" /\ DropUploader("off")
        /\ UNCHANGED <<shadow, st, job, goal>>
     \/ uploader = "halted" /\ Halt
  /\ UNCHANGED <<remote, manifest, mode, db, wal, segs, progress, budget, caveats>>

\* The cleanup timer of the cache.
CacheCleanup ==
  /\ mode = "cache" /\ pc = "idle"
  /\ Evict
  /\ UNCHANGED <<remote, tasks, budget, watch>>

CloseChannel == pc = "closing" /\ StartDrain /\ UNCHANGED watch

Upload == Uploading /\ UNCHANGED watch

-----------------------------------------------------------------------------
(* The checkpoint that follows a batch.                                     *)

\* ShadowWal::checkpoint lets go of the WAL, checkpoints it PASSIVE and pins it
\* again with a new row, the first frame of the restarted WAL.
Checkpoint ==
  /\ pc = "checkpoint"
  /\ db' = db + 1 /\ wal' = Restarted(wal)
  /\ caveats' = IF wal.base + st.copy < db THEN caveats \cup {"overtaken"} ELSE caveats
  /\ pc' = "cleanup"
  /\ UNCHANGED <<caching, remote, segs, progress, shadow, st, job, goal, budget>>

\* Busy or incomplete: the WAL is pinned again, and the process ends.
CheckpointFails ==
  /\ pc = "checkpoint"
  /\ Spend("put")
  /\ db' = db + 1
  /\ Halt
  /\ UNCHANGED <<manifest, mode, remote, wal, segs, progress, caveats>>

\* cleanup_segments: the generations below the one being synced.
Cleanup ==
  /\ pc = "cleanup"
  /\ segs' = [g \in {h \in DOMAIN segs : h >= st.gen} |-> segs[g]]
  /\ pc' = "idle"
  /\ UNCHANGED <<caching, remote, db, wal, progress, shadow, st, job, goal, budget, caveats>>

-----------------------------------------------------------------------------
(* Crashes.                                                                 *)

\* A put under way may have taken effect.
Crash ==
  /\ ~Down
  /\ Spend("stop")
  /\ remote' \in {remote} \cup (IF pc = "snap" \/ (pc = "put" /\ mode = "direct")
                               THEN {Put(remote, job.obj)} ELSE {})
  /\ Halt
  /\ UNCHANGED <<manifest, mode, db, wal, segs, progress, caveats>>

\* Some of the frames reach the segment.
CrashInCopy ==
  /\ pc = "idle"
  /\ Spend("stop")
  /\ \E v \in wal.base + 1 .. db : segs' = Copied(shadow, st.copy, wal, v).segs
  /\ Halt
  /\ UNCHANGED <<manifest, mode, remote, db, wal, progress, caveats>>

Next ==
  \/ Commit \/ CheckpointedElsewhere \/ Start
  \/ SnapshotTick \/ EncodeSnapshot \/ PublishSnapshot \/ SnapshotFails
  \/ SyncTick \/ CheckpointTick \/ Signal \/ EncodeBatch \/ PublishBatch \/ BatchFails
  \/ CacheBatch \/ Notify \/ AwaitUploads \/ AwaitFails
  \/ SendShutdown \/ CloseChannel \/ Close \/ CacheCleanup \/ Upload
  \/ Checkpoint \/ CheckpointFails \/ Cleanup
  \/ Crash \/ CrashInCopy

Spec == Init /\ [][Next]_vars

\* The timers fire, neither the process nor the uploader stops in the middle of
\* a step.
Work ==
  \/ EncodeSnapshot \/ PublishSnapshot \/ SyncTick \/ EncodeBatch \/ PublishBatch
  \/ CacheBatch \/ Notify \/ AwaitUploads \/ SendShutdown \/ Close
  \/ Checkpoint \/ Cleanup

FairSpec ==
  /\ Spec
  /\ []<>Down \/ []<><<Work>>_vars
  /\ []<>(~UploadReady) \/ []<><<Upload>>_vars

-----------------------------------------------------------------------------
\* Every variable has its type, and the sync cursor of a running process is in
\* a segment of the shadow WAL.
TypeOK ==
  /\ db \in Nat /\ wal.base <= db /\ goal \in 0 .. db
  /\ pc \in {"down", "encode", "snap", "idle", "sync", "put", "cached", "wait", "checkpoint",
             "cleanup", "drain", "closing", "closed"}
  /\ \A g \in DOMAIN segs : \A i \in DOMAIN segs[g] : segs[g][i] \in 1 .. db
  /\ ~Down => st.gen <= shadow.gen /\ st.off <= Len(Segment(segs, st.gen))
  /\ caveats \subseteq {"overtaken", "unanchored", "orphaned", "unsaved", "behind", "reused"}
  /\ pending \cup failed \cup uploaded = DOMAIN entries /\ contig <= top /\ top <= MaxTxid
  /\ Down => uploader = "off" /\ flights = {}

\* A restore to any point ends in an error or in a version the database had
\* (README: "checkpoints can't destroy unshipped data").
RestoresVerified ==
  \A t \in 1 .. DiscoverTxid(remote) : RestoreTo(remote, t) # Mixed

\* So it is where no caveat applies: frames copied twice after a crash, batches
\* published twice and snapshots taken while frames wait in the segments never
\* leave pages of different versions in a restored file.
NoWrongRestore == caveats = {} => RestoresVerified

\* The frames in front of the sync cursor of the progress file.
Settled ==
  {f \in UNION {{g} \X DOMAIN segs[g] : g \in DOMAIN segs} :
     \/ f[1] < progress.state.gen
     \/ f[1] = progress.state.gen /\ f[2] <= progress.state.off}

\* What storage has, and will have when the next uploader is done.
Secured == remote \cup {entries[t] : t \in pending \cup failed}

\* Whenever the process stops, the TXID in the progress file can be restored,
\* with every frame in front of its cursor: what the next start does not read
\* again is in storage or waits in the cache (save_shadow_progress comes last).
\* And it can be started again: load_shadow_progress never finds a generation ahead
\* of the segments, nor the cache a failed upload without its file.  All along the
\* variables have their types.
ProgressIsDurable ==
  /\ TypeOK
  /\ Down => Startable
  /\ caveats = {} /\ progress.state.txid > 0 =>
       LET v == RestoreTo(Secured, progress.state.txid)
       IN  v # Refused /\ \A f \in Settled : segs[f[1]][f[2]] <= v

\* cleanup_segments removes no frame that storage itself does not have: with the
\* cache, the checkpoint has waited for every upload.
SegmentsKeptUntilShipped ==
  [][caveats = {} =>
       \A g \in DOMAIN segs \ DOMAIN segs' :
         \A i \in DOMAIN segs[g] : segs[g][i] <= RestoreLatest(remote)]_vars

\* A process that exits without an error has shipped what was committed when
\* it handled the signal (final copy, final batch and uploader drain).
CleanStopShips ==
  caveats = {} /\ pc = "closed" => RestoreLatest(remote) >= goal

\* Once the application pauses, everything it committed comes to storage and
\* stays there, as long as the process and its uploader run: the sync tick reaches every
\* generation (advance_shadow_sync_cursor_if_drained).
CommitsGetShipped ==
  <>[](Down \/ caveats # {} \/ uploader = "halted" \/ RestoreLatest(remote) >= db)

=============================================================================
