-------------------------- MODULE IndependentWatch --------------------------
(***************************************************************************)
(* `walrust watch --independent-tasks` for one database                    *)
(* (watch_independent.rs, wal_sync.rs, legacy_wal_sync.rs): the startup    *)
(* anchor, the poll, snapshot and cleanup timers and the shutdown of its   *)
(* task.  In mode "direct" the task publishes to storage and nothing keeps *)
(* the WAL from being reset; in mode "cache" it pins the WAL with a        *)
(* checkpoint blocker and publishes through the upload cache.              *)
(*                                                                         *)
(* Frame i of the WAL holds transaction wal.base + i.                      *)
(***************************************************************************)
EXTENDS UploadCache

CONSTANT Setups   \* the mode and the budget of faults and environment steps

\* Commits, also ones that move the file's layout away from the packed one;
\* WAL resets; starts and stops of the process; puts of the task that fail;
\* snapshot ticks; uploads that are retried and uploads that are given up.
Kinds == {"app", "scatter", "reset", "start", "stop", "put", "snap", "retry", "fail"}

ASSUME SetupsAssumption ==
  Setups \subseteq [mode : {"direct", "cache"}, budget : [Kinds -> Nat]]

VARIABLES
  mode,     \* whether the upload cache is configured
  db,       \* SQLite: the newest committed version
  wal,      \* SQLite: the WAL's salt, the version below it, whether it has a header
  layout,   \* SQLite: how the file is laid out
  pc,       \* where the process or its task is
  cur,      \* WatchedDbState: current_txid, db_checksum, wal_offset, wal_salt
  job,      \* the snapshot or sync under way
  goal,     \* version committed when the shutdown signal was handled, None before
  caveats   \* what has happened that the design does not provide for

watch == <<mode, db, wal, layout, pc, cur, job, goal, caveats>>
vars  == <<remote, entries, pending, failed, uploaded, contig, top, resume, queue,
           flights, uploader, budget, mode, db, wal, layout, pc, cur, job, goal, caveats>>

Cursor(txid, sum, off, salt) == [txid |-> txid, sum |-> sum, off |-> off, salt |-> salt]
NoCursor == Cursor(0, FileSum, 0, None)

\* at: what asked for it ("startup", "tick" or "timer"); why: which snapshot, or
\* "sync"; salt: the WAL salt it goes by; obj: the encoded object; off: the WAL
\* offset behind it.
Job(at, why, salt) == [at |-> at, why |-> why, salt |-> salt, obj |-> None, off |-> 0]
NoJob == Job("tick", "sync", None)

Stopping == goal # None
WalLen   == IF wal.open THEN db - wal.base ELSE 0
WalSalt  == IF wal.open THEN wal.salt ELSE None

Init ==
  /\ \E s \in Setups : mode = s.mode /\ budget = s.budget
  /\ db = 1 /\ wal = [salt |-> 0, base |-> 1, open |-> FALSE] /\ layout = "packed"
  /\ pc = "down" /\ cur = NoCursor /\ job = NoJob /\ goal = None /\ caveats = {}
  /\ remote = {} /\ entries = <<>> /\ pending = {} /\ failed = {} /\ uploaded = {}
  /\ contig = 0 /\ top = 0 /\ resume = <<>> /\ queue = <<>> /\ flights = {} /\ uploader = "off"

-----------------------------------------------------------------------------
(* The application.                                                         *)

\* The blocker is held from the opening of the cache to the end of the task.
Pinned ==
  /\ mode = "cache"
  /\ pc \in {"idle", "cached", "drain", "closing"} \/ (pc \in {"encode", "snap"} /\ job.at = "timer")

\* A reset here escapes the task: it has a snapshot but not yet the salt of
\* the WAL behind it, or has checked the salt of frames it has not yet read.
Unguarded ==
  /\ pc \notin {"down", "closed", "dead", "encode"}
  /\ \/ pc = "snap"
     \/ pc = "read" /\ (cur.off = 0 \/ Stopping)
     \/ pc = "open" /\ mode = "cache"
     \/ cur.salt = None /\ cur.txid > 0

AppendTo(w) == IF w.open THEN w ELSE [salt |-> w.salt + 1, base |-> db, open |-> TRUE]

Commit ==
  /\ Spend("app")
  /\ db' = db + 1 /\ wal' = AppendTo(wal)
  /\ UNCHANGED <<remote, manifest, tasks, mode, layout, pc, cur, job, goal, caveats>>

\* Tables that grow side by side are not laid out as VACUUM lays them out.
CommitScattered ==
  /\ Spend("scatter")
  /\ db' = db + 1 /\ wal' = AppendTo(wal) /\ layout' \in Layouts \ {"packed"}
  /\ caveats' = caveats \cup {"scattered"}
  /\ UNCHANGED <<remote, manifest, tasks, mode, pc, cur, job, goal>>

\* After a checkpoint of every frame the next commit starts the WAL anew.
CommitRestarting ==
  /\ wal.open /\ ~Pinned
  /\ Spend("reset")
  /\ db' = db + 1
  /\ wal' = [salt |-> wal.salt + 1, base |-> db, open |-> TRUE]
  /\ caveats' = IF Unguarded THEN caveats \cup {"unguarded"} ELSE caveats
  /\ UNCHANGED <<remote, manifest, tasks, mode, layout, pc, cur, job, goal>>

\* Another connection truncates the WAL, or the last one closes.
Truncate ==
  /\ wal.open /\ ~Pinned
  /\ Spend("reset")
  /\ wal' = [wal EXCEPT !.open = FALSE]
  /\ caveats' = caveats \cup (IF Unguarded THEN {"unguarded"} ELSE {})
                        \cup (IF pc \in {"down", "closed"} THEN {} ELSE {"emptied"})
  /\ UNCHANGED <<remote, manifest, tasks, mode, db, layout, pc, cur, job, goal>>

-----------------------------------------------------------------------------
(* Startup.                                                                 *)

\* A stream that exists is anchored anew; a fresh one gets its first snapshot
\* now if there is a WAL file, on the first poll otherwise.
Start ==
  /\ pc \in {"down", "closed"}
  /\ Spend("start")
  /\ LET head == DiscoverTxid(remote)
     IN  /\ cur' = Cursor(head, FileSum, 0, None)
         /\ \/ /\ pc' = "encode"
               /\ job' = Job("startup", IF head > 0 THEN "anchor" ELSE "initial", None)
            \/ head = 0 /\ ~wal.open /\ pc' = "open" /\ UNCHANGED job
  /\ goal' = None
  /\ UNCHANGED <<remote, manifest, tasks, mode, db, wal, layout, caveats>>

\* The cache, the shadow WAL with its checkpoint blocker, the uploader.
Open ==
  /\ pc = "open"
  /\ \/ mode = "direct" /\ pc' = "idle"
        /\ UNCHANGED <<manifest, tasks, db, wal, caveats>>
     \/ /\ mode = "cache" /\ Reopenable /\ pc' = "idle"
        /\ OpenCache
        /\ db' = db + 1 /\ wal' = AppendTo(wal)
        /\ caveats' = IF Clashes(pending', cur.txid) THEN caveats \cup {"reused"} ELSE caveats
     \/ mode = "cache" /\ ~Reopenable /\ pc' = "down"
        /\ UNCHANGED <<manifest, tasks, db, wal, caveats>>
  /\ UNCHANGED <<remote, budget, mode, layout, cur, job, goal>>

-----------------------------------------------------------------------------
(* Snapshots.                                                               *)

\* Where the task goes when a do_sync returns Ok.
AfterSync == IF ~Stopping THEN "idle" ELSE IF mode = "direct" THEN "closed" ELSE "drain"

\* The TXID and the generation a snapshot is published under.
SnapshotSlot(why) ==
  CASE why = "initial"  -> <<1, 1>>
    [] why = "rollover" -> <<cur.txid + 1, DiscoverGeneration(remote) + 1>>
    [] OTHER            -> <<DiscoverTxid(remote) + 1, DiscoverGeneration(remote) + 1>>

\* Listing, checkpoint and VACUUM INTO: a rollover snapshot truncates the WAL
\* first, the others checkpoint it PASSIVE.
EncodeSnapshot ==
  /\ pc = "encode"
  /\ LET slot == SnapshotSlot(job.why)
     IN  /\ job' = [job EXCEPT !.obj = Snapshot(slot[2], slot[1], db, layout)]
         /\ caveats' = IF \/ job.at = "timer" /\ Clashes(pending \cup failed, slot[1])
                          \/ job.why = "rollover" /\ slot[1] < DiscoverTxid(remote)
                       THEN caveats \cup {"reused"} ELSE caveats
  /\ wal' = IF job.why = "rollover" THEN [wal EXCEPT !.open = FALSE] ELSE wal
  /\ pc' = "snap"
  /\ UNCHANGED <<remote, manifest, tasks, budget, mode, db, layout, cur, goal>>

\* The put succeeds; the WAL header is read after it, but not for an initial
\* snapshot.
PublishSnapshot ==
  /\ pc = "snap"
  /\ remote' = Put(remote, job.obj)
  /\ cur' = Cursor(job.obj.max, job.obj.sum, 0, IF job.why = "initial" THEN None ELSE WalSalt)
  /\ pc' = CASE job.at = "startup" -> "open" [] job.at = "timer" -> "idle" [] OTHER -> AfterSync
  /\ job' = NoJob
  /\ caveats' = IF Clashes(pending \cup failed, job.obj.max) THEN caveats \cup {"reused"} ELSE caveats
  /\ UNCHANGED <<manifest, tasks, budget, mode, db, wal, layout, goal>>

SnapshotTick ==
  /\ pc = "idle" /\ ~Stopping
  /\ Spend("snap")
  /\ pc' = "encode" /\ job' = Job("timer", "periodic", None)
  /\ UNCHANGED <<remote, manifest, tasks, mode, db, wal, layout, cur, goal, caveats>>

\* What fails is retried from the beginning, or given up: at startup with a
\* warning, later with the task.
AfterFailure ==
  /\ pc' \in CASE job.at = "startup" -> {"encode", "open"}
               [] job.at = "timer"   -> {"encode", "dead"}
               [] OTHER              -> {"tick", "dead"}
  /\ job' = IF pc' = "encode" THEN [job EXCEPT !.obj = None] ELSE NoJob

\* The listing fails, or the checkpoint ends busy or incomplete.
EncodeFails ==
  /\ pc = "encode"
  /\ Spend("put")
  /\ AfterFailure
  /\ caveats' = IF pc' = "open" /\ job.why = "anchor" THEN caveats \cup {"unanchored"} ELSE caveats
  /\ UNCHANGED <<remote, manifest, tasks, mode, db, wal, layout, cur, goal>>

\* A put fails, with or without having taken effect.
PutFails ==
  /\ pc \in {"snap", "put"}
  /\ Spend("put")
  /\ remote' \in {remote, Put(remote, job.obj)}
  /\ AfterFailure
  /\ caveats' = caveats \cup (IF pc' = "open" /\ job.why = "anchor" THEN {"unanchored"} ELSE {})
                        \cup (IF job.why = "rollover" THEN {"emptied"} ELSE {})
                        \cup (IF Clashes(pending \cup failed, job.obj.max) THEN {"reused"} ELSE {})
  /\ UNCHANGED <<manifest, tasks, mode, db, wal, layout, cur, goal>>

-----------------------------------------------------------------------------
(* Polls of the direct mode: sync_wal_to_storage.                           *)

\* Mutant: the salt of the WAL header is not compared.
ShrunkOnly == WalLen < cur.off

\* The WAL is not the one the cursor is in.
RolledOver == WalLen < cur.off \/ (cur.salt # None /\ cur.salt # wal.salt)

CheckWal ==
  /\ mode = "direct" /\ pc \in {"idle", "tick"}
  /\ \/ cur.txid = 0 /\ pc' = "encode" /\ job' = Job("tick", "initial", None)
     \/ cur.txid > 0 /\ ~wal.open /\ pc' = AfterSync /\ UNCHANGED job
     \/ cur.txid > 0 /\ wal.open /\ RolledOver
        /\ pc' = "encode" /\ job' = Job("tick", "rollover", None)
     \/ cur.txid > 0 /\ wal.open /\ ~RolledOver
        /\ pc' = "read" /\ job' = Job("tick", "sync", wal.salt)
  /\ UNCHANGED <<remote, manifest, tasks, budget, mode, db, wal, layout, cur, goal, caveats>>

\* The frames behind the cursor; behind a cursor inside a WAL that is gone no
\* frame continues the checksum chain.
UnreadFrames(salt) == WalLen > cur.off /\ (salt = wal.salt \/ cur.off = 0)

\* The batch that ships every unread frame.
Batch ==
  LET from == wal.base + cur.off
  IN  Incremental(cur.txid, PagesOf([i \in 1 .. db - from |-> from + i]), cur.sum)

\* read_frames_as_page_map_checked and encode_wal_changes.
ReadWal ==
  /\ pc = "read"
  /\ IF UnreadFrames(job.salt)
       THEN /\ pc' = "put" /\ job' = [job EXCEPT !.obj = Batch, !.off = WalLen]
            /\ UNCHANGED cur
       ELSE /\ pc' = AfterSync /\ job' = NoJob
            /\ cur' = [cur EXCEPT !.salt = job.salt]
  /\ UNCHANGED <<remote, manifest, tasks, budget, mode, db, wal, layout, goal, caveats>>

PublishBatch ==
  /\ pc = "put"
  /\ remote' = Put(remote, job.obj)
  /\ cur' = Cursor(job.obj.max, job.obj.sum, job.off, job.salt)
  /\ pc' = AfterSync /\ job' = NoJob
  /\ UNCHANGED <<manifest, tasks, budget, mode, db, wal, layout, goal, caveats>>

-----------------------------------------------------------------------------
(* Polls of the cache mode: sync_wal_to_cache.                              *)

CacheSnapshot ==
  /\ mode = "cache" /\ pc = "idle" /\ cur.txid = 0
  /\ LET o == Snapshot(1, 1, db, layout)
     IN  WriteLtx(o) /\ cur' = Cursor(1, o.sum, 0, None)
  /\ pc' = "cached"
  /\ UNCHANGED <<remote, tasks, budget, mode, db, wal, layout, job, goal, caveats>>

CacheBatch ==
  /\ mode = "cache" /\ pc = "idle" /\ cur.txid > 0 /\ WalLen > cur.off
  /\ WriteLtx(Batch)
  /\ cur' = Cursor(Batch.max, Batch.sum, WalLen, cur.salt)
  /\ pc' = "cached"
  /\ UNCHANGED <<remote, tasks, budget, mode, db, wal, layout, job, goal, caveats>>

Notify ==
  /\ pc = "cached"
  /\ NotifyUploader(cur.txid)
  /\ pc' = AfterSync
  /\ UNCHANGED <<remote, manifest, budget, mode, db, wal, layout, cur, job, goal, caveats>>

-----------------------------------------------------------------------------
(* The end of the process.                                                  *)

Signal ==
  /\ pc \in {"idle", "dead"} /\ ~Stopping
  /\ \/ pc = "idle" /\ goal' = db /\ UNCHANGED <<pc, tasks>>
     \/ pc = "dead" /\ pc' = "down" /\ DropUploader("off") /\ UNCHANGED goal
  /\ UNCHANGED <<remote, manifest, budget, mode, db, wal, layout, cur, job, caveats>>

NothingToCache ==
  /\ mode = "cache" /\ pc = "idle" /\ Stopping /\ cur.txid > 0 /\ WalLen <= cur.off
  /\ pc' = "drain"
  /\ UNCHANGED <<remote, manifest, tasks, budget, mode, db, wal, layout, cur, job, goal, caveats>>

\* The Shutdown message is refused when the uploader has halted.
SendShutdown ==
  /\ pc = "drain"
  /\ \/ uploader = "run" /\ pc' = "closing" /\ UNCHANGED tasks
     \/ uploader = "halted" /\ pc' = "down" /\ DropUploader("off")
  /\ UNCHANGED <<remote, manifest, budget, mode, db, wal, layout, cur, job, goal, caveats>>

\* The uploader's result decides how the process exits.
Close ==
  /\ pc = "closing" /\ uploader \in {"done", "halted"}
  /\ pc' = IF uploader = "done" THEN "closed" ELSE "down"
  /\ DropUploader("off")
  /\ UNCHANGED <<remote, manifest, budget, mode, db, wal, layout, cur, job, goal, caveats>>

\* A crash, or a drain that times out.
Stop ==
  /\ pc \notin {"down", "closed"}
  /\ Spend("stop")
  /\ pc' = "down" /\ cur' = NoCursor /\ job' = NoJob /\ goal' = None
  /\ DropUploader("off")
  /\ UNCHANGED <<remote, manifest, mode, db, wal, layout, caveats>>

-----------------------------------------------------------------------------
App == Commit \/ CommitScattered \/ CommitRestarting \/ Truncate

Task ==
  \/ Open \/ EncodeSnapshot \/ EncodeFails \/ PublishSnapshot \/ PutFails
  \/ CheckWal \/ ReadWal \/ PublishBatch
  \/ CacheSnapshot \/ CacheBatch \/ Notify
  \/ NothingToCache \/ SendShutdown \/ Close

CloseChannel == pc \in {"closing", "dead"} /\ StartDrain /\ UNCHANGED watch

Upload == Uploading /\ UNCHANGED watch

Next ==
  \/ App \/ Start \/ SnapshotTick \/ Signal \/ Stop
  \/ Task \/ Upload \/ CloseChannel

Spec == Init /\ [][Next]_vars

-----------------------------------------------------------------------------
\* Every variable has its type: the manifest only names cached TXIDs, and the
\* uploader runs only under a process that has opened the cache.
TypeOK ==
  /\ mode \in {"direct", "cache"} /\ db \in Nat /\ layout \in Layouts
  /\ wal.base <= db /\ cur.off <= db
  /\ pc \in {"down", "encode", "snap", "open", "idle", "tick", "read", "put",
             "cached", "drain", "closing", "closed", "dead"}
  /\ uploaded \subseteq DOMAIN entries /\ pending \subseteq DOMAIN entries
  /\ contig \in 0 .. MaxTxid /\ DiscoverTxid(remote) <= MaxTxid
  /\ pc \in {"down", "closed"} => uploader = "off" /\ flights = {}
  /\ caveats \subseteq {"unguarded", "emptied", "reused", "unanchored", "scattered"}

\* A restore to any point ends in an error or in a version the database had.  Does not
\* hold with LayoutSetups (README, section 6).
RestoresVerified ==
  \A t \in 1 .. DiscoverTxid(remote) : RestoreTo(remote, t) # Mixed

\* Unless the WAL is reset in an unguarded moment, or the live file numbers its pages
\* unlike its vacuumed copy, the checksum chain and the planner (restore_legacy_ltx)
\* never let a wrong file pass, whatever uploads were reordered, repeated, lost or
\* overwritten.
NoWrongRestore ==
  "unguarded" \notin caveats /\ "scattered" \notin caveats => RestoresVerified

\* Once nothing waits in the cache, a restore gives at least what the running
\* task has shipped.  Does not hold with LayoutSetups (README, section 6).
EverythingSyncedRestorable ==
  pc = "idle" /\ cur.txid > 0 /\ pending \cup failed = {} =>
    RestoreLatest(remote) >= Shipped(cur.sum)

\* It does where no caveat applies: retries, rollovers, re-anchoring and
\* periodic snapshots leave a stream the planner can follow to its end.
SyncedIsRestorable == caveats = {} => EverythingSyncedRestorable

\* A process that exits without an error has everything in storage that was
\* committed when it handled the signal (final sync and uploader drain of
\* run_db_task).
CleanStopShips ==
  caveats = {} /\ pc = "closed" => RestoreLatest(remote) >= goal

\* What the manifest says is durable is: last_contiguous_uploaded_txid is a point a
\* restore from storage reaches, and the next process (new_at) accepts the manifest,
\* wherever the uploader stopped.  All along the variables have their types.
CursorRestorable ==
  /\ TypeOK
  /\ "reused" \notin caveats =>
       /\ Reopenable
       /\ "scattered" \notin caveats /\ contig > 0 => RestoreTo(remote, contig) # Refused

\* A restore that reads from the cache reads what storage has, whatever waits,
\* was uploaded twice or is left from an earlier process; where TXIDs were given
\* out twice it may end as another restore, but never with a wrong file
\* (cache_substitute_for_key).  Nor does the cleanup timer take anything away:
\* snapshots enter the cache as TXID 1 only, and without one the durable cursor stays
\* at 0, so that cleanup is no action of Next and cache.max_size is not enforced.
CachedRestoreAgrees ==
  /\ Evictable = {}
  /\ "reused" \notin caveats => CacheView = remote
  /\ "unguarded" \notin caveats /\ "scattered" \notin caveats /\ CacheView # remote =>
       \A t \in 1 .. DiscoverTxid(remote) : RestoreThroughCache(t) # Mixed

\* The uploader runs whenever it has something to do, and the task does not
\* stop between the cache and the channel.
Fairness ==
  /\ []<>(~UploadReady) \/ []<><<Upload>>_vars
  /\ []<>(pc # "cached")

FairSpec == Spec /\ Fairness

\* Every cached object is uploaded or recorded as failed in the end, unless its
\* uploader is gone: once the watcher pauses, nothing is left pending.
PendingSettles ==
  pending # {} /\ uploader = "run" ~> pending = {} \/ uploader \in {"halted", "off"}

=============================================================================
