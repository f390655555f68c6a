----------------------------- MODULE OwnedStream -----------------------------
(***************************************************************************)
(* Walrust-owned replication of one SQLite database (walrust-core:         *)
(* replicator.rs, sync.rs, wal.rs, ltx.rs).  A writer appends transactions *)
(* to the WAL, the replicator publishes them to object storage as          *)
(* incremental changesets (generation 0000) or as whole-file snapshots     *)
(* (generation 0001), and a restore rebuilds the database from the newest  *)
(* snapshot and the incrementals behind it.                                *)
(*                                                                         *)
(* The content of a database is a version: the number of transactions      *)
(* committed.  Frame i of the WAL holds transaction walBase + i.  The page *)
(* images of transactions lo+1..ver, written over a file whose pages are   *)
(* all at versions lo..ver, give exactly version ver; written over         *)
(* anything else they give no version of the database at all.              *)
(***************************************************************************)
EXTENDS Integers, FiniteSets

CONSTANTS
  MaxVersion,   \* no checkpoint blocker is opened at or above this version
  MaxSeq,       \* sequence numbers available to objects
  Budgets       \* fault mixes: how often each kind of step may be taken

\* Commits by the application; crashes and removals of the replicator; failed
\* object puts, with or without a lost answer; failed writes of state.json;
\* checkpoints that end busy or incomplete; checkpoints by other connections;
\* ticks of the periodic snapshot timer.
Kinds == {"app", "stop", "put", "save", "busy", "ext", "tick"}

ASSUME BoundsAssumption ==
  MaxVersion \in Nat /\ MaxSeq \in Nat /\ Budgets \subseteq [Kinds -> Nat]

VARIABLES
  committed,  \* SQLite: newest committed version
  base,       \* SQLite: version of the main database file
  walBase,    \* SQLite: version below the first frame of the WAL
  salt,       \* SQLite: salt of the WAL header, fresh for each WAL generation
  wal,        \* SQLite: whether the WAL file has a header ("open") or is "empty"
  pin,        \* version the checkpoint blocker's read transaction pins, 0: released
  mem,        \* SyncState: current_seq, wal_offset, wal_salt, chain, db_checksum
  pc,         \* where the replicator's one task for this database is
  op,         \* the operation it is running
  job,        \* the locals of that operation that survive an await
  snap,       \* storage: snapshots of the active lineage, by sequence number
  incr,       \* storage: incrementals of the active lineage
  stateJson,  \* storage: state.json
  intent,     \* local disk: the publish intent
  acked,      \* newest version an operation that returned Ok was asked to ship
  refused,    \* sequence numbers at which a publish was refused as equivocation
  budget      \* faults and environment steps left

sqlite  == <<committed, base, walBase, salt, wal>>
store   == <<snap, incr, stateJson>>
vars    == <<committed, base, walBase, salt, wal, pin, mem, pc, op, job,
             snap, incr, stateJson, intent, acked, refused, budget>>

\* An absent object, intent or checksum: a record unlike any of them.
None == [kind |-> "none"]

Seqs    == 1 .. MaxSeq
NoSalt  == 0
NoChain == -1

\* The fields of SyncState that decide what is published.
Mem(seq, off, slt, chain, sum) ==
  [seq |-> seq, off |-> off, salt |-> slt, chain |-> chain, sum |-> sum]

\* goal: version committed when the operation began; off: new_offset of a sync;
\* lo: version of the main file when a snapshot starts to read it; obj: the
\* encoded object; prior: the publish intent found on disk.
Job(goal, off, lo, obj, prior) ==
  [goal |-> goal, off |-> off, lo |-> lo, obj |-> obj, prior |-> prior]

NoMem    == Mem(0, 0, NoSalt, NoChain, None)
JobOf(v) == Job(v, 0, 0, None, None)
NoJob    == JobOf(0)

-----------------------------------------------------------------------------
(* Checksums.  A checksum is what it is computed from.                      *)

\* An incremental's checksum hashes the checksum before it and its pages.
IncrSum(pre, lo, ver) == [kind |-> "incr", pre |-> pre, lo |-> lo, ver |-> ver]

\* A snapshot's checksum hashes the pages of the file as they were read: they
\* are at versions lo..ver, all at one version unless a checkpoint intervened.
FileSum(lo, ver) == [kind |-> "file", pre |-> None, lo |-> lo, ver |-> ver]

\* The oldest version a page of the file with this checksum can be at.
Floor(sum) == IF sum.kind = "file" THEN sum.lo ELSE sum.ver

-----------------------------------------------------------------------------
(* SQLite.                                                                  *)

HasHeader == wal = "open"

WalLen == IF HasHeader THEN committed - walBase ELSE 0

\* A commit appends to the WAL; it starts a new WAL generation in a WAL
\* without a header, and may do so in place once every frame is in the main
\* file and no reader pins the WAL.
AppendTxn ==
  /\ committed' = committed + 1
  /\ \/ /\ ~HasHeader \/ (pin = 0 /\ base = committed)
        /\ walBase' = committed /\ salt' = salt + 1 /\ wal' = "open"
     \/ HasHeader /\ UNCHANGED <<walBase, salt, wal>>
  /\ UNCHANGED base

\* The blocker writes _walrust_seq, then opens a read transaction on that frame.
OpenCheckpointBlocker ==
  /\ committed < MaxVersion
  /\ AppendTxn
  /\ pin' = committed + 1

\* A TRUNCATE checkpoint that completes.
Truncated ==
  /\ base' = committed
  /\ wal' = "empty"
  /\ UNCHANGED <<committed, walBase, salt>>

Spend(k) == budget[k] > 0 /\ budget' = [budget EXCEPT ![k] = @ - 1]

-----------------------------------------------------------------------------
Init ==
  /\ committed = 1 /\ base = 1 /\ walBase = 1 /\ salt = NoSalt /\ wal = "empty"
  /\ pin = 0 /\ mem = NoMem /\ pc = "stopped" /\ op = "none" /\ job = NoJob
  /\ snap = [s \in Seqs |-> None] /\ incr = [s \in Seqs |-> None]
  /\ stateJson = None /\ intent = None
  /\ acked = 0 /\ refused = {}
  /\ budget \in Budgets

(* The application and other connections to the database.                   *)
AppCommit ==
  /\ Spend("app")
  /\ AppendTxn
  /\ UNCHANGED <<pin, mem, pc, op, job, store, intent, acked, refused>>

\* A checkpoint copies frames into the main file up to the oldest reader.
ExtBackfill ==
  /\ HasHeader /\ Spend("ext")
  /\ \E v \in base + 1 .. (IF pin = 0 THEN committed ELSE pin) : base' = v
  /\ UNCHANGED <<committed, walBase, salt, wal, pin, mem, pc, op, job, store,
                 intent, acked, refused>>

\* A TRUNCATE checkpoint, or the last close, by somebody else.
ExtTruncate ==
  /\ HasHeader /\ pin = 0 /\ Spend("ext")
  /\ Truncated
  /\ UNCHANGED <<pin, mem, pc, op, job, store, intent, acked, refused>>

-----------------------------------------------------------------------------
(* The replicator's task for the database: it holds the database's lock for *)
(* one operation at a time, and can be interrupted only between its awaits. *)

\* Mutant: the salt of the WAL header is not compared.
RolledOverBySizeOnly(m) == WalLen < m.off

\* Everything newer than what the replicator last saw of the WAL is unknown
\* to it once the WAL shrank or its salt changed.
RolledOver(m) == WalLen < m.off \/ (m.salt # NoSalt /\ m.salt # salt)

\* Mid-WAL the frames are checked against the running chain, from the header
\* otherwise: with a chain that is not the one at the offset they look torn.
ChainMatches(m) == m.off = 0 \/ m.chain \in {NoChain, m.off}

HasBatch(m) == ChainMatches(m) /\ m.off < WalLen

\* SyncState after read_next_wal_batch: the cursor is reset on a rollover, the
\* salt is the current one, and the chain covers the frames read.
AfterRead(m) ==
  LET r == IF RolledOver(m) THEN Mem(m.seq, 0, salt, NoChain, m.sum)
                            ELSE Mem(m.seq, m.off, salt, m.chain, m.sum)
  IN  IF HasBatch(r) THEN Mem(r.seq, r.off, r.salt, WalLen, r.sum) ELSE r

\* An operation that returns Ok; `remove' unregisters the database.
Finish(o, goal, m) ==
  /\ op' = "none" /\ job' = NoJob
  /\ acked' = IF goal > acked THEN goal ELSE acked
  /\ IF o = "remove"
     THEN pc' = "stopped" /\ pin' = 0 /\ mem' = NoMem
     ELSE pc' = "idle" /\ mem' = m /\ UNCHANGED pin

\* An operation that returns Err; a failed `add' registers nothing.
Fail(m) ==
  /\ op' = "none" /\ job' = NoJob
  /\ IF op = "add"
     THEN pc' = "stopped" /\ pin' = 0 /\ mem' = NoMem
     ELSE pc' = "idle" /\ mem' = m /\ UNCHANGED pin
  /\ UNCHANGED acked

\* release_checkpoint_blocker, then on to the checkpoint of take_snapshot.
StartSnapshot(o, m) ==
  /\ mem' = m
  /\ m.seq < MaxSeq /\ committed < MaxVersion
  /\ op' = o /\ pc' = "checkpoint" /\ pin' = 0

Begin(o) ==
  /\ pc = "idle"
  /\ IF o = "remove" THEN Spend("stop") ELSE UNCHANGED budget

\* The WAL has no header: nothing to ship.
SyncNoWal(o) ==
  /\ Begin(o) /\ ~HasHeader
  /\ Finish(o, committed, mem)
  /\ UNCHANGED <<sqlite, store, intent, refused>>

\* The WAL was reset behind the replicator's back: re-anchor with a snapshot.
SyncRollover(o) ==
  /\ Begin(o) /\ HasHeader /\ RolledOver(mem)
  /\ StartSnapshot(o, AfterRead(mem))
  /\ job' = JobOf(committed)
  /\ UNCHANGED <<sqlite, store, intent, acked, refused>>

SyncEmpty(o) ==
  /\ Begin(o) /\ HasHeader /\ ~RolledOver(mem) /\ ~HasBatch(mem)
  /\ Finish(o, committed, AfterRead(mem))
  /\ UNCHANGED <<sqlite, store, intent, refused>>

\* save_publish_intent: what is about to be published, on disk before the put.
PublishIntent(n, pre, obj) == [seq |-> n, pre |-> pre, sum |-> obj]

\* Read the committed frames behind the offset, encode them, record the intent.
SyncRead(o) ==
  /\ Begin(o) /\ HasHeader /\ ~RolledOver(mem) /\ HasBatch(mem)
  /\ mem.seq < MaxSeq
  /\ LET obj == IncrSum(mem.sum, walBase + mem.off, committed)
     IN  /\ job' = Job(committed, WalLen, 0, obj, intent)
         /\ intent' = PublishIntent(mem.seq + 1, mem.sum, obj)
  /\ mem' = AfterRead(mem)
  /\ op' = o /\ pc' = "publish"
  /\ UNCHANGED <<sqlite, pin, store, acked, refused>>

\* put_if_absent took the object, or found the same bytes.  The same batch encoded
\* again need not be: the header has the time of the encoding.
PublishOk ==
  LET n == mem.seq + 1 IN
  /\ pc = "publish" /\ incr[n] \in {None, job.obj}
  /\ incr' = [incr EXCEPT ![n] = job.obj]
  /\ mem' = Mem(n, job.off, mem.salt, mem.chain, job.obj)
  /\ pc' = "save"
  /\ UNCHANGED <<sqlite, pin, op, job, snap, stateJson, intent, acked, refused, budget>>

\* Mutant: the publish intent is not consulted.
NothingIsOurPublish(n) == FALSE

\* The stored object is the one this replicator recorded before a crash.
IsOurPublish(n) ==
  /\ job.prior # None
  /\ job.prior.seq = n /\ job.prior.pre = mem.sum
  /\ incr[n].pre = mem.sum /\ incr[n] = job.prior.sum

\* Other bytes at our sequence number, and they are ours: adopt and re-anchor.
PublishAdopt ==
  LET n == mem.seq + 1 IN
  /\ pc = "publish" /\ incr[n] # None /\ IsOurPublish(n)
  /\ StartSnapshot(op, Mem(n, mem.off, mem.salt, mem.chain, incr[n]))
  /\ job' = JobOf(job.goal)
  /\ UNCHANGED <<sqlite, store, intent, acked, refused, budget>>

\* Other bytes at our sequence number: refuse to overwrite them.
PublishRefused ==
  LET n == mem.seq + 1 IN
  /\ pc = "publish" /\ incr[n] # None /\ ~IsOurPublish(n)
  /\ Fail(mem) /\ refused' = refused \cup {mem.seq + 1}
  /\ UNCHANGED <<sqlite, store, intent, budget>>

\* The put fails, or succeeds and its answer is lost.
PublishError ==
  LET n == mem.seq + 1 IN
  /\ pc = "publish" /\ Spend("put")
  /\ \/ UNCHANGED incr
     \/ incr[n] = None /\ incr' = [incr EXCEPT ![n] = job.obj]
  /\ Fail(mem)
  /\ UNCHANGED <<sqlite, snap, stateJson, intent, refused>>

(* take_snapshot.                                                           *)

\* Mutant: log frames and checkpointed frames are not compared.
CheckpointUnchecked ==
  /\ pc = "checkpoint"
  /\ \E v \in base .. committed : base' = v
  /\ pc' = "reacquire"
  /\ UNCHANGED <<committed, walBase, salt, wal, pin, mem, op, job, store, intent, acked,
                 refused, budget>>

CheckpointOk ==
  /\ pc = "checkpoint" /\ Truncated
  /\ pc' = "reacquire"
  /\ UNCHANGED <<pin, mem, op, job, store, intent, acked, refused, budget>>

\* Another connection is in the way; some frames may have been copied.
CheckpointBusy ==
  /\ pc = "checkpoint" /\ Spend("busy")
  /\ \E v \in base .. committed : base' = v
  /\ Fail(mem)
  /\ UNCHANGED <<committed, walBase, salt, wal, store, intent, refused>>

Reacquire ==
  /\ pc = "reacquire" /\ OpenCheckpointBlocker
  /\ job' = Job(job.goal, 0, base, None, None)
  /\ pc' = "encode"
  /\ UNCHANGED <<mem, op, store, intent, acked, refused, budget>>

\* The main file is read page by page: a checkpoint since the blocker was
\* opened came before the read, or in the middle of it.
Encode ==
  /\ pc = "encode"
  /\ \E lo \in {job.lo, base} :
       job' = Job(job.goal, 0, lo, [pre |-> mem.sum, sum |-> FileSum(lo, base)], None)
  /\ pc' = "upload"
  /\ UNCHANGED <<sqlite, pin, mem, op, store, intent, acked, refused, budget>>

\* Mutant: the WAL cursor survives the snapshot.
AfterSnapshotKeepsCursor(m, sum) == Mem(m.seq + 1, m.off, m.salt, m.chain, sum)

\* SyncState after the snapshot: reset_wal_cursor_after_snapshot.
AfterSnapshot(m, sum) ==
  Mem(m.seq + 1, 0, IF HasHeader THEN salt ELSE NoSalt, NoChain, sum)

\* The periodic snapshot returns without a save of state.json.
UploadOk ==
  LET n == mem.seq + 1
      m == AfterSnapshot(mem, job.obj.sum) IN
  /\ pc = "upload" /\ snap[n] \in {None, job.obj}
  /\ snap' = [snap EXCEPT ![n] = job.obj]
  /\ IF op = "snapshot"
     THEN Finish(op, job.goal, m)
     ELSE mem' = m /\ pc' = "save" /\ UNCHANGED <<pin, op, job, acked>>
  /\ UNCHANGED <<sqlite, incr, stateJson, intent, refused, budget>>

UploadRefused ==
  /\ pc = "upload" /\ snap[mem.seq + 1] \notin {None, job.obj}
  /\ Fail(mem) /\ refused' = refused \cup {mem.seq + 1}
  /\ UNCHANGED <<sqlite, store, intent, budget>>

\* `add' and the periodic snapshot retry the upload of the same bytes.
UploadError ==
  LET n == mem.seq + 1 IN
  /\ pc = "upload" /\ Spend("put")
  /\ \/ UNCHANGED snap
     \/ snap[n] = None /\ snap' = [snap EXCEPT ![n] = job.obj]
  /\ \/ Fail(mem)
     \/ op \in {"add", "snapshot"} /\ UNCHANGED <<pin, mem, pc, op, job, acked>>
  /\ UNCHANGED <<sqlite, incr, stateJson, intent, refused>>

(* save_state, save_initial_state.                                          *)
SaveOk ==
  /\ pc = "save"
  /\ stateJson' = mem
  /\ Finish(op, job.goal, mem)
  /\ UNCHANGED <<sqlite, snap, incr, intent, refused, budget>>

SaveError ==
  /\ pc = "save" /\ Spend("save")
  /\ stateJson' \in {stateJson, mem}
  /\ Fail(mem)
  /\ UNCHANGED <<sqlite, snap, incr, intent, refused>>

(* Registration, the snapshot timer, crashes.                               *)

\* A fresh lineage: what a failed earlier `add' left is in another namespace.
Add ==
  /\ pc = "stopped" /\ stateJson = None
  /\ committed + 1 < MaxVersion /\ MaxSeq > 0 /\ AppendTxn
  /\ pin' = 0 /\ mem' = Mem(0, 0, NoSalt, NoChain, FileSum(base, base))
  /\ op' = "add" /\ pc' = "checkpoint" /\ job' = JobOf(committed)
  /\ snap' = [s \in Seqs |-> None] /\ incr' = [s \in Seqs |-> None] /\ intent' = None
  /\ UNCHANGED <<stateJson, acked, refused, budget>>

\* add_without_snapshot over the same database and WAL files.
Reopen ==
  /\ pc = "stopped" /\ stateJson # None
  /\ mem' = stateJson
  /\ OpenCheckpointBlocker
  /\ pc' = "idle"
  /\ UNCHANGED <<op, job, store, intent, acked, refused, budget>>

SnapshotTick ==
  /\ pc = "idle" /\ Spend("tick")
  /\ StartSnapshot("snapshot", mem)
  /\ job' = JobOf(committed)
  /\ UNCHANGED <<sqlite, store, intent, acked, refused>>

Crash ==
  /\ pc # "stopped" /\ Spend("stop")
  /\ pc' = "stopped" /\ pin' = 0 /\ mem' = NoMem /\ op' = "none" /\ job' = NoJob
  /\ UNCHANGED <<sqlite, store, intent, acked, refused>>

-----------------------------------------------------------------------------
Sync(o) == SyncNoWal(o) \/ SyncRollover(o) \/ SyncEmpty(o) \/ SyncRead(o)

\* What the replicator does by itself once it runs.
Work ==
  \/ Sync("sync")
  \/ PublishOk \/ PublishAdopt \/ PublishRefused \/ PublishError
  \/ CheckpointOk \/ CheckpointBusy \/ Reacquire \/ Encode
  \/ UploadOk \/ UploadRefused \/ UploadError
  \/ SaveOk \/ SaveError

Next ==
  \/ AppCommit \/ ExtBackfill \/ ExtTruncate
  \/ Work
  \/ Sync("remove") \/ SnapshotTick
  \/ Add \/ Reopen \/ Crash

Spec == Init /\ [][Next]_vars

\* The sync timer keeps ticking, every await returns, and the embedding
\* process registers its database again after a stop.  The application, other
\* connections, crashes, removals and the snapshot timer are not fair.
FairSpec == Spec /\ WF_vars(Work) /\ WF_vars(Add) /\ WF_vars(Reopen)

-----------------------------------------------------------------------------
(* Restore (sync::restore, linear path).                                    *)

\* The checksum a restore holds after applying the object at s of a chain
\* that starts at snapshot t.
SumAt(t, s) == IF s = t THEN snap[t].sum ELSE incr[s]

\* The newest snapshot at or before the target, if there is one.
RestoreBase(target) ==
  {t \in 1 .. target : /\ snap[t] # None
                       /\ \A s \in t + 1 .. target : snap[s] = None}

\* Restores to `target' that succeed: from snapshot t, the incrementals up to
\* the target are consecutive, end at n, and each names the checksum before it.
Restores(target) ==
  {r \in RestoreBase(target) \X (1 .. target) :
     LET t == r[1]
         n == r[2] IN
     /\ stateJson # None
     /\ t <= n
     /\ \A s \in t + 1 .. target : incr[s] # None <=> s <= n
     /\ \A s \in t + 1 .. n : incr[s].pre = SumAt(t, s - 1)}

\* The versions the pages of the restored file are at, None: no version.
Content(t, n) ==
  LET c[s \in t .. n] ==
        IF s = t THEN [lo |-> snap[t].sum.lo, ver |-> snap[t].sum.ver]
        ELSE IF c[s-1] # None /\ incr[s].lo <= c[s-1].lo /\ c[s-1].ver <= incr[s].ver
             THEN [lo |-> incr[s].ver, ver |-> incr[s].ver]
             ELSE None
  IN  c[n]

\* The version a restore to the target is sure to contain, 0: it fails.
RestoredVersion(target) ==
  IF Restores(target) = {} THEN 0
  ELSE LET r == CHOOSE r \in Restores(target) : TRUE
       IN  Floor(SumAt(r[1], r[2]))

Durable == RestoredVersion(MaxSeq)

-----------------------------------------------------------------------------
IsSum(x) == /\ x.kind \in {"incr", "file"}
            /\ x.lo \in Nat /\ x.ver \in Nat /\ x.lo <= x.ver

IsMem(m) == /\ m.seq \in Nat /\ m.off \in Nat /\ m.salt \in Nat
            /\ m.chain \in Nat \cup {NoChain}

SqliteTypes ==
  /\ committed \in Nat /\ base \in Nat /\ walBase \in Nat
  /\ salt \in Nat /\ wal \in {"empty", "open"} /\ pin \in Nat

TaskTypes ==
  /\ IsMem(mem) /\ (pc # "stopped" => IsSum(mem.sum))
  /\ pc \in {"stopped", "idle", "publish", "checkpoint", "reacquire", "encode",
             "upload", "save"}
  /\ op \in {"none", "sync", "remove", "snapshot", "add"} /\ job.goal \in Nat

StoreTypes ==
  /\ DOMAIN incr = Seqs /\ \A s \in Seqs : incr[s] # None => IsSum(incr[s])
  /\ DOMAIN snap = Seqs /\ \A s \in Seqs : snap[s] # None => IsSum(snap[s].sum)
  /\ stateJson # None => IsMem(stateJson) /\ IsSum(stateJson.sum)

\* The state of SQLite, of the replicator and of the store has its types.
TypeOK ==
  /\ SqliteTypes /\ TaskTypes /\ StoreTypes
  /\ acked \in Nat /\ refused \subseteq Nat
  /\ budget \in [Kinds -> Nat]

\* No incremental spans a gap: the pages of each incremental in the store,
\* applied to the state its prev_checksum names, rebuild the version they end
\* at ("publishing a new snapshot instead of an incremental across the gap").
ChainSound ==
  \A s \in Seqs : incr[s] # None =>
    incr[s].lo <= Floor(incr[s].pre) /\ incr[s].pre.ver <= incr[s].ver

\* The main file is between the start of the WAL and the newest commit.
SqliteSound ==
  /\ walBase <= base /\ base <= committed /\ pin <= committed
  /\ HasHeader => salt > 0
  /\ ~HasHeader => base = committed

\* While the WAL is still the one a cursor was taken in, the frames in front of
\* its offset are all in the state its checksum names.
CursorSound(m) ==
  /\ m.salt \in 1 .. salt
  /\ m.sum.ver <= committed
  /\ HasHeader /\ m.salt = salt => walBase + m.off <= Floor(m.sum)

\* The cursor of a replicator that re-anchors: the WAL it belongs to is gone
\* once the checkpoint is done.
CursorSuperseded ==
  /\ mem.salt \in 0 .. salt /\ mem.sum.ver <= committed
  /\ op # "add" => mem.salt > 0
  /\ pc # "checkpoint" => ~(HasHeader /\ mem.salt = salt)

\* An incremental about to be published extends the state of the cursor.
PublishSound ==
  /\ IsSum(job.obj) /\ job.obj.kind = "incr" /\ job.off \in Nat
  /\ job.obj.pre = mem.sum
  /\ job.obj.lo <= Floor(mem.sum) /\ mem.sum.ver <= job.obj.ver
  /\ job.obj.ver <= committed
  /\ HasHeader /\ mem.salt = salt => walBase + job.off <= job.obj.ver
  /\ mem.seq + 1 \in Seqs

\* A snapshot is read and uploaded under a pinned WAL, and contains all that
\* precedes that WAL.
SnapshotSound ==
  /\ HasHeader /\ pin > 0 /\ mem.seq + 1 \in Seqs
  /\ pc = "encode" => job.lo \in walBase .. base
  /\ pc = "upload" => /\ IsSum(job.obj.sum) /\ job.obj.sum.kind = "file"
                      /\ walBase <= job.obj.sum.lo /\ job.obj.sum.ver <= committed

\* The cursor in memory and the one in state.json never run ahead of what the checksum
\* next to them contains, at every await of every operation.  (After a busy checkpoint
\* and a stop they do: README, section 6.)
CursorsSound ==
  /\ TypeOK
  /\ ChainSound
  /\ \A s \in Seqs : incr[s] # None => incr[s].kind = "incr" /\ incr[s].ver <= committed
  /\ SqliteSound
  /\ stateJson # None => CursorSound(stateJson)
  /\ pc \in {"idle", "publish", "save"} => CursorSound(mem)
  /\ pc \in {"checkpoint", "reacquire", "encode", "upload"} => CursorSuperseded
  /\ pc = "publish" => PublishSound
  /\ pc \in {"checkpoint", "reacquire"} => mem.seq + 1 \in Seqs
  /\ pc \in {"encode", "upload"} => SnapshotSound

\* The inductive invariant, as long as no checkpoint ends busy.
StreamInv == CursorsSound /\ budget["busy"] = 0

\* What restore needs beside it: a snapshot hashes a file, and no file is ahead of
\* the commits.
SnapsAreFiles ==
  \A s \in Seqs : snap[s] # None => snap[s].sum.kind = "file" /\ snap[s].sum.ver <= committed

RestoreInv == StreamInv /\ SnapsAreFiles

\* A restore to any point in time that succeeds yields a database: its pages
\* are those of one committed version, or those of a bare snapshot's file.
RestoreExact ==
  \A target \in Seqs : \A r \in Restores(target) :
    LET c == Content(r[1], r[2]) IN
    /\ c # None
    /\ r[2] > r[1] => c.lo = c.ver
    /\ c.ver <= committed

\* What an operation that returned Ok was asked to ship can be restored:
\* everything committed when flush, sync, remove, add or a snapshot began.
FlushIsDurable == acked <= Durable

\* The replicator, alone on its lineage, is never refused its own sequence
\* number: it re-adopts what it published before a crash.
NoSelfEquivocation == refused = {}

\* A point in time that can be restored stays restorable, at the same or at a
\* later version, whatever is published, lost or retried after it.
RestorePointsSurvive ==
  [][\A target \in Seqs : RestoredVersion(target) <= RestoredVersion(target)']_vars

\* The stream implements a durable log: what a restore returns never shrinks,
\* never runs ahead of what was committed, and everything committed is
\* restorable in the end.
Log == INSTANCE DurableLog WITH durable <- Durable

ImplementsLog == Log!FairSpec

=============================================================================
